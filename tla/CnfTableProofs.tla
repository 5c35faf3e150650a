---------------------------- MODULE CnfTableProofs ----------------------------
(***************************************************************************)
(* Proofs about what the shared configurations are for: a transfer that    *)
(* says it succeeded has, the table never shows half a profile, and no     *)
(* failure of the data is a throttle's own making.                         *)
(*                                                                         *)
(* Three invariants, each on top of the one before, and all of them on     *)
(* IInv of CnfProofs.                                                      *)
(*   Order: where packets of a finished sync can still be in the queues.   *)
(*     A throttle sends the head of its queue, not the request it waits    *)
(*     for, so a COMMIT of an earlier push may overtake nothing but may    *)
(*     well be served during a later sync. What keeps it from being taken  *)
(*     for one of a later push is that a peek comes first: its BEGIN has   *)
(*     to be answered, and the queue is too short to hold that BEGIN, its  *)
(*     DONE, and a push's DATA and COMMIT behind them.                     *)
(*   Seen: what replies, checksums and buffers say has been in the table   *)
(*     since the transfer began. With Order it gives SavedIsStored, and    *)
(*     the refinement of SharedStore.                                      *)
(*   Told: what a transfer that nothing disturbs finds in its queues, and  *)
(*     at the base station for every request acknowledged so far.          *)
(***************************************************************************)
EXTENDS CnfProofs, Integers

(* Packets and replies, by what they are part of. *)
Begins(m) == m.type = "pull" /\ m.sub = "BEGIN"
Commits(m) == m.type = "push" /\ m.sub = "COMMIT"
Clear(q) == \A i \in DOMAIN q: ~Commits(q[i])

HasBegin(q) == \E i \in DOMAIN q: Begins(q[i])

(* No push is committed behind the BEGIN of a pull. *)
Orderly(q) == \A i, j \in DOMAIN q: i < j /\ Begins(q[i]) => ~Commits(q[j])

(* Every BEGIN of a pull has n packets behind it. *)
Deep(q, n) == \A i \in DOMAIN q: Begins(q[i]) => i + n <= Len(q)

(* How many there are behind those of a push: the DONE of its peek, and a packet for each  *)
(* chunk it has sent.                                                                      *)
Tried(o) == IF o.attempt > 0 \/ o.waiting THEN 1 ELSE 0
Since(o) == CASE o.stage = "BEGIN" -> 1
              [] o.stage = "DATA" -> o.chunk + Tried(o)
              [] o.stage = "COMMIT" -> Chunks + 1 + Tried(o)
              [] OTHER -> 0
Sent(o) == o.kind # "none" /\ (o.stage # "BEGIN" \/ Tried(o) = 1)

Asking(o) == o.kind \in {"query", "peek", "pull"}
Past(o) == o.stage \in {"DATA", "DONE"}

StagesFit(o) ==
    /\ o.stage = "COMMIT" => o.kind = "push"
    /\ o.stage = "DONE" => Asking(o)
    /\ o.stage = "BEGIN" => o.chunk = 1

QueueInOrder(t) ==
    /\ Len(txq[t]) <= QueueDepth
    /\ Sent(op[t]) => Len(txq[t]) < QueueDepth
    /\ Orderly(txq[t])
    /\ op[t].kind = "push" => Deep(txq[t], Since(op[t]))
    /\ Idle(t) /\ screen[t] # "picker" => Deep(txq[t], 1) /\ Clear(txq[t])

AnswersInOrder(t) ==
    Asking(op[t]) =>
      /\ Orderly(replies[t])
      /\ Past(op[t]) => Clear(replies[t]) /\ Clear(txq[t])
      /\ HasBegin(replies[t]) => Clear(txq[t])

Order == \A t \in Throttles: StagesFit(op[t]) /\ QueueInOrder(t) /\ AnswersInOrder(t)

-----------------------------------------------------------------------------
(* Queues. *)

(* What a packet pushed behind q and the head sent leave. *)
LEMMA SentIs ==
    ASSUME NEW S, NEW q \in Seq(S), NEW m \in S, Len(q) <= QueueDepth
    PROVE  /\ Pushed(q, m) \in Seq(S) /\ Pushed(q, m) # <<>>
           /\ Head(Pushed(q, m)) = IF q = <<>> THEN m ELSE q[1]
           /\ Tail(Pushed(q, m)) \in Seq(S)
           /\ Len(Tail(Pushed(q, m))) = IF Len(q) < QueueDepth THEN Len(q) ELSE Len(q) - 1
           /\ Len(Tail(Pushed(q, m))) < QueueDepth
           /\ DOMAIN Tail(Pushed(q, m)) = 1 .. Len(Tail(Pushed(q, m)))
           /\ \A i \in DOMAIN Tail(Pushed(q, m)):
                Tail(Pushed(q, m))[i] = IF i < Len(q) THEN q[i + 1] ELSE m
  <1>0. QueueDepth \in Nat \ {0} /\ Len(q) \in Nat
    BY SyncAssumption
  <1>1. CASE Len(q) < QueueDepth
    <2> DEFINE p == Append(q, m)
    <2>1. Pushed(q, m) = p
      BY <1>1 DEF Pushed
    <2>2. p \in Seq(S) /\ Len(p) = Len(q) + 1 /\ \A i \in 1 .. Len(p): p[i] = IF i <= Len(q) THEN q[i] ELSE m
      BY <1>0
    <2>3. q = <<>> <=> Len(q) = 0
      OBVIOUS
    <2> HIDE DEF p
    <2>4. p # <<>> /\ Head(p) = p[1] /\ Tail(p) \in Seq(S) /\ Len(Tail(p)) = Len(p) - 1
      BY <1>0, <2>2
    <2>5. \A i \in 1 .. Len(Tail(p)): Tail(p)[i] = p[i + 1]
      BY <1>0, <2>2, <2>4
    <2> QED BY <1>0, <1>1, <2>1, <2>2, <2>3, <2>4, <2>5
  <1>2. CASE ~(Len(q) < QueueDepth)
    <2>1. Pushed(q, m) = q
      BY <1>2 DEF Pushed
    <2>2. Len(q) = QueueDepth /\ q # <<>>
      BY <1>0, <1>2
    <2>3. Head(q) = q[1] /\ Tail(q) \in Seq(S) /\ Len(Tail(q)) = Len(q) - 1
      BY <1>0, <2>2
    <2>4. \A i \in 1 .. Len(Tail(q)): Tail(q)[i] = q[i + 1]
      BY <1>0, <2>2, <2>3
    <2> QED BY <1>0, <1>2, <2>1, <2>2, <2>3, <2>4
  <1> QED BY <1>1, <1>2

(* ... and which of the shapes of a queue they keep. *)
LEMMA SentOrder ==
    ASSUME NEW q \in Seq(Request), NEW m \in Request, Len(q) <= QueueDepth,
           NEW s, s = Tail(Pushed(q, m)), NEW h, h = Head(Pushed(q, m))
    PROVE  /\ Clear(q) /\ ~Commits(m) => Clear(s) /\ ~Commits(h)
           /\ Orderly(q) /\ ~Commits(m) => Orderly(s) /\ (Begins(h) => Clear(s))
           /\ Deep(q, Len(q) - 1) /\ Commits(m) => Orderly(s)
           /\ \A n \in Nat: Deep(q, n) /\ ~Begins(m) =>
                Deep(s, n) /\ (Len(q) < QueueDepth => Deep(s, n + 1))
  <1>A. /\ QueueDepth \in Nat \ {0} /\ Len(q) \in Nat /\ DOMAIN q = 1 .. Len(q)
        /\ (q = <<>> <=> Len(q) = 0)
    BY SyncAssumption
  <1>B. /\ h = IF q = <<>> THEN m ELSE q[1]
        /\ s \in Seq(Request) /\ Len(s) = IF Len(q) < QueueDepth THEN Len(q) ELSE Len(q) - 1
        /\ DOMAIN s = 1 .. Len(s)
        /\ \A i \in DOMAIN s: s[i] = IF i < Len(q) THEN q[i + 1] ELSE m
    <2> DEFINE p == Pushed(q, m)
    <2>1. /\ Head(p) = IF q = <<>> THEN m ELSE q[1]
          /\ Tail(p) \in Seq(Request)
          /\ Len(Tail(p)) = IF Len(q) < QueueDepth THEN Len(q) ELSE Len(q) - 1
          /\ DOMAIN Tail(p) = 1 .. Len(Tail(p))
          /\ \A i \in DOMAIN Tail(p): Tail(p)[i] = IF i < Len(q) THEN q[i + 1] ELSE m
      BY SentIs
    <2> HIDE DEF p
    <2>2. s = Tail(p) /\ h = Head(p)
      BY DEF p
    <2> QED BY <2>1, <2>2
  <1>0. /\ QueueDepth \in Nat \ {0} /\ Len(q) \in Nat /\ DOMAIN q = 1 .. Len(q)
        /\ s \in Seq(Request) /\ Len(s) \in Nat /\ DOMAIN s = 1 .. Len(s)
        /\ (Len(q) < QueueDepth => Len(s) = Len(q))
        /\ (~(Len(q) < QueueDepth) => Len(s) = Len(q) - 1)
        /\ \A i \in 1 .. Len(s): s[i] = IF i < Len(q) THEN q[i + 1] ELSE m
        /\ h = IF q = <<>> THEN m ELSE q[1]
        /\ (q = <<>> <=> Len(q) = 0)
    BY <1>A, <1>B
  <1>N. Len(s) \in Nat /\ Len(q) \in Nat /\ Len(s) <= Len(q)
    BY <1>0
  <1>1. \A i \in 1 .. Len(s): i < Len(q) => i + 1 \in DOMAIN q /\ s[i] = q[i + 1]
    BY <1>0
  <1>2. \A i \in 1 .. Len(s): ~(i < Len(q)) => i = Len(q) /\ s[i] = m /\ Len(q) < QueueDepth
    <2> SUFFICES ASSUME NEW i \in 1 .. Len(s), ~(i < Len(q))
                 PROVE  i = Len(q) /\ s[i] = m /\ Len(q) < QueueDepth
      OBVIOUS
    <2>1. /\ Len(q) < QueueDepth => Len(s) = Len(q)
          /\ ~(Len(q) < QueueDepth) => Len(s) = Len(q) - 1
      BY <1>0
    <2>2. i \in Nat /\ i <= Len(s)
      BY ONLY <1>N, i \in 1 .. Len(s)
    <2>3. QueueDepth \in Nat
      BY <1>0
    <2>4. i = Len(q) /\ Len(q) < QueueDepth
      BY ONLY <1>N, <2>1, <2>2, <2>3, ~(i < Len(q))
    <2>5. s[i] = m
      BY <1>0
    <2> QED BY <2>4, <2>5
  <1>3. q # <<>> => 1 \in DOMAIN q /\ h = q[1]
    BY <1>0
  <1>4. ASSUME Clear(q), ~Commits(m) PROVE Clear(s) /\ ~Commits(h)
    BY <1>0, <1>1, <1>2, <1>3, <1>4 DEF Clear
  <1>5. ASSUME Orderly(q), ~Commits(m) PROVE Orderly(s) /\ (Begins(h) => Clear(s))
    <2>1. ASSUME NEW i \in DOMAIN s, NEW j \in DOMAIN s, i < j, Begins(s[i]) PROVE ~Commits(s[j])
      <3>0. i \in 1 .. Len(s) /\ j \in 1 .. Len(s) /\ i < j
        BY <1>0, <2>1
      <3>N. i < Len(q) /\ i \in Nat /\ j \in Nat
        BY ONLY <1>N, <3>0
      <3>1. i + 1 \in DOMAIN q /\ Begins(q[i + 1])
        BY <1>1, <2>1, <3>0, <3>N
      <3>2. CASE j < Len(q)
        <4>1. j + 1 \in DOMAIN q /\ s[j] = q[j + 1] /\ i + 1 < j + 1
          BY <1>1, <3>0, <3>N, <3>2
        <4> QED BY <1>5, <3>1, <4>1 DEF Orderly
      <3>3. CASE ~(j < Len(q))
        BY <1>2, <1>5, <3>0, <3>3
      <3> QED BY <3>2, <3>3
    <2>2. ASSUME NEW j \in DOMAIN s, Begins(h) PROVE ~Commits(s[j])
      <3>1. CASE j < Len(q)
        <4>1. 1 \in DOMAIN q /\ h = q[1] /\ j + 1 \in DOMAIN q /\ s[j] = q[j + 1] /\ 1 < j + 1
          <5>1. j \in 1 .. Len(s) /\ j \in Nat \ {0}
            BY <1>0, <2>2
          <5>2. j + 1 \in DOMAIN q /\ s[j] = q[j + 1] /\ 1 < j + 1
            BY <1>1, <3>1, <5>1
          <5>3. q # <<>>
            BY <1>0, <3>1, <5>1
          <5> QED BY <1>3, <5>2, <5>3
        <4> QED BY <1>5, <2>2, <4>1 DEF Orderly
      <3>2. CASE ~(j < Len(q))
        BY <1>0, <1>2, <1>5, <3>2
      <3> QED BY <3>1, <3>2
    <2> QED BY <2>1, <2>2 DEF Orderly, Clear
  <1>6. ASSUME Deep(q, Len(q) - 1), Commits(m) PROVE Orderly(s)
    <2>1. ASSUME NEW i \in DOMAIN s, Begins(s[i]) PROVE FALSE
      <3>1. ~Begins(m)
        BY <1>6 DEF Begins, Commits
      <3>2. i + 1 \in DOMAIN q /\ Begins(q[i + 1])
        BY <1>0, <1>1, <1>2, <2>1, <3>1
      <3>3. i + 1 + (Len(q) - 1) <= Len(q)
        BY <1>6, <3>2 DEF Deep
      <3> QED BY <1>0, <2>1, <3>3
    <2> QED BY <2>1 DEF Orderly
  <1>7. ASSUME NEW n \in Nat, Deep(q, n), ~Begins(m)
        PROVE Deep(s, n) /\ (Len(q) < QueueDepth => Deep(s, n + 1))
    <2> SUFFICES ASSUME NEW i \in DOMAIN s, Begins(s[i])
                 PROVE  i + n <= Len(s) /\ (Len(q) < QueueDepth => i + (n + 1) <= Len(s))
      BY DEF Deep
    <2>1. i + 1 \in DOMAIN q /\ Begins(q[i + 1])
      BY <1>0, <1>1, <1>2, <1>7
    <2>2. i + 1 + n <= Len(q)
      BY <1>7, <2>1 DEF Deep
    <2> QED BY <1>0, <1>7, <2>2
  <1> QED BY <1>4, <1>5, <1>6, <1>7

(* A reply is taken, or one more comes. *)
LEMMA TailOrder ==
    ASSUME NEW S, NEW q \in Seq(S), q # <<>>
    PROVE  /\ \A i \in DOMAIN Tail(q): i + 1 \in DOMAIN q /\ Tail(q)[i] = q[i + 1]
           /\ Head(q) = q[1] /\ 1 \in DOMAIN q
           /\ HasBegin(Tail(q)) => HasBegin(q)
           /\ Begins(Head(q)) => HasBegin(q)
           /\ Clear(q) => Clear(Tail(q))
           /\ Orderly(q) => Orderly(Tail(q)) /\ (Begins(Head(q)) => Clear(Tail(q)))
  <1>0. /\ Len(q) \in Nat \ {0} /\ DOMAIN q = 1 .. Len(q) /\ Tail(q) \in Seq(S)
        /\ DOMAIN Tail(q) = 1 .. Len(q) - 1
    OBVIOUS
  <1>1. /\ \A i \in DOMAIN Tail(q): i \in Nat \ {0} /\ i + 1 \in DOMAIN q /\ Tail(q)[i] = q[i + 1]
        /\ Head(q) = q[1] /\ 1 \in DOMAIN q
    BY <1>0
  <1>2. HasBegin(Tail(q)) => HasBegin(q)
    BY <1>1 DEF HasBegin
  <1>3. Begins(Head(q)) => HasBegin(q)
    BY <1>1 DEF HasBegin
  <1>4. Clear(q) => Clear(Tail(q))
    BY <1>1 DEF Clear
  <1>5. Orderly(q) => Orderly(Tail(q))
    BY <1>1 DEF Orderly
  <1>6. Orderly(q) /\ Begins(Head(q)) => Clear(Tail(q))
    BY <1>1 DEF Orderly, Clear
  <1> QED BY <1>1, <1>2, <1>3, <1>4, <1>5, <1>6

(* ... and those that a packet appended to replies keeps. *)
LEMMA AppendOrder ==
    ASSUME NEW S, NEW q \in Seq(S), NEW r \in S
    PROVE  /\ \A i \in DOMAIN Append(q, r):
                (i \in DOMAIN q /\ Append(q, r)[i] = q[i]) \/ Append(q, r)[i] = r
           /\ HasBegin(Append(q, r)) => HasBegin(q) \/ Begins(r)
           /\ Clear(q) /\ ~Commits(r) => Clear(Append(q, r))
           /\ Orderly(q) /\ (Commits(r) => ~HasBegin(q)) => Orderly(Append(q, r))
  <1> DEFINE p == Append(q, r)
  <1>1. /\ DOMAIN p = 1 .. (Len(q) + 1) /\ DOMAIN q = 1 .. Len(q) /\ Len(q) \in Nat
        /\ \A i \in DOMAIN q: p[i] = q[i]
        /\ p[Len(q) + 1] = r
    OBVIOUS
  <1> HIDE DEF p
  <1>2. \A i \in DOMAIN p: (i \in DOMAIN q /\ p[i] = q[i]) \/ (i = Len(q) + 1 /\ p[i] = r)
    BY <1>1
  <1>3. HasBegin(p) => HasBegin(q) \/ Begins(r)
    BY <1>2 DEF HasBegin
  <1>4. Clear(q) /\ ~Commits(r) => Clear(p)
    BY <1>2 DEF Clear
  <1>5. ASSUME Orderly(q), Commits(r) => ~HasBegin(q) PROVE Orderly(p)
    <2> SUFFICES ASSUME NEW i \in DOMAIN p, NEW j \in DOMAIN p, i < j, Begins(p[i])
                 PROVE  ~Commits(p[j])
      BY DEF Orderly
    <2>1. i \in DOMAIN q /\ p[i] = q[i]
      BY <1>1, <1>2
    <2>2. CASE j \in DOMAIN q /\ p[j] = q[j]
      BY <1>5, <2>1, <2>2 DEF Orderly
    <2>3. CASE p[j] = r
      BY <1>5, <2>1, <2>3 DEF HasBegin
    <2> QED BY <1>2, <2>2, <2>3
  <1> QED BY <1>2, <1>3, <1>4, <1>5 DEF p

-----------------------------------------------------------------------------
(* What a step does to the queues. *)

(* A reply to m with this content comes, or none. *)
Hears(t, m, status, crc, piece) ==
    /\ \A u \in Throttles \ {t}: replies'[u] = replies[u]
    /\ \/ replies'[t] = replies[t]
       \/ \E r \in Replies:
            /\ r.type = m.type /\ r.sub = m.sub /\ r.entry = m.entry /\ r.chunk = m.chunk
            /\ r.status = status /\ r.crc = crc /\ r.piece = piece
            /\ replies'[t] = Append(replies[t], r)

(* Answer, by the reply that comes. *)
LEMMA AnswerIs ==
    ASSUME BaseInv, BaseInv', NEW t \in Throttles, NEW m, NEW status, NEW crc, NEW piece,
           Answer(t, m, status, crc, piece)
    PROVE  Hears(t, m, status, crc, piece)
  <1> DEFINE r == [type |-> m.type, sub |-> m.sub, entry |-> m.entry, chunk |-> m.chunk,
                   status |-> status, version |-> pin, crc |-> crc, piece |-> piece]
  <1>0. replies \in [Throttles -> Seq(Replies)] /\ replies' \in [Throttles -> Seq(Replies)]
    BY DEF BaseInv
  <1>1. CASE UNCHANGED replies
    BY <1>1 DEF Hears
  <1>2. CASE replies' = [replies EXCEPT ![t] = Append(replies[t], r)]
    <2>1. r.type = m.type /\ r.sub = m.sub /\ r.entry = m.entry /\ r.chunk = m.chunk
          /\ r.status = status /\ r.crc = crc /\ r.piece = piece
      OBVIOUS
    <2> HIDE DEF r
    <2>2. replies'[t] = Append(replies[t], r) /\ \A u \in Throttles \ {t}: replies'[u] = replies[u]
      BY <1>0, <1>2
    <2>3. r \in Replies
      <3> DEFINE q == replies[t]  p == replies'[t]
      <3>1. q \in Seq(Replies) /\ p \in Seq(Replies) /\ p = Append(q, r)
        BY <1>0, <2>2
      <3> HIDE DEF q, p
      <3>2. Len(q) \in Nat /\ Len(p) = Len(q) + 1 /\ p[Len(q) + 1] = r
        BY <3>1
      <3> QED BY <3>1, <3>2
    <2> QED BY <2>1, <2>2, <2>3 DEF Hears
  <1> QED BY <1>1, <1>2 DEF Answer

(* A reply to m comes, or none. *)
Answered(t, m) ==
    /\ \A u \in Throttles \ {t}: replies'[u] = replies[u]
    /\ \/ replies'[t] = replies[t]
       \/ \E r \in Replies:
            /\ r.type = m.type /\ r.sub = m.sub /\ r.entry = m.entry /\ r.chunk = m.chunk
            /\ replies'[t] = Append(replies[t], r)

(* A reply repeats type, step, entry and chunk of the request. *)
LEMMA AnswerAnswers ==
    ASSUME BaseInv, BaseInv', NEW t \in Throttles, NEW m, NEW status, NEW crc, NEW piece,
           Answer(t, m, status, crc, piece)
    PROVE  Answered(t, m)
  <1>1. Hears(t, m, status, crc, piece)
    BY AnswerIs
  <1> QED BY <1>1 DEF Hears, Answered

(* Serving a packet is heard by the throttle that sent it only. *)
LEMMA ServeAnswers ==
    ASSUME BaseInv, BaseInv', NEW t \in Throttles, NEW m, UNCHANGED base \/ Serve(t, m)
    PROVE  Answered(t, m)
  <1>1. CASE UNCHANGED base
    BY <1>1 DEF base, Answered
  <1>2. CASE Serve(t, m)
    <2>1. CASE PushBegin(t, m)
      BY <2>1, AnswerAnswers DEF PushBegin, Refuse
    <2>2. CASE PushData(t, m)
      BY <2>2, AnswerAnswers DEF PushData, Refuse
    <2>3. CASE PushCommit(t, m)
      BY <2>3, AnswerAnswers DEF PushCommit, Refuse
    <2>4. CASE PullBegin(t, m)
      BY <2>4, AnswerAnswers DEF PullBegin, Refuse
    <2>5. CASE PullData(t, m)
      BY <2>5, AnswerAnswers DEF PullData, Refuse
    <2>6. CASE PullDone(t, m)
      BY <2>6 DEF PullDone, Answered
    <2> QED BY <1>2, <2>1, <2>2, <2>3, <2>4, <2>5, <2>6 DEF Serve
  <1> QED BY <1>1, <1>2

(* Fewer packets behind a BEGIN are asked of the queue. *)
LEMMA DeepWeakens ==
    ASSUME NEW q, NEW n \in Int, NEW k \in Int, k <= n, Deep(q, n), Len(q) \in Nat,
           DOMAIN q \subseteq Nat
    PROVE  Deep(q, k)
  BY DEF Deep

(* Sending keeps the queue in order, and a push has one packet more behind a BEGIN. *)
LEMMA SendInOrder ==
    ASSUME IInv, IInv', Order, NEW t \in Throttles, op[t].kind # "none", op[t].stage # "SHOW",
           Send(t, Asked(op[t], buf[t]))
    PROVE  /\ \A u \in Throttles \ {t}: txq'[u] = txq[u] /\ replies'[u] = replies[u]
           /\ Len(txq'[t]) < QueueDepth /\ Orderly(txq'[t])
           /\ op[t].kind = "push" =>
                /\ Deep(txq'[t], 1)
                /\ op[t].stage = "DATA" => Deep(txq'[t], op[t].chunk + 1)
                /\ op[t].stage = "COMMIT" => Deep(txq'[t], Chunks + 2)
           /\ op[t].stage = "DONE" => Deep(txq'[t], 1)
           /\ Asking(op[t]) =>
                /\ Orderly(replies'[t]) /\ (HasBegin(replies'[t]) => Clear(txq'[t]))
                /\ Clear(txq[t]) => Clear(txq'[t]) /\ (Clear(replies[t]) => Clear(replies'[t]))
  <1> DEFINE o == op[t]  m == Asked(o, buf[t])  q == txq[t]
             s == Tail(Pushed(q, m))  h == Head(Pushed(q, m))
  <1>1. /\ m \in Requests(version[t]) /\ m \in Request /\ q \in Seq(Request)
        /\ txq \in [Throttles -> Seq(Request)] /\ o \in Op
    BY AtThrottle, AskedFits DEF Requests, QueuesFit
  <1>2. /\ o.kind = "push" => ~Begins(m) /\ (Commits(m) <=> o.stage = "COMMIT")
        /\ Asking(o) => ~Commits(m)
        /\ o.stage = "DONE" => ~Begins(m)
    BY DEF Asked, Wire, Begins, Commits, Asking
  <1>3. StagesFit(o) /\ QueueInOrder(t) /\ AnswersInOrder(t)
    BY DEF Order
  <1>4. /\ o.stage \in {"BEGIN", "DATA", "COMMIT", "DONE"} /\ (Asking(o) \/ o.kind = "push")
        /\ o.chunk \in 1 .. Chunks /\ o.attempt \in Nat
    BY <1>1, SyncAssumption DEF Op, Kinds, Asking
  <1>5. Len(q) <= QueueDepth /\ Orderly(q) /\ Len(q) \in Nat /\ DOMAIN q = 1 .. Len(q)
    BY <1>1, <1>3 DEF QueueInOrder
  <1>6. /\ \A u \in Throttles \ {t}: txq'[u] = txq[u]
        /\ txq'[t] = s
        /\ UNCHANGED base \/ Serve(t, h)
    BY <1>1 DEF Send, Transmit
  <1>7. Answered(t, h)
    BY <1>6, ServeAnswers DEF IInv
  <1> HIDE DEF o, m, q, s, h
  <1>8. s = Tail(Pushed(q, m)) /\ h = Head(Pushed(q, m))
    BY DEF s, h
  <1>9. Len(s) < QueueDepth /\ s \in Seq(Request) /\ Len(s) \in Nat /\ DOMAIN s = 1 .. Len(s)
    BY <1>1, <1>5, <1>8, SentIs
  <1>10. /\ Clear(q) /\ ~Commits(m) => Clear(s) /\ ~Commits(h)
         /\ Orderly(q) /\ ~Commits(m) => Orderly(s) /\ (Begins(h) => Clear(s))
         /\ Deep(q, Len(q) - 1) /\ Commits(m) => Orderly(s)
         /\ \A n \in Nat: Deep(q, n) /\ ~Begins(m) =>
                Deep(s, n) /\ (Len(q) < QueueDepth => Deep(s, n + 1))
    BY <1>1, <1>5, <1>8, SentOrder
  <1>11. /\ Chunks \in Nat \ {0} /\ QueueDepth \in Nat \ {0} /\ QueueDepth <= Chunks + 3
         /\ Tried(o) \in {0, 1}
    BY TransferAssumption, SyncAssumption, QueueAssumption DEF Tried
  <1>12. o.kind = "push" /\ o.stage = "BEGIN" => Deep(s, 1)
    <2> SUFFICES ASSUME o.kind = "push", o.stage = "BEGIN" PROVE Deep(s, 1)
      OBVIOUS
    <2>1. Deep(q, 1)
      BY <1>3 DEF QueueInOrder, Since, o, q
    <2> QED BY <1>2, <1>10, <2>1
  <1>13. ASSUME o.kind = "push", o.stage = "DATA" PROVE Deep(s, o.chunk + 1) /\ Deep(s, 1)
    <2>1. Deep(q, o.chunk + Tried(o)) /\ Len(q) < QueueDepth
      BY <1>3, <1>13 DEF QueueInOrder, Since, Sent, o, q
    <2>2. ~Begins(m) /\ o.chunk \in Nat
      BY <1>2, <1>4, <1>11, <1>13
    <2>3. Deep(s, o.chunk + Tried(o)) /\ Deep(s, o.chunk + Tried(o) + 1)
      <3>1. o.chunk + Tried(o) \in Nat
        BY <1>11, <2>2
      <3> QED BY <1>10, <2>1, <2>2, <3>1
    <2>4. Deep(s, o.chunk + 1)
      <3>1. CASE Tried(o) = 0
        BY <2>2, <2>3, <3>1
      <3>2. CASE Tried(o) = 1
        BY <2>2, <2>3, <3>2
      <3> QED BY <1>11, <3>1, <3>2
    <2>5. Deep(s, 1)
      <3>1. 1 <= o.chunk + 1 /\ o.chunk + 1 \in Int /\ DOMAIN s \subseteq Nat
        BY <1>9, <2>2
      <3> QED BY <1>9, <2>4, <3>1, DeepWeakens
    <2> QED BY <2>4, <2>5
  <1>14. ASSUME o.kind = "push", o.stage = "COMMIT"
         PROVE  Deep(s, Chunks + 2) /\ Deep(s, 1) /\ Orderly(s)
    <2>1. Deep(q, Chunks + 1 + Tried(o)) /\ Len(q) < QueueDepth
      BY <1>3, <1>14 DEF QueueInOrder, Since, Sent, o, q
    <2>2. ~Begins(m) /\ Commits(m)
      BY <1>2, <1>14
    <2>3. Deep(s, Chunks + 1 + Tried(o)) /\ Deep(s, Chunks + 1 + Tried(o) + 1)
      <3>1. Chunks + 1 + Tried(o) \in Nat
        BY <1>11
      <3> QED BY <1>10, <2>1, <2>2, <3>1
    <2>4. Deep(s, Chunks + 2)
      <3>1. CASE Tried(o) = 0
        <4>1. Chunks + 1 + Tried(o) + 1 = Chunks + 2
          BY <1>11, <3>1
        <4> QED BY <2>3, <4>1
      <3>2. CASE Tried(o) = 1
        <4>1. Chunks + 1 + Tried(o) = Chunks + 2
          BY <1>11, <3>2
        <4> QED BY <2>3, <4>1
      <3> QED BY <1>11, <3>1, <3>2
    <2>5. Deep(q, Len(q) - 1)
      <3>1. Len(q) - 1 <= Chunks + 1 + Tried(o)
        BY ONLY <1>5, <1>11, <2>1
      <3>2. Len(q) - 1 \in Int /\ Chunks + 1 + Tried(o) \in Int /\ DOMAIN q \subseteq Nat
        BY <1>5, <1>11
      <3> QED BY <1>5, <2>1, <3>1, <3>2, DeepWeakens
    <2>6. Deep(s, 1)
      <3>1. 1 <= Chunks + 2 /\ Chunks + 2 \in Int /\ DOMAIN s \subseteq Nat
        BY <1>9, <1>11
      <3> QED BY <1>9, <2>4, <3>1, DeepWeakens
    <2> QED BY <1>10, <2>2, <2>4, <2>5, <2>6
  <1>15. Orderly(s)
    <2>1. CASE Commits(m)
      BY <1>2, <1>4, <1>14, <2>1
    <2>2. CASE ~Commits(m)
      BY <1>5, <1>10, <2>2
    <2> QED BY <2>1, <2>2
  <1>16. ASSUME o.stage = "DONE" PROVE Deep(s, 1)
    <2>1. Deep(q, 0)
      BY <1>5 DEF Deep
    <2>2. Len(q) < QueueDepth
      BY <1>3, <1>16 DEF QueueInOrder, Sent, o, q
    <2>3. ~Begins(m) /\ 0 \in Nat /\ 0 + 1 = 1
      BY <1>2, <1>16
    <2>4. Deep(s, 0 + 1)
      BY ONLY <1>10, <2>1, <2>2, <2>3
    <2> QED BY ONLY <2>3, <2>4
  <1>17. ASSUME Asking(o)
         PROVE  /\ Orderly(replies'[t]) /\ (HasBegin(replies'[t]) => Clear(s))
                /\ Clear(q) => Clear(s) /\ (Clear(replies[t]) => Clear(replies'[t]))
    <2>1. /\ ~Commits(m) /\ (Clear(q) => Clear(s) /\ ~Commits(h)) /\ (Begins(h) => Clear(s))
      BY <1>2, <1>5, <1>10, <1>17
    <2>2. Orderly(replies[t]) /\ (HasBegin(replies[t]) => Clear(q))
      BY <1>3, <1>17 DEF AnswersInOrder, o, q
    <2>3. CASE replies'[t] = replies[t]
      BY <2>1, <2>2, <2>3
    <2>4. ASSUME NEW r \in Replies, r.type = h.type, r.sub = h.sub,
                 replies'[t] = Append(replies[t], r)
          PROVE  /\ Orderly(replies'[t]) /\ (HasBegin(replies'[t]) => Clear(s))
                 /\ Clear(q) => (Clear(replies[t]) => Clear(replies'[t]))
      <3>1. replies[t] \in Seq(Replies)
        BY DEF IInv, BaseInv
      <3>2. (Begins(r) <=> Begins(h)) /\ (Commits(r) <=> Commits(h))
        BY <2>4 DEF Begins, Commits
      <3>3. /\ HasBegin(replies'[t]) => HasBegin(replies[t]) \/ Begins(r)
            /\ Clear(replies[t]) /\ ~Commits(r) => Clear(replies'[t])
            /\ Orderly(replies[t]) /\ (Commits(r) => ~HasBegin(replies[t])) => Orderly(replies'[t])
        BY <2>4, <3>1, AppendOrder
      <3> QED BY <2>1, <2>2, <3>2, <3>3
    <2> QED BY <1>7, <2>1, <2>3, <2>4 DEF Answered
  <1> QED BY <1>4, <1>6, <1>7, <1>9, <1>12, <1>13, <1>14, <1>15, <1>16, <1>17
          DEF o, q, Answered

-----------------------------------------------------------------------------
(* What a step does to the sync. *)

Kept(t) == op'[t].kind = op[t].kind /\ op'[t].entry = op[t].entry
At(t, stage, chunk) == op'[t].stage = stage /\ op'[t].chunk = chunk
Untried(t) == op'[t].attempt = 0 /\ ~op'[t].waiting
SameResult(t) == op'[t].crc = op[t].crc /\ op'[t].outcome = op[t].outcome

(* The steps of a sync, by what they do to its record: an attempt, *)
LEMMA AttemptDoes ==
    ASSUME IInv, NEW t \in Throttles, Attempt(t)
    PROVE  /\ op[t].kind # "none" /\ op[t].stage \in {"BEGIN", "DATA", "COMMIT"}
           /\ Send(t, Asked(op[t], buf[t])) /\ UNCHANGED <<version, screen, slot, buf, working>>
           /\ Kept(t) /\ At(t, op[t].stage, op[t].chunk) /\ SameResult(t)
           /\ op'[t].waiting /\ op'[t].attempt = op[t].attempt
           /\ \A u \in Throttles \ {t}: op'[u] = op[u]
  <1>1. op'[t] = [op[t] EXCEPT !.waiting = TRUE] /\ \A u \in Throttles \ {t}: op'[u] = op[u]
    BY AtThrottle DEF Attempt
  <1>2. Kept(t) /\ At(t, op[t].stage, op[t].chunk) /\ SameResult(t)
        /\ op'[t].waiting /\ op'[t].attempt = op[t].attempt
    BY <1>1, AtThrottle DEF Op, Kept, At, SameResult
  <1> QED BY <1>1, <1>2 DEF Attempt

(* ... another one, *)
LEMMA RetriedDoes ==
    ASSUME IInv, NEW t \in Throttles, op' = Retried(t)
    PROVE  /\ Kept(t) /\ At(t, op[t].stage, op[t].chunk) /\ SameResult(t)
           /\ ~op'[t].waiting /\ op'[t].attempt = op[t].attempt + 1 /\ op[t].attempt \in Nat
           /\ \A u \in Throttles \ {t}: op'[u] = op[u]
  <1>1. op'[t] = [op[t] EXCEPT !.attempt = @ + 1, !.waiting = FALSE]
        /\ \A u \in Throttles \ {t}: op'[u] = op[u]
    BY AtThrottle DEF Retried
  <1>2. op[t].attempt \in Nat
    BY AtThrottle, SyncAssumption DEF Op
  <1> QED BY <1>1, <1>2, AtThrottle DEF Op, Kept, At, SameResult

(* ... the end, *)
LEMMA EndsDoes ==
    ASSUME IInv, NEW t \in Throttles, NEW stage, NEW outcome, Ends(t, stage, outcome)
    PROVE  /\ Kept(t) /\ At(t, stage, 1) /\ Untried(t)
           /\ op'[t].crc = op[t].crc /\ op'[t].outcome = outcome
           /\ \A u \in Throttles \ {t}: op'[u] = op[u]
  <1>1. op'[t] = [op[t] EXCEPT !.stage = stage, !.chunk = 1, !.attempt = 0,
                               !.waiting = FALSE, !.outcome = outcome]
        /\ \A u \in Throttles \ {t}: op'[u] = op[u]
    BY AtThrottle DEF Ends
  <1> QED BY <1>1, AtThrottle DEF Op, Kept, At, Untried

(* ... the next request, *)
LEMMA GoesDoes ==
    ASSUME IInv, NEW t \in Throttles, NEW stage, NEW chunk, Goes(t, stage, chunk)
    PROVE  /\ Kept(t) /\ At(t, stage, chunk) /\ Untried(t) /\ SameResult(t)
           /\ \A u \in Throttles \ {t}: op'[u] = op[u]
  <1>1. op'[t] = [op[t] EXCEPT !.stage = stage, !.chunk = chunk, !.attempt = 0,
                               !.waiting = FALSE]
        /\ \A u \in Throttles \ {t}: op'[u] = op[u]
    BY AtThrottle DEF Goes
  <1> QED BY <1>1, AtThrottle DEF Op, Kept, At, Untried, SameResult

(* ... a reply taken, *)
LEMMA PopsDoes ==
    ASSUME IInv, NEW t \in Throttles, Pops(t)
    PROVE  /\ op[t].waiting /\ op[t].kind # "none" /\ op[t].stage \in {"BEGIN", "DATA", "COMMIT"}
           /\ replies[t] \in Seq(Replies) /\ replies[t] # <<>> /\ Head(replies[t]) \in Replies
           /\ replies'[t] = Tail(replies[t])
           /\ \A u \in Throttles \ {t}: replies'[u] = replies[u]
           /\ UNCHANGED <<version, entries, pin, session, scratch, screen, slot, working, txq>>
  <1>1. replies \in [Throttles -> Seq(Replies)]
    BY DEF IInv, BaseInv
  <1> QED BY <1>1, AtThrottle DEF Pops, OpFits

(* ... a new sync, *)
LEMMA StartsDoes ==
    ASSUME IInv, NEW t \in Throttles, NEW kind, NEW e, op' = [op EXCEPT ![t] = NewOp(kind, e)]
    PROVE  /\ op'[t].kind = kind /\ op'[t].entry = e /\ At(t, "BEGIN", 1) /\ Untried(t)
           /\ op'[t].crc = None /\ op'[t].outcome = None
           /\ \A u \in Throttles \ {t}: op'[u] = op[u]
  <1>1. op'[t] = NewOp(kind, e) /\ \A u \in Throttles \ {t}: op'[u] = op[u]
    BY AtThrottle
  <1> QED BY <1>1 DEF NewOp, At, Untried

(* ... and a stage that changes alone. *)
LEMMA SteppedDoes ==
    ASSUME IInv, NEW t \in Throttles, NEW stage, op' = [op EXCEPT ![t].stage = stage]
    PROVE  /\ Kept(t) /\ At(t, stage, op[t].chunk) /\ SameResult(t)
           /\ \A u \in Throttles \ {t}: op'[u] = op[u]
  <1>1. op'[t] = [op[t] EXCEPT !.stage = stage] /\ \A u \in Throttles \ {t}: op'[u] = op[u]
    BY AtThrottle
  <1> QED BY <1>1, AtThrottle DEF Op, Kept, At, SameResult

-----------------------------------------------------------------------------
(* The order of the queues is kept. *)

(* What the invariants say of one throttle. *)
LEMMA OrderAt ==
    ASSUME IInv, Order, NEW t \in Throttles
    PROVE  /\ StagesFit(op[t]) /\ QueueInOrder(t) /\ AnswersInOrder(t)
           /\ txq[t] \in Seq(Request) /\ Len(txq[t]) \in Nat /\ DOMAIN txq[t] = 1 .. Len(txq[t])
           /\ replies[t] \in Seq(Replies) /\ op[t].chunk \in 1 .. Chunks
           /\ QueueDepth \in Nat \ {0}
  <1>1. txq[t] \in Seq(Request) /\ replies[t] \in Seq(Replies)
    BY DEF IInv, BaseInv, QueuesFit
  <1>2. op[t].chunk \in 1 .. Chunks
    BY AtThrottle DEF Op
  <1> QED BY <1>1, <1>2, SyncAssumption DEF Order

(* A throttle that does not move stays in order. *)
LEMMA OrderOfOne ==
    ASSUME Order, NEW t \in Throttles,
           \A u \in Throttles \ {t}: op'[u] = op[u] /\ txq'[u] = txq[u] /\ replies'[u] = replies[u]
                                    /\ screen'[u] = screen[u],
           StagesFit(op[t])', QueueInOrder(t)', AnswersInOrder(t)'
    PROVE  Order'
  <1> SUFFICES ASSUME NEW u \in Throttles
               PROVE  StagesFit(op[u])' /\ QueueInOrder(u)' /\ AnswersInOrder(u)'
    BY DEF Order
  <1>1. CASE u = t
    BY <1>1
  <1>2. CASE u # t
    BY <1>2 DEF Order, StagesFit, QueueInOrder, AnswersInOrder, Sent, Tried, Since, Idle,
                Asking, Past
  <1> QED BY <1>1, <1>2

(* One lemma per action: the order of the queues is kept. *)
LEMMA AttemptOrder ==
    ASSUME IInv, IInv', Order, NEW t \in Throttles, Attempt(t)
    PROVE  Order'
  <1>1. /\ op[t].kind # "none" /\ op[t].stage \in {"BEGIN", "DATA", "COMMIT"}
        /\ Send(t, Asked(op[t], buf[t])) /\ screen' = screen
        /\ Kept(t) /\ At(t, op[t].stage, op[t].chunk)
        /\ op'[t].waiting /\ \A u \in Throttles \ {t}: op'[u] = op[u]
    BY AttemptDoes
  <1>2. /\ \A u \in Throttles \ {t}: txq'[u] = txq[u] /\ replies'[u] = replies[u]
        /\ Len(txq'[t]) < QueueDepth /\ Orderly(txq'[t])
        /\ op[t].kind = "push" =>
             /\ Deep(txq'[t], 1)
             /\ op[t].stage = "DATA" => Deep(txq'[t], op[t].chunk + 1)
             /\ op[t].stage = "COMMIT" => Deep(txq'[t], Chunks + 2)
        /\ Asking(op[t]) =>
             /\ Orderly(replies'[t]) /\ (HasBegin(replies'[t]) => Clear(txq'[t]))
             /\ Clear(txq[t]) => Clear(txq'[t]) /\ (Clear(replies[t]) => Clear(replies'[t]))
    BY <1>1, SendInOrder
  <1>3. StagesFit(op[t]) /\ AnswersInOrder(t)
    BY OrderAt
  <1>4. StagesFit(op[t])'
    BY <1>1, <1>3 DEF StagesFit, Kept, At, Asking
  <1>5. QueueInOrder(t)'
    <2>1. Tried(op[t])' = 1
      BY <1>1 DEF Tried
    <2>2. op'[t].kind = "push" => Deep(txq'[t], Since(op[t])')
      <3>1. Chunks + 1 + 1 = Chunks + 2
        BY TransferAssumption
      <3> QED BY <1>1, <1>2, <2>1, <3>1 DEF Since, Kept, At
    <2>3. Len(txq'[t]) <= QueueDepth
      <3>1. Len(txq'[t]) \in Nat /\ QueueDepth \in Nat
        BY SyncAssumption DEF IInv, QueuesFit
      <3> QED BY <1>2, <3>1
    <2> QED BY <1>1, <1>2, <2>2, <2>3 DEF QueueInOrder, Idle, Kept
  <1>6. AnswersInOrder(t)'
    BY <1>1, <1>2, <1>3 DEF AnswersInOrder, Asking, Past, Kept, At
  <1> QED BY <1>1, <1>2, <1>4, <1>5, <1>6, OrderOfOne

(* Nothing came in time. *)
LEMMA TimeOutOrder ==
    ASSUME IInv, Order, NEW t \in Throttles, TimeOut(t)
    PROVE  Order'
  <1>0. StagesFit(op[t]) /\ QueueInOrder(t) /\ AnswersInOrder(t)
        /\ txq' = txq /\ replies' = replies /\ screen' = screen /\ op[t].waiting
        /\ op[t].kind # "none" /\ op[t].stage \in {"BEGIN", "DATA", "COMMIT"}
    BY OrderAt, AtThrottle DEF TimeOut, base, OpFits
  <1>1. CASE op' = Retried(t)
    <2>1. /\ Kept(t) /\ At(t, op[t].stage, op[t].chunk)
          /\ op'[t].attempt = op[t].attempt + 1 /\ op[t].attempt \in Nat
          /\ \A u \in Throttles \ {t}: op'[u] = op[u]
      BY <1>1, RetriedDoes
    <2>2. Tried(op[t])' = 1 /\ Tried(op[t]) = 1
      BY <1>0, <2>1 DEF Tried
    <2>3. Since(op[t])' = Since(op[t]) /\ Sent(op[t])' = Sent(op[t])
      BY <2>1, <2>2 DEF Since, Sent, Kept, At
    <2>4. QueueInOrder(t)'
      BY <1>0, <2>1, <2>3 DEF QueueInOrder, Idle, Kept
    <2>5. StagesFit(op[t])' /\ AnswersInOrder(t)'
      BY <1>0, <2>1 DEF StagesFit, AnswersInOrder, Asking, Past, Kept, At
    <2> QED BY <1>0, <2>1, <2>4, <2>5, OrderOfOne
  <1>2. CASE ~(op' = Retried(t))
    <2> DEFINE stage == IF op[t].kind = "query" /\ op[t].stage = "DATA" THEN "DONE" ELSE "SHOW"
    <2>1. Ends(t, stage, Silence[op[t].stage])
      BY <1>2 DEF TimeOut
    <2>2. /\ Kept(t) /\ At(t, stage, 1) /\ Untried(t)
          /\ \A u \in Throttles \ {t}: op'[u] = op[u]
      BY <2>1, EndsDoes
    <2>3. Sent(op[t])
      BY <1>0 DEF Sent, Tried
    <2>4. QueueInOrder(t)'
      <3>1. op'[t].kind = "push" => Since(op[t])' = 0
        BY <2>2 DEF Since, At, Kept
      <3>2. Deep(txq[t], 0)
        BY OrderAt DEF Deep
      <3> QED BY <1>0, <2>2, <2>3, <3>1, <3>2 DEF QueueInOrder, Idle, Kept
    <2>5. StagesFit(op[t])' /\ AnswersInOrder(t)'
      BY <1>0, <2>2 DEF StagesFit, AnswersInOrder, Asking, Past, Kept, At
    <2> QED BY <1>0, <2>2, <2>4, <2>5, OrderOfOne
  <1> QED BY <1>1, <1>2

(* A reply is taken and the sync goes on from where it waited. *)
LEMMA TakenOrder ==
    ASSUME IInv, Order, NEW t \in Throttles, Pops(t), Kept(t),
           \A u \in Throttles \ {t}: op'[u] = op[u], StagesFit(op[t])',
           op[t].kind = "push" => Deep(txq[t], Since(op[t])'),
           Asking(op[t]) /\ Past(op[t])' => Past(op[t]) \/ Begins(Head(replies[t]))
    PROVE  Order'
  <1>0. /\ QueueInOrder(t) /\ AnswersInOrder(t)
        /\ op[t].waiting /\ op[t].kind # "none" /\ op[t].stage \in {"BEGIN", "DATA", "COMMIT"}
        /\ replies[t] \in Seq(Replies) /\ replies[t] # <<>>
        /\ replies'[t] = Tail(replies[t])
        /\ \A u \in Throttles \ {t}: replies'[u] = replies[u]
        /\ UNCHANGED <<screen, txq>>
    BY OrderAt, PopsDoes
  <1>1. Sent(op[t])
    BY <1>0 DEF Sent, Tried
  <1>2. QueueInOrder(t)'
    BY <1>0, <1>1 DEF QueueInOrder, Idle, Kept
  <1>3. /\ HasBegin(replies'[t]) => HasBegin(replies[t])
        /\ Begins(Head(replies[t])) => HasBegin(replies[t])
        /\ Clear(replies[t]) => Clear(replies'[t])
        /\ Orderly(replies[t]) =>
             Orderly(replies'[t]) /\ (Begins(Head(replies[t])) => Clear(replies'[t]))
    BY <1>0, TailOrder
  <1>4. AnswersInOrder(t)'
    BY <1>0, <1>3 DEF AnswersInOrder, Asking, Kept, Past
  <1> QED BY <1>0, <1>2, <1>4, OrderOfOne

(* Every way of taking a reply. *)
LEMMA TakesOrder ==
    ASSUME IInv, Order, NEW t \in Throttles,
           Discard(t) \/ Begun(t) \/ Peeked(t) \/ Chunked(t) \/ Committed(t)
    PROVE  Order'
  <1> DEFINE r == Head(replies[t])
  <1>0. Pops(t)
    BY DEF Discard, Begun, Peeked, Chunked, Committed
  <1>1. StagesFit(op[t]) /\ QueueInOrder(t) /\ op[t].waiting /\ op[t].chunk \in 1 .. Chunks
        /\ op[t].kind # "none" /\ op[t].stage \in {"BEGIN", "DATA", "COMMIT"}
        /\ Chunks \in Nat
    BY <1>0, OrderAt, PopsDoes, TransferAssumption
  <1>2. Deep(txq[t], 0)
    BY OrderAt DEF Deep
  <1>3. Tried(op[t]) = 1
    BY <1>1 DEF Tried
  <1>4. ASSUME NEW stage \in {"DONE", "SHOW"}, NEW outcome, Ends(t, stage, outcome),
               stage = "DONE" => Asking(op[t]) /\ (op[t].stage = "DATA" \/ Begins(r))
        PROVE  Order'
    <2>1. /\ Kept(t) /\ At(t, stage, 1) /\ \A u \in Throttles \ {t}: op'[u] = op[u]
      BY <1>4, EndsDoes
    <2>2. StagesFit(op[t])' /\ Since(op[t])' = 0
      BY <1>4, <2>1 DEF StagesFit, Since, Asking, Kept, At
    <2>3. Past(op[t])' => Past(op[t]) \/ Begins(r)
      BY <1>4, <2>1 DEF Past, At
    <2> HIDE DEF r
    <2> QED BY <1>0, <1>2, <2>1, <2>2, <2>3, TakenOrder DEF r
  <1>5. CASE Discard(t)
    <2>1. op' = op
      BY <1>5 DEF Discard
    <2>2. /\ Kept(t) /\ StagesFit(op[t])' /\ Since(op[t])' = Since(op[t])
          /\ \A u \in Throttles \ {t}: op'[u] = op[u]
          /\ (Past(op[t])' => Past(op[t]))
      BY <1>1, <2>1 DEF Kept, StagesFit, Since, Tried, Asking, Past
    <2> QED BY <1>0, <1>1, <2>2, TakenOrder DEF QueueInOrder
  <1>6. CASE Begun(t)
    <2>0. op[t].stage = "BEGIN" /\ Matches(r, op[t])
      BY <1>6 DEF Begun
    <2>1. Asking(op[t]) => Begins(r)
      BY <2>0 DEF Matches, Wire, Asking, Begins
    <2>2. CASE Ends(t, "SHOW", r.status)
      BY <1>4, <2>2
    <2>3. CASE op[t].kind = "pull" /\ Ends(t, "DONE", "VERSION_MISMATCH")
      <3>1. Asking(op[t])
        BY <2>3 DEF Asking
      <3> QED BY <1>4, <2>1, <2>3, <3>1
    <2>4. CASE op' = [op EXCEPT ![t].stage = "DATA", ![t].attempt = 0, ![t].waiting = FALSE,
                              ![t].crc = IF op[t].kind = "pull" THEN r.crc ELSE None]
      <3>1. op'[t] = [op[t] EXCEPT !.stage = "DATA", !.attempt = 0, !.waiting = FALSE,
                              !.crc = IF op[t].kind = "pull" THEN r.crc ELSE None]
            /\ \A u \in Throttles \ {t}: op'[u] = op[u]
        BY ONLY <2>4, AtThrottle, IInv, t \in Throttles
      <3>2. Kept(t) /\ At(t, "DATA", op[t].chunk) /\ Untried(t)
        BY <3>1, AtThrottle DEF Op, Kept, At, Untried
      <3>3. op[t].chunk = 1
        BY <1>1, <2>0 DEF StagesFit
      <3>4. StagesFit(op[t])'
        BY <3>2 DEF StagesFit, At
      <3>5. Since(op[t])' = Since(op[t])
        <4>1. Tried(op[t])' = 0 /\ op'[t].chunk = 1 /\ op'[t].stage = "DATA"
          BY <3>2, <3>3 DEF Tried, At, Untried
        <4>2. Since(op[t])' = 1
          BY <4>1 DEF Since
        <4> QED BY <2>0, <4>2 DEF Since
      <3>6. op[t].kind = "push" => Deep(txq[t], Since(op[t])')
        BY <1>1, <3>5 DEF QueueInOrder
      <3> HIDE DEF r
      <3> QED BY <1>0, <2>1, <3>1, <3>2, <3>4, <3>6, TakenOrder DEF r
    <2> QED BY <1>6, <2>2, <2>3, <2>4 DEF Begun
  <1>7. CASE Peeked(t)
    <2>0. op[t].stage = "BEGIN" /\ op[t].kind = "peek" /\ Matches(r, op[t])
      BY <1>7 DEF Peeked
    <2>1. Begins(r)
      BY <2>0 DEF Matches, Wire, Begins
    <2>2. op'[t] = [op[t] EXCEPT !.stage = "DONE", !.attempt = 0, !.waiting = FALSE,
                        !.peeked = r.version,
                        !.outcome = IF r.status \in {"BUSY", "BAD_ENTRY"} THEN r.status ELSE "OK"]
          /\ \A u \in Throttles \ {t}: op'[u] = op[u]
      BY <1>7, AtThrottle DEF Peeked
    <2>3. Kept(t) /\ At(t, "DONE", op[t].chunk)
      BY <2>2, AtThrottle DEF Op, Kept, At
    <2>4. StagesFit(op[t])'
      BY <2>0, <2>3 DEF StagesFit, Asking, Kept, At
    <2> HIDE DEF r
    <2> QED BY <1>0, <2>0, <2>1, <2>2, <2>3, <2>4, TakenOrder DEF r
  <1>8. CASE Chunked(t)
    <2>0. op[t].stage = "DATA"
      BY <1>8 DEF Chunked
    <2>1. ASSUME NEW stage \in {"DATA", "COMMIT"}, NEW chunk, Goes(t, stage, chunk),
                 stage = "COMMIT" => op[t].kind = "push" /\ op[t].chunk = Chunks,
                 stage = "DATA" => chunk = op[t].chunk + 1
          PROVE  Order'
      <3>1. /\ Kept(t) /\ At(t, stage, chunk) /\ Untried(t)
            /\ \A u \in Throttles \ {t}: op'[u] = op[u]
        BY <2>1, GoesDoes
      <3>2. StagesFit(op[t])'
        BY <2>1, <3>1 DEF StagesFit, Kept, At
      <3>3. Since(op[t]) = op[t].chunk + 1 /\ Tried(op[t])' = 0
        BY <1>3, <2>0, <3>1 DEF Since, Tried, Untried
      <3>4. Since(op[t])' = Since(op[t])
        <4>1. CASE stage = "DATA"
          <5>1. Since(op[t])' = op'[t].chunk + 0
            BY <3>1, <3>3, <4>1 DEF Since, At
          <5>2. op'[t].chunk = op[t].chunk + 1
            BY <2>1, <3>1, <4>1 DEF At
          <5> QED BY <1>1, <3>3, <5>1, <5>2
        <4>2. CASE stage = "COMMIT"
          <5>1. Since(op[t])' = Chunks + 1 + 0
            BY <3>1, <3>3, <4>2 DEF Since, At
          <5> QED BY <1>1, <2>1, <3>3, <4>2, <5>1
        <4> QED BY <2>1, <4>1, <4>2
      <3>5. op[t].kind = "push" => Deep(txq[t], Since(op[t])')
        BY <1>1, <3>4 DEF QueueInOrder
      <3> QED BY <1>0, <2>0, <3>1, <3>2, <3>5, TakenOrder DEF Past
    <2>2. CASE Ends(t, IF op[t].kind = "query" THEN "DONE" ELSE "SHOW", "BAD_ENTRY")
      <3>1. op[t].kind = "query" => Asking(op[t])
        BY DEF Asking
      <3> QED BY <1>4, <2>0, <2>2, <3>1
    <2>3. CASE op[t].kind = "query" /\ Ends(t, "DONE", "OK")
      <3>1. Asking(op[t])
        BY <2>3 DEF Asking
      <3> QED BY <1>4, <2>0, <2>3, <3>1
    <2>4. CASE op[t].kind = "push" /\ IF op[t].chunk = Chunks THEN Goes(t, "COMMIT", 1)
                                      ELSE Goes(t, "DATA", op[t].chunk + 1)
      BY <2>1, <2>4
    <2>5. CASE op[t].kind = "pull" /\ op[t].chunk # Chunks /\ Goes(t, "DATA", op[t].chunk + 1)
      BY <2>1, <2>5
    <2>6. CASE op[t].kind = "pull" /\ \E outcome: Ends(t, "DONE", outcome)
      <3>1. Asking(op[t])
        BY <2>6 DEF Asking
      <3> QED BY <1>4, <2>0, <2>6, <3>1
    <2> QED BY <1>8, <2>2, <2>3, <2>4, <2>5, <2>6 DEF Chunked
  <1>9. CASE Committed(t)
    <2>1. PICK outcome: Ends(t, "SHOW", outcome)
      BY <1>9 DEF Committed
    <2> QED BY <1>4, <2>1
  <1> QED BY <1>5, <1>6, <1>7, <1>8, <1>9

(* DONE is sent; after a peek a push may start. *)
LEMMA DoneOrder ==
    ASSUME IInv, IInv', Order, NEW t \in Throttles, Done(t)
    PROVE  Order'
  <1>0. /\ op[t].stage = "DONE" /\ op[t].kind # "none" /\ op[t].stage # "SHOW"
        /\ Send(t, Asked(op[t], buf[t]))
        /\ StagesFit(op[t]) /\ QueueInOrder(t) /\ AnswersInOrder(t)
    BY OrderAt, AtThrottle DEF Done, OpFits
  <1>1. Asking(op[t]) /\ Clear(txq[t]) /\ Clear(replies[t])
    BY <1>0 DEF StagesFit, AnswersInOrder, Past
  <1>2. /\ \A u \in Throttles \ {t}: txq'[u] = txq[u] /\ replies'[u] = replies[u]
        /\ Len(txq'[t]) < QueueDepth /\ Orderly(txq'[t]) /\ Deep(txq'[t], 1) /\ Clear(txq'[t])
        /\ Orderly(replies'[t]) /\ Clear(replies'[t])
    BY <1>0, <1>1, SendInOrder
  <1>3. Len(txq'[t]) <= QueueDepth
    <2>1. Len(txq'[t]) \in Nat /\ QueueDepth \in Nat
      BY SyncAssumption DEF IInv, QueuesFit
    <2> QED BY <1>2, <2>1
  <1>4. screen \in [Throttles -> {"picker", "upgrade", "wipe"}]
    BY AtThrottle DEF ScreensFit
  <1>5. CASE op' = [op EXCEPT ![t] = NoOp] /\ screen' = [screen EXCEPT ![t] = "upgrade"]
    <2>1. op'[t].kind = "none" /\ At(t, "BEGIN", 1) /\ \A u \in Throttles \ {t}: op'[u] = op[u]
      BY <1>5, StartsDoes DEF NoOp
    <2>2. \A u \in Throttles \ {t}: screen'[u] = screen[u]
      BY <1>4, <1>5
    <2>3. StagesFit(op[t])' /\ QueueInOrder(t)' /\ AnswersInOrder(t)'
      BY <1>2, <1>3, <2>1 DEF StagesFit, QueueInOrder, AnswersInOrder, Sent, Asking, Idle, At
    <2> QED BY <1>2, <2>1, <2>2, <2>3, OrderOfOne
  <1>6. CASE op' = [op EXCEPT ![t] = NewOp("push", op[t].entry)] /\ screen' = screen
    <2>1. op'[t].kind = "push" /\ At(t, "BEGIN", 1) /\ Untried(t)
          /\ \A u \in Throttles \ {t}: op'[u] = op[u]
      BY <1>6, StartsDoes
    <2>2. ~Sent(op[t])' /\ Since(op[t])' = 1
      BY <2>1 DEF Sent, Since, Tried, At, Untried
    <2>3. StagesFit(op[t])' /\ QueueInOrder(t)' /\ AnswersInOrder(t)'
      BY <1>2, <1>3, <2>1, <2>2 DEF StagesFit, QueueInOrder, AnswersInOrder, Asking, Idle, At
    <2> QED BY <1>2, <1>6, <2>1, <2>3, OrderOfOne
  <1>7. CASE op' = [op EXCEPT ![t].stage = "SHOW"] /\ screen' = screen
    <2>1. Kept(t) /\ At(t, "SHOW", op[t].chunk) /\ \A u \in Throttles \ {t}: op'[u] = op[u]
      BY <1>7, SteppedDoes
    <2>2. StagesFit(op[t])' /\ AnswersInOrder(t)'
      BY <1>1, <1>2, <2>1 DEF StagesFit, AnswersInOrder, Asking, Past, Kept, At
    <2>3. QueueInOrder(t)'
      BY <1>0, <1>1, <1>2, <1>3, <2>1 DEF QueueInOrder, Asking, Idle, Kept
    <2> QED BY <1>2, <1>7, <2>1, <2>2, <2>3, OrderOfOne
  <1> QED BY <1>0, <1>5, <1>6, <1>7 DEF Done

(* The result has been read. *)
LEMMA ShowOrder ==
    ASSUME IInv, Order, NEW t \in Throttles, Show(t)
    PROVE  Order'
  <1>1. op'[t].kind = "none" /\ At(t, "BEGIN", 1) /\ \A u \in Throttles \ {t}: op'[u] = op[u]
    BY StartsDoes DEF Show, NoOp
  <1>2. screen'[t] = "picker" /\ \A u \in Throttles \ {t}: screen'[u] = screen[u]
    BY AtThrottle DEF ScreensFit, Show
  <1>3. txq' = txq /\ replies' = replies /\ QueueInOrder(t)
    BY OrderAt DEF Show, base
  <1>4. StagesFit(op[t])' /\ QueueInOrder(t)' /\ AnswersInOrder(t)'
    BY <1>1, <1>2, <1>3 DEF StagesFit, QueueInOrder, AnswersInOrder, Sent, Asking, Idle, At
  <1> QED BY <1>1, <1>2, <1>3, <1>4, OrderOfOne

(* A sync the crew starts finds no reply, and a confirmed push no BEGIN at the head. *)
LEMMA StartOrder ==
    ASSUME IInv, Order, NEW t \in Throttles, NEW kind, NEW e, Starts(t, kind, e), screen' = screen,
           kind = "push" => screen[t] = "wipe", kind # "none"
    PROVE  Order'
  <1>1. op'[t].kind = kind /\ At(t, "BEGIN", 1) /\ Untried(t)
        /\ \A u \in Throttles \ {t}: op'[u] = op[u]
    BY StartsDoes DEF Starts
  <1>2. txq' = txq /\ replies' = replies /\ replies[t] = <<>> /\ Idle(t) /\ QueueInOrder(t)
    BY OrderAt DEF Starts, base
  <1>3. ~Sent(op[t])' /\ Since(op[t])' = 1
    BY <1>1 DEF Sent, Since, Tried, At, Untried
  <1>4. QueueInOrder(t)'
    BY <1>1, <1>2, <1>3 DEF QueueInOrder, Idle
  <1>5. StagesFit(op[t])' /\ AnswersInOrder(t)'
    <2>1. DOMAIN replies'[t] = {}
      BY <1>2
    <2> QED BY <1>1, <2>1 DEF StagesFit, AnswersInOrder, Orderly, HasBegin, Past, At
  <1> QED BY <1>1, <1>2, <1>4, <1>5, OrderOfOne

(* The screens. *)
LEMMA CrewOrder ==
    ASSUME IInv, Order, NEW t \in Throttles, Crew(t)
    PROVE  Order'
  <1>0. StagesFit(op[t]) /\ QueueInOrder(t) /\ AnswersInOrder(t)
    BY OrderAt
  <1>1. CASE FromPicker(t)
    <2>1. PICK kind \in Wants[t] \ {"edit"}, e \in Entries: Starts(t, kind, e)
      BY <1>1 DEF FromPicker
    <2>2. kind # "push" /\ kind # "none"
      BY SyncAssumption
    <2> QED BY <1>1, <2>1, <2>2, StartOrder DEF FromPicker
  <1>2. CASE ConfirmWipe(t)
    BY <1>2, StartOrder DEF ConfirmWipe
  <1>3. CASE ConfirmUpgrade(t) \/ Leave(t)
    <2>1. /\ op' = op /\ txq' = txq /\ replies' = replies /\ Idle(t) /\ screen[t] # "picker"
          /\ \A u \in Throttles \ {t}: screen'[u] = screen[u]
      BY <1>3, AtThrottle DEF ScreensFit, ConfirmUpgrade, Leave, base
    <2>2. StagesFit(op[t])' /\ QueueInOrder(t)' /\ AnswersInOrder(t)'
      BY <1>0, <2>1 DEF StagesFit, QueueInOrder, AnswersInOrder, Sent, Tried, Since, Asking, Past, Idle
    <2> QED BY <2>1, <2>2, OrderOfOne
  <1>4. CASE Edit(t)
    <2>1. op' = op /\ txq' = txq /\ replies' = replies /\ screen' = screen
      BY <1>4 DEF Edit, base
    <2>2. StagesFit(op[t])' /\ QueueInOrder(t)' /\ AnswersInOrder(t)'
      BY <1>0, <2>1 DEF StagesFit, QueueInOrder, AnswersInOrder, Sent, Tried, Since, Asking, Past, Idle
    <2> QED BY <2>1, <2>2, OrderOfOne
  <1> QED BY <1>1, <1>2, <1>3, <1>4 DEF Crew

(* The main loop sends, receives and queues status packets between syncs. *)
LEMMA LoopOrder ==
    ASSUME IInv, IInv', Order, NEW t \in Throttles, Loop(t)
    PROVE  Order'
  <1>0. /\ StagesFit(op[t]) /\ QueueInOrder(t) /\ op' = op /\ screen' = screen /\ op[t].kind = "none"
        /\ txq[t] \in Seq(Request) /\ Len(txq[t]) \in Nat /\ DOMAIN txq[t] = 1 .. Len(txq[t])
        /\ QueueDepth \in Nat \ {0} /\ txq \in [Throttles -> Seq(Request)]
    BY OrderAt, AtThrottle
       DEF Loop, QueueStatus, LoopTransmit, LoopReceive, sync, Idle, QueuesFit
  <1>1. ASSUME NEW q \in Seq(Request), txq'[t] = q, \A u \in Throttles \ {t}: txq'[u] = txq[u],
               \A u \in Throttles \ {t}: replies'[u] = replies[u],
               Len(q) <= QueueDepth, Orderly(q), Deep(txq[t], 1) => Deep(q, 1),
               Clear(txq[t]) => Clear(q)
        PROVE  Order'
    <2>1. StagesFit(op[t])' /\ QueueInOrder(t)' /\ AnswersInOrder(t)'
      BY <1>0, <1>1 DEF StagesFit, QueueInOrder, AnswersInOrder, Sent, Asking, Idle
    <2> QED BY <1>0, <1>1, <2>1, OrderOfOne
  <1>2. CASE QueueStatus(t)
    <2>1. txq'[t] = Pushed(txq[t], StatusPacket) /\ (\A u \in Throttles \ {t}: txq'[u] = txq[u])
          /\ replies' = replies
      BY <1>0, <1>2 DEF QueueStatus, base
    <2>2. CASE Len(txq[t]) < QueueDepth
      <3> DEFINE q == txq[t]  p == Append(q, StatusPacket)
      <3>0. txq'[t] = p
        BY <2>1, <2>2 DEF Pushed
      <3>1. StatusPacket \in Request /\ ~Begins(StatusPacket) /\ ~Commits(StatusPacket)
        BY TransferAssumption DEF StatusPacket, Request, Begins, Commits
      <3>2. /\ \A i \in DOMAIN p: (i \in DOMAIN q /\ p[i] = q[i]) \/ p[i] = StatusPacket
            /\ Clear(q) => Clear(p)
            /\ Orderly(q) => Orderly(p)
        BY <1>0, <3>1, AppendOrder
      <3>3. p \in Seq(Request) /\ Len(p) = Len(q) + 1
        BY <1>0, <3>1
      <3> HIDE DEF p
      <3>4. Deep(q, 1) => Deep(p, 1)
        BY <1>0, <3>1, <3>2, <3>3 DEF Deep
      <3>5. Len(p) <= QueueDepth
        BY <1>0, <2>2, <3>3
      <3> QED BY <1>0, <1>1, <2>1, <3>0, <3>2, <3>3, <3>4, <3>5 DEF QueueInOrder
    <2>3. CASE ~(Len(txq[t]) < QueueDepth)
      BY <1>0, <1>1, <2>1, <2>3 DEF Pushed, QueueInOrder
    <2> QED BY <2>2, <2>3
  <1>3. CASE LoopTransmit(t)
    <2> DEFINE q == txq[t]  p == Tail(q)
    <2>1. /\ txq'[t] = p /\ (\A u \in Throttles \ {t}: txq'[u] = txq[u]) /\ q # <<>>
          /\ UNCHANGED base \/ Serve(t, Head(q))
      BY <1>0, <1>3 DEF LoopTransmit, Transmit
    <2>2. \A u \in Throttles \ {t}: replies'[u] = replies[u]
      BY <2>1, ServeAnswers, AtThrottle DEF Answered, IInv
    <2>3. /\ \A i \in DOMAIN p: i + 1 \in DOMAIN q /\ p[i] = q[i + 1]
          /\ Clear(q) => Clear(p)
          /\ Orderly(q) => Orderly(p)
      BY <1>0, <2>1, TailOrder
    <2>4. p \in Seq(Request) /\ Len(p) = Len(q) - 1
      BY <1>0, <2>1
    <2> HIDE DEF p
    <2>5. Deep(q, 1) => Deep(p, 1)
      BY <1>0, <2>3, <2>4 DEF Deep
    <2>6. Len(p) <= QueueDepth
      BY <1>0, <2>4 DEF QueueInOrder
    <2> QED BY <1>0, <1>1, <2>1, <2>2, <2>3, <2>4, <2>5, <2>6 DEF QueueInOrder
  <1>4. CASE LoopReceive(t)
    <2>1. txq' = txq /\ \A u \in Throttles \ {t}: replies'[u] = replies[u]
      BY <1>4, AtThrottle DEF LoopReceive, BaseInv
    <2> QED BY <1>0, <1>1, <2>1 DEF QueueInOrder
  <1> QED BY <1>2, <1>3, <1>4 DEF Loop

(* The queues begin empty. *)
LEMMA InitOrder == Init => Order
  <1> SUFFICES ASSUME Init, NEW t \in Throttles
               PROVE  StagesFit(op[t]) /\ QueueInOrder(t) /\ AnswersInOrder(t)
    BY DEF Order
  <1>1. op[t] = NoOp /\ screen[t] = "picker" /\ txq[t] = <<>>
    BY DEF Init
  <1>2. op[t].kind = "none" /\ op[t].stage = "BEGIN" /\ op[t].chunk = 1
    BY <1>1 DEF NoOp, NewOp
  <1>3. Len(txq[t]) = 0 /\ DOMAIN txq[t] = {} /\ QueueDepth \in Nat
    BY <1>1, SyncAssumption
  <1>4. QueueInOrder(t)
    BY <1>1, <1>2, <1>3 DEF QueueInOrder, Orderly, Sent, Idle
  <1> QED BY <1>2, <1>4 DEF StagesFit, AnswersInOrder, Asking

(* The queues stay in order. *)
LEMMA OrderStep ==
    ASSUME IInv, Order, [Next]_vars
    PROVE  Order'
  <1>1. IInv'
    BY StepLemma
  <1>2. CASE UNCHANGED vars
    BY <1>2 DEF vars, sync, base, Order, StagesFit, QueueInOrder, AnswersInOrder, Sent, Tried,
                Since, Idle, Asking, Past
  <1>3. ASSUME NEW t \in Throttles, Syncing(t) PROVE Order'
    BY <1>1, <1>3, AttemptOrder, TimeOutOrder, TakesOrder, DoneOrder, ShowOrder DEF Syncing
  <1>4. CASE Forget /\ UNCHANGED <<version, sync, txq>>
    BY <1>4 DEF Forget, sync, Order, StagesFit, QueueInOrder, AnswersInOrder, Sent, Tried,
                Since, Idle, Asking, Past
  <1> QED BY <1>1, <1>2, <1>3, <1>4, CrewOrder, LoopOrder DEF Next

-----------------------------------------------------------------------------
(* What the base station answers, and what sending leaves in the queue. *)

(* What sending leaves in the queue, and what goes out. *)
Sends(t, h) ==
    LET q == txq[t]  m == Asked(op[t], buf[t]) IN
    /\ UNCHANGED base \/ Serve(t, h)
    /\ h = IF q = <<>> THEN m ELSE q[1]
    /\ Len(txq'[t]) = IF Len(q) < QueueDepth THEN Len(q) ELSE Len(q) - 1
    /\ DOMAIN txq'[t] = 1 .. Len(txq'[t])
    /\ \A i \in DOMAIN txq'[t]: txq'[t][i] = IF i < Len(q) THEN q[i + 1] ELSE m
    /\ \A u \in Throttles \ {t}: txq'[u] = txq[u]

(* A request joins the queue, and the head of it goes out. *)
LEMMA SendDoes ==
    ASSUME IInv, Order, NEW t \in Throttles, op[t].kind # "none", op[t].stage # "SHOW",
           Send(t, Asked(op[t], buf[t]))
    PROVE  /\ Asked(op[t], buf[t]) \in Requests(version[t])
           /\ \E h \in Requests(version[t]): Sends(t, h)
  <1> DEFINE m == Asked(op[t], buf[t])  q == txq[t]  p == Pushed(q, m)
  <1>1. /\ m \in Requests(version[t]) /\ q \in Seq(Requests(version[t]))
        /\ txq \in [Throttles -> Seq(Request)]
    BY AtThrottle, AskedFits DEF QueuesFit
  <1>2. Len(q) <= QueueDepth
    BY OrderAt DEF QueueInOrder
  <1>3. /\ p # <<>> /\ p \in Seq(Requests(version[t]))
        /\ Head(p) = IF q = <<>> THEN m ELSE q[1]
        /\ Len(Tail(p)) = IF Len(q) < QueueDepth THEN Len(q) ELSE Len(q) - 1
        /\ DOMAIN Tail(p) = 1 .. Len(Tail(p))
        /\ \A i \in DOMAIN Tail(p): Tail(p)[i] = IF i < Len(q) THEN q[i + 1] ELSE m
    <2> HIDE DEF m, q
    <2> QED BY <1>1, <1>2, SentIs
  <1>4. Transmit(t, p)
    BY DEF Send
  <1> HIDE DEF p
  <1>5. Head(p) \in Requests(version[t])
    BY <1>3, HeadAndTail
  <1>6. /\ UNCHANGED base \/ Serve(t, Head(p))
        /\ txq'[t] = Tail(p) /\ \A u \in Throttles \ {t}: txq'[u] = txq[u]
    BY <1>1, <1>4 DEF Transmit
  <1> HIDE DEF m, q
  <1>7. Sends(t, Head(p))
    <2>1. Asked(op[t], buf[t]) = m /\ txq[t] = q
      BY DEF m, q
    <2> QED BY ONLY <1>3, <1>6, <2>1 DEF Sends
  <1> QED BY <1>1, <1>5, <1>7 DEF m

(* What comes or stays is the new packet, or was there. *)
LEMMA SentFrom ==
    ASSUME IInv, Order, NEW t \in Throttles, NEW h, Sends(t, h)
    PROVE  /\ h = Asked(op[t], buf[t]) \/ \E j \in DOMAIN txq[t]: h = txq[t][j]
           /\ \A i \in DOMAIN txq'[t]: \/ txq'[t][i] = Asked(op[t], buf[t])
                                       \/ \E j \in DOMAIN txq[t]: txq'[t][i] = txq[t][j]
  <1> DEFINE m == Asked(op[t], buf[t])  q == txq[t]  s == txq'[t]
  <1>1. /\ q \in Seq(Request) /\ Len(q) \in Nat /\ DOMAIN q = 1 .. Len(q)
    BY OrderAt
  <1>2. /\ h = IF q = <<>> THEN m ELSE q[1]
        /\ DOMAIN s = 1 .. Len(s)
        /\ \A i \in DOMAIN s: s[i] = IF i < Len(q) THEN q[i + 1] ELSE m
    BY DEF Sends
  <1>3. q # <<>> => 1 \in DOMAIN q
    BY <1>1
  <1> HIDE DEF m, q, s
  <1>4. ASSUME NEW i \in DOMAIN s, i < Len(q) PROVE i + 1 \in DOMAIN q
    BY <1>1, <1>2, <1>4
  <1>5. \A i \in DOMAIN s: s[i] = m \/ \E j \in DOMAIN q: s[i] = q[j]
    BY <1>2, <1>4
  <1> QED BY <1>2, <1>3, <1>5 DEF m, q, s

(* What the replies say of the table. *)
Tells(r, m) ==
    /\ Commits(r) /\ r.status = "OK" => entries'[m.entry] = m.crc
    /\ Begins(r) /\ r.status = "OK" => r.crc = entries'[m.entry]

(* An accepted COMMIT has stored what it carried, an accepted BEGIN tells what is stored. *)
LEMMA ServeTells ==
    ASSUME IInv, IInv', NEW t \in Throttles, NEW m \in Requests(version[t]),
           UNCHANGED base \/ Serve(t, m)
    PROVE  /\ \A u \in Throttles \ {t}: replies'[u] = replies[u]
           /\ \/ replies'[t] = replies[t]
              \/ \E r \in Replies:
                   /\ r.type = m.type /\ r.sub = m.sub /\ r.entry = m.entry /\ Tells(r, m)
                   /\ replies'[t] = Append(replies[t], r)
  <1>0. BaseInv /\ BaseInv' /\ (m.type # "status" => m.entry \in Entries)
    BY DEF IInv, Requests
  <1>1. ASSUME NEW status, NEW crc, NEW piece, Answer(t, m, status, crc, piece),
               status = "OK" =>
                 /\ Commits(m) => entries'[m.entry] = m.crc
                 /\ Begins(m) => crc = entries'[m.entry]
        PROVE  /\ \A u \in Throttles \ {t}: replies'[u] = replies[u]
               /\ \/ replies'[t] = replies[t]
                  \/ \E r \in Replies:
                       /\ r.type = m.type /\ r.sub = m.sub /\ r.entry = m.entry /\ Tells(r, m)
                       /\ replies'[t] = Append(replies[t], r)
    <2>1. Hears(t, m, status, crc, piece)
      BY <1>0, <1>1, AnswerIs
    <2>2. \A r \in Replies: r.type = m.type /\ r.sub = m.sub /\ r.status = status /\ r.crc = crc
            => Tells(r, m)
      BY <1>1 DEF Tells, Commits, Begins
    <2> QED BY <2>1, <2>2 DEF Hears
  <1>2. CASE UNCHANGED base
    BY <1>2 DEF base
  <1>3. CASE PushBegin(t, m) \/ PushData(t, m) \/ PullData(t, m)
    <2>1. ~Commits(m) /\ ~Begins(m)
      BY <1>3 DEF PushBegin, PushData, PullData, Commits, Begins
    <2> QED BY <1>1, <1>3, <2>1 DEF PushBegin, PushData, PullData, Refuse
  <1>4. CASE PushCommit(t, m)
    <2>1. ~Begins(m) /\ m.entry \in Entries
      BY <1>0, <1>4 DEF PushCommit, Begins
    <2>2. CASE Refuse(t, m, "BAD_ENTRY") \/ Refuse(t, m, "CHECKSUM_FAIL")
      BY <1>1, <2>2 DEF Refuse
    <2>3. CASE /\ scratch = m.crc /\ Answer(t, m, "OK", None, None)
               /\ entries' = [e \in Entries |-> IF e = m.entry THEN scratch
                                           ELSE IF session.advance THEN None ELSE entries[e]]
      BY <1>1, <2>1, <2>3
    <2> QED BY <1>4, <2>2, <2>3 DEF PushCommit
  <1>5. CASE PullBegin(t, m)
    <2>1. ~Commits(m)
      BY <1>5 DEF PullBegin, Commits
    <2>2. CASE Refuse(t, m, "BUSY")
      BY <1>1, <2>2 DEF Refuse
    <2>3. CASE /\ Answer(t, m, IF entries[m.entry] = None THEN "EMPTY" ELSE "OK",
                         entries[m.entry], None)
               /\ entries' = entries
      BY <1>1, <2>1, <2>3
    <2> QED BY <1>5, <2>2, <2>3 DEF PullBegin
  <1>6. CASE PullDone(t, m)
    BY <1>6 DEF PullDone
  <1> QED BY <1>2, <1>3, <1>4, <1>5, <1>6 DEF Serve

-----------------------------------------------------------------------------
(* What a transfer has seen of its entry. *)

PushSeen(t) ==
    op[t].kind = "push" =>
      /\ \A i \in DOMAIN txq[t]: Commits(txq[t][i]) =>
           txq[t][i].entry = op[t].entry /\ txq[t][i].crc = buf[t]
      /\ \A i \in DOMAIN replies[t]: Commits(replies[t][i]) /\ replies[t][i].status = "OK" =>
           buf[t] \in seen[t]
      /\ op[t].stage = "SHOW" /\ op[t].outcome = "OK" => buf[t] \in seen[t]

PullSeen(t) ==
    op[t].kind = "pull" =>
      /\ \A i \in DOMAIN replies[t]:
           Begins(replies[t][i]) /\ replies[t][i].entry = op[t].entry /\ replies[t][i].status = "OK"
             => replies[t][i].crc \in seen[t]
      /\ op[t].stage = "DATA" => op[t].crc \in seen[t]
      /\ op[t].stage = "DONE" /\ op[t].outcome = "OK" => buf[t] \in seen[t]

SeenNow(t) == Transfers(op[t]) => entries[op[t].entry] \in seen[t]
Seen == \A t \in Throttles: SeenNow(t) /\ PushSeen(t) /\ PullSeen(t)

(* The history grows by what the entry holds after the step. *)
LEMMA RememberDoes ==
    ASSUME Remember, NEW t \in Throttles
    PROVE  /\ SeenNow(t)'
           /\ Transfers(op'[t]) /\ Continues(t) =>
                seen[t] \subseteq seen'[t] /\ entries'[op'[t].entry] \in seen'[t]
           /\ Transfers(op'[t]) /\ Continues(t) /\ entries'[op'[t].entry] \in seen[t] =>
                seen'[t] = seen[t]
  <1>1. seen'[t] = IF Transfers(op'[t])
                   THEN (IF Continues(t) THEN seen[t] ELSE {}) \union {entries'[op'[t].entry]} ELSE {}
    BY DEF Remember
  <1>2. Transfers(op[t])' = Transfers(op'[t])
    BY DEF Transfers
  <1> QED BY <1>1, <1>2 DEF SeenNow

(* A throttle that does not move has seen no less. *)
LEMMA SeenOfOne ==
    ASSUME Seen, Remember, NEW t \in Throttles,
           \A u \in Throttles \ {t}: op'[u] = op[u] /\ txq'[u] = txq[u] /\ replies'[u] = replies[u]
                                    /\ buf'[u] = buf[u],
           PushSeen(t)', PullSeen(t)'
    PROVE  Seen'
  <1> SUFFICES ASSUME NEW u \in Throttles
               PROVE  SeenNow(u)' /\ PushSeen(u)' /\ PullSeen(u)'
    BY DEF Seen
  <1>1. CASE u = t
    BY <1>1, RememberDoes
  <1>2. CASE u # t
    <2>1. op'[u] = op[u] /\ txq'[u] = txq[u] /\ replies'[u] = replies[u] /\ buf'[u] = buf[u]
      BY <1>2
    <2>2. Transfers(op[u]) => seen[u] \subseteq seen'[u]
      BY <2>1, RememberDoes DEF Continues
    <2>3. PushSeen(u) /\ PullSeen(u)
      BY DEF Seen
    <2> QED BY <2>1, <2>2, <2>3, RememberDoes DEF PushSeen, PullSeen, Transfers
  <1> QED BY <1>1, <1>2

(* A push keeps its promise if every COMMIT about carries its buffer. *)
LEMMA PushKeepsSeen ==
    ASSUME NEW t \in Throttles, PushSeen(t), Remember, op[t].kind = "push", Kept(t), buf'[t] = buf[t],
           \A i \in DOMAIN txq'[t]: Commits(txq'[t][i]) =>
              \/ \E j \in DOMAIN txq[t]: txq'[t][i] = txq[t][j]
              \/ txq'[t][i].entry = op[t].entry /\ txq'[t][i].crc = buf[t],
           \A i \in DOMAIN replies'[t]: Commits(replies'[t][i]) /\ replies'[t][i].status = "OK" =>
              \/ \E j \in DOMAIN replies[t]: replies'[t][i] = replies[t][j]
              \/ buf[t] = entries'[op[t].entry],
           op'[t].stage = "SHOW" /\ op'[t].outcome = "OK" => buf[t] \in seen[t]
    PROVE  PushSeen(t)'
  <1>1. seen[t] \subseteq seen'[t] /\ entries'[op[t].entry] \in seen'[t]
    BY RememberDoes DEF Transfers, Continues, Kept
  <1> QED BY <1>1 DEF PushSeen, Kept

(* A pull keeps its promise if what it was told was in the table at that time. *)
LEMMA PullKeepsSeen ==
    ASSUME NEW t \in Throttles, PullSeen(t), Remember, op[t].kind = "pull", Kept(t),
           \A i \in DOMAIN replies'[t]:
              Begins(replies'[t][i]) /\ replies'[t][i].entry = op[t].entry
                /\ replies'[t][i].status = "OK" =>
              \/ \E j \in DOMAIN replies[t]: replies'[t][i] = replies[t][j]
              \/ replies'[t][i].crc = entries'[op[t].entry],
           op'[t].stage = "DATA" => op'[t].crc \in seen[t],
           op'[t].stage = "DONE" /\ op'[t].outcome = "OK" => buf'[t] \in seen[t]
    PROVE  PullSeen(t)'
  <1>1. seen[t] \subseteq seen'[t] /\ entries'[op[t].entry] \in seen'[t]
    BY RememberDoes DEF Transfers, Continues, Kept
  <1> QED BY <1>1 DEF PullSeen, Kept

(* A transfer starts with no COMMIT and no BEGIN of an earlier one about. *)
LEMMA FreshSeen ==
    ASSUME NEW t \in Throttles, op'[t].kind = "push" => Clear(txq'[t]) /\ Clear(replies'[t]),
           op'[t].kind = "pull" => \A i \in DOMAIN replies'[t]: ~Begins(replies'[t][i]),
           op'[t].stage = "BEGIN"
    PROVE  PushSeen(t)' /\ PullSeen(t)'
  BY DEF PushSeen, PullSeen, Clear

(* What the invariants say of one throttle. *)
LEMMA SeenAt ==
    ASSUME IInv, IInv', Order, Seen, NEW t \in Throttles
    PROVE  /\ PushSeen(t) /\ PullSeen(t) /\ SeenNow(t)
           /\ op[t].kind # "none" => op[t].entry \in Entries
           /\ replies[t] \in Seq(Replies)
  BY AtThrottle DEF Seen, OpFits, IInv, BaseInv

(* One lemma per action: what is shown or verified has been in the table. *)
LEMMA AttemptSeen ==
    ASSUME IInv, IInv', Order, Seen, Remember, NEW t \in Throttles, Attempt(t)
    PROVE  Seen'
  <1> DEFINE m == Asked(op[t], buf[t])
  <1>1. /\ op[t].kind # "none" /\ op[t].stage \in {"BEGIN", "DATA", "COMMIT"}
        /\ Send(t, m) /\ buf' = buf
        /\ Kept(t) /\ At(t, op[t].stage, op[t].chunk) /\ SameResult(t)
        /\ \A u \in Throttles \ {t}: op'[u] = op[u]
    BY AttemptDoes
  <1>2. PICK h \in Requests(version[t]): Sends(t, h)
    BY <1>1, SendDoes
  <1>3. /\ h = m \/ \E j \in DOMAIN txq[t]: h = txq[t][j]
        /\ \A i \in DOMAIN txq'[t]: txq'[t][i] = m \/ \E j \in DOMAIN txq[t]: txq'[t][i] = txq[t][j]
        /\ \A u \in Throttles \ {t}: txq'[u] = txq[u]
    BY <1>2, SentFrom DEF Sends
  <1>4. /\ \A u \in Throttles \ {t}: replies'[u] = replies[u]
        /\ \/ replies'[t] = replies[t]
           \/ \E r \in Replies:
                /\ r.type = h.type /\ r.sub = h.sub /\ r.entry = h.entry /\ Tells(r, h)
                /\ replies'[t] = Append(replies[t], r)
    BY <1>2, ServeTells DEF Sends
  <1>5. PushSeen(t) /\ PullSeen(t) /\ replies[t] \in Seq(Replies)
    BY SeenAt
  <1>6. m.entry = op[t].entry /\ (Commits(m) => m.crc = buf[t])
    BY DEF Asked, Commits
  <1> HIDE DEF m
  <1>7. ASSUME NEW i \in DOMAIN replies'[t]
        PROVE  \/ \E j \in DOMAIN replies[t]: replies'[t][i] = replies[t][j]
               \/ \E r \in Replies: /\ r.type = h.type /\ r.sub = h.sub /\ r.entry = h.entry
                                    /\ Tells(r, h) /\ replies'[t][i] = r
    BY <1>4, <1>5, AppendOrder
  <1>8. CASE op[t].kind = "push"
    <2>1. /\ \A i \in DOMAIN txq[t]: Commits(txq[t][i]) =>
               txq[t][i].entry = op[t].entry /\ txq[t][i].crc = buf[t]
          /\ op[t].stage = "SHOW" /\ op[t].outcome = "OK" => buf[t] \in seen[t]
      BY <1>5, <1>8 DEF PushSeen
    <2>2. Commits(h) => h.entry = op[t].entry /\ h.crc = buf[t]
      BY <1>3, <1>6, <2>1
    <2>3. \A i \in DOMAIN txq'[t]: Commits(txq'[t][i]) =>
              \/ \E j \in DOMAIN txq[t]: txq'[t][i] = txq[t][j]
              \/ txq'[t][i].entry = op[t].entry /\ txq'[t][i].crc = buf[t]
      BY <1>3, <1>6
    <2>4. \A i \in DOMAIN replies'[t]: Commits(replies'[t][i]) /\ replies'[t][i].status = "OK" =>
              \/ \E j \in DOMAIN replies[t]: replies'[t][i] = replies[t][j]
              \/ buf[t] = entries'[op[t].entry]
      BY <1>7, <2>2 DEF Tells, Commits
    <2>5. op'[t].stage = "SHOW" /\ op'[t].outcome = "OK" => buf[t] \in seen[t]
      BY <1>1, <2>1 DEF At, SameResult
    <2>6. PushSeen(t)'
      BY <1>1, <1>5, <1>8, <2>3, <2>4, <2>5, PushKeepsSeen
    <2>7. PullSeen(t)'
      BY <1>1, <1>8 DEF PullSeen, Kept
    <2> QED BY <1>1, <1>3, <1>4, <2>6, <2>7, SeenOfOne
  <1>9. CASE op[t].kind = "pull"
    <2>1. \A i \in DOMAIN replies'[t]:
              Begins(replies'[t][i]) /\ replies'[t][i].entry = op[t].entry
                /\ replies'[t][i].status = "OK" =>
              \/ \E j \in DOMAIN replies[t]: replies'[t][i] = replies[t][j]
              \/ replies'[t][i].crc = entries'[op[t].entry]
      BY <1>7 DEF Tells, Begins
    <2>2. /\ op'[t].stage = "DATA" => op'[t].crc \in seen[t]
          /\ op'[t].stage = "DONE" /\ op'[t].outcome = "OK" => buf'[t] \in seen[t]
      BY <1>1, <1>5, <1>9 DEF PullSeen, At, SameResult
    <2>3. PullSeen(t)'
      BY <1>1, <1>5, <1>9, <2>1, <2>2, PullKeepsSeen
    <2>4. PushSeen(t)'
      BY <1>1, <1>9 DEF PushSeen, Kept
    <2> QED BY <1>1, <1>3, <1>4, <2>3, <2>4, SeenOfOne
  <1>10. CASE op[t].kind \notin {"push", "pull"}
    <2>1. PushSeen(t)' /\ PullSeen(t)'
      BY <1>1, <1>10 DEF PushSeen, PullSeen, Kept
    <2> QED BY <1>1, <1>3, <1>4, <2>1, SeenOfOne
  <1> QED BY <1>8, <1>9, <1>10

(* A reply is taken, or none comes in time. *)
LEMMA KeptSeen ==
    ASSUME IInv, IInv', Order, Seen, Remember, NEW t \in Throttles, Kept(t), txq' = txq,
           \A u \in Throttles \ {t}: op'[u] = op[u] /\ replies'[u] = replies[u] /\ buf'[u] = buf[u],
           replies'[t] = replies[t] \/ (replies[t] # <<>> /\ replies'[t] = Tail(replies[t])),
           op[t].kind = "push" =>
             buf'[t] = buf[t] /\ (op'[t].stage = "SHOW" /\ op'[t].outcome = "OK" => buf[t] \in seen[t]),
           op[t].kind = "pull" =>
             /\ op'[t].stage = "DATA" => op'[t].crc \in seen[t]
             /\ op'[t].stage = "DONE" /\ op'[t].outcome = "OK" => buf'[t] \in seen[t]
    PROVE  Seen'
  <1>1. PushSeen(t) /\ PullSeen(t) /\ replies[t] \in Seq(Replies)
    BY SeenAt
  <1>2. \A i \in DOMAIN replies'[t]: \E j \in DOMAIN replies[t]: replies'[t][i] = replies[t][j]
    <2>1. CASE replies'[t] = replies[t]
      BY <2>1
    <2>2. CASE replies[t] # <<>> /\ replies'[t] = Tail(replies[t])
      BY <1>1, <2>2, TailOrder
    <2> QED BY <2>1, <2>2
  <1>3. CASE op[t].kind = "push"
    <2>1. PushSeen(t)'
      BY <1>1, <1>2, <1>3, PushKeepsSeen
    <2>2. PullSeen(t)'
      BY <1>3 DEF PullSeen, Kept
    <2> QED BY <2>1, <2>2, SeenOfOne
  <1>4. CASE op[t].kind = "pull"
    <2>1. PullSeen(t)'
      BY <1>1, <1>2, <1>4, PullKeepsSeen
    <2>2. PushSeen(t)'
      BY <1>4 DEF PushSeen, Kept
    <2> QED BY <2>1, <2>2, SeenOfOne
  <1>5. CASE op[t].kind \notin {"push", "pull"}
    <2>1. PushSeen(t)' /\ PullSeen(t)'
      BY <1>5 DEF PushSeen, PullSeen, Kept
    <2> QED BY <2>1, SeenOfOne
  <1> QED BY <1>3, <1>4, <1>5

(* Nothing came in time. *)
LEMMA TimeOutSeen ==
    ASSUME IInv, IInv', Order, Seen, Remember, NEW t \in Throttles, TimeOut(t)
    PROVE  Seen'
  <1>0. /\ txq' = txq /\ replies' = replies /\ buf' = buf
        /\ op[t].kind # "none" /\ op[t].stage \in {"BEGIN", "DATA", "COMMIT"}
        /\ PullSeen(t)
    BY SeenAt, AtThrottle DEF TimeOut, base, OpFits
  <1>1. CASE op' = Retried(t)
    <2>1. /\ Kept(t) /\ At(t, op[t].stage, op[t].chunk) /\ SameResult(t)
          /\ \A u \in Throttles \ {t}: op'[u] = op[u]
      BY <1>1, RetriedDoes
    <2>2. op[t].kind = "pull" => (op'[t].stage = "DATA" => op'[t].crc \in seen[t])
      BY <1>0, <2>1 DEF PullSeen, At, SameResult
    <2>3. op'[t].stage \in {"BEGIN", "DATA", "COMMIT"}
      BY <1>0, <2>1 DEF At
    <2>4. op'[t].stage \notin {"DONE", "SHOW"}
      BY <2>3
    <2>5. \A u \in Throttles \ {t}: op'[u] = op[u] /\ replies'[u] = replies[u] /\ buf'[u] = buf[u]
      BY <1>0, <2>1
    <2>6. replies'[t] = replies[t] /\ buf'[t] = buf[t] /\ txq' = txq /\ Kept(t)
      BY <1>0, <2>1
    <2>8. op[t].kind = "push" =>
             buf'[t] = buf[t] /\ (op'[t].stage = "SHOW" /\ op'[t].outcome = "OK" => buf[t] \in seen[t])
      BY <2>4, <2>6
    <2>9. op[t].kind = "pull" =>
             /\ op'[t].stage = "DATA" => op'[t].crc \in seen[t]
             /\ op'[t].stage = "DONE" /\ op'[t].outcome = "OK" => buf'[t] \in seen[t]
      BY <2>2, <2>4
    <2> QED BY <2>5, <2>6, <2>8, <2>9, KeptSeen
  <1>2. CASE ~(op' = Retried(t))
    <2> DEFINE stage == IF op[t].kind = "query" /\ op[t].stage = "DATA" THEN "DONE" ELSE "SHOW"
    <2>1. Ends(t, stage, Silence[op[t].stage])
      BY <1>2 DEF TimeOut
    <2>2. /\ Kept(t) /\ At(t, stage, 1) /\ op'[t].outcome = Silence[op[t].stage]
          /\ \A u \in Throttles \ {t}: op'[u] = op[u]
      BY <2>1, EndsDoes
    <2>3. op'[t].outcome # "OK"
      BY <1>0, <2>2 DEF Silence
    <2>4. op'[t].stage \in {"DONE", "SHOW"}
      BY <2>2 DEF At
    <2>5. \A u \in Throttles \ {t}: op'[u] = op[u] /\ replies'[u] = replies[u] /\ buf'[u] = buf[u]
      BY <1>0, <2>2
    <2>6. replies'[t] = replies[t] /\ buf'[t] = buf[t] /\ txq' = txq /\ Kept(t)
      BY <1>0, <2>2
    <2>7. op'[t].stage # "DATA"
      BY <2>4
    <2> HIDE DEF stage
    <2>8. op[t].kind = "push" =>
             buf'[t] = buf[t] /\ (op'[t].stage = "SHOW" /\ op'[t].outcome = "OK" => buf[t] \in seen[t])
      BY <2>3, <2>6
    <2>9. op[t].kind = "pull" =>
             /\ op'[t].stage = "DATA" => op'[t].crc \in seen[t]
             /\ op'[t].stage = "DONE" /\ op'[t].outcome = "OK" => buf'[t] \in seen[t]
      BY <2>3, <2>7
    <2> QED BY <2>5, <2>6, <2>8, <2>9, KeptSeen
  <1> QED BY <1>1, <1>2

(* Every way of taking a reply. *)
LEMMA TakesSeen ==
    ASSUME IInv, IInv', Order, Seen, Remember, NEW t \in Throttles,
           Discard(t) \/ Begun(t) \/ Peeked(t) \/ Chunked(t) \/ Committed(t)
    PROVE  Seen'
  <1> DEFINE r == Head(replies[t])
  <1>0. Pops(t) /\ \A u \in Throttles \ {t}: buf'[u] = buf[u]
    BY AtThrottle DEF Discard, Begun, Peeked, Chunked, Committed
  <1>1. /\ txq' = txq /\ replies[t] # <<>> /\ replies'[t] = Tail(replies[t])
        /\ \A u \in Throttles \ {t}: replies'[u] = replies[u]
        /\ replies[t] \in Seq(Replies) /\ op[t].stage \in {"BEGIN", "DATA", "COMMIT"}
    BY <1>0, PopsDoes
  <1>2. StagesFit(op[t]) /\ PushSeen(t) /\ PullSeen(t)
    BY SeenAt, OrderAt
  <1>3. 1 \in DOMAIN replies[t] /\ r = replies[t][1]
    BY <1>1, TailOrder
  <1>P. op[t].kind = "pull" => (op[t].stage = "DATA" => op[t].crc \in seen[t])
    BY <1>2 DEF PullSeen
  <1>C. op[t].kind = "push" /\ Commits(r) /\ r.status = "OK" => buf[t] \in seen[t]
    BY <1>2, <1>3 DEF PushSeen
  <1>B. op[t].kind = "pull" /\ Begins(r) /\ r.entry = op[t].entry /\ r.status = "OK"
          => r.crc \in seen[t]
    BY <1>2, <1>3 DEF PullSeen
  <1> HIDE DEF r
  <1>4. ASSUME NEW stage \in {"DONE", "SHOW"}, NEW outcome, Ends(t, stage, outcome),
               op[t].kind = "push" =>
                 buf' = buf /\ (stage = "SHOW" /\ outcome = "OK" => buf[t] \in seen[t]),
               op[t].kind = "pull" =>
                 (stage = "DONE" /\ outcome = "OK" => buf'[t] \in seen[t])
        PROVE  Seen'
    <2>1. /\ Kept(t) /\ op'[t].stage = stage /\ op'[t].outcome = outcome
          /\ \A u \in Throttles \ {t}: op'[u] = op[u]
      BY <1>4, EndsDoes DEF At
    <2>2. op[t].kind = "push" =>
             buf'[t] = buf[t] /\ (op'[t].stage = "SHOW" /\ op'[t].outcome = "OK" => buf[t] \in seen[t])
      BY <1>4, <2>1
    <2>3. op[t].kind = "pull" =>
             /\ op'[t].stage = "DATA" => op'[t].crc \in seen[t]
             /\ op'[t].stage = "DONE" /\ op'[t].outcome = "OK" => buf'[t] \in seen[t]
      BY <1>4, <2>1
    <2> QED BY <1>0, <1>1, <2>1, <2>2, <2>3, KeptSeen
  <1>5. CASE Discard(t)
    <2>1. op' = op /\ buf' = buf
      BY <1>5 DEF Discard
    <2>2. Kept(t) /\ op[t].stage \notin {"DONE", "SHOW"}
      BY <1>1, <2>1 DEF Kept
    <2> QED BY <1>0, <1>1, <1>P, <2>1, <2>2, KeptSeen
  <1>6. CASE Begun(t)
    <2>0. buf' = buf /\ op[t].stage = "BEGIN" /\ Matches(r, op[t])
      BY <1>6 DEF Begun, r
    <2>1. op[t].kind = "pull" => Begins(r) /\ r.entry = op[t].entry
      BY <2>0 DEF Matches, Wire, Begins
    <2>2. CASE r.status # "OK" /\ Ends(t, "SHOW", r.status)
      BY <1>4, <2>0, <2>2
    <2>3. CASE Ends(t, "DONE", "VERSION_MISMATCH")
      BY <1>4, <2>0, <2>3
    <2>4. CASE r.status = "OK"
               /\ op' = [op EXCEPT ![t].stage = "DATA", ![t].attempt = 0, ![t].waiting = FALSE,
                              ![t].crc = IF op[t].kind = "pull" THEN r.crc ELSE None]
      <3>1. op'[t] = [op[t] EXCEPT !.stage = "DATA", !.attempt = 0, !.waiting = FALSE,
                              !.crc = IF op[t].kind = "pull" THEN r.crc ELSE None]
            /\ \A u \in Throttles \ {t}: op'[u] = op[u]
        BY ONLY <2>4, AtThrottle, IInv, t \in Throttles
      <3>2. Kept(t) /\ op'[t].stage = "DATA" /\ (op[t].kind = "pull" => op'[t].crc = r.crc)
        BY <3>1, AtThrottle DEF Op, Kept
      <3> QED BY <1>0, <1>1, <1>B, <2>0, <2>1, <2>4, <3>1, <3>2, KeptSeen
    <2> QED BY <1>6, <2>2, <2>3, <2>4 DEF Begun, r
  <1>7. CASE Peeked(t)
    <2>1. /\ op[t].kind = "peek"
          /\ op'[t] = [op[t] EXCEPT !.stage = "DONE", !.attempt = 0, !.waiting = FALSE,
                        !.peeked = r.version,
                        !.outcome = IF r.status \in {"BUSY", "BAD_ENTRY"} THEN r.status ELSE "OK"]
          /\ \A u \in Throttles \ {t}: op'[u] = op[u]
      BY <1>7, AtThrottle DEF Peeked, r
    <2>2. Kept(t)
      BY <2>1, AtThrottle DEF Op, Kept
    <2> QED BY <1>0, <1>1, <2>1, <2>2, KeptSeen
  <1>8. CASE Chunked(t)
    <2>0. op[t].stage = "DATA"
      BY <1>8 DEF Chunked
    <2>1. ASSUME NEW stage \in {"DATA", "COMMIT"}, NEW chunk, Goes(t, stage, chunk),
                 op[t].kind = "push" => buf' = buf
          PROVE  Seen'
      <3>1. /\ Kept(t) /\ op'[t].stage = stage /\ SameResult(t)
            /\ \A u \in Throttles \ {t}: op'[u] = op[u]
        BY <2>1, GoesDoes DEF At
      <3>2. op[t].kind = "pull" => (op'[t].stage = "DATA" => op'[t].crc \in seen[t])
        BY <1>P, <2>0, <3>1 DEF SameResult
      <3>3. op'[t].stage \notin {"DONE", "SHOW"}
        BY <2>1, <3>1
      <3> QED BY <1>0, <1>1, <2>1, <3>1, <3>2, <3>3, KeptSeen
    <2>2. CASE buf' = buf /\ Ends(t, IF op[t].kind = "query" THEN "DONE" ELSE "SHOW", "BAD_ENTRY")
      BY <1>4, <2>2
    <2>3. CASE op[t].kind = "query" /\ Ends(t, "DONE", "OK")
      BY <1>4, <2>3
    <2>4. CASE buf' = buf /\ IF op[t].chunk = Chunks THEN Goes(t, "COMMIT", 1)
                             ELSE Goes(t, "DATA", op[t].chunk + 1)
      BY <2>1, <2>4
    <2>5. CASE op[t].kind = "pull" /\ op[t].chunk # Chunks /\ Goes(t, "DATA", op[t].chunk + 1)
      BY <2>1, <2>5
    <2>6. ASSUME NEW filled, op[t].kind = "pull", buf' = [buf EXCEPT ![t] = filled],
                 Ends(t, "DONE", Verified(filled, op[t].crc))
          PROVE  Seen'
      <3>1. buf'[t] = filled
        BY <2>6, AtThrottle
      <3>2. Verified(filled, op[t].crc) = "OK" => filled = op[t].crc
        BY DEF Verified
      <3> QED BY <1>4, <1>P, <2>0, <2>6, <3>1, <3>2
    <2> QED BY <1>8, <2>2, <2>3, <2>4, <2>5, <2>6 DEF Chunked, r
  <1>9. CASE Committed(t)
    <2>0. /\ buf' = buf /\ op[t].stage = "COMMIT" /\ Matches(r, op[t])
          /\ Ends(t, "SHOW", IF r.status = "OK" THEN "OK" ELSE "CHECKSUM_FAIL")
      BY <1>9 DEF Committed, r
    <2>1. op[t].kind = "push"
      BY <1>2, <2>0 DEF StagesFit
    <2>2. Commits(r)
      BY <2>0, <2>1 DEF Matches, Wire, Commits
    <2> QED BY <1>4, <1>C, <2>0, <2>1, <2>2
  <1> QED BY <1>5, <1>6, <1>7, <1>8, <1>9

(* DONE is sent; after a peek a push may start. *)
LEMMA DoneSeen ==
    ASSUME IInv, IInv', Order, Order', Seen, Remember, NEW t \in Throttles, Done(t)
    PROVE  Seen'
  <1>0. /\ op[t].stage = "DONE" /\ op[t].kind # "none" /\ op[t].stage # "SHOW"
        /\ Send(t, Asked(op[t], buf[t]))
        /\ StagesFit(op[t]) /\ AnswersInOrder(t)
    BY OrderAt, AtThrottle DEF Done, OpFits
  <1>1. Asking(op[t]) /\ Clear(txq[t]) /\ Clear(replies[t])
    BY <1>0 DEF StagesFit, AnswersInOrder, Past
  <1>2. /\ \A u \in Throttles \ {t}: txq'[u] = txq[u] /\ replies'[u] = replies[u]
        /\ Clear(txq'[t]) /\ Clear(replies'[t])
    BY <1>0, <1>1, SendInOrder
  <1>3. CASE op' = [op EXCEPT ![t] = NoOp] /\ buf' = buf
    <2>1. op'[t].kind = "none" /\ op'[t].stage = "BEGIN" /\ \A u \in Throttles \ {t}: op'[u] = op[u]
      BY <1>3, StartsDoes DEF NoOp, At
    <2>2. PushSeen(t)' /\ PullSeen(t)'
      BY <2>1, FreshSeen
    <2> QED BY <1>2, <1>3, <2>1, <2>2, SeenOfOne
  <1>4. CASE op' = [op EXCEPT ![t] = NewOp("push", op[t].entry)]
             /\ buf' = [buf EXCEPT ![t] = working[t]]
    <2>1. op'[t].kind = "push" /\ op'[t].stage = "BEGIN" /\ \A u \in Throttles \ {t}: op'[u] = op[u]
      BY <1>4, StartsDoes DEF At
    <2>2. PushSeen(t)' /\ PullSeen(t)'
      BY <1>2, <2>1, FreshSeen
    <2>3. \A u \in Throttles \ {t}: buf'[u] = buf[u]
      BY <1>4, AtThrottle
    <2> QED BY <1>2, <2>1, <2>2, <2>3, SeenOfOne
  <1>5. CASE op' = [op EXCEPT ![t].stage = "SHOW"] /\ buf' = buf
    <2>1. Kept(t) /\ op'[t].stage = "SHOW" /\ \A u \in Throttles \ {t}: op'[u] = op[u]
      BY <1>5, SteppedDoes DEF At
    <2>2. PushSeen(t)'
      BY <1>1, <2>1 DEF PushSeen, Asking, Kept
    <2>3. PullSeen(t)'
      <3>1. CASE op[t].kind = "pull"
        <4>1. Begins(Asked(op[t], buf[t])) = FALSE
          BY <1>0 DEF Asked, Begins
        <4>2. PICK h \in Requests(version[t]): Sends(t, h)
          BY <1>0, SendDoes
        <4>3. \/ replies'[t] = replies[t]
              \/ \E r \in Replies:
                   /\ r.type = h.type /\ r.sub = h.sub /\ r.entry = h.entry /\ Tells(r, h)
                   /\ replies'[t] = Append(replies[t], r)
          BY <4>2, ServeTells DEF Sends
        <4>4. PullSeen(t) /\ replies[t] \in Seq(Replies)
          BY SeenAt
        <4>5. ASSUME NEW i \in DOMAIN replies'[t]
              PROVE  \/ \E j \in DOMAIN replies[t]: replies'[t][i] = replies[t][j]
                     \/ \E r \in Replies: /\ r.type = h.type /\ r.sub = h.sub /\ r.entry = h.entry
                                          /\ Tells(r, h) /\ replies'[t][i] = r
          BY <4>3, <4>4, AppendOrder
        <4>6. \A i \in DOMAIN replies'[t]:
                Begins(replies'[t][i]) /\ replies'[t][i].entry = op[t].entry
                  /\ replies'[t][i].status = "OK" =>
                \/ \E j \in DOMAIN replies[t]: replies'[t][i] = replies[t][j]
                \/ replies'[t][i].crc = entries'[op[t].entry]
          BY <4>5 DEF Tells, Begins
        <4> QED BY <2>1, <3>1, <4>4, <4>6, PullKeepsSeen
      <3>2. CASE op[t].kind # "pull"
        BY <2>1, <3>2 DEF PullSeen, Kept
      <3> QED BY <3>1, <3>2
    <2> QED BY <1>2, <1>5, <2>1, <2>2, <2>3, SeenOfOne
  <1> QED BY <1>3, <1>4, <1>5 DEF Done

(* The screens. *)
LEMMA CrewSeen ==
    ASSUME IInv, IInv', Order, Seen, Remember, NEW t \in Throttles, Show(t) \/ Crew(t)
    PROVE  Seen'
  <1>1. txq' = txq /\ replies' = replies /\ \A u \in Throttles \ {t}: buf'[u] = buf[u]
    BY AtThrottle DEF Show, Crew, FromPicker, ConfirmUpgrade, ConfirmWipe, Leave, Edit, Starts, base
  <1>2. ASSUME NEW kind, NEW e, op' = [op EXCEPT ![t] = NewOp(kind, e)],
               kind \in {"push", "pull"} => replies[t] = <<>>,
               kind = "push" => Clear(txq[t])
        PROVE  Seen'
    <2>1. op'[t].kind = kind /\ op'[t].stage = "BEGIN" /\ \A u \in Throttles \ {t}: op'[u] = op[u]
      BY <1>2, StartsDoes DEF At
    <2>2. kind \in {"push", "pull"} => DOMAIN replies'[t] = {}
      BY <1>1, <1>2
    <2>3. PushSeen(t)' /\ PullSeen(t)'
      BY <1>1, <1>2, <2>1, <2>2, FreshSeen DEF Clear
    <2> QED BY <1>1, <2>1, <2>3, SeenOfOne
  <1>3. CASE op' = op /\ Idle(t)
    <2>1. PushSeen(t)' /\ PullSeen(t)'
      BY <1>3 DEF PushSeen, PullSeen, Idle
    <2> QED BY <1>1, <1>3, <2>1, SeenOfOne
  <1>4. CASE Show(t)
    BY <1>2, <1>4 DEF Show, NoOp
  <1>5. CASE FromPicker(t)
    <2>1. PICK kind \in Wants[t] \ {"edit"}, e \in Entries: Starts(t, kind, e)
      BY <1>5 DEF FromPicker
    <2>2. kind # "push"
      BY SyncAssumption
    <2> QED BY <1>2, <2>1, <2>2 DEF Starts
  <1>6. CASE ConfirmWipe(t)
    <2>1. Clear(txq[t])
      BY <1>6, OrderAt DEF ConfirmWipe, Starts, QueueInOrder
    <2> QED BY <1>2, <1>6, <2>1 DEF ConfirmWipe, Starts
  <1>7. CASE ConfirmUpgrade(t) \/ Leave(t) \/ Edit(t)
    BY <1>3, <1>7 DEF ConfirmUpgrade, Leave, Edit
  <1> QED BY <1>4, <1>5, <1>6, <1>7 DEF Crew

(* The main loop. *)
LEMMA LoopSeen ==
    ASSUME IInv, IInv', Seen, Remember, NEW t \in Throttles, Loop(t)
    PROVE  Seen'
  <1>0. /\ op' = op /\ buf' = buf /\ op[t].kind = "none"
        /\ txq \in [Throttles -> Seq(Request)] /\ replies \in [Throttles -> Seq(Replies)]
    BY AtThrottle DEF Loop, QueueStatus, LoopTransmit, LoopReceive, sync, Idle, QueuesFit, BaseInv
  <1>1. \A u \in Throttles \ {t}: txq'[u] = txq[u] /\ replies'[u] = replies[u]
    <2>1. CASE QueueStatus(t) \/ LoopReceive(t)
      BY <1>0, <2>1 DEF QueueStatus, LoopReceive, base
    <2>2. CASE LoopTransmit(t)
      <3>1. /\ \A u \in Throttles \ {t}: txq'[u] = txq[u]
            /\ UNCHANGED base \/ Serve(t, Head(txq[t]))
        BY <1>0, <2>2 DEF LoopTransmit, Transmit
      <3> QED BY <3>1, ServeAnswers, AtThrottle DEF Answered, IInv
    <2> QED BY <2>1, <2>2 DEF Loop
  <1>2. PushSeen(t)' /\ PullSeen(t)'
    BY <1>0 DEF PushSeen, PullSeen
  <1> QED BY <1>0, <1>1, <1>2, SeenOfOne

(* No transfer is in progress. *)
LEMMA InitSeen == HInit => Seen
  <1> SUFFICES ASSUME HInit, NEW t \in Throttles
               PROVE  SeenNow(t) /\ PushSeen(t) /\ PullSeen(t)
    BY DEF Seen
  <1>1. op[t].kind = "none"
    BY DEF HInit, Init, NoOp, NewOp
  <1> QED BY <1>1 DEF SeenNow, Transfers, PushSeen, PullSeen

(* What has been seen stays seen. *)
LEMMA SeenStep ==
    ASSUME IInv, Order, Seen, [HNext]_hvars
    PROVE  Seen'
  <1>1. CASE UNCHANGED hvars
    BY <1>1 DEF hvars, vars, history, sync, base, Seen, SeenNow, PushSeen, PullSeen, Transfers
  <1>2. CASE HNext
    <2>1. Next /\ Remember
      BY <1>2 DEF HNext
    <2>2. IInv' /\ Order'
      BY <2>1, StepLemma, OrderStep
    <2>3. ASSUME NEW t \in Throttles, Syncing(t) PROVE Seen'
      BY <2>1, <2>2, <2>3, AttemptSeen, TimeOutSeen, TakesSeen, DoneSeen, CrewSeen DEF Syncing
    <2>4. CASE Forget /\ UNCHANGED <<version, sync, txq>>
      <3>1. op' = op /\ txq' = txq /\ replies' = replies /\ buf' = buf
        BY <2>4 DEF Forget, sync
      <3> SUFFICES ASSUME NEW u \in Throttles
                   PROVE  SeenNow(u)' /\ PushSeen(u)' /\ PullSeen(u)'
        BY DEF Seen
      <3>2. Transfers(op[u]) => seen[u] \subseteq seen'[u]
        BY <2>1, <3>1, RememberDoes DEF Continues
      <3>3. PushSeen(u) /\ PullSeen(u)
        BY DEF Seen
      <3> QED BY <2>1, <3>1, <3>2, <3>3, RememberDoes DEF PushSeen, PullSeen, Transfers
    <2> QED BY <2>1, <2>2, <2>3, <2>4, CrewSeen, LoopSeen DEF Next
  <1> QED BY <1>1, <1>2

(* "SAVED!" means stored: when a push shows that it succeeded, its entry has held since   *)
(* it began the very profile it set out with, whatever was lost, late or left over from  *)
(* an earlier sync (syncPushSharedCnf, cnfSendAndWait).                                   *)
THEOREM SavedMeansStored == HSpec => []SavedIsStored
  <1>1. HInit => IInv /\ Order /\ Seen
    BY InitLemma, InitOrder, InitSeen DEF HInit
  <1>2. IInv /\ Order /\ Seen /\ [HNext]_hvars => (IInv /\ Order /\ Seen)'
    <2>1. [HNext]_hvars => [Next]_vars
      BY DEF HNext, hvars
    <2> QED BY <2>1, StepLemma, OrderStep, SeenStep
  <1>3. Seen => SavedIsStored
    BY DEF Seen, PushSeen, SavedIsStored, Shows
  <1> QED BY <1>1, <1>2, <1>3, PTL DEF HSpec

-----------------------------------------------------------------------------
(* The table of whole profiles. *)

LoadingOf(o) == IF o.kind = "pull" THEN o.entry ELSE None
ReadingOf(o, s) == IF o.kind = "pull" THEN s ELSE {}
SamePull(u) == LoadingOf(op'[u]) = LoadingOf(op[u]) /\ (op'[u].kind = "pull" <=> op[u].kind = "pull")

(* A step that neither starts nor ends a load. *)
LEMMA SamePullIs ==
    ASSUME NEW u \in Throttles, \/ op'[u] = op[u]
                                \/ Kept(u)
                                \/ op[u].kind # "pull" /\ op'[u].kind # "pull"
    PROVE  SamePull(u)
  BY DEF SamePull, LoadingOf, Kept

(* ... reads on in the entry it loads. *)
LEMMA ReadOn ==
    ASSUME IInv, Seen, Remember, NEW u \in Throttles, SamePull(u)
    PROVE  /\ ReadingOf(op'[u], seen'[u]) =
                IF LoadingOf(op[u]) = None THEN {}
                ELSE ReadingOf(op[u], seen[u]) \union {entries'[LoadingOf(op[u])]}
           /\ entries' = entries => ReadingOf(op'[u], seen'[u]) = ReadingOf(op[u], seen[u])
  <1>1. CASE op[u].kind = "pull"
    <2>1. op'[u].kind = "pull" /\ op'[u].entry = op[u].entry /\ op[u].entry \in Entries
      BY <1>1, AtThrottle DEF SamePull, LoadingOf, OpFits
    <2>2. op[u].entry # None
      BY <2>1, TransferAssumption
    <2>3. Transfers(op'[u]) /\ Continues(u) /\ Transfers(op[u])
      BY <1>1, <2>1 DEF Transfers, Continues
    <2>4. seen'[u] = seen[u] \union {entries'[op[u].entry]}
      BY <2>1, <2>3 DEF Remember
    <2>5. entries[op[u].entry] \in seen[u]
      BY <2>3 DEF Seen, SeenNow
    <2> QED BY <1>1, <2>1, <2>2, <2>4, <2>5 DEF ReadingOf, LoadingOf
  <1>2. CASE op[u].kind # "pull"
    BY <1>2 DEF ReadingOf, LoadingOf, SamePull
  <1> QED BY <1>1, <1>2

(* With the table and the working configurations it leaves the abstract table alone. *)
LEMMA StoreStays ==
    ASSUME IInv, Seen, Remember, UNCHANGED <<version, entries, pin, working>>,
           \A u \in Throttles: SamePull(u)
    PROVE  UNCHANGED Store!vars
  <1>1. \A u \in Throttles: LoadingOf(op'[u]) = LoadingOf(op[u])
    BY DEF SamePull
  <1>2. \A u \in Throttles: ReadingOf(op'[u], seen'[u]) = ReadingOf(op[u], seen[u])
    BY ReadOn
  <1>3. /\ [u \in Throttles |-> LoadingOf(op'[u])] = [u \in Throttles |-> LoadingOf(op[u])]
        /\ [u \in Throttles |-> ReadingOf(op'[u], seen'[u])] = [u \in Throttles |-> ReadingOf(op[u], seen[u])]
    BY <1>1, <1>2
  <1> QED BY <1>3 DEF Store!vars, LoadingOf, ReadingOf

(* A profile of throttle t in entry e. *)
Writes(t, e) ==
    \E p \in OfLayout(version[t]):
      \/ /\ pin = version[t]
         /\ entries' = [entries EXCEPT ![e] = p] /\ pin' = pin
      \/ /\ pin = CNF_VERSION_UNSET \/ version[t] > pin
         /\ entries' = [x \in Entries |-> IF x = e THEN p ELSE None] /\ pin' = version[t]

(* A profile written is a Put of the abstract table. *)
LEMMA WritesPut ==
    ASSUME IInv, Seen, Remember, UNCHANGED <<version, working>>,
           NEW t \in Throttles, NEW e \in Entries, Writes(t, e),
           \A u \in Throttles: SamePull(u)
    PROVE  Store!Next
  <1> DEFINE L == [u \in Throttles |-> IF op[u].kind = "pull" THEN op[u].entry ELSE None]
             R == [u \in Throttles |-> IF op[u].kind = "pull" THEN seen[u] ELSE {}]
  <1>1. \E p \in Store!Own(t):
         \/ /\ pin = version[t]
            /\ entries' = [entries EXCEPT ![e] = p] /\ pin' = pin
         \/ /\ pin = CNF_VERSION_UNSET \/ version[t] > pin
            /\ entries' = [x \in Entries |-> IF x = e THEN p ELSE None] /\ pin' = version[t]
    BY DEF Writes, Store!Own, OfLayout
  <1>2. L' = L
    BY DEF SamePull, LoadingOf
  <1>3. R' = [u \in Throttles |-> IF L[u] = None THEN {} ELSE R[u] \union {entries'[L[u]]}]
    <2>1. ASSUME NEW u \in Throttles
          PROVE  (IF op'[u].kind = "pull" THEN seen'[u] ELSE {})
                   = IF L[u] = None THEN {} ELSE R[u] \union {entries'[L[u]]}
      <3>1. ReadingOf(op'[u], seen'[u]) =
                IF LoadingOf(op[u]) = None THEN {}
                ELSE ReadingOf(op[u], seen[u]) \union {entries'[LoadingOf(op[u])]}
        BY ReadOn
      <3>2. L[u] = LoadingOf(op[u]) /\ R[u] = ReadingOf(op[u], seen[u])
        BY DEF LoadingOf, ReadingOf
      <3> HIDE DEF L, R
      <3> QED BY <3>1, <3>2 DEF ReadingOf
    <2> QED BY <2>1
  <1>4. Store!Put(t, e)
    BY <1>1, <1>2, <1>3 DEF Store!Put
  <1> QED BY <1>4 DEF Store!Next

(* What a packet does to the table: a COMMIT that is accepted puts a profile, and nothing *)
(* else changes it.                                                                       *)
LEMMA ServeWrites ==
    ASSUME WInv, NEW t \in Throttles, NEW m \in Requests(version[t]), Serve(t, m)
    PROVE  \/ entries' = entries /\ pin' = pin
           \/ Commits(m) /\ m.entry \in Entries /\ Writes(t, m.entry)
  <1>0. /\ m.type # "status" => m.entry \in Entries
        /\ m.type = "push" /\ m.sub = "COMMIT" => m.crc \in OfLayout(version[t])
        /\ BaseInv /\ AdvanceFits
    BY DEF Requests, WInv, IInv
  <1>1. CASE PushCommit(t, m) /\ Serves(t, m, {"push", "pushed"}) /\ scratch = m.crc
             /\ entries' = [e \in Entries |-> IF e = m.entry THEN scratch
                                           ELSE IF session.advance THEN None ELSE entries[e]]
             /\ pin' = IF session.advance THEN version[t] ELSE pin
    <2>0. /\ m.type = "push" /\ m.sub = "COMMIT" /\ m.entry \in Entries /\ scratch \in OfLayout(version[t])
          /\ session.who = t /\ session.kind \in {"push", "pushed"} /\ session.entry = m.entry
          /\ entries \in [Entries -> Profiles \union {None}]
          /\ pin \in Layouts \union {CNF_VERSION_UNSET} /\ version[t] \in Layouts
      BY <1>0, <1>1 DEF PushCommit, Serves, BaseInv
    <2>1. Commits(m)
      BY <2>0 DEF Commits
    <2>2. CASE ~session.advance
      <3>1. pin = version[t] /\ pin' = pin
        BY <1>0, <1>1, <2>0, <2>2 DEF BaseInv, SessionOfLayout
      <3>2. entries' = [entries EXCEPT ![m.entry] = scratch]
        BY <1>1, <2>0, <2>2
      <3> QED BY <2>0, <2>1, <3>1, <3>2 DEF Writes
    <2>3. CASE session.advance /\ session.kind = "push"
      <3>1. ~AtLeast(version[t])
        BY <1>0, <2>0, <2>3 DEF AdvanceFits, Advancing
      <3>2. pin = CNF_VERSION_UNSET \/ version[t] > pin
        BY <2>0, <3>1, VersionsAreNumbers DEF AtLeast
      <3>3. entries' = [x \in Entries |-> IF x = m.entry THEN scratch ELSE None]
        BY <1>1, <2>3
      <3>4. pin' = version[t]
        BY <1>1, <2>3
      <3> QED BY <2>0, <2>1, <3>2, <3>3, <3>4 DEF Writes
    <2>4. CASE session.advance /\ session.kind = "pushed"
      <3>1. pin = version[t] /\ \A e \in Entries \ {m.entry}: entries[e] = None
        BY <1>0, <2>0, <2>4 DEF AdvanceFits
      <3>2. pin' = pin
        BY <1>1, <2>4, <3>1
      <3>3. entries' = [entries EXCEPT ![m.entry] = scratch]
        <4>1. \A e \in Entries: entries'[e] = IF e = m.entry THEN scratch ELSE entries[e]
          BY <1>1, <2>4, <3>1
        <4>2. entries' = [e \in Entries |-> entries'[e]]
          BY <1>1
        <4> QED BY <2>0, <4>1, <4>2
      <3> QED BY <2>0, <2>1, <3>1, <3>2, <3>3 DEF Writes
    <2> QED BY <2>0, <2>2, <2>3, <2>4
  <1>2. CASE PushCommit(t, m) /\ entries' = entries /\ pin' = pin
    BY <1>2
  <1>3. CASE PushBegin(t, m) \/ PushData(t, m) \/ PullBegin(t, m) \/ PullData(t, m) \/ PullDone(t, m)
    BY <1>3 DEF PushBegin, PushData, PullBegin, PullData, PullDone, Refuse
  <1> QED BY <1>1, <1>2, <1>3 DEF Serve, PushCommit, Refuse

(* A packet served is a Put or a stutter. *)
LEMMA ServeStores ==
    ASSUME WInv, Seen, Remember, UNCHANGED <<version, working>>,
           NEW t \in Throttles, NEW m \in Requests(version[t]), UNCHANGED base \/ Serve(t, m),
           \A u \in Throttles: SamePull(u)
    PROVE  Store!Next \/ UNCHANGED Store!vars
  <1>0. IInv
    BY DEF WInv
  <1>1. CASE entries' = entries /\ pin' = pin
    BY <1>0, <1>1, StoreStays
  <1>2. CASE m.entry \in Entries /\ Writes(t, m.entry)
    BY <1>0, <1>2, WritesPut
  <1>3. (UNCHANGED base) => entries' = entries /\ pin' = pin
    BY DEF base
  <1> QED BY <1>1, <1>2, <1>3, ServeWrites

(* DONE is a Load if a pull has been verified: the buffer was in the table, and is its *)
(* own layout.                                                                         *)
LEMMA DoneStores ==
    ASSUME WInv, Order, Seen, Remember, NEW t \in Throttles, Done(t)
    PROVE  Store!Next \/ UNCHANGED Store!vars
  <1> DEFINE m == Asked(op[t], buf[t])
  <1>0. /\ op[t].stage = "DONE" /\ op[t].kind # "none" /\ op[t].stage # "SHOW" /\ version' = version
        /\ Send(t, Asked(op[t], buf[t])) /\ IInv
        /\ StagesFit(op[t]) /\ AnswersInOrder(t)
    BY OrderAt, AtThrottle DEF Done, OpFits, WInv
  <1>1. Asking(op[t]) /\ Clear(txq[t])
    BY <1>0 DEF StagesFit, AnswersInOrder, Past
  <1>2. PICK h \in Requests(version[t]): Sends(t, h)
    BY <1>0, SendDoes
  <1>3. h = m \/ \E j \in DOMAIN txq[t]: h = txq[t][j]
    BY <1>0, <1>2, SentFrom
  <1>4. ~Commits(m)
    BY <1>0 DEF Asked, Commits
  <1>5. ~Commits(h)
    BY <1>1, <1>3, <1>4 DEF Clear
  <1>6. entries' = entries /\ pin' = pin
    BY <1>2, <1>5, ServeWrites DEF Sends, base
  <1>7. CASE op' = [op EXCEPT ![t].stage = "SHOW"]
             /\ working' = [working EXCEPT ![t] = Stored(op[t], buf[t], @)]
    <2>1. Kept(t) /\ \A u \in Throttles \ {t}: op'[u] = op[u]
      BY <1>0, <1>7, SteppedDoes
    <2>2. \A u \in Throttles: SamePull(u)
      BY <2>1, SamePullIs
    <2>3. CASE op[t].kind = "pull" /\ op[t].outcome = "OK"
      <3>1. buf[t] \in seen[t] /\ buf[t] \in OfLayout(version[t])
        BY <1>0, <2>3, AtThrottle DEF Seen, PullSeen, TransferOfLayout
      <3>2. /\ [u \in Throttles |-> LoadingOf(op'[u])] = [u \in Throttles |-> LoadingOf(op[u])]
            /\ [u \in Throttles |-> ReadingOf(op'[u], seen'[u])]
                 = [u \in Throttles |-> ReadingOf(op[u], seen[u])]
        <4>a. \A u \in Throttles: LoadingOf(op'[u]) = LoadingOf(op[u])
          BY <2>2 DEF SamePull
        <4>b. \A u \in Throttles: ReadingOf(op'[u], seen'[u]) = ReadingOf(op[u], seen[u])
          BY <1>0, <1>6, <2>2, ReadOn
        <4> QED BY <4>a, <4>b
      <3>3. working' = [working EXCEPT ![t] = buf[t]]
        BY <1>7, <2>3 DEF Stored
      <3>4. Store!Load(t)
        <4>1. buf[t] \in [u \in Throttles |-> IF op[u].kind = "pull" THEN seen[u] ELSE {}][t]
          BY <2>3, <3>1
        <4>2. buf[t] \in Store!Own(t)
          BY <3>1 DEF OfLayout, Store!Own
        <4> QED BY <1>0, <1>6, <3>2, <3>3, <4>1, <4>2 DEF Store!Load, LoadingOf, ReadingOf
      <3> QED BY <3>4 DEF Store!Next
    <2>4. CASE ~(op[t].kind = "pull" /\ op[t].outcome = "OK")
      <3>1. working' = working
        BY <1>0, <1>7, <2>4, AtThrottle DEF Stored
      <3> QED BY <1>0, <1>6, <2>2, <3>1, StoreStays
    <2> QED BY <2>3, <2>4
  <1>8. CASE op[t].kind = "peek" /\ working' = working
             /\ (op' = [op EXCEPT ![t] = NoOp] \/ op' = [op EXCEPT ![t] = NewOp("push", op[t].entry)])
    <2>1. op'[t].kind # "pull" /\ \A u \in Throttles \ {t}: op'[u] = op[u]
      BY <1>0, <1>8, StartsDoes DEF NoOp
    <2>2. \A u \in Throttles: SamePull(u)
      BY <1>8, <2>1, SamePullIs
    <2> QED BY <1>0, <1>6, <1>8, <2>2, StoreStays
  <1>9. \/ op[t].kind = "peek" /\ op' = [op EXCEPT ![t] = NoOp] /\ working' = working
        \/ op[t].kind = "peek" /\ op' = [op EXCEPT ![t] = NewOp("push", op[t].entry)] /\ working' = working
        \/ op' = [op EXCEPT ![t].stage = "SHOW"]
             /\ working' = [working EXCEPT ![t] = Stored(op[t], buf[t], @)]
    BY DEF Done
  <1> QED BY <1>7, <1>8, <1>9

(* The end of a load, and its start. *)
LEMMA ShowStores ==
    ASSUME WInv, Seen, Remember, NEW t \in Throttles, Show(t)
    PROVE  Store!Next \/ UNCHANGED Store!vars
  <1>0. /\ UNCHANGED <<version, entries, pin, working>> /\ IInv
        /\ op'[t].kind = "none" /\ \A u \in Throttles \ {t}: op'[u] = op[u]
    BY StartsDoes DEF Show, base, NoOp, WInv
  <1>1. CASE op[t].kind # "pull"
    <2>1. \A u \in Throttles: SamePull(u)
      BY <1>0, <1>1, SamePullIs
    <2> QED BY <1>0, <2>1, StoreStays
  <1>2. CASE op[t].kind = "pull"
    <2>1. \A u \in Throttles \ {t}: ReadingOf(op'[u], seen'[u]) = ReadingOf(op[u], seen[u])
      BY <1>0, ReadOn, SamePullIs
    <2>2. [u \in Throttles |-> LoadingOf(op'[u])]
            = [[u \in Throttles |-> LoadingOf(op[u])] EXCEPT ![t] = None]
      BY <1>0 DEF LoadingOf
    <2>3. [u \in Throttles |-> ReadingOf(op'[u], seen'[u])]
            = [[u \in Throttles |-> ReadingOf(op[u], seen[u])] EXCEPT ![t] = {}]
      <3>1. ReadingOf(op'[t], seen'[t]) = {}
        BY <1>0 DEF ReadingOf
      <3> QED BY <2>1, <3>1
    <2>4. Store!Close(t)
      BY <1>0, <2>2, <2>3 DEF Store!Close, LoadingOf, ReadingOf
    <2> QED BY <2>4 DEF Store!Next
  <1> QED BY <1>1, <1>2

(* The start of a load is an Open. *)
LEMMA StartStores ==
    ASSUME WInv, Seen, Remember, NEW t \in Throttles, NEW kind, NEW e \in Entries, Starts(t, kind, e)
    PROVE  Store!Next \/ UNCHANGED Store!vars
  <1>0. /\ UNCHANGED <<version, entries, pin, working>> /\ IInv /\ op[t].kind = "none"
        /\ op'[t].kind = kind /\ op'[t].entry = e /\ \A u \in Throttles \ {t}: op'[u] = op[u]
    <2>1. UNCHANGED <<version, entries, pin, working>> /\ op[t].kind = "none"
      BY DEF Starts, base, Idle
    <2>a. IInv
      BY DEF WInv
    <2>b. op' = [op EXCEPT ![t] = NewOp(kind, e)]
      BY DEF Starts
    <2>2. op'[t].kind = kind /\ op'[t].entry = e /\ \A u \in Throttles \ {t}: op'[u] = op[u]
      <3>1. op'[t] = NewOp(kind, e) /\ \A u \in Throttles \ {t}: op'[u] = op[u]
        BY <2>a, <2>b, AtThrottle
      <3> QED BY <3>1 DEF NewOp
    <2> QED BY <2>1, <2>2, <2>a
  <1>1. CASE kind # "pull"
    <2>1. \A u \in Throttles: SamePull(u)
      BY <1>0, <1>1, SamePullIs
    <2> QED BY <1>0, <2>1, StoreStays
  <1>2. CASE kind = "pull"
    <2>1. \A u \in Throttles \ {t}: ReadingOf(op'[u], seen'[u]) = ReadingOf(op[u], seen[u])
      BY <1>0, ReadOn, SamePullIs
    <2>2. [u \in Throttles |-> LoadingOf(op'[u])]
            = [[u \in Throttles |-> LoadingOf(op[u])] EXCEPT ![t] = e]
      BY <1>0, <1>2 DEF LoadingOf
    <2>3. [u \in Throttles |-> ReadingOf(op'[u], seen'[u])]
            = [[u \in Throttles |-> ReadingOf(op[u], seen[u])] EXCEPT ![t] = {entries[e]}]
      <3>1. ReadingOf(op'[t], seen'[t]) = {entries[e]}
        <4>1. Transfers(op'[t]) /\ ~Continues(t)
          BY <1>0, <1>2 DEF Transfers, Continues
        <4> QED BY <1>0, <1>2, <4>1 DEF ReadingOf, Remember
      <3> QED BY <2>1, <3>1
    <2>4. [u \in Throttles |-> LoadingOf(op[u])][t] = None
      BY <1>0 DEF LoadingOf
    <2>5. Store!Open(t, e)
      BY <1>0, <2>2, <2>3, <2>4 DEF Store!Open, LoadingOf, ReadingOf
    <2> QED BY <2>5 DEF Store!Next
  <1> QED BY <1>1, <1>2

(* The screens. *)
LEMMA CrewStores ==
    ASSUME WInv, Seen, Remember, NEW t \in Throttles, Crew(t)
    PROVE  Store!Next \/ UNCHANGED Store!vars
  <1>1. CASE FromPicker(t)
    BY <1>1, StartStores DEF FromPicker
  <1>2. CASE ConfirmWipe(t)
    <2>1. slot[t] \in Entries
      BY <1>2, AtThrottle DEF ConfirmWipe, WInv, ScreensFit
    <2> QED BY <1>2, <2>1, StartStores DEF ConfirmWipe
  <1>3. ASSUME op' = op, UNCHANGED <<version, base>>
        PROVE  /\ \A u \in Throttles: SamePull(u)
               /\ IInv /\ UNCHANGED <<version, entries, pin>>
    BY <1>3, SamePullIs DEF WInv, base
  <1>4. CASE ConfirmUpgrade(t) \/ Leave(t)
    <2>1. op' = op /\ UNCHANGED <<version, base>> /\ working' = working
      BY <1>4 DEF ConfirmUpgrade, Leave
    <2> QED BY <1>3, <2>1, StoreStays
  <1>5. CASE Edit(t)
    <2>1. op' = op /\ UNCHANGED <<version, base>> /\ op[t].kind = "none"
      BY <1>5 DEF Edit, Idle
    <2>2. PICK p \in Own(t): working' = [working EXCEPT ![t] = p]
      BY <1>5 DEF Edit
    <2>3. /\ [u \in Throttles |-> LoadingOf(op'[u])] = [u \in Throttles |-> LoadingOf(op[u])]
          /\ [u \in Throttles |-> ReadingOf(op'[u], seen'[u])]
               = [u \in Throttles |-> ReadingOf(op[u], seen[u])]
      <3>1. \A u \in Throttles: SamePull(u)
        BY <1>3, <2>1
      <3>2. \A u \in Throttles: ReadingOf(op'[u], seen'[u]) = ReadingOf(op[u], seen[u])
        BY <1>3, <2>1, <3>1, ReadOn
      <3> QED BY <2>1, <3>2
    <2>4. [u \in Throttles |-> LoadingOf(op[u])][t] = None
      BY <2>1 DEF LoadingOf
    <2>5. p \in Store!Own(t)
      BY DEF Own, Store!Own
    <2>6. Store!Edit(t)
      BY <1>3, <2>1, <2>2, <2>3, <2>4, <2>5 DEF Store!Edit, LoadingOf, ReadingOf
    <2> QED BY <2>6 DEF Store!Next
  <1> QED BY <1>1, <1>2, <1>4, <1>5 DEF Crew

(* Every step of a sync. *)
LEMMA SyncStores ==
    ASSUME WInv, Order, Seen, Remember, NEW t \in Throttles, Syncing(t)
    PROVE  Store!Next \/ UNCHANGED Store!vars
  <1>0. IInv
    BY DEF WInv
  <1>1. CASE Attempt(t)
    <2>1. /\ op[t].kind # "none" /\ op[t].stage # "SHOW" /\ Send(t, Asked(op[t], buf[t]))
          /\ Kept(t) /\ (\A u \in Throttles \ {t}: op'[u] = op[u])
          /\ UNCHANGED <<version, working>>
      BY <1>0, <1>1, AttemptDoes
    <2>2. PICK h \in Requests(version[t]): Sends(t, h)
      BY <1>0, <2>1, SendDoes
    <2>3. \A u \in Throttles: SamePull(u)
      BY <2>1, SamePullIs
    <2> QED BY <2>1, <2>2, <2>3, ServeStores DEF Sends
  <1>2. ASSUME Kept(t), \A u \in Throttles \ {t}: op'[u] = op[u],
               UNCHANGED <<version, entries, pin, working>>
        PROVE  UNCHANGED Store!vars
    <2>1. \A u \in Throttles: SamePull(u)
      BY <1>2, SamePullIs
    <2> QED BY <1>0, <1>2, <2>1, StoreStays
  <1>3. ASSUME NEW stage, NEW outcome, Ends(t, stage, outcome)
        PROVE  Kept(t) /\ \A u \in Throttles \ {t}: op'[u] = op[u]
    BY <1>0, <1>3, EndsDoes
  <1>4. ASSUME NEW stage, NEW chunk, Goes(t, stage, chunk)
        PROVE  Kept(t) /\ \A u \in Throttles \ {t}: op'[u] = op[u]
    BY <1>0, <1>4, GoesDoes
  <1>5. CASE TimeOut(t)
    <2>1. UNCHANGED <<version, entries, pin, working>>
      BY <1>5 DEF TimeOut, base
    <2>2. op' = Retried(t) \/ \E stage, outcome: Ends(t, stage, outcome)
      BY <1>5 DEF TimeOut
    <2>3. Kept(t) /\ \A u \in Throttles \ {t}: op'[u] = op[u]
      BY <1>0, <1>3, <2>2, RetriedDoes
    <2> QED BY <1>2, <2>1, <2>3
  <1>6. CASE Discard(t) \/ Begun(t) \/ Peeked(t) \/ Chunked(t) \/ Committed(t)
    <2>1. UNCHANGED <<version, entries, pin, working>>
      BY <1>0, <1>6, PopsDoes DEF Discard, Begun, Peeked, Chunked, Committed
    <2>2. CASE Discard(t)
      BY <1>2, <2>1, <2>2 DEF Discard, Kept
    <2>3. CASE Begun(t)
      <3>1. \/ \E stage, outcome: Ends(t, stage, outcome)
            \/ \E c: op' = [op EXCEPT ![t].stage = "DATA", ![t].attempt = 0, ![t].waiting = FALSE,
                              ![t].crc = c]
        BY <2>3 DEF Begun
      <3>2. CASE \E c: op' = [op EXCEPT ![t].stage = "DATA", ![t].attempt = 0, ![t].waiting = FALSE,
                              ![t].crc = c]
        <4>1. PICK c: op' = [op EXCEPT ![t].stage = "DATA", ![t].attempt = 0, ![t].waiting = FALSE,
                              ![t].crc = c]
          BY <3>2
        <4>2. op'[t] = [op[t] EXCEPT !.stage = "DATA", !.attempt = 0, !.waiting = FALSE, !.crc = c]
              /\ \A u \in Throttles \ {t}: op'[u] = op[u]
          BY ONLY <1>0, <4>1, AtThrottle, t \in Throttles
        <4>3. Kept(t)
          BY <1>0, <4>2, AtThrottle DEF Op, Kept
        <4> QED BY <1>2, <2>1, <4>2, <4>3
      <3> QED BY <1>2, <1>3, <2>1, <3>1, <3>2
    <2>4. CASE Peeked(t)
      <3>1. PICK v, c: op' = [op EXCEPT ![t].stage = "DONE", ![t].attempt = 0, ![t].waiting = FALSE,
                        ![t].peeked = v, ![t].outcome = c]
        BY <2>4 DEF Peeked
      <3>2. op'[t] = [op[t] EXCEPT !.stage = "DONE", !.attempt = 0, !.waiting = FALSE,
                                   !.peeked = v, !.outcome = c]
            /\ \A u \in Throttles \ {t}: op'[u] = op[u]
        BY ONLY <1>0, <3>1, AtThrottle, t \in Throttles
      <3>3. Kept(t)
        BY <1>0, <3>2, AtThrottle DEF Op, Kept
      <3> QED BY <1>2, <2>1, <3>2, <3>3
    <2>5. CASE Chunked(t)
      <3>1. (\E stage, outcome: Ends(t, stage, outcome)) \/ \E stage, chunk: Goes(t, stage, chunk)
        BY <2>5 DEF Chunked
      <3> QED BY <1>2, <1>3, <1>4, <2>1, <3>1
    <2>6. CASE Committed(t)
      <3>1. \E stage, outcome: Ends(t, stage, outcome)
        BY <2>6 DEF Committed
      <3> QED BY <1>2, <1>3, <2>1, <3>1
    <2> QED BY <1>6, <2>2, <2>3, <2>4, <2>5, <2>6
  <1> QED BY <1>1, <1>5, <1>6, DoneStores, ShowStores DEF Syncing

(* The main loop may still send a COMMIT of a push given up. *)
LEMMA LoopStores ==
    ASSUME WInv, Seen, Remember, NEW t \in Throttles, Loop(t)
    PROVE  Store!Next \/ UNCHANGED Store!vars
  <1>0. IInv /\ op' = op /\ UNCHANGED <<version, working>> /\ \A u \in Throttles: SamePull(u)
    BY SamePullIs DEF WInv, Loop, QueueStatus, LoopTransmit, LoopReceive, sync
  <1>1. CASE QueueStatus(t) \/ LoopReceive(t)
    <2>1. UNCHANGED <<version, entries, pin, working>>
      BY <1>0, <1>1 DEF QueueStatus, LoopReceive, base
    <2> QED BY <1>0, <2>1, StoreStays
  <1>2. CASE LoopTransmit(t)
    <2>1. Head(txq[t]) \in Requests(version[t])
      BY <1>0, <1>2, AtThrottle, HeadAndTail DEF LoopTransmit, QueuesFit
    <2> QED BY <1>0, <1>2, <2>1, ServeStores DEF LoopTransmit, Transmit
  <1> QED BY <1>1, <1>2 DEF Loop

(* Every step is a step of the abstract table or a stutter. *)
LEMMA StoreStep ==
    ASSUME WInv, Order, Seen, HNext
    PROVE  Store!Next \/ UNCHANGED Store!vars
  <1>0. Next /\ Remember /\ IInv
    BY DEF HNext, WInv
  <1>1. CASE Forget /\ UNCHANGED <<version, sync, txq>>
    <2>1. op' = op /\ UNCHANGED <<version, entries, pin, working>>
      BY <1>1 DEF Forget, sync
    <2>2. \A u \in Throttles: SamePull(u)
      BY <2>1, SamePullIs
    <2> QED BY <1>0, <2>1, <2>2, StoreStays
  <1> QED BY <1>0, <1>1, SyncStores, CrewStores, LoopStores DEF Next

(* The initial states are those of the abstract table. *)
LEMMA StoreInit == HInit => Store!Init
  <1> SUFFICES ASSUME HInit PROVE Store!Init
    OBVIOUS
  <1>1. \A t \in Throttles: op[t].kind = "none"
    BY DEF HInit, Init, NoOp, NewOp
  <1>2. \A t \in Throttles: working[t] \in Store!Own(t)
    BY DEF HInit, Init, Own, Store!Own
  <1> QED BY <1>1, <1>2 DEF HInit, Init, BaseInit, Store!Init

(* The throttles and the base station implement the table of whole profiles: every step  *)
(* is a whole profile put, a load opened, one that ends with a profile the entry held in *)
(* the meantime, an edit, or nothing the table shows.                                     *)
THEOREM Refinement == HSpec => ImplementsStore
  <1>1. HInit => WInv /\ Order /\ Seen
    BY WInitLemma, InitOrder, InitSeen DEF HInit
  <1>2. WInv /\ Order /\ Seen /\ [HNext]_hvars => (WInv /\ Order /\ Seen)'
    <2>1. [HNext]_hvars => [Next]_vars
      BY DEF HNext, hvars
    <2>2. WInv => IInv
      BY DEF WInv
    <2> QED BY <2>1, <2>2, WStepLemma, OrderStep, SeenStep
  <1>3. WInv /\ Order /\ Seen /\ [HNext]_hvars => [Store!Next]_Store!vars
    <2>1. CASE UNCHANGED hvars
      <3>1. UNCHANGED Store!vars
        BY <2>1 DEF hvars, vars, history, sync, base, Store!vars
      <3> QED BY <3>1
    <2> QED BY <2>1, StoreStep
  <1> QED BY <1>1, <1>2, <1>3, StoreInit, PTL DEF HSpec, ImplementsStore, Store!Spec

-----------------------------------------------------------------------------
(* What a transfer that nothing disturbs is told. *)

Alarm == {"CHECKSUM_FAIL", "BAD_ENTRY"}

Faithful(r, held) ==
    /\ r.sub = "BEGIN" => r.status \in {"OK", "BUSY", "EMPTY"} /\ (r.status = "OK" => r.crc = held)
    /\ r.sub = "DATA" /\ held # None => r.status = "OK" /\ r.piece = held[r.chunk]

PullTold(t) ==
    LET o == op[t]  held == entries[o.entry] IN
    o.kind = "pull" /\ ~disturbed[t] =>
      /\ \A i \in DOMAIN replies[t]: LET r == replies[t][i] IN
           r.type = "pull" /\ r.entry = o.entry => Faithful(r, held)
      /\ o.stage = "DATA" => o.crc = held /\ held # None /\ \A c \in 1..(o.chunk - 1): buf[t][c] = held[c]
      /\ o.stage \in {"DONE", "SHOW"} => o.outcome \notin Alarm

(* The packets of a push by their turn. *)
Rank(m) == IF m.type # "push" THEN 0
           ELSE IF m.sub = "BEGIN" THEN 1 ELSE IF m.sub = "DATA" THEN m.chunk + 1 ELSE Chunks + 2
Turn(o) == IF o.stage = "BEGIN" THEN 1 ELSE IF o.stage = "DATA" THEN o.chunk + 1 ELSE Chunks + 2

OwnPacket(m, o, b) ==
    m.type = "push" =>
      /\ m.entry = o.entry /\ m.sub \in {"BEGIN", "DATA", "COMMIT"} /\ Rank(m) <= Turn(o)
      /\ m.sub = "DATA" => m.piece = b[m.chunk]
      /\ m.sub = "COMMIT" => m.crc = b
OwnPackets(t) == \A i \in DOMAIN txq[t]: OwnPacket(txq[t][i], op[t], buf[t])
Ranked(q) == \A i, j \in DOMAIN q: i < j => Rank(q[i]) <= Rank(q[j])

Welcome(r, o) ==
    r.type = "push" =>
      /\ Rank(r) <= Turn(o)
      /\ r.status = "OK" \/ (r.sub = "BEGIN" /\ r.status \notin Alarm)
AllWelcome(t) == \A i \in DOMAIN replies[t]: Welcome(replies[t][i], op[t])

Acks(r, k) == r.type = "push" /\ r.status = "OK" /\ Rank(r) = k
Acked(t, k) == k < Turn(op[t]) \/ \E i \in DOMAIN replies[t]: Acks(replies[t][i], k)
Ours(t) == session.who = t /\ session.entry = op[t].entry /\ session.kind \in {"push", "pushed"}

Arrived(t, k) == k \in 2 .. (Chunks + 1) => scratch[k - 1] = buf[t][k - 1]
AckedFits(t) ==
    \A k \in 1 .. (Chunks + 2): Acked(t, k) =>
      /\ \A i \in DOMAIN txq[t]: k <= Rank(txq[t][i])
      /\ Ours(t) /\ Arrived(t, k)
Finished(t) ==
    Acked(t, 1) /\ session.kind = "pushed" =>
      op[t].stage = "COMMIT" /\ \A i \in DOMAIN txq[t]: Rank(txq[t][i]) = Chunks + 2

Pushing(t) == OwnPackets(t) /\ Ranked(txq[t]) /\ AllWelcome(t) /\ AckedFits(t) /\ Finished(t)
PushTold(t) ==
    op[t].kind = "push" /\ ~disturbed[t] =>
      IF op[t].stage = "SHOW" THEN op[t].outcome \notin Alarm ELSE Pushing(t)

Told == \A t \in Throttles: PullTold(t) /\ PushTold(t)

-----------------------------------------------------------------------------
(* Ranks and turns. *)
LEMMA RankIs ==
    ASSUME NEW m
    PROVE  /\ m.type # "push" => Rank(m) = 0
           /\ m.type = "push" /\ m.sub = "BEGIN" => Rank(m) = 1
           /\ m.type = "push" /\ m.sub = "DATA" => Rank(m) = m.chunk + 1
           /\ m.type = "push" /\ m.sub \notin {"BEGIN", "DATA"} => Rank(m) = Chunks + 2
           /\ m.chunk \in 0 .. Chunks => Rank(m) \in Nat
  BY TransferAssumption DEF Rank

(* ... of a request the throttle may send. *)
LEMMA RanksAre ==
    ASSUME NEW v, NEW m \in Requests(v)
    PROVE  /\ Rank(m) \in Nat
           /\ m.type = "push" => 1 <= Rank(m)
           /\ m.type = "push" /\ m.sub = "DATA" =>
                m.chunk \in 1 .. Chunks /\ Rank(m) \in 2 .. (Chunks + 1)
  <1>0. Chunks \in Nat \ {0}
    BY TransferAssumption
  <1>1. m \in Request /\ (m.type # "status" /\ m.sub = "DATA" => m.chunk \in 1 .. Chunks)
    BY DEF Requests
  <1>2. m.chunk \in 0 .. Chunks
    BY <1>1 DEF Request
  <1>3. m.type = "push" /\ m.sub = "DATA" => m.chunk \in 1 .. Chunks /\ Rank(m) = m.chunk + 1
    BY <1>1, RankIs
  <1>4. m.type = "push" => 1 <= Rank(m)
    BY <1>0, <1>2, <1>3, RankIs
  <1> QED BY <1>0, <1>2, <1>3, <1>4, RankIs

(* A rank is a number. *)
LEMMA ReplyRanks == \A r \in Replies: Rank(r) \in Nat
  <1> SUFFICES ASSUME NEW r \in Replies PROVE Rank(r) \in Nat
    OBVIOUS
  <1>1. r.chunk \in 0 .. Chunks
    BY DEF Replies, Reply
  <1> QED BY <1>1, RankIs

(* Buffers that agree in every chunk are the same. *)
LEMMA SameBuffers ==
    ASSUME NEW a \in Buffers, NEW b \in Buffers, \A c \in 1 .. Chunks: a[c] = b[c]
    PROVE  a = b
  <1>1. a = [c \in 1 .. Chunks |-> a[c]] /\ b = [c \in 1 .. Chunks |-> b[c]]
    BY DEF Buffers
  <1>2. [c \in 1 .. Chunks |-> a[c]] = [c \in 1 .. Chunks |-> b[c]]
    OBVIOUS
  <1> QED BY ONLY <1>1, <1>2

(* The turn of a sync is that of one of its packets. *)
LEMMA TurnIs ==
    ASSUME NEW o \in Op
    PROVE  Turn(o) \in 1 .. (Chunks + 2) /\ o.chunk \in 1 .. Chunks
  <1>1. o.chunk \in 1 .. Chunks
    BY DEF Op
  <1> QED BY <1>1, TransferAssumption DEF Turn

(* What a transfer that is not disturbed can rely on. *)
LEMMA RememberDisturbed ==
    ASSUME Remember, NEW t \in Throttles, ~disturbed'[t]
    PROVE  /\ op'[t].kind = "push" /\ op[t].kind = "push" =>
                ~disturbed[t] /\ (session.who = t => session'.who = t)
           /\ op'[t].kind = "push" /\ op[t].kind # "push" => ~Unsettled(t)'
           /\ op'[t].kind = "pull" /\ op[t].kind = "pull" =>
                ~disturbed[t] /\ entries'[op[t].entry] = entries[op[t].entry]
  <1>1. ~ \/ /\ Transfers(op'[t]) /\ Continues(t)
             /\ \/ disturbed[t]
                \/ op[t].kind = "push" /\ session.who = t /\ session'.who # t
                \/ op[t].kind = "pull" /\ entries'[op[t].entry] # entries[op[t].entry]
          \/ op'[t].kind = "push" /\ ~Continues(t) /\ Unsettled(t)'
    BY DEF Remember
  <1> QED BY <1>1 DEF Transfers, Continues

(* What the base station does to a push of its own that nothing has disturbed. *)
LEMMA ServeTold ==
    ASSUME IInv, IInv', NEW t \in Throttles, NEW h \in Requests(version[t]),
           UNCHANGED base \/ Serve(t, h), op'[t].entry = op[t].entry,
           OwnPacket(h, op[t], buf[t]),
           \A k \in 1 .. (Chunks + 2): Acked(t, k) => k <= Rank(h) /\ Ours(t) /\ Arrived(t, k),
           op[t].stage # "SHOW", op[t].stage # "DONE",
           Acked(t, 1) /\ session.kind = "pushed" => Rank(h) = Chunks + 2
    PROVE  /\ \A u \in Throttles \ {t}: replies'[u] = replies[u]
           /\ \E ok \in BOOLEAN:
                /\ \/ replies'[t] = replies[t]
                   \/ \E r \in Replies:
                        /\ r.type = h.type /\ r.sub = h.sub /\ r.chunk = h.chunk
                        /\ r.type = "push" => /\ r.status = "OK" <=> ok
                                              /\ ok \/ (r.sub = "BEGIN" /\ r.status \notin Alarm)
                        /\ replies'[t] = Append(replies[t], r)
                /\ ok => h.type = "push" /\ Ours(t)'
                /\ ok /\ h.sub = "DATA" => scratch'[h.chunk] = buf[t][h.chunk]
                /\ \A k \in 1 .. (Chunks + 2): Acked(t, k) =>
                     Ours(t)' /\ (k \in 2 .. (Chunks + 1) => scratch'[k - 1] = buf[t][k - 1])
                /\ session'.kind = "pushed" /\ (ok \/ Acked(t, 1)) => Rank(h) = Chunks + 2
  <1> DEFINE Rest == \A u \in Throttles \ {t}: replies'[u] = replies[u]
             Replied(ok) == \/ replies'[t] = replies[t]
                            \/ \E r \in Replies:
                                 /\ r.type = h.type /\ r.sub = h.sub /\ r.chunk = h.chunk
                                 /\ r.type = "push" => /\ r.status = "OK" <=> ok
                                                       /\ ok \/ (r.sub = "BEGIN" /\ r.status \notin Alarm)
                                 /\ replies'[t] = Append(replies[t], r)
             Kept1 == \A k \in 1 .. (Chunks + 2): Acked(t, k) =>
                        Ours(t)' /\ (k \in 2 .. (Chunks + 1) => scratch'[k - 1] = buf[t][k - 1])
             Goal == Rest /\ \E ok \in BOOLEAN:
                       /\ Replied(ok)
                       /\ ok => h.type = "push" /\ Ours(t)'
                       /\ ok /\ h.sub = "DATA" => scratch'[h.chunk] = buf[t][h.chunk]
                       /\ Kept1
                       /\ session'.kind = "pushed" /\ (ok \/ Acked(t, 1)) => Rank(h) = Chunks + 2
  <1>0. /\ BaseInv /\ BaseInv' /\ Chunks \in Nat \ {0} /\ 1 \in 1 .. (Chunks + 2)
        /\ Turn(op[t]) \in 1 .. (Chunks + 2)
    BY AtThrottle, TransferAssumption, TurnIs DEF IInv
  <1>A. ASSUME NEW ok \in BOOLEAN, NEW status, NEW crc, NEW piece,
               Answer(t, h, status, crc, piece), status = "OK" <=> ok,
               h.type = "push" => ok \/ (h.sub = "BEGIN" /\ status \notin Alarm)
        PROVE  Rest /\ Replied(ok)
    <2>1. Hears(t, h, status, crc, piece)
      BY <1>0, <1>A, AnswerIs
    <2> QED BY <1>A, <2>1 DEF Hears
  <1>S. (session' = session /\ scratch' = scratch) => Kept1
    BY DEF Ours, Arrived
  <1>1. CASE UNCHANGED base
    <2>1. session' = session /\ scratch' = scratch /\ replies' = replies
      BY <1>1 DEF base
    <2>2. Rest /\ Replied(FALSE) /\ Kept1
      BY <1>S, <2>1
    <2> HIDE DEF Rest, Replied, Kept1
    <2>3. Goal
      BY <2>1, <2>2
    <2> QED BY <2>3 DEF Rest, Replied, Kept1
  <1>2. CASE PullBegin(t, h) \/ PullData(t, h) \/ PullDone(t, h)
    <2>1. h.type = "pull" /\ Rank(h) = 0
      BY <1>2, RankIs, RanksAre DEF PullBegin, PullData, PullDone
    <2>2. \A k \in 1 .. (Chunks + 2): ~Acked(t, k)
      BY <2>1
    <2>3. Rest /\ Replied(FALSE)
      <3>1. \A status, crc, piece: Answer(t, h, status, crc, piece) => Rest /\ Replied(FALSE)
        <4> SUFFICES ASSUME NEW status, NEW crc, NEW piece, Answer(t, h, status, crc, piece)
                     PROVE  Rest /\ Replied(FALSE)
          OBVIOUS
        <4>1. Hears(t, h, status, crc, piece)
          BY <1>0, AnswerIs
        <4> QED BY <2>1, <4>1 DEF Hears
      <3>2. CASE PullDone(t, h)
        BY <3>2 DEF PullDone
      <3> HIDE DEF Rest, Replied
      <3>3. CASE PullBegin(t, h) \/ PullData(t, h)
        BY <3>1, <3>3 DEF PullBegin, PullData, Refuse
      <3> QED BY <1>2, <3>2, <3>3
    <2>4. Kept1
      BY <2>2
    <2> HIDE DEF Rest, Replied, Kept1
    <2>5. Goal
      BY <1>0, <2>2, <2>3, <2>4
    <2> QED BY <2>5 DEF Rest, Replied, Kept1
  <1>3. CASE PushBegin(t, h)
    <2>1. h.type = "push" /\ h.sub = "BEGIN" /\ h.entry = op[t].entry /\ Rank(h) = 1
      BY <1>3, RankIs, RanksAre DEF PushBegin, OwnPacket
    <2>2. CASE Refuse(t, h, "BUSY") \/ Refuse(t, h, "VERSION_MISMATCH")
      <3>1. session' = session /\ scratch' = scratch
        BY <2>2 DEF Refuse
      <3>2. Rest /\ Replied(FALSE)
        <4>1. \A status \in {"BUSY", "VERSION_MISMATCH"}: status # "OK" /\ status \notin Alarm
          BY DEF Alarm
        <4>2. PICK status \in {"BUSY", "VERSION_MISMATCH"}: Answer(t, h, status, None, None)
          BY <2>2 DEF Refuse
        <4> HIDE DEF Rest, Replied
        <4> QED BY <1>A, <2>1, <4>1, <4>2
      <3>3. Kept1
        BY <1>S, <3>1
      <3> HIDE DEF Rest, Replied, Kept1
      <3>4. Goal
        BY <3>1, <3>2, <3>3
      <3> QED BY <3>4 DEF Rest, Replied, Kept1
    <2>3. CASE /\ session' = [kind |-> "push", who |-> t, entry |-> h.entry, advance |-> Advances(t)]
               /\ Answer(t, h, "OK", None, None)
      <3>1. session'.kind = "push" /\ Ours(t)'
        BY <2>1, <2>3 DEF Ours
      <3>2. Rest /\ Replied(TRUE)
        <4> HIDE DEF Rest, Replied
        <4> QED BY <1>A, <2>3
      <3>3. Kept1
        <4>1. \A k \in 2 .. (Chunks + 1): k \in 1 .. (Chunks + 2) /\ ~(k <= 1)
          BY <1>0
        <4> QED BY <2>1, <3>1, <4>1
      <3> HIDE DEF Rest, Replied, Kept1
      <3>4. Goal
        BY <2>1, <3>1, <3>2, <3>3
      <3> QED BY <3>4 DEF Rest, Replied, Kept1
    <2> QED BY <1>3, <2>2, <2>3 DEF PushBegin
  <1>4. CASE PushData(t, h)
    <2>1. /\ h.type = "push" /\ h.sub = "DATA" /\ h.entry = op[t].entry /\ h.piece = buf[t][h.chunk]
          /\ h.chunk \in 1 .. Chunks /\ Rank(h) = h.chunk + 1 /\ Rank(h) <= Turn(op[t])
      BY <1>4, RankIs, RanksAre DEF PushData, OwnPacket
    <2>2. Acked(t, 1)
      <3>1. 1 < Turn(op[t])
        BY <1>0, <2>1
      <3> QED BY <3>1 DEF Acked
    <2>3. Ours(t) /\ session.kind # "pushed"
      <3>1. Rank(h) # Chunks + 2
        BY <1>0, <2>1
      <3> QED BY <1>0, <2>2, <3>1
    <2>4. Serves(t, h, {"push"})
      BY <2>1, <2>3 DEF Serves, Ours
    <2>5. /\ scratch' = [scratch EXCEPT ![h.chunk] = h.piece] /\ session' = session
          /\ Answer(t, h, "OK", None, None)
      BY <1>4, <2>4 DEF PushData
    <2>6. DOMAIN scratch = 1 .. Chunks
      BY <1>0 DEF BaseInv, Buffers
    <2>7. scratch'[h.chunk] = buf[t][h.chunk]
      BY <2>1, <2>5, <2>6
    <2>8. Ours(t)'
      BY <2>3, <2>5 DEF Ours
    <2>9. Kept1
      <3> SUFFICES ASSUME NEW k \in 1 .. (Chunks + 2), Acked(t, k), k \in 2 .. (Chunks + 1)
                   PROVE  scratch'[k - 1] = buf[t][k - 1]
        BY <2>8
      <3>1. scratch[k - 1] = buf[t][k - 1]
        BY DEF Arrived
      <3>2. k - 1 \in 1 .. Chunks
        BY <1>0
      <3> QED BY <2>1, <2>5, <2>6, <3>1, <3>2
    <2>10. Rest /\ Replied(TRUE)
      <3> HIDE DEF Rest, Replied
      <3> QED BY <1>A, <2>5
    <2> HIDE DEF Rest, Replied, Kept1
    <2>11. Goal
      BY <2>1, <2>3, <2>5, <2>7, <2>8, <2>9, <2>10
    <2> QED BY <2>11 DEF Rest, Replied, Kept1
  <1>5. CASE PushCommit(t, h)
    <2>1. /\ h.type = "push" /\ h.sub = "COMMIT" /\ h.entry = op[t].entry /\ h.crc = buf[t]
          /\ Rank(h) = Chunks + 2 /\ Rank(h) <= Turn(op[t])
      BY <1>5, RankIs, RanksAre DEF PushCommit, OwnPacket
    <2>2. \A k \in 1 .. (Chunks + 1): Acked(t, k) /\ k \in 1 .. (Chunks + 2)
      <3>1. \A k \in 1 .. (Chunks + 1): k < Turn(op[t]) /\ k \in 1 .. (Chunks + 2)
        BY <1>0, <2>1
      <3> QED BY <3>1 DEF Acked
    <2>3. Ours(t)
      <3>1. 1 \in 1 .. (Chunks + 1)
        BY <1>0
      <3> QED BY <2>2, <3>1
    <2>4. scratch = buf[t]
      <3>1. scratch \in Buffers /\ buf[t] \in Buffers
        BY <1>0, AtThrottle DEF BaseInv
      <3>2. ASSUME NEW c \in 1 .. Chunks PROVE scratch[c] = buf[t][c]
        <4>1. c + 1 \in 1 .. (Chunks + 1) /\ c + 1 \in 2 .. (Chunks + 1) /\ (c + 1) - 1 = c
          BY <1>0
        <4>2. Arrived(t, c + 1)
          BY <2>2, <4>1
        <4>3. scratch[(c + 1) - 1] = buf[t][(c + 1) - 1]
          BY <4>1, <4>2 DEF Arrived
        <4> QED BY <4>1, <4>3
      <3> QED BY <3>1, <3>2, SameBuffers
    <2>5. Serves(t, h, {"push", "pushed"})
      BY <2>1, <2>3 DEF Serves, Ours
    <2>6. /\ session' = [session EXCEPT !.kind = "pushed"] /\ scratch' = scratch
          /\ Answer(t, h, "OK", None, None)
      BY <1>5, <2>1, <2>4, <2>5 DEF PushCommit
    <2>7. session'.who = session.who /\ session'.entry = session.entry /\ session'.kind = "pushed"
      BY <1>0, <2>6 DEF BaseInv, Session
    <2>8. Ours(t)'
      BY <2>3, <2>7 DEF Ours
    <2>9. Kept1
      BY <2>6, <2>8 DEF Arrived
    <2>10. Rest /\ Replied(TRUE)
      <3> HIDE DEF Rest, Replied
      <3> QED BY <1>A, <2>6
    <2> HIDE DEF Rest, Replied, Kept1
    <2>11. Goal
      BY <2>1, <2>8, <2>9, <2>10
    <2> QED BY <2>11 DEF Rest, Replied, Kept1
  <1> QED BY <1>1, <1>2, <1>3, <1>4, <1>5 DEF Serve

(* What may happen to another throttle's push. *)
LEMMA OthersLeave ==
    ASSUME NEW t \in Throttles, NEW u \in Throttles \ {t}, NEW m,
           UNCHANGED base \/ Serve(t, m), session.who = u, session'.who = u
    PROVE  session' = session /\ scratch' = scratch
  <1>1. CASE UNCHANGED base
    BY <1>1 DEF base
  <1>2. ~Serves(t, m, {"push"}) /\ ~Serves(t, m, {"push", "pushed"}) /\ ~Serves(t, m, {"pull"})
    BY DEF Serves
  <1>3. CASE PushBegin(t, m) \/ PullBegin(t, m)
    BY <1>3 DEF PushBegin, PullBegin, Refuse
  <1>4. CASE PushData(t, m) \/ PushCommit(t, m) \/ PullData(t, m) \/ PullDone(t, m)
    BY <1>2, <1>4 DEF PushData, PushCommit, PullData, PullDone, Refuse
  <1> QED BY <1>1, <1>3, <1>4 DEF Serve

(* The base station serves others, or forgets a transfer of theirs. *)
LEMMA UntouchedTold ==
    ASSUME Told, Remember, NEW u \in Throttles,
           op'[u] = op[u], txq'[u] = txq[u], replies'[u] = replies[u], buf'[u] = buf[u],
           session.who = u /\ session'.who = u => session' = session /\ scratch' = scratch
    PROVE  PushTold(u)' /\ PullTold(u)'
  <1>1. op'[u] = op[u] /\ txq'[u] = txq[u] /\ replies'[u] = replies[u] /\ buf'[u] = buf[u]
    OBVIOUS
  <1>2. PushTold(u) /\ PullTold(u)
    BY DEF Told
  <1>3. PushTold(u)'
    <2> SUFFICES ASSUME op'[u].kind = "push", ~disturbed'[u]
                 PROVE  IF op'[u].stage = "SHOW" THEN op'[u].outcome \notin Alarm ELSE Pushing(u)'
      BY DEF PushTold
    <2>1. op[u].kind = "push" /\ ~disturbed[u] /\ (session.who = u => session'.who = u)
      BY <1>1, RememberDisturbed
    <2>2. CASE op[u].stage = "SHOW"
      BY <1>1, <1>2, <2>1, <2>2 DEF PushTold
    <2>3. CASE op[u].stage # "SHOW"
      <3>1. Pushing(u)
        BY <1>2, <2>1, <2>3 DEF PushTold
      <3>2. OwnPackets(u)' /\ Ranked(txq[u])' /\ AllWelcome(u)'
        BY <1>1, <3>1 DEF Pushing, OwnPackets, Ranked, AllWelcome
      <3>3. \A k: Acked(u, k)' <=> Acked(u, k)
        BY <1>1 DEF Acked
      <3>4. Ours(u) => session' = session /\ scratch' = scratch
        BY <2>1 DEF Ours
      <3>5. AckedFits(u)'
        BY <1>1, <3>1, <3>3, <3>4 DEF Pushing, AckedFits, Ours, Arrived
      <3>6. Finished(u)'
        <4>1. 1 \in 1 .. (Chunks + 2)
          BY TransferAssumption
        <4>2. Acked(u, 1) => Ours(u)
          BY <3>1, <4>1 DEF Pushing, AckedFits
        <4> QED BY <1>1, <3>1, <3>3, <3>4, <4>2 DEF Pushing, Finished
      <3> QED BY <1>1, <2>3, <3>2, <3>5, <3>6 DEF Pushing
    <2> QED BY <2>2, <2>3
  <1>4. PullTold(u)'
    <2> SUFFICES ASSUME op'[u].kind = "pull", ~disturbed'[u]
                 PROVE  PullTold(u)'
      BY DEF PullTold
    <2>1. op[u].kind = "pull" /\ ~disturbed[u] /\ entries'[op[u].entry] = entries[op[u].entry]
      BY <1>1, RememberDisturbed
    <2> QED BY <1>1, <1>2, <2>1 DEF PullTold
  <1> QED BY <1>3, <1>4

(* It is enough to look at the throttle that moves. *)
LEMMA ToldOfOne ==
    ASSUME Told, Remember, NEW t \in Throttles,
           \A u \in Throttles \ {t}: op'[u] = op[u] /\ txq'[u] = txq[u] /\ replies'[u] = replies[u]
                                    /\ buf'[u] = buf[u],
           \A u \in Throttles \ {t}: session.who = u /\ session'.who = u =>
              session' = session /\ scratch' = scratch,
           PushTold(t)', PullTold(t)'
    PROVE  Told'
  <1> SUFFICES ASSUME NEW u \in Throttles \ {t}
               PROVE  PushTold(u)' /\ PullTold(u)'
    BY DEF Told
  <1> QED BY UntouchedTold

(* The attempt of a push. *)
LEMMA AttemptPushes ==
    ASSUME IInv, IInv', Order, NEW t \in Throttles, Attempt(t), NEW h \in Requests(version[t]),
           Sends(t, h), op[t].kind = "push", Pushing(t)
    PROVE  Pushing(t)'
  <1> DEFINE o == op[t]  b == buf[t]  m == Asked(o, b)  q == txq[t]  s == txq'[t]
  <1>1. /\ o.stage \in {"BEGIN", "DATA", "COMMIT"} /\ buf' = buf
        /\ Kept(t) /\ At(t, o.stage, o.chunk)
    BY AttemptDoes
  <1>2. /\ UNCHANGED base \/ Serve(t, h)
        /\ h = IF q = <<>> THEN m ELSE q[1]
        /\ DOMAIN s = 1 .. Len(s) /\ Len(s) = IF Len(q) < QueueDepth THEN Len(q) ELSE Len(q) - 1
        /\ \A i \in DOMAIN s: s[i] = IF i < Len(q) THEN q[i + 1] ELSE m
    BY DEF Sends
  <1>3. /\ q \in Seq(Requests(version[t])) /\ Len(q) \in Nat /\ DOMAIN q = 1 .. Len(q)
        /\ Chunks \in Nat \ {0} /\ Turn(o) \in 1 .. (Chunks + 2) /\ o.chunk \in 1 .. Chunks
        /\ QueueDepth \in Nat
    BY AtThrottle, OrderAt, TurnIs, TransferAssumption DEF QueuesFit
  <1>4. OwnPackets(t) /\ Ranked(q) /\ AllWelcome(t) /\ AckedFits(t) /\ Finished(t)
    BY DEF Pushing
  <1>M. /\ m.type = "push" /\ m.sub = o.stage /\ m.entry = o.entry
        /\ o.stage = "DATA" => m.chunk = o.chunk /\ m.piece = b[o.chunk]
        /\ o.stage = "COMMIT" => m.crc = b
    BY DEF Asked, Wire
  <1>5. Rank(m) = Turn(o)
    BY <1>1, <1>M, RankIs DEF Turn
  <1>6. OwnPacket(m, o, b)
    BY <1>1, <1>3, <1>5, <1>M DEF OwnPacket
  <1>Q. m \in Requests(version[t])
    BY AtThrottle, AskedFits, <1>1
  <1>7. \A x \in Requests(version[t]): OwnPacket(x, o, b) => Rank(x) \in Nat /\ Rank(x) <= Turn(o)
    <2> SUFFICES ASSUME NEW x \in Requests(version[t]), OwnPacket(x, o, b)
                 PROVE  Rank(x) \in Nat /\ Rank(x) <= Turn(o)
      OBVIOUS
    <2>1. Rank(x) \in Nat /\ (x.type # "push" => Rank(x) = 0)
      BY RanksAre, RankIs
    <2>2. x.type = "push" => Rank(x) <= Turn(o)
      BY DEF OwnPacket
    <2> QED BY <1>3, <2>1, <2>2
  <1>8. \A i \in DOMAIN q: q[i] \in Requests(version[t]) /\ OwnPacket(q[i], o, b)
                           /\ Rank(q[i]) \in Nat /\ Rank(q[i]) <= Turn(o)
    BY <1>3, <1>4, <1>7 DEF OwnPackets
  <1>L. Len(s) \in Nat
    BY DEF IInv, QueuesFit
  <1>E. q = <<>> <=> Len(q) = 0
    BY <1>3
  <1> HIDE DEF m, o, b, q, s
  <1>N. ASSUME NEW i \in DOMAIN s
        PROVE  /\ i \in Nat \ {0} /\ Len(q) # 0
               /\ i < Len(q) => i + 1 \in 1 .. Len(q)
               /\ ~(i < Len(q)) => i = Len(q)
    <2>1. i \in 1 .. Len(s)
      BY <1>2
    <2>2. Len(s) = (IF Len(q) < QueueDepth THEN Len(q) ELSE Len(q) - 1) /\ Len(q) \in Nat
          /\ QueueDepth \in Nat
      BY <1>2, <1>3
    <2> QED BY ONLY <1>L, <2>1, <2>2
  <1>9. \A i \in DOMAIN s: (i < Len(q) /\ i + 1 \in DOMAIN q /\ s[i] = q[i + 1])
                           \/ (~(i < Len(q)) /\ i = Len(q) /\ s[i] = m)
    BY <1>2, <1>3, <1>N
  <1>10. q # <<>> => 1 \in DOMAIN q /\ h = q[1]
    <2>1. Len(q) # 0 => 1 \in 1 .. Len(q)
      BY ONLY <1>3
    <2> QED BY <1>2, <1>3, <1>E, <2>1
  <1>11. OwnPacket(h, o, b) /\ Rank(h) \in Nat /\ Rank(h) <= Turn(o)
    BY <1>2, <1>6, <1>7, <1>8, <1>10, <1>Q
  <1>12. \A i \in DOMAIN s: OwnPacket(s[i], o, b) /\ Rank(s[i]) \in Nat /\ Rank(s[i]) <= Turn(o)
    BY <1>6, <1>7, <1>8, <1>9, <1>Q
  <1>13. \A i \in DOMAIN s: Rank(h) <= Rank(s[i])
    <2> SUFFICES ASSUME NEW i \in DOMAIN s PROVE Rank(h) <= Rank(s[i])
      OBVIOUS
    <2>1. CASE s[i] = m
      BY <1>5, <1>11, <2>1
    <2>2. CASE i < Len(q) /\ i + 1 \in DOMAIN q /\ s[i] = q[i + 1]
      <3>1. q # <<>> /\ i \in Nat \ {0}
        BY <1>E, <1>N
      <3>2. 1 \in DOMAIN q /\ h = q[1] /\ 1 < i + 1
        BY <1>10, <3>1
      <3> QED BY <1>4, <2>2, <3>2 DEF Ranked
    <2> QED BY <1>9, <2>1, <2>2
  <1>14. Ranked(s)
    <2> SUFFICES ASSUME NEW i \in DOMAIN s, NEW j \in DOMAIN s, i < j
                 PROVE  Rank(s[i]) <= Rank(s[j])
      BY DEF Ranked
    <2>1. CASE s[j] = m
      BY <1>5, <1>12, <2>1
    <2>2. CASE j < Len(q) /\ j + 1 \in DOMAIN q /\ s[j] = q[j + 1]
      <3>1. i < Len(q) /\ i + 1 < j + 1
        <4>1. i \in Nat /\ j \in Nat /\ i < j /\ j < Len(q) /\ Len(q) \in Nat
          BY <1>3, <1>N, <2>2
        <4> QED BY ONLY <4>1
      <3>2. i + 1 \in DOMAIN q /\ s[i] = q[i + 1]
        BY <1>9, <3>1
      <3> QED BY <1>4, <2>2, <3>1, <3>2 DEF Ranked
    <2> QED BY <1>9, <2>1, <2>2
  <1>15. \A k \in 1 .. (Chunks + 2): Acked(t, k) => k <= Rank(h) /\ Ours(t) /\ Arrived(t, k)
    <2> SUFFICES ASSUME NEW k \in 1 .. (Chunks + 2), Acked(t, k)
                 PROVE  k <= Rank(h) /\ Ours(t) /\ Arrived(t, k)
      OBVIOUS
    <2>1. Ours(t) /\ Arrived(t, k) /\ \A i \in DOMAIN q: k <= Rank(q[i])
      BY <1>4 DEF AckedFits, q
    <2>2. k <= Turn(o)
      <3>1. CASE k < Turn(op[t])
        BY <1>3, <3>1 DEF o
      <3>2. CASE \E i \in DOMAIN replies[t]: Acks(replies[t][i], k)
        <4>1. PICK i \in DOMAIN replies[t]: Acks(replies[t][i], k)
          BY <3>2
        <4>2. Welcome(replies[t][i], op[t])
          BY <1>4 DEF AllWelcome
        <4> QED BY <4>1, <4>2 DEF Acks, Welcome, o
      <3> QED BY <3>1, <3>2 DEF Acked
    <2>3. k <= Rank(h)
      BY <1>2, <1>5, <1>10, <2>1, <2>2
    <2> QED BY <2>1, <2>3
  <1>16. Acked(t, 1) /\ session.kind = "pushed" => Rank(h) = Chunks + 2
    <2> SUFFICES ASSUME Acked(t, 1), session.kind = "pushed" PROVE Rank(h) = Chunks + 2
      OBVIOUS
    <2>1. o.stage = "COMMIT" /\ \A i \in DOMAIN q: Rank(q[i]) = Chunks + 2
      BY <1>4 DEF Finished, q, o
    <2>2. Turn(o) = Chunks + 2
      BY <2>1 DEF Turn
    <2> QED BY <1>2, <1>5, <1>10, <2>1, <2>2
  <1>17. /\ op'[t].entry = op[t].entry /\ op[t].stage # "SHOW" /\ op[t].stage # "DONE"
         /\ OwnPacket(h, op[t], buf[t])
    BY <1>1, <1>11 DEF Kept, o, b
  <1>18. PICK ok \in BOOLEAN:
                /\ \/ replies'[t] = replies[t]
                   \/ \E r \in Replies:
                        /\ r.type = h.type /\ r.sub = h.sub /\ r.chunk = h.chunk
                        /\ r.type = "push" => /\ r.status = "OK" <=> ok
                                              /\ ok \/ (r.sub = "BEGIN" /\ r.status \notin Alarm)
                        /\ replies'[t] = Append(replies[t], r)
                /\ ok => h.type = "push" /\ Ours(t)'
                /\ ok /\ h.sub = "DATA" => scratch'[h.chunk] = buf[t][h.chunk]
                /\ \A k \in 1 .. (Chunks + 2): Acked(t, k) =>
                     Ours(t)' /\ (k \in 2 .. (Chunks + 1) => scratch'[k - 1] = buf[t][k - 1])
                /\ session'.kind = "pushed" /\ (ok \/ Acked(t, 1)) => Rank(h) = Chunks + 2
    BY <1>2, <1>15, <1>16, <1>17, ServeTold
  <1>19. \A r: r.type = h.type /\ r.sub = h.sub /\ r.chunk = h.chunk => Rank(r) = Rank(h)
    BY DEF Rank
  <1>T. Turn(op'[t]) = Turn(op[t]) /\ Turn(o) = Turn(op[t])
    BY <1>1 DEF Turn, At, o
  <1>R. ASSUME NEW i \in DOMAIN replies'[t]
        PROVE  \/ \E j \in DOMAIN replies[t]: replies'[t][i] = replies[t][j]
               \/ /\ Rank(replies'[t][i]) = Rank(h)
                  /\ replies'[t][i].type = "push" =>
                       /\ replies'[t][i].status = "OK" <=> ok
                       /\ ok \/ (replies'[t][i].sub = "BEGIN" /\ replies'[t][i].status \notin Alarm)
    <2>1. CASE replies'[t] = replies[t]
      BY <2>1
    <2>2. ASSUME NEW r \in Replies, r.type = h.type, r.sub = h.sub, r.chunk = h.chunk,
                 r.type = "push" => /\ r.status = "OK" <=> ok
                                    /\ ok \/ (r.sub = "BEGIN" /\ r.status \notin Alarm),
                 replies'[t] = Append(replies[t], r)
          PROVE  \/ \E j \in DOMAIN replies[t]: replies'[t][i] = replies[t][j]
                 \/ /\ Rank(replies'[t][i]) = Rank(h)
                    /\ replies'[t][i].type = "push" =>
                         /\ replies'[t][i].status = "OK" <=> ok
                         /\ ok \/ (replies'[t][i].sub = "BEGIN" /\ replies'[t][i].status \notin Alarm)
      <3>1. replies[t] \in Seq(Replies)
        BY OrderAt
      <3>2. (\E j \in DOMAIN replies[t]: replies'[t][i] = replies[t][j]) \/ replies'[t][i] = r
        BY <2>2, <3>1, AppendOrder
      <3>3. Rank(r) = Rank(h)
        BY <1>19, <2>2
      <3> QED BY <2>2, <3>2, <3>3
    <2> QED BY <1>18, <2>1, <2>2
  <1>20. OwnPackets(t)'
    <2> SUFFICES ASSUME NEW i \in DOMAIN s PROVE OwnPacket(s[i], op'[t], buf'[t])
      BY DEF OwnPackets, s, OwnPacket, Turn
    <2> QED BY <1>1, <1>12, <1>T DEF OwnPacket, Kept, o, b
  <1>21. AllWelcome(t)'
    <2> SUFFICES ASSUME NEW i \in DOMAIN replies'[t] PROVE Welcome(replies'[t][i], op'[t])
      BY DEF AllWelcome, Welcome, Turn
    <2>1. \A j \in DOMAIN replies[t]: Welcome(replies[t][j], op[t])
      BY <1>4 DEF AllWelcome
    <2> QED BY <1>11, <1>R, <1>T, <2>1 DEF Welcome
  <1>22. ASSUME NEW k \in 1 .. (Chunks + 2), Acked(t, k)'
         PROVE  Acked(t, k) \/ (ok /\ k = Rank(h))
    <2>1. k < Turn(op'[t]) \/ \E i \in DOMAIN replies'[t]: Acks(replies'[t][i], k)
      BY <1>22 DEF Acked, Turn, Acks
    <2>2. ASSUME NEW i \in DOMAIN replies'[t], Acks(replies'[t][i], k)
          PROVE  Acked(t, k) \/ (ok /\ k = Rank(h))
      BY <1>R, <2>2 DEF Acks, Acked
    <2> QED BY <1>T, <2>1, <2>2 DEF Acked
  <1>23. AckedFits(t)'
    <2> SUFFICES ASSUME NEW k \in 1 .. (Chunks + 2), Acked(t, k)'
                 PROVE  (\A i \in DOMAIN s: k <= Rank(s[i])) /\ Ours(t)' /\ Arrived(t, k)'
      BY DEF AckedFits, s
    <2>1. k <= Rank(h)
      BY <1>11, <1>15, <1>22
    <2>2. \A i \in DOMAIN s: k <= Rank(s[i])
      BY <1>11, <1>12, <1>13, <2>1
    <2>3. Ours(t)'
      BY <1>18, <1>22
    <2>4. ASSUME k \in 2 .. (Chunks + 1) PROVE scratch'[k - 1] = buf[t][k - 1]
      <3>1. CASE Acked(t, k)
        BY <1>18, <2>4, <3>1
      <3>2. CASE ok /\ k = Rank(h)
        <4>1. h.type = "push" /\ h.sub = "DATA" /\ h.chunk = k - 1
          <5>1. h.type = "push"
            BY <1>18, <3>2
          <5>2. /\ h.sub = "BEGIN" => Rank(h) = 1
                /\ h.sub = "DATA" => Rank(h) = h.chunk + 1 /\ h.chunk \in 1 .. Chunks
                /\ h.sub \notin {"BEGIN", "DATA"} => Rank(h) = Chunks + 2
            BY <5>1, RankIs, RanksAre
          <5> QED BY <1>3, <2>4, <3>2, <5>1, <5>2
        <4> QED BY <1>18, <3>2, <4>1
      <3> QED BY <1>22, <3>1, <3>2
    <2>5. Arrived(t, k)'
      BY <1>1, <2>4 DEF Arrived
    <2> QED BY <2>2, <2>3, <2>5
  <1>24. Finished(t)'
    <2> SUFFICES ASSUME Acked(t, 1)', session'.kind = "pushed"
                 PROVE  op'[t].stage = "COMMIT" /\ \A i \in DOMAIN s: Rank(s[i]) = Chunks + 2
      BY DEF Finished, s
    <2>1. Rank(h) = Chunks + 2
      <3>1. 1 \in 1 .. (Chunks + 2)
        BY <1>3
      <3>2. Acked(t, 1) \/ ok
        BY <1>22, <3>1
      <3> QED BY <1>18, <3>2
    <2>2. \A i \in DOMAIN s: Rank(s[i]) = Chunks + 2
      BY <1>3, <1>12, <1>13, <2>1
    <2>3. o.stage = "COMMIT"
      <3>1. Turn(o) = Chunks + 2
        BY <1>3, <1>11, <2>1
      <3>2. o.stage # "BEGIN" /\ o.stage # "DATA"
        BY <1>3, <3>1 DEF Turn
      <3> QED BY <1>1, <3>2
    <2> QED BY <1>1, <2>2, <2>3 DEF At, o
  <1> QED BY <1>14, <1>20, <1>21, <1>23, <1>24 DEF Pushing, s

(* How a transfer goes on when a reply is taken or does not come. *)
PushGoesOn(t) ==
    IF op'[t].stage = "SHOW" THEN op'[t].outcome \notin Alarm
    ELSE /\ Turn(op[t]) <= Turn(op'[t]) /\ (op[t].stage = "COMMIT" => op'[t].stage = "COMMIT")
         /\ \A k \in 1 .. (Chunks + 2): k < Turn(op'[t]) => Acked(t, k)

PullGoesOn(t) ==
    LET held == entries[op[t].entry] IN
    /\ op'[t].stage = "DATA" =>
         op'[t].crc = held /\ held # None /\ \A c \in 1 .. (op'[t].chunk - 1): buf'[t][c] = held[c]
    /\ op'[t].stage \in {"DONE", "SHOW"} => op'[t].outcome \notin Alarm

(* A push that goes on by one packet, which has been acknowledged. *)
LEMMA PushTakes ==
    ASSUME IInv, IInv', NEW t \in Throttles, Pushing(t), Kept(t), buf'[t] = buf[t],
           txq'[t] = txq[t], session' = session, scratch' = scratch,
           \A i \in DOMAIN replies'[t]: \E j \in DOMAIN replies[t]: replies'[t][i] = replies[t][j],
           PushGoesOn(t), op'[t].stage # "SHOW"
    PROVE  Pushing(t)'
  <1>0. /\ txq[t] \in Seq(Requests(version[t])) /\ replies[t] \in Seq(Replies)
        /\ Turn(op[t]) \in Nat /\ Turn(op'[t]) \in Nat
    <2>1. op[t] \in Op /\ op'[t] \in Op
      BY AtThrottle DEF IInv, OpsFit
    <2>2. Turn(op[t]) \in 1 .. (Chunks + 2) /\ Turn(op'[t]) \in 1 .. (Chunks + 2)
      BY <2>1, TurnIs
    <2> QED BY <2>2, AtThrottle, TransferAssumption DEF QueuesFit, BaseInv
  <1>1. /\ OwnPackets(t) /\ Ranked(txq[t]) /\ AllWelcome(t) /\ AckedFits(t) /\ Finished(t)
    BY DEF Pushing
  <1>2. /\ Turn(op[t]) <= Turn(op'[t]) /\ (op[t].stage = "COMMIT" => op'[t].stage = "COMMIT")
        /\ \A k \in 1 .. (Chunks + 2): k < Turn(op'[t]) => Acked(t, k)
    BY DEF PushGoesOn
  <1>3. OwnPackets(t)'
    <2> SUFFICES ASSUME NEW i \in DOMAIN txq[t], txq[t][i].type = "push"
                 PROVE  OwnPacket(txq[t][i], op'[t], buf'[t])
      BY DEF OwnPackets, OwnPacket, Turn
    <2>1. OwnPacket(txq[t][i], op[t], buf[t])
      BY <1>1 DEF OwnPackets
    <2>2. Rank(txq[t][i]) \in Nat
      BY <1>0, RanksAre
    <2>3. Rank(txq[t][i]) <= Turn(op'[t])
      BY <1>0, <1>2, <2>1, <2>2 DEF OwnPacket
    <2> QED BY <2>1, <2>3 DEF OwnPacket, Kept
  <1>4. AllWelcome(t)'
    <2> SUFFICES ASSUME NEW i \in DOMAIN replies'[t] PROVE Welcome(replies'[t][i], op'[t])
      BY DEF AllWelcome, Welcome, Turn
    <2>1. PICK j \in DOMAIN replies[t]: replies'[t][i] = replies[t][j]
      OBVIOUS
    <2>2. Welcome(replies[t][j], op[t])
      BY <1>1 DEF AllWelcome
    <2>3. Rank(replies[t][j]) \in Nat
      BY <1>0, ReplyRanks
    <2> QED BY <1>0, <1>2, <2>1, <2>2, <2>3 DEF Welcome
  <1>5. \A k \in 1 .. (Chunks + 2): Acked(t, k)' => Acked(t, k)
    <2> SUFFICES ASSUME NEW k \in 1 .. (Chunks + 2), Acked(t, k)' PROVE Acked(t, k)
      OBVIOUS
    <2>1. k < Turn(op'[t]) \/ \E i \in DOMAIN replies'[t]: Acks(replies'[t][i], k)
      BY DEF Acked, Turn, Acks
    <2>2. (\E i \in DOMAIN replies'[t]: Acks(replies'[t][i], k))
            => \E i \in DOMAIN replies[t]: Acks(replies[t][i], k)
      OBVIOUS
    <2> QED BY <1>2, <2>1, <2>2 DEF Acked
  <1>6. Ours(t)' <=> Ours(t)
    BY DEF Ours, Kept
  <1>7. \A k: Arrived(t, k)' <=> Arrived(t, k)
    BY DEF Arrived
  <1>8. AckedFits(t)'
    BY <1>1, <1>5, <1>6, <1>7 DEF AckedFits
  <1>9. Finished(t)'
    <2>1. 1 \in 1 .. (Chunks + 2)
      BY TransferAssumption
    <2> QED BY <1>1, <1>2, <1>5, <2>1 DEF Finished
  <1> QED BY <1>1, <1>3, <1>4, <1>8, <1>9 DEF Pushing

(* A pull that goes on, with replies it has or that are faithful. *)
LEMMA PullGoes ==
    ASSUME NEW t \in Throttles, PullTold(t), Remember, Kept(t), op[t].kind = "pull",
           ~disturbed[t] => PullGoesOn(t),
           \A i \in DOMAIN replies'[t]:
             \/ \E j \in DOMAIN replies[t]: replies'[t][i] = replies[t][j]
             \/ replies'[t][i].type = "pull" /\ replies'[t][i].entry = op[t].entry =>
                  Faithful(replies'[t][i], entries'[op[t].entry])
    PROVE  PullTold(t)'
  <1> SUFFICES ASSUME ~disturbed'[t] PROVE PullTold(t)'
    BY DEF PullTold
  <1>1. op'[t].kind = "pull" /\ op'[t].entry = op[t].entry
    BY DEF Kept
  <1>2. ~disturbed[t] /\ entries'[op[t].entry] = entries[op[t].entry]
    BY <1>1, RememberDisturbed
  <1>3. \A j \in DOMAIN replies[t]: replies[t][j].type = "pull" /\ replies[t][j].entry = op[t].entry =>
          Faithful(replies[t][j], entries[op[t].entry])
    BY <1>2 DEF PullTold
  <1> QED BY <1>1, <1>2, <1>3 DEF PullTold, PullGoesOn

(* The transfer goes on with the queue as it was. *)
LEMMA KeptTold ==
    ASSUME IInv, IInv', Told, Remember, NEW t \in Throttles, Kept(t),
           op[t].stage # "SHOW", txq' = txq, entries' = entries, session' = session, scratch' = scratch,
           \A u \in Throttles \ {t}: op'[u] = op[u] /\ replies'[u] = replies[u] /\ buf'[u] = buf[u],
           replies'[t] = replies[t] \/ (replies[t] # <<>> /\ replies'[t] = Tail(replies[t])),
           op[t].kind = "push" => buf'[t] = buf[t] /\ (Pushing(t) => PushGoesOn(t)),
           op[t].kind = "pull" /\ ~disturbed[t] => PullGoesOn(t)
    PROVE  Told'
  <1>0. PushTold(t) /\ PullTold(t) /\ replies[t] \in Seq(Replies)
    BY AtThrottle DEF Told, BaseInv
  <1>1. \A i \in DOMAIN replies'[t]: \E j \in DOMAIN replies[t]: replies'[t][i] = replies[t][j]
    <2>1. CASE replies'[t] = replies[t]
      BY <2>1
    <2>2. CASE replies[t] # <<>> /\ replies'[t] = Tail(replies[t])
      BY <1>0, <2>2, TailOrder
    <2> QED BY <2>1, <2>2
  <1>2. PushTold(t)'
    <2> SUFFICES ASSUME op'[t].kind = "push", ~disturbed'[t]
                 PROVE  IF op'[t].stage = "SHOW" THEN op'[t].outcome \notin Alarm ELSE Pushing(t)'
      BY DEF PushTold
    <2>1. op[t].kind = "push" /\ ~disturbed[t]
      BY RememberDisturbed DEF Kept
    <2>2. Pushing(t)
      BY <1>0, <2>1 DEF PushTold
    <2>3. PushGoesOn(t) /\ buf'[t] = buf[t] /\ txq'[t] = txq[t]
      BY <2>1, <2>2
    <2>4. CASE op'[t].stage = "SHOW"
      BY <2>3, <2>4 DEF PushGoesOn
    <2>5. CASE op'[t].stage # "SHOW"
      BY <1>1, <2>2, <2>3, <2>5, PushTakes
    <2> QED BY <2>4, <2>5
  <1>3. PullTold(t)'
    <2>1. CASE op[t].kind = "pull"
      BY <1>0, <1>1, <2>1, PullGoes
    <2>2. CASE op[t].kind # "pull"
      BY <2>2 DEF PullTold, Kept
    <2> QED BY <2>1, <2>2
  <1> QED BY <1>2, <1>3, ToldOfOne

(* One lemma per action: nothing came in time. *)
LEMMA TimeOutTold ==
    ASSUME IInv, IInv', Order, Told, Remember, NEW t \in Throttles, TimeOut(t)
    PROVE  Told'
  <1>0. /\ txq' = txq /\ replies' = replies /\ buf' = buf /\ entries' = entries
        /\ session' = session /\ scratch' = scratch
        /\ op[t].kind # "none" /\ op[t].stage \in {"BEGIN", "DATA", "COMMIT"}
        /\ PullTold(t) /\ op[t] \in Op
    BY AtThrottle DEF TimeOut, base, OpFits, Told
  <1>1. CASE op' = Retried(t)
    <2>1. /\ Kept(t) /\ At(t, op[t].stage, op[t].chunk) /\ SameResult(t)
          /\ \A u \in Throttles \ {t}: op'[u] = op[u]
      BY <1>1, RetriedDoes
    <2>2. /\ Turn(op'[t]) = Turn(op[t]) /\ Turn(op[t]) \in Nat
          /\ op'[t].stage = op[t].stage /\ op'[t].chunk = op[t].chunk
      BY <1>0, <2>1, TurnIs, TransferAssumption DEF Turn, At
    <2>3. PushGoesOn(t)
      BY <1>0, <2>2 DEF PushGoesOn, Acked
    <2>4. op[t].kind = "pull" /\ ~disturbed[t] => PullGoesOn(t)
      BY <1>0, <2>1, <2>2 DEF PullTold, PullGoesOn, SameResult
    <2> QED BY <1>0, <2>1, <2>3, <2>4, KeptTold
  <1>2. CASE ~(op' = Retried(t))
    <2> DEFINE stage == IF op[t].kind = "query" /\ op[t].stage = "DATA" THEN "DONE" ELSE "SHOW"
    <2>1. Ends(t, stage, Silence[op[t].stage])
      BY <1>2 DEF TimeOut
    <2>2. /\ Kept(t) /\ At(t, stage, 1) /\ op'[t].outcome = Silence[op[t].stage]
          /\ \A u \in Throttles \ {t}: op'[u] = op[u]
      BY <2>1, EndsDoes
    <2>3. op'[t].outcome \notin Alarm
      BY <1>0, <2>2 DEF Silence, Alarm
    <2>4. op'[t].stage \in {"DONE", "SHOW"} /\ (op[t].kind = "push" => op'[t].stage = "SHOW")
      BY <2>2 DEF At
    <2> HIDE DEF stage
    <2>5. op[t].kind = "push" => PushGoesOn(t)
      BY <2>3, <2>4 DEF PushGoesOn
    <2>6. PullGoesOn(t)
      BY <2>3, <2>4 DEF PullGoesOn
    <2> QED BY <1>0, <2>2, <2>5, <2>6, KeptTold
  <1> QED BY <1>1, <1>2

(* A reply is taken. *)
LEMMA TakesTold ==
    ASSUME IInv, IInv', Order, Told, Remember, NEW t \in Throttles,
           Discard(t) \/ Begun(t) \/ Peeked(t) \/ Chunked(t) \/ Committed(t)
    PROVE  Told'
  <1> DEFINE r == Head(replies[t])  o == op[t]  held == entries[o.entry]
  <1>0. Pops(t) /\ \A u \in Throttles \ {t}: buf'[u] = buf[u]
    BY AtThrottle DEF Discard, Begun, Peeked, Chunked, Committed
  <1>1. /\ txq' = txq /\ replies[t] # <<>> /\ replies'[t] = Tail(replies[t])
        /\ \A u \in Throttles \ {t}: replies'[u] = replies[u]
        /\ replies[t] \in Seq(Replies) /\ op[t].stage \in {"BEGIN", "DATA", "COMMIT"}
        /\ r \in Replies /\ op[t].stage # "SHOW"
        /\ entries' = entries /\ session' = session /\ scratch' = scratch
    BY <1>0, PopsDoes
  <1>2. /\ StagesFit(op[t]) /\ PullTold(t) /\ o.chunk \in 1 .. Chunks /\ Turn(o) \in Nat
        /\ Chunks \in Nat \ {0} /\ o \in Op
    <2>1. o \in Op
      BY AtThrottle
    <2>2. Turn(o) \in 1 .. (Chunks + 2) /\ o.chunk \in 1 .. Chunks
      BY <2>1, TurnIs
    <2> QED BY <2>1, <2>2, OrderAt, TransferAssumption DEF Told
  <1>3. 1 \in DOMAIN replies[t] /\ r = replies[t][1]
    BY <1>1, TailOrder
  <1>W. Pushing(t) => Welcome(r, o)
    BY <1>3 DEF Pushing, AllWelcome
  <1>F. /\ o.kind = "pull" /\ ~disturbed[t] /\ r.type = "pull" /\ r.entry = o.entry => Faithful(r, held)
        /\ o.kind = "pull" /\ ~disturbed[t] /\ o.stage = "DATA" =>
             o.crc = held /\ held # None /\ \A c \in 1 .. (o.chunk - 1): buf[t][c] = held[c]
    <2>1. PullTold(t)
      BY <1>2
    <2>2. o.kind = "pull" /\ ~disturbed[t] =>
            /\ \A i \in DOMAIN replies[t]: replies[t][i].type = "pull" /\ replies[t][i].entry = o.entry
                 => Faithful(replies[t][i], held)
            /\ o.stage = "DATA" =>
                 o.crc = held /\ held # None /\ \A c \in 1 .. (o.chunk - 1): buf[t][c] = held[c]
      BY ONLY <2>1 DEF PullTold
    <2> HIDE DEF r, o, held
    <2> QED BY ONLY <1>3, <2>2
  <1>A. \A k: Acks(r, k) => Acked(t, k)
    BY <1>3 DEF Acked
  <1>K. ASSUME Kept(t), \A u \in Throttles \ {t}: op'[u] = op[u],
               o.kind = "push" => buf'[t] = buf[t] /\ (Pushing(t) => PushGoesOn(t)),
               o.kind = "pull" /\ ~disturbed[t] => PullGoesOn(t)
        PROVE  Told'
    BY <1>0, <1>1, <1>K, KeptTold
  <1> HIDE DEF r, o, held
  <1>4. ASSUME NEW stage \in {"DONE", "SHOW"}, NEW outcome, Ends(t, stage, outcome),
               o.kind = "push" => buf' = buf /\ stage = "SHOW" /\ (Pushing(t) => outcome \notin Alarm),
               o.kind = "pull" /\ ~disturbed[t] => outcome \notin Alarm
        PROVE  Told'
    <2>1. /\ Kept(t) /\ op'[t].stage = stage /\ op'[t].outcome = outcome
          /\ \A u \in Throttles \ {t}: op'[u] = op[u]
      BY <1>4, EndsDoes DEF At
    <2>2. o.kind = "push" => buf'[t] = buf[t] /\ (Pushing(t) => PushGoesOn(t))
      BY <1>4, <2>1 DEF PushGoesOn
    <2>3. o.kind = "pull" /\ ~disturbed[t] => PullGoesOn(t)
      BY <1>4, <2>1 DEF PullGoesOn
    <2> QED BY <1>K, <2>1, <2>2, <2>3
  <1>5. CASE Discard(t)
    <2>1. op' = op /\ buf' = buf
      BY <1>5 DEF Discard
    <2>2. Kept(t)
      BY <2>1 DEF Kept
    <2>3. PushGoesOn(t)
      BY <1>1, <1>2, <2>1 DEF PushGoesOn, Acked, o
    <2>4. o.kind = "pull" /\ ~disturbed[t] => PullGoesOn(t)
      BY <1>1, <1>F, <2>1 DEF PullGoesOn, o, held
    <2> QED BY <1>K, <2>1, <2>2, <2>3, <2>4
  <1>6. CASE Begun(t)
    <2>0. buf' = buf /\ o.stage = "BEGIN" /\ Matches(r, o)
      BY <1>6 DEF Begun, r, o
    <2>1. r.sub = "BEGIN" /\ r.entry = o.entry /\ (o.kind = "push" => r.type = "push")
          /\ (o.kind = "pull" => r.type = "pull")
      BY <2>0 DEF Matches, Wire
    <2>2. CASE r.status # "OK" /\ Ends(t, "SHOW", r.status)
      <3>1. o.kind = "push" => (Pushing(t) => r.status \notin Alarm)
        BY <1>W, <2>1, <2>2 DEF Welcome
      <3>2. o.kind = "pull" /\ ~disturbed[t] => r.status \notin Alarm
        BY <1>F, <2>1 DEF Faithful, Alarm
      <3> QED BY <1>4, <2>0, <2>2, <3>1, <3>2
    <2>3. CASE o.kind = "pull" /\ Ends(t, "DONE", "VERSION_MISMATCH")
      <3>1. "VERSION_MISMATCH" \notin Alarm
        BY DEF Alarm
      <3> QED BY <1>4, <2>3, <3>1
    <2>4. CASE r.status = "OK"
               /\ op' = [op EXCEPT ![t].stage = "DATA", ![t].attempt = 0, ![t].waiting = FALSE,
                              ![t].crc = IF op[t].kind = "pull" THEN r.crc ELSE None]
      <3>1. op'[t] = [op[t] EXCEPT !.stage = "DATA", !.attempt = 0, !.waiting = FALSE,
                              !.crc = IF op[t].kind = "pull" THEN r.crc ELSE None]
            /\ \A u \in Throttles \ {t}: op'[u] = op[u]
        BY ONLY <2>4, AtThrottle, IInv, t \in Throttles
      <3>2. /\ Kept(t) /\ op'[t].stage = "DATA" /\ (op[t].kind = "pull" => op'[t].crc = r.crc)
            /\ op'[t].chunk = op[t].chunk
        BY <3>1, AtThrottle DEF Op, Kept
      <3>3. op'[t].chunk = 1
        BY <1>2, <2>0, <3>2 DEF StagesFit, o
      <3>4. o.kind = "push" => (Pushing(t) => PushGoesOn(t))
        <4> SUFFICES ASSUME o.kind = "push" PROVE PushGoesOn(t)
          OBVIOUS
        <4>1. Turn(op'[t]) = 2 /\ Turn(o) = 1
          BY <2>0, <3>2, <3>3 DEF Turn
        <4>2. Acked(t, 1)
          BY <1>A, <2>1, <2>4, RankIs DEF Acks
        <4>3. \A k \in 1 .. (Chunks + 2): k < 2 => k = 1
          OBVIOUS
        <4> QED BY <2>0, <3>2, <4>1, <4>2, <4>3 DEF PushGoesOn, o
      <3>5. o.kind = "pull" /\ ~disturbed[t] => PullGoesOn(t)
        <4> SUFFICES ASSUME o.kind = "pull", ~disturbed[t] PROVE PullGoesOn(t)
          OBVIOUS
        <4>1. r.crc = held
          BY <1>F, <2>1, <2>4 DEF Faithful
        <4>2. r.crc # None
          BY <1>1, <2>1, <2>4, TransferAssumption DEF Replies, OfLayout
        <4>3. 1 .. (op'[t].chunk - 1) = {}
          BY <3>3
        <4> QED BY <3>2, <4>1, <4>2, <4>3 DEF PullGoesOn, o, held
      <3> QED BY <1>K, <2>0, <3>1, <3>2, <3>4, <3>5
    <2> QED BY <1>6, <2>2, <2>3, <2>4 DEF Begun, r, o
  <1>7. CASE Peeked(t)
    <2>1. /\ o.kind = "peek"
          /\ op'[t] = [op[t] EXCEPT !.stage = "DONE", !.attempt = 0, !.waiting = FALSE,
                        !.peeked = r.version,
                        !.outcome = IF r.status \in {"BUSY", "BAD_ENTRY"} THEN r.status ELSE "OK"]
          /\ \A u \in Throttles \ {t}: op'[u] = op[u]
      BY <1>7, AtThrottle DEF Peeked, r, o
    <2>2. Kept(t)
      BY <2>1, AtThrottle DEF Op, Kept
    <2> QED BY <1>K, <2>1, <2>2
  <1>8. CASE Chunked(t)
    <2>0. o.stage = "DATA" /\ Matches(r, o)
      BY <1>8 DEF Chunked, r, o
    <2>1. r.sub = "DATA" /\ r.entry = o.entry /\ r.chunk = o.chunk /\ (o.kind = "push" => r.type = "push")
          /\ (o.kind = "pull" => r.type = "pull")
      BY <2>0 DEF Matches, Wire
    <2>2. o.kind = "push" => (Pushing(t) => r.status = "OK")
      BY <1>W, <2>1 DEF Welcome
    <2>3. o.kind = "pull" /\ ~disturbed[t] =>
            /\ r.status = "OK" /\ r.piece = held[o.chunk] /\ o.crc = held /\ held # None
            /\ \A c \in 1 .. (o.chunk - 1): buf[t][c] = held[c]
      BY <1>F, <2>0, <2>1 DEF Faithful
    <2>4. CASE r.status # "OK" /\ buf' = buf
               /\ Ends(t, IF o.kind = "query" THEN "DONE" ELSE "SHOW", "BAD_ENTRY")
      BY <1>4, <2>2, <2>3, <2>4
    <2>5. CASE o.kind = "query" /\ Ends(t, "DONE", "OK")
      BY <1>4, <2>5
    <2>6. ASSUME o.kind = "push", buf' = buf, r.status = "OK", NEW stage, NEW chunk,
                 Goes(t, stage, chunk), o.chunk = Chunks => stage = "COMMIT",
                 o.chunk # Chunks => stage = "DATA" /\ chunk = o.chunk + 1
          PROVE  Told'
      <3>1. /\ Kept(t) /\ op'[t].stage = stage /\ op'[t].chunk = chunk
            /\ \A u \in Throttles \ {t}: op'[u] = op[u]
        BY <2>6, GoesDoes DEF At
      <3>2. Turn(op'[t]) = o.chunk + 2 /\ Turn(o) = o.chunk + 1
        <4>1. Turn(o) = o.chunk + 1
          BY <2>0 DEF Turn
        <4>2. CASE o.chunk = Chunks
          BY <2>6, <3>1, <4>1, <4>2 DEF Turn
        <4>3. CASE o.chunk # Chunks
          <5>1. Turn(op'[t]) = (o.chunk + 1) + 1
            BY <2>6, <3>1, <4>3 DEF Turn
          <5> QED BY <1>2, <4>1, <5>1
        <4> QED BY <4>2, <4>3
      <3>3. Acked(t, o.chunk + 1)
        BY <1>A, <2>1, <2>6, RankIs DEF Acks
      <3>4. ASSUME NEW k \in 1 .. (Chunks + 2), k < Turn(op'[t]) PROVE Acked(t, k)
        <4>1. k < o.chunk + 1 \/ k = o.chunk + 1
          BY <1>2, <3>2, <3>4
        <4> QED BY <3>2, <3>3, <4>1 DEF Acked, o
      <3>5. PushGoesOn(t)
        <4>1. op'[t].stage # "SHOW" /\ op[t].stage # "COMMIT"
          BY <2>0, <2>6, <3>1 DEF o
        <4>2. Turn(op[t]) <= Turn(op'[t])
          BY <1>2, <3>2 DEF o
        <4> QED BY <3>4, <4>1, <4>2 DEF PushGoesOn
      <3> QED BY <1>K, <2>6, <3>1, <3>5
    <2>7. CASE r.status = "OK" /\ o.kind = "push" /\ buf' = buf
               /\ IF o.chunk = Chunks THEN Goes(t, "COMMIT", 1) ELSE Goes(t, "DATA", o.chunk + 1)
      <3>1. CASE o.chunk = Chunks
        BY <2>6, <2>7, <3>1
      <3>2. CASE o.chunk # Chunks
        BY <2>6, <2>7, <3>2
      <3> QED BY <3>1, <3>2
    <2>8. ASSUME NEW filled, filled = [buf[t] EXCEPT ![o.chunk] = r.piece],
                 buf' = [buf EXCEPT ![t] = filled], r.status = "OK", o.kind = "pull",
                 IF o.chunk = Chunks THEN Ends(t, "DONE", Verified(filled, o.crc))
                 ELSE Goes(t, "DATA", o.chunk + 1)
          PROVE  Told'
      <3>0. buf'[t] = filled /\ buf[t] \in Buffers
        BY <2>8, AtThrottle
      <3>1. \A c \in 1 .. Chunks: filled[c] = IF c = o.chunk THEN r.piece ELSE buf[t][c]
        BY <2>8, <3>0 DEF Buffers
      <3>2. ~disturbed[t] => \A c \in 1 .. o.chunk: filled[c] = held[c]
        <4> SUFFICES ASSUME ~disturbed[t], NEW c \in 1 .. o.chunk PROVE filled[c] = held[c]
          OBVIOUS
        <4>1. c \in 1 .. Chunks /\ (c # o.chunk => c \in 1 .. (o.chunk - 1))
          BY <1>2
        <4> QED BY <2>3, <2>8, <3>1, <4>1
      <3>3. CASE o.chunk = Chunks
        <4>1. Ends(t, "DONE", Verified(filled, o.crc))
          BY <2>8, <3>3
        <4>2. ~disturbed[t] => Verified(filled, o.crc) \notin Alarm
          <5> SUFFICES ASSUME ~disturbed[t] PROVE Verified(filled, o.crc) = "OK"
            BY DEF Alarm
          <5>1. held \in Buffers
            <6>1. o.entry \in Entries
              BY <2>8, AtThrottle DEF o, OpFits
            <6>2. held \in Profiles \union {None}
              BY <6>1, AtThrottle DEF BaseInv, held
            <6> QED BY <2>3, <2>8, <6>2, ProfilesAreBuffers
          <5>2. filled \in Buffers
            <6>1. buf'[t] \in Buffers
              BY AtThrottle DEF IInv, TransfersOfLayout
            <6> QED BY <3>0, <6>1
          <5>3. filled = held
            BY <3>2, <3>3, <5>1, <5>2, SameBuffers
          <5> QED BY <2>3, <2>8, <5>3 DEF Verified
        <4> QED BY <1>4, <2>8, <4>1, <4>2
      <3>4. CASE o.chunk # Chunks
        <4>1. /\ Kept(t) /\ op'[t].stage = "DATA" /\ op'[t].chunk = o.chunk + 1
              /\ op'[t].crc = o.crc /\ \A u \in Throttles \ {t}: op'[u] = op[u]
          BY <2>8, <3>4, GoesDoes DEF At, SameResult, o
        <4>2. (o.chunk + 1) - 1 = o.chunk
          BY <1>2
        <4>3. ~disturbed[t] => PullGoesOn(t)
          BY <2>3, <2>8, <3>0, <3>2, <4>1, <4>2 DEF PullGoesOn, o, held
        <4> QED BY <1>K, <2>8, <4>1, <4>3
      <3> QED BY <3>3, <3>4
    <2> QED BY <1>8, <2>4, <2>5, <2>7, <2>8 DEF Chunked, r, o
  <1>9. CASE Committed(t)
    <2>0. /\ buf' = buf /\ o.stage = "COMMIT" /\ Matches(r, o)
          /\ Ends(t, "SHOW", IF r.status = "OK" THEN "OK" ELSE "CHECKSUM_FAIL")
      BY <1>9 DEF Committed, r, o
    <2>1. o.kind = "push"
      BY <1>2, <2>0 DEF StagesFit, o
    <2>2. r.type = "push" /\ r.sub = "COMMIT"
      BY <2>0, <2>1 DEF Matches, Wire
    <2>3. Pushing(t) => r.status = "OK" /\ "OK" \notin Alarm
      BY <1>W, <2>2 DEF Welcome, Alarm
    <2> QED BY <1>4, <2>0, <2>1, <2>3
  <1> QED BY <1>5, <1>6, <1>7, <1>8, <1>9

(* What the base station answers a pull. *)
LEMMA ServeFaithful ==
    ASSUME IInv, IInv', NEW t \in Throttles, NEW m \in Requests(version[t]),
           UNCHANGED base \/ Serve(t, m)
    PROVE  \/ replies'[t] = replies[t]
           \/ \E r \in Replies: /\ r.type = "pull" => Faithful(r, entries'[r.entry])
                                /\ replies'[t] = Append(replies[t], r)
  <1>0. BaseInv /\ BaseInv' /\ (m.type # "status" => m.entry \in Entries)
    BY DEF IInv, Requests
  <1>1. ASSUME NEW status, NEW crc, NEW piece, Answer(t, m, status, crc, piece),
               m.type = "pull" =>
                 LET held == entries'[m.entry] IN
                 /\ m.sub = "BEGIN" =>
                      status \in {"OK", "BUSY", "EMPTY"} /\ (status = "OK" => crc = held)
                 /\ m.sub = "DATA" /\ held # None => status = "OK" /\ piece = held[m.chunk]
        PROVE  \/ replies'[t] = replies[t]
               \/ \E r \in Replies: /\ r.type = "pull" => Faithful(r, entries'[r.entry])
                                    /\ replies'[t] = Append(replies[t], r)
    <2>1. Hears(t, m, status, crc, piece)
      BY <1>0, <1>1, AnswerIs
    <2>2. \A r \in Replies:
            r.type = m.type /\ r.sub = m.sub /\ r.entry = m.entry /\ r.chunk = m.chunk
              /\ r.status = status /\ r.crc = crc /\ r.piece = piece
              => (r.type = "pull" => Faithful(r, entries'[r.entry]))
      BY <1>1 DEF Faithful
    <2> QED BY <2>1, <2>2 DEF Hears
  <1>2. CASE UNCHANGED base
    BY <1>2 DEF base
  <1>3. CASE PushBegin(t, m) \/ PushData(t, m) \/ PushCommit(t, m)
    <2>1. m.type # "pull"
      BY <1>3 DEF PushBegin, PushData, PushCommit
    <2> QED BY <1>1, <1>3, <2>1 DEF PushBegin, PushData, PushCommit, Refuse
  <1>4. CASE PullBegin(t, m)
    <2>1. m.sub = "BEGIN"
      BY <1>4 DEF PullBegin
    <2>2. CASE Refuse(t, m, "BUSY")
      BY <1>1, <2>1, <2>2 DEF Refuse
    <2>3. CASE /\ Answer(t, m, IF entries[m.entry] = None THEN "EMPTY" ELSE "OK",
                         entries[m.entry], None)
               /\ entries' = entries
      <3>1. (IF entries[m.entry] = None THEN "EMPTY" ELSE "OK") \in {"OK", "BUSY", "EMPTY"}
        OBVIOUS
      <3> QED BY <1>1, <2>1, <2>3, <3>1
    <2> QED BY <1>4, <2>2, <2>3 DEF PullBegin
  <1>5. CASE PullData(t, m)
    <2>1. m.sub = "DATA"
      BY <1>5 DEF PullData
    <2>2. CASE entries[m.entry] = None /\ Refuse(t, m, "BAD_ENTRY")
      BY <1>1, <2>1, <2>2 DEF Refuse
    <2>3. CASE Answer(t, m, "OK", None, entries[m.entry][m.chunk]) /\ entries' = entries
      BY <1>1, <2>1, <2>3
    <2> QED BY <1>5, <2>2, <2>3 DEF PullData
  <1>6. CASE PullDone(t, m)
    BY <1>6 DEF PullDone
  <1> QED BY <1>2, <1>3, <1>4, <1>5, <1>6 DEF Serve

(* A pull that sends. *)
LEMMA SendingPull ==
    ASSUME IInv, IInv', NEW t \in Throttles, PullTold(t), Remember, Kept(t),
           NEW h \in Requests(version[t]), Sends(t, h), op[t].kind = "pull",
           ~disturbed[t] => PullGoesOn(t)
    PROVE  PullTold(t)'
  <1>1. \/ replies'[t] = replies[t]
        \/ \E r \in Replies: /\ r.type = "pull" => Faithful(r, entries'[r.entry])
                             /\ replies'[t] = Append(replies[t], r)
    BY ServeFaithful DEF Sends
  <1>2. replies[t] \in Seq(Replies)
    BY AtThrottle DEF BaseInv
  <1>3. ASSUME NEW i \in DOMAIN replies'[t]
        PROVE  \/ \E j \in DOMAIN replies[t]: replies'[t][i] = replies[t][j]
               \/ replies'[t][i].type = "pull" /\ replies'[t][i].entry = op[t].entry =>
                    Faithful(replies'[t][i], entries'[op[t].entry])
    BY <1>1, <1>2, AppendOrder
  <1> QED BY <1>3, PullGoes

(* A request is sent. *)
LEMMA AttemptTold ==
    ASSUME IInv, IInv', Order, Told, Remember, NEW t \in Throttles, Attempt(t)
    PROVE  Told'
  <1>1. /\ op[t].kind # "none" /\ op[t].stage \in {"BEGIN", "DATA", "COMMIT"}
        /\ Send(t, Asked(op[t], buf[t])) /\ buf' = buf
        /\ Kept(t) /\ At(t, op[t].stage, op[t].chunk) /\ SameResult(t)
        /\ \A u \in Throttles \ {t}: op'[u] = op[u]
    BY AttemptDoes
  <1>2. PICK h \in Requests(version[t]): Sends(t, h)
    BY <1>1, SendDoes
  <1>3. /\ UNCHANGED base \/ Serve(t, h)
        /\ \A u \in Throttles \ {t}: txq'[u] = txq[u] /\ replies'[u] = replies[u]
        /\ \A u \in Throttles \ {t}: session.who = u /\ session'.who = u =>
             session' = session /\ scratch' = scratch
    BY <1>2, ServeAnswers, OthersLeave, AtThrottle DEF Sends, Answered, IInv
  <1>4. PushTold(t) /\ PullTold(t)
    BY DEF Told
  <1>5. PushTold(t)'
    <2> SUFFICES ASSUME op'[t].kind = "push", ~disturbed'[t]
                 PROVE  op'[t].stage # "SHOW" /\ Pushing(t)'
      BY DEF PushTold
    <2>1. op[t].kind = "push" /\ ~disturbed[t] /\ op'[t].stage = op[t].stage
      BY <1>1, RememberDisturbed DEF Kept, At
    <2>2. Pushing(t)
      BY <1>1, <1>4, <2>1 DEF PushTold
    <2>3. Pushing(t)'
      BY <1>2, <2>1, <2>2, AttemptPushes
    <2> QED BY <1>1, <2>1, <2>3
  <1>6. PullTold(t)'
    <2>1. CASE op[t].kind = "pull"
      <3>1. ~disturbed[t] => PullGoesOn(t)
        BY <1>1, <1>4, <2>1 DEF PullTold, PullGoesOn, At, SameResult
      <3> QED BY <1>1, <1>2, <1>4, <2>1, <3>1, SendingPull
    <2>2. CASE op[t].kind # "pull"
      BY <1>1, <2>2 DEF PullTold, Kept
    <2> QED BY <2>1, <2>2
  <1> QED BY <1>1, <1>3, <1>5, <1>6, ToldOfOne

(* A push starts with no packet or reply of an earlier one about. *)
LEMMA FreshPush ==
    ASSUME Remember, NEW t \in Throttles, op[t].kind # "push", op'[t].stage = "BEGIN"
    PROVE  PushTold(t)'
  <1> SUFFICES ASSUME op'[t].kind = "push", ~disturbed'[t]
               PROVE  Pushing(t)'
    BY DEF PushTold
  <1>1. ~Unsettled(t)'
    BY RememberDisturbed
  <1>2. /\ \A i \in DOMAIN txq'[t]: txq'[t][i].type # "push"
        /\ \A i \in DOMAIN replies'[t]: replies'[t][i].type # "push"
    BY <1>1 DEF Unsettled
  <1>3. OwnPackets(t)' /\ AllWelcome(t)'
    BY <1>2 DEF OwnPackets, OwnPacket, AllWelcome, Welcome
  <1>4. Ranked(txq[t])'
    <2>1. \A i \in DOMAIN txq'[t]: Rank(txq'[t][i]) = 0
      BY <1>2, RankIs
    <2> QED BY <2>1 DEF Ranked, Rank
  <1>5. \A k \in 1 .. (Chunks + 2): ~Acked(t, k)'
    <2>1. Turn(op'[t]) = 1
      BY DEF Turn
    <2>2. \A k \in 1 .. (Chunks + 2): ~(k < 1)
      OBVIOUS
    <2> QED BY <1>2, <2>1, <2>2 DEF Acked, Acks, Turn
  <1>6. AckedFits(t)'
    BY <1>5 DEF AckedFits
  <1>7. Finished(t)'
    <2>1. 1 \in 1 .. (Chunks + 2)
      BY TransferAssumption
    <2> QED BY <1>5, <2>1 DEF Finished
  <1> QED BY <1>3, <1>4, <1>6, <1>7 DEF Pushing

(* DONE is sent; after a peek a push may start. *)
LEMMA DoneTold ==
    ASSUME IInv, IInv', Order, Told, Remember, NEW t \in Throttles, Done(t)
    PROVE  Told'
  <1>0. /\ op[t].stage = "DONE" /\ op[t].kind # "none" /\ op[t].stage # "SHOW"
        /\ Send(t, Asked(op[t], buf[t]))
        /\ Asking(op[t]) /\ PullTold(t)
    BY OrderAt, AtThrottle DEF Done, OpFits, StagesFit, Told
  <1>1. PICK h \in Requests(version[t]): Sends(t, h)
    BY <1>0, SendDoes
  <1>2. /\ \A u \in Throttles \ {t}: txq'[u] = txq[u] /\ replies'[u] = replies[u]
        /\ \A u \in Throttles \ {t}: session.who = u /\ session'.who = u =>
             session' = session /\ scratch' = scratch
    BY <1>1, ServeAnswers, OthersLeave, AtThrottle DEF Sends, Answered, IInv
  <1>3. CASE op' = [op EXCEPT ![t] = NoOp] /\ buf' = buf
    <2>1. op'[t].kind = "none" /\ \A u \in Throttles \ {t}: op'[u] = op[u]
      BY <1>3, StartsDoes DEF NoOp
    <2>2. PushTold(t)' /\ PullTold(t)'
      BY <2>1 DEF PushTold, PullTold
    <2> QED BY <1>2, <1>3, <2>1, <2>2, ToldOfOne
  <1>4. CASE op' = [op EXCEPT ![t] = NewOp("push", op[t].entry)]
             /\ buf' = [buf EXCEPT ![t] = working[t]]
    <2>1. op'[t].kind = "push" /\ op'[t].stage = "BEGIN" /\ \A u \in Throttles \ {t}: op'[u] = op[u]
      BY <1>4, StartsDoes DEF At
    <2>2. op[t].kind # "push"
      BY <1>0 DEF Asking
    <2>3. PushTold(t)' /\ PullTold(t)'
      BY <2>1, <2>2, FreshPush DEF PullTold
    <2>4. \A u \in Throttles \ {t}: buf'[u] = buf[u]
      BY <1>4, AtThrottle
    <2> QED BY <1>2, <2>1, <2>3, <2>4, ToldOfOne
  <1>5. CASE op' = [op EXCEPT ![t].stage = "SHOW"] /\ buf' = buf
    <2>1. /\ Kept(t) /\ op'[t].stage = "SHOW" /\ op'[t].outcome = op[t].outcome
          /\ \A u \in Throttles \ {t}: op'[u] = op[u]
      BY <1>5, SteppedDoes DEF At, SameResult
    <2>2. PushTold(t)'
      BY <1>0, <2>1 DEF PushTold, Asking, Kept
    <2>3. PullTold(t)'
      <3>1. CASE op[t].kind = "pull"
        <4>1. ~disturbed[t] => PullGoesOn(t)
          BY <1>0, <2>1, <3>1 DEF PullTold, PullGoesOn
        <4> QED BY <1>0, <1>1, <2>1, <3>1, <4>1, SendingPull
      <3>2. CASE op[t].kind # "pull"
        BY <2>1, <3>2 DEF PullTold, Kept
      <3> QED BY <3>1, <3>2
    <2> QED BY <1>2, <1>5, <2>1, <2>2, <2>3, ToldOfOne
  <1> QED BY <1>3, <1>4, <1>5 DEF Done

(* The screens. *)
LEMMA CrewTold ==
    ASSUME IInv, IInv', Order, Told, Remember, NEW t \in Throttles, Show(t) \/ Crew(t)
    PROVE  Told'
  <1>1. /\ txq' = txq /\ replies' = replies /\ session' = session /\ scratch' = scratch
        /\ \A u \in Throttles \ {t}: buf'[u] = buf[u]
    BY AtThrottle DEF Show, Crew, FromPicker, ConfirmUpgrade, ConfirmWipe, Leave, Edit, Starts, base
  <1>2. ASSUME NEW kind, NEW e, op' = [op EXCEPT ![t] = NewOp(kind, e)],
               kind \in {"push", "pull"} => replies[t] = <<>> /\ Idle(t)
        PROVE  Told'
    <2>1. op'[t].kind = kind /\ op'[t].stage = "BEGIN" /\ \A u \in Throttles \ {t}: op'[u] = op[u]
      BY <1>2, StartsDoes DEF At
    <2>2. kind = "pull" => DOMAIN replies'[t] = {}
      BY <1>1, <1>2
    <2>3. PushTold(t)'
      BY <1>2, <2>1, FreshPush DEF PushTold, Idle
    <2>4. PullTold(t)'
      BY <2>1, <2>2 DEF PullTold
    <2> QED BY <1>1, <2>1, <2>3, <2>4, ToldOfOne
  <1>3. CASE op' = op /\ Idle(t)
    <2>1. PushTold(t)' /\ PullTold(t)'
      BY <1>3 DEF PushTold, PullTold, Idle
    <2> QED BY <1>1, <1>3, <2>1, ToldOfOne
  <1>4. CASE Show(t)
    BY <1>2, <1>4 DEF Show, NoOp
  <1>5. CASE FromPicker(t) \/ ConfirmWipe(t)
    BY <1>2, <1>5 DEF FromPicker, ConfirmWipe, Starts
  <1>6. CASE ConfirmUpgrade(t) \/ Leave(t) \/ Edit(t)
    BY <1>3, <1>6 DEF ConfirmUpgrade, Leave, Edit
  <1> QED BY <1>4, <1>5, <1>6 DEF Crew

(* The main loop. *)
LEMMA LoopTold ==
    ASSUME IInv, IInv', Told, Remember, NEW t \in Throttles, Loop(t)
    PROVE  Told'
  <1>0. /\ op' = op /\ buf' = buf /\ op[t].kind = "none"
        /\ txq \in [Throttles -> Seq(Request)] /\ replies \in [Throttles -> Seq(Replies)]
    BY AtThrottle DEF Loop, QueueStatus, LoopTransmit, LoopReceive, sync, Idle, QueuesFit, BaseInv
  <1>1. /\ \A u \in Throttles \ {t}: txq'[u] = txq[u] /\ replies'[u] = replies[u]
        /\ \A u \in Throttles \ {t}: session.who = u /\ session'.who = u =>
             session' = session /\ scratch' = scratch
    <2>1. CASE QueueStatus(t) \/ LoopReceive(t)
      BY <1>0, <2>1 DEF QueueStatus, LoopReceive, base
    <2>2. CASE LoopTransmit(t)
      <3>1. /\ \A u \in Throttles \ {t}: txq'[u] = txq[u]
            /\ UNCHANGED base \/ Serve(t, Head(txq[t]))
        BY <1>0, <2>2 DEF LoopTransmit, Transmit
      <3> QED BY <3>1, ServeAnswers, OthersLeave, AtThrottle DEF Answered, IInv
    <2> QED BY <2>1, <2>2 DEF Loop
  <1>2. PushTold(t)' /\ PullTold(t)'
    BY <1>0 DEF PushTold, PullTold
  <1> QED BY <1>0, <1>1, <1>2, ToldOfOne

(* A push the base station forgets is disturbed. *)
LEMMA ForgetTold ==
    ASSUME IInv, Told, Remember, Forget, UNCHANGED <<version, sync, txq>>
    PROVE  Told'
  <1>1. /\ op' = op /\ txq' = txq /\ replies' = replies /\ buf' = buf
        /\ session'.who \notin Throttles
    BY TransferAssumption DEF Forget, sync, NoSession
  <1>2. \A u \in Throttles: PushTold(u)' /\ PullTold(u)'
    BY <1>1, UntouchedTold
  <1> QED BY <1>2 DEF Told

(* No transfer is in progress. *)
LEMMA InitTold == HInit => Told
  <1> SUFFICES ASSUME HInit, NEW t \in Throttles
               PROVE  PushTold(t) /\ PullTold(t)
    BY DEF Told
  <1>1. op[t].kind = "none"
    BY DEF HInit, Init, NoOp, NewOp
  <1> QED BY <1>1 DEF PushTold, PullTold

(* Every step keeps it. *)
LEMMA ToldStep ==
    ASSUME IInv, Order, Told, [HNext]_hvars
    PROVE  Told'
  <1>1. CASE UNCHANGED hvars
    BY <1>1 DEF hvars, vars, history, sync, base, Told, PushTold, PullTold, Pushing, OwnPackets,
                OwnPacket, Turn, Ranked, AllWelcome, Welcome, AckedFits, Acked, Ours, Arrived, Finished
  <1>2. CASE HNext
    <2>1. Next /\ Remember
      BY <1>2 DEF HNext
    <2>2. IInv'
      BY <2>1, StepLemma
    <2>3. ASSUME NEW t \in Throttles, Syncing(t) PROVE Told'
      BY <2>1, <2>2, <2>3, AttemptTold, TimeOutTold, TakesTold, DoneTold, CrewTold DEF Syncing
    <2> QED BY <2>1, <2>2, <2>3, CrewTold, LoopTold, ForgetTold DEF Next
  <1> QED BY <1>1, <1>2

(* What the crew reads at the end of a transfer is true: SAVED! means stored, and a       *)
(* failure of the data means that something disturbed the transfer.                       *)
THEOREM OutcomesAreTrue == HSpec => []OutcomesTrue
  <1>1. HInit => IInv /\ Order /\ Seen /\ Told
    BY InitLemma, InitOrder, InitSeen, InitTold DEF HInit
  <1>2. IInv /\ Order /\ Seen /\ Told /\ [HNext]_hvars => (IInv /\ Order /\ Seen /\ Told)'
    <2>1. [HNext]_hvars => [Next]_vars
      BY DEF HNext, hvars
    <2> QED BY <2>1, StepLemma, OrderStep, SeenStep, ToldStep
  <1>3. Seen /\ Told => OutcomesTrue
    <2>1. Seen => SavedIsStored
      BY DEF Seen, PushSeen, SavedIsStored, Shows
    <2>2. Told => NoFalseAlarm
      BY DEF Told, PushTold, PullTold, NoFalseAlarm, Shows, Transfers, Alarm
    <2> QED BY <2>1, <2>2 DEF OutcomesTrue
  <1> QED BY <1>1, <1>2, <1>3, PTL DEF HSpec
=============================================================================
