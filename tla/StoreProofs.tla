----------------------------- MODULE StoreProofs -----------------------------
(***************************************************************************)
(* What the cab keeps, proved for any number of profiles, any old images   *)
(* and any length of the ring of engine states:                            *)
(*   - the configuration store means what its book says, at rest and after *)
(*     every power loss (StoreInv);                                        *)
(*   - the ring that remembers engines returns what was last noted of a    *)
(*     locomotive (EngineInv);                                             *)
(*   - the address editor only offers what readConfig() accepts            *)
(*     (EditorInv).                                                        *)
(*                                                                         *)
(* The store's argument: a job's writes are in an order in which no write  *)
(* takes from a byte that another has changed (Ordered), so the image that *)
(* the job will leave in each slot can be said beforehand, and does not    *)
(* change as its writes are done one by one (Reaches, WriteReaches).  What *)
(* remains is about images only: the migrated one means under the current  *)
(* layout what the old one meant under its own (MigratedMeans).            *)
(***************************************************************************)
EXTENDS ConfigHistory, LocoEditor, TLAPS

(* The writes there are, and what they may hold. *)
Op == [how : {"put", "seed", "move"}, slot : Slots, cell : Cells, val : Kinds \union Cells]
Fine(w) ==
    /\ w.how = "put" => w.val \in Kinds
    /\ w.how = "seed" => w.val = "D"
    /\ w.how = "move" => w.val \in Cells
Ops == {w \in Op : Fine(w)}
Contents == [Cells -> Kinds]

(* The job has this write still to do. *)
Has(j, w) == \E k \in DOMAIN j: j[k] = w

(* y may follow x: no byte is moved after it was written, and a seed comes last. *)
Free(x, y) ==
    x.slot = y.slot =>
      /\ y.how = "move" => y.val # x.cell
      /\ x.how = "seed" /\ x.cell = y.cell => y.how = "seed"
Ordered(j) == \A i, k \in DOMAIN j: i < k => Free(j[i], j[k])

(* What becomes of a byte that some seed of the job may yet fill. *)
Fixed(j, s, c, v) == IF v = "E" /\ Has(j, Seed(s, c)) THEN "D" ELSE v

(* The writes of j make goal of st. *)
Reaches(j, st, goal) ==
    \A s \in Slots, c \in Cells:
      /\ \A v \in Kinds: Has(j, Put(s, c, v)) => goal[s][c] = Fixed(j, s, c, v)
      /\ \A d \in Cells: Has(j, Transfer(s, c, d)) => goal[s][c] = Fixed(j, s, c, st[s][d])
      /\ (\A v \in Kinds: ~Has(j, Put(s, c, v))) /\ (\A d \in Cells: ~Has(j, Transfer(s, c, d)))
           => goal[s][c] = Fixed(j, s, c, st[s][c])

(* Every write of a job is one of Put, Seed and Transfer. *)
LEMMA OpIs ==
    \A w \in Ops: \/ \E v \in Kinds: w = Put(w.slot, w.cell, v)
                  \/ w = Seed(w.slot, w.cell)
                  \/ \E d \in Cells: w = Transfer(w.slot, w.cell, d)
  BY DEF Ops, Op, Fine, Put, Seed, Transfer

(* A job is its first write and the rest: what it has, and that order        *)
(* keeps.                                                                    *)
LEMMA HasTail ==
    ASSUME NEW j \in Seq(Ops), j # <<>>
    PROVE  /\ Head(j) \in Ops /\ Tail(j) \in Seq(Ops)
           /\ \A x: Has(j, x) <=> x = Head(j) \/ Has(Tail(j), x)
           /\ Ordered(j) => Ordered(Tail(j)) /\ \A x: Has(Tail(j), x) => Free(Head(j), x)
  <1> DEFINE t == Tail(j)
  <1>1. Len(j) \in Nat /\ Len(j) > 0 /\ DOMAIN j = 1 .. Len(j) /\ Head(j) = j[1] /\ Head(j) \in Ops
    OBVIOUS
  <1>2. t \in Seq(Ops) /\ Len(t) = Len(j) - 1 /\ DOMAIN t = 1 .. Len(t)
        /\ \A k \in DOMAIN t: t[k] = j[k + 1]
    OBVIOUS
  <1> HIDE DEF t
  <1>3. ASSUME NEW x PROVE Has(j, x) <=> x = Head(j) \/ Has(t, x)
    <2>1. ASSUME NEW k \in DOMAIN j, j[k] = x PROVE x = Head(j) \/ Has(t, x)
      <3>1. k = 1 \/ (k - 1 \in DOMAIN t /\ t[k - 1] = j[k])
        BY <1>1, <1>2
      <3> QED BY <1>1, <2>1, <3>1 DEF Has
    <2>2. ASSUME NEW k \in DOMAIN t, t[k] = x PROVE Has(j, x)
      <3>1. k + 1 \in DOMAIN j /\ j[k + 1] = x
        BY <1>1, <1>2, <2>2
      <3> QED BY <3>1 DEF Has
    <2> QED BY <1>1, <2>1, <2>2 DEF Has
  <1>4. ASSUME Ordered(j) PROVE Ordered(t)
    <2> SUFFICES ASSUME NEW i \in DOMAIN t, NEW k \in DOMAIN t, i < k PROVE Free(t[i], t[k])
      BY DEF Ordered
    <2>1. i + 1 \in DOMAIN j /\ k + 1 \in DOMAIN j /\ i + 1 < k + 1 /\ t[i] = j[i + 1] /\ t[k] = j[k + 1]
      BY <1>1, <1>2
    <2> QED BY <1>4, <2>1 DEF Ordered
  <1>5. ASSUME Ordered(j), NEW x, Has(t, x) PROVE Free(Head(j), x)
    <2>1. PICK k \in DOMAIN t: t[k] = x
      BY <1>5 DEF Has
    <2>2. 1 \in DOMAIN j /\ k + 1 \in DOMAIN j /\ 1 < k + 1 /\ x = j[k + 1]
      BY <1>1, <1>2, <2>1
    <2> QED BY <1>1, <1>5, <2>2 DEF Ordered
  <1> QED BY <1>1, <1>2, <1>3, <1>4, <1>5 DEF t

(* One step of Write leaves the rest of the job with the same goal: the      *)
(* order of the writes never lets a later one undo or miss what an earlier   *)
(* one did.                                                                  *)
LEMMA WriteReaches ==
    ASSUME NEW j \in Seq(Ops), j # <<>>, Ordered(j), NEW st \in [Slots -> Contents],
           NEW goal, Reaches(j, st, goal), NEW after,
           after = [st EXCEPT ![Head(j).slot] = Written(@, Head(j))]
    PROVE  /\ Tail(j) \in Seq(Ops) /\ Ordered(Tail(j)) /\ after \in [Slots -> Contents]
           /\ Reaches(Tail(j), after, goal)
  <1> DEFINE w == Head(j)
             t == Tail(j)
             s0 == w.slot
             c0 == w.cell
  <1>1. /\ w \in Ops /\ t \in Seq(Ops) /\ Ordered(t)
        /\ \A x: Has(j, x) <=> x = w \/ Has(t, x)
        /\ \A x: Has(t, x) => Free(w, x)
    BY HasTail
  <1>2. s0 \in Slots /\ c0 \in Cells
    BY <1>1 DEF Ops, Op
  <1>3. after = [st EXCEPT ![s0] = Written(st[s0], w)]
    OBVIOUS
  <1> HIDE DEF w, t, s0, c0
  <1>4. PICK v0 \in Kinds:
          /\ after = [st EXCEPT ![s0] = [st[s0] EXCEPT ![c0] = v0]]
          /\ \/ w = Put(s0, c0, v0)
             \/ w = Seed(s0, c0) /\ v0 = IF st[s0][c0] = "E" THEN "D" ELSE st[s0][c0]
             \/ \E d \in Cells: w = Transfer(s0, c0, d) /\ v0 = st[s0][d]
    <2>1. st[s0] \in Contents
      BY <1>2
    <2>2. CASE \E v \in Kinds: w = Put(s0, c0, v)
      <3>1. PICK v \in Kinds: w = Put(s0, c0, v)
        BY <2>2
      <3>2. w.how = "put" /\ w.cell = c0 /\ w.val = v
        BY <3>1 DEF Put
      <3>3. Written(st[s0], w) = [st[s0] EXCEPT ![c0] = v]
        BY <3>2 DEF Written
      <3> QED BY <1>3, <3>1, <3>3
    <2>3. CASE w = Seed(s0, c0)
      <3>1. (IF st[s0][c0] = "E" THEN "D" ELSE st[s0][c0]) \in Kinds
        BY <1>2, <2>1 DEF Contents, Kinds
      <3>2. Written(st[s0], w) = [st[s0] EXCEPT ![c0] = IF st[s0][c0] = "E" THEN "D" ELSE st[s0][c0]]
        BY <1>2, <2>1, <2>3 DEF Seed, Written, Contents
      <3> QED BY <1>3, <2>3, <3>1, <3>2
    <2>4. CASE \E d \in Cells: w = Transfer(s0, c0, d)
      <3>1. PICK d \in Cells: w = Transfer(s0, c0, d)
        BY <2>4
      <3>2. st[s0][d] \in Kinds
        BY <2>1 DEF Contents
      <3>3. w.how = "move" /\ w.cell = c0 /\ w.val = d
        BY <3>1 DEF Transfer
      <3>4. Written(st[s0], w) = [st[s0] EXCEPT ![c0] = st[s0][d]]
        BY <3>3 DEF Written
      <3> QED BY <1>3, <3>1, <3>2, <3>4
    <2>5. \/ \E v \in Kinds: w = Put(w.slot, w.cell, v)
          \/ w = Seed(w.slot, w.cell)
          \/ \E d \in Cells: w = Transfer(w.slot, w.cell, d)
      BY <1>1, OpIs
    <2> QED BY <2>2, <2>3, <2>4, <2>5 DEF s0, c0
  <1>5. after \in [Slots -> Contents]
    <2>1. [st[s0] EXCEPT ![c0] = v0] \in Contents
      BY <1>2 DEF Contents
    <2> QED BY <1>2, <1>4, <2>1
  <1>6. /\ \A s \in Slots, c \in Cells: s # s0 \/ c # c0 => after[s][c] = st[s][c]
        /\ after[s0][c0] = v0
    BY <1>2, <1>4 DEF Contents
  <1>7. ASSUME NEW s \in Slots, NEW c \in Cells
        PROVE  /\ \A v \in Kinds: Has(t, Put(s, c, v)) => goal[s][c] = Fixed(t, s, c, v)
               /\ \A d \in Cells: Has(t, Transfer(s, c, d)) => goal[s][c] = Fixed(t, s, c, after[s][d])
               /\ (\A v \in Kinds: ~Has(t, Put(s, c, v))) /\ (\A d \in Cells: ~Has(t, Transfer(s, c, d)))
                    => goal[s][c] = Fixed(t, s, c, after[s][c])
    <2>1. /\ \A v \in Kinds: Has(j, Put(s, c, v)) => goal[s][c] = Fixed(j, s, c, v)
          /\ \A d \in Cells: Has(j, Transfer(s, c, d)) => goal[s][c] = Fixed(j, s, c, st[s][d])
          /\ (\A v \in Kinds: ~Has(j, Put(s, c, v))) /\ (\A d \in Cells: ~Has(j, Transfer(s, c, d)))
               => goal[s][c] = Fixed(j, s, c, st[s][c])
      BY DEF Reaches
    <2>2. \A d \in Cells: Has(t, Transfer(s, c, d)) => after[s][d] = st[s][d]
      <3> SUFFICES ASSUME NEW d \in Cells, Has(t, Transfer(s, c, d)) PROVE s # s0 \/ d # c0
        BY <1>6
      <3>1. Free(w, Transfer(s, c, d))
        BY <1>1
      <3> QED BY <3>1 DEF Free, Transfer, s0, c0
    <2>3. CASE w # Seed(s, c)
      <3>1. \A v: Fixed(t, s, c, v) = Fixed(j, s, c, v)
        BY <1>1, <2>3 DEF Fixed
      <3>2. ASSUME s = s0, c = c0,
                   \A v \in Kinds: ~Has(t, Put(s, c, v)), \A d \in Cells: ~Has(t, Transfer(s, c, d))
            PROVE  goal[s][c] = Fixed(j, s, c, v0)
        BY <1>1, <1>4, <2>1, <2>3, <3>2
      <3>3. ASSUME s # s0 \/ c # c0,
                   \A v \in Kinds: ~Has(t, Put(s, c, v)), \A d \in Cells: ~Has(t, Transfer(s, c, d))
            PROVE  goal[s][c] = Fixed(j, s, c, st[s][c])
        <4>1. \A v \in Kinds: w # Put(s, c, v)
          BY <3>3 DEF Put, s0, c0
        <4>2. \A d \in Cells: w # Transfer(s, c, d)
          BY <3>3 DEF Transfer, s0, c0
        <4> QED BY <1>1, <2>1, <3>3, <4>1, <4>2
      <3> QED BY <1>1, <1>6, <2>1, <2>2, <3>1, <3>2, <3>3
    <2>4. CASE w = Seed(s, c)
      <3>1. s = s0 /\ c = c0
        BY <2>4 DEF Seed, s0, c0
      <3>2. \A v \in Kinds: ~Has(t, Put(s, c, v))
        <4> SUFFICES ASSUME NEW v \in Kinds, Has(t, Put(s, c, v)) PROVE FALSE
          OBVIOUS
        <4>1. Free(w, Put(s, c, v))
          BY <1>1
        <4> QED BY <2>4, <4>1 DEF Free, Put, Seed
      <3>3. \A d \in Cells: ~Has(t, Transfer(s, c, d))
        <4> SUFFICES ASSUME NEW d \in Cells, Has(t, Transfer(s, c, d)) PROVE FALSE
          OBVIOUS
        <4>1. Free(w, Transfer(s, c, d))
          BY <1>1
        <4> QED BY <2>4, <4>1 DEF Free, Transfer, Seed
      <3>4. (\A v \in Kinds: w # Put(s, c, v)) /\ (\A d \in Cells: w # Transfer(s, c, d))
        BY <2>4 DEF Put, Transfer, Seed
      <3>5. goal[s][c] = Fixed(j, s, c, st[s][c])
        BY <1>1, <2>1, <3>2, <3>3, <3>4
      <3>6. Has(j, Seed(s, c))
        BY <1>1, <2>4
      <3>7. v0 = IF st[s][c] = "E" THEN "D" ELSE st[s][c]
        BY <1>4, <2>4, <3>1, <3>4
      <3>8. goal[s][c] = v0 /\ Fixed(t, s, c, v0) = v0
        BY <3>5, <3>6, <3>7 DEF Fixed
      <3> QED BY <1>6, <3>1, <3>2, <3>3, <3>8
    <2> QED BY <2>3, <2>4
  <1>8. Reaches(t, after, goal)
    BY <1>7 DEF Reaches
  <1> QED BY <1>1, <1>5, <1>8 DEF t

-----------------------------------------------------------------------------
(* Jobs. *)

(* Two jobs one after the other have the writes of both, and stay in order   *)
(* when each write of the second may follow each of the first.               *)
LEMMA HasConcat ==
    ASSUME NEW a \in Seq(Ops), NEW b \in Seq(Ops)
    PROVE  /\ a \o b \in Seq(Ops)
           /\ \A x: Has(a \o b, x) <=> Has(a, x) \/ Has(b, x)
           /\ Ordered(a) /\ Ordered(b) /\ (\A x, y: Has(a, x) /\ Has(b, y) => Free(x, y))
                => Ordered(a \o b)
  <1> DEFINE j == a \o b
  <1>1. Len(a) \in Nat /\ Len(b) \in Nat /\ DOMAIN a = 1 .. Len(a) /\ DOMAIN b = 1 .. Len(b)
    OBVIOUS
  <1>2. j \in Seq(Ops) /\ DOMAIN j = 1 .. Len(a) + Len(b)
        /\ \A k \in DOMAIN j: j[k] = IF k <= Len(a) THEN a[k] ELSE b[k - Len(a)]
    OBVIOUS
  <1> HIDE DEF j
  <1>3. ASSUME NEW k \in DOMAIN j
        PROVE  \/ k \in DOMAIN a /\ j[k] = a[k] /\ k <= Len(a)
               \/ k - Len(a) \in DOMAIN b /\ j[k] = b[k - Len(a)] /\ k > Len(a)
    BY <1>1, <1>2
  <1>4. ASSUME NEW k \in DOMAIN a PROVE k \in DOMAIN j /\ j[k] = a[k]
    BY <1>1, <1>2
  <1>5. ASSUME NEW k \in DOMAIN b PROVE k + Len(a) \in DOMAIN j /\ j[k + Len(a)] = b[k]
    BY <1>1, <1>2
  <1>6. \A x: Has(j, x) <=> Has(a, x) \/ Has(b, x)
    BY <1>3, <1>4, <1>5 DEF Has
  <1>7. ASSUME Ordered(a), Ordered(b), \A x, y: Has(a, x) /\ Has(b, y) => Free(x, y)
        PROVE  Ordered(j)
    <2> SUFFICES ASSUME NEW i \in DOMAIN j, NEW k \in DOMAIN j, i < k PROVE Free(j[i], j[k])
      BY DEF Ordered
    <2>1. CASE k <= Len(a)
      <3>1. i \in DOMAIN a /\ k \in DOMAIN a /\ j[i] = a[i] /\ j[k] = a[k]
        BY <1>1, <1>2, <2>1
      <3> QED BY <1>7, <3>1 DEF Ordered
    <2>2. CASE i > Len(a)
      <3>1. /\ i - Len(a) \in DOMAIN b /\ k - Len(a) \in DOMAIN b /\ i - Len(a) < k - Len(a)
            /\ j[i] = b[i - Len(a)] /\ j[k] = b[k - Len(a)]
        BY <1>1, <1>2, <2>2
      <3> QED BY <1>7, <3>1 DEF Ordered
    <2>3. CASE i <= Len(a) /\ k > Len(a)
      <3>1. Has(a, j[i]) /\ Has(b, j[k])
        BY <1>1, <1>2, <1>3, <2>3 DEF Has
      <3> QED BY <1>7, <3>1
    <2> QED BY <1>1, <1>2, <2>1, <2>2, <2>3
  <1> QED BY <1>2, <1>6, <1>7 DEF j

(* The index arithmetic of InOrder for one, two and seven writes per slot. *)
LEMMA Division ==
    ASSUME NEW m \in Nat
    PROVE  /\ \A r \in 0 .. 1: (2 * m + r) \div 2 = m /\ (2 * m + r) % 2 = r
           /\ \A r \in 0 .. 6: (7 * m + r) \div 7 = m /\ (7 * m + r) % 7 = r
  OBVIOUS

(* The writes of one slot after the other, as the code's loops over the      *)
(* slots do them: every slot's writes and no other.                          *)
LEMMA InOrderIs ==
    ASSUME NEW slots \in Seq(Slots), \A s \in Slots: \E n \in DOMAIN slots: slots[n] = s,
           NEW e \in {1, 2, 7}, NEW writes \in [Slots -> Seq(Ops)],
           \A s \in Slots: Len(writes[s]) = e, WORKING \in Slots
    PROVE  /\ InOrder(slots, writes) \in Seq(Ops)
           /\ \A x: Has(InOrder(slots, writes), x) <=> \E s \in Slots: Has(writes[s], x)
  <1> DEFINE j == InOrder(slots, writes)
             N == Len(slots)
  <1>1. N \in Nat /\ DOMAIN slots = 1 .. N
    OBVIOUS
  <1>2. j = [k \in 1 .. (e * N) |-> writes[slots[((k - 1) \div e) + 1]][((k - 1) % e) + 1]]
    BY DEF InOrder
  <1> HIDE DEF j, N
  <1>3. ASSUME NEW k \in 1 .. (e * N)
        PROVE  ((k - 1) \div e) + 1 \in 1 .. N /\ ((k - 1) % e) + 1 \in 1 .. e
    <2>1. CASE e = 1
      BY <1>1, <2>1
    <2>2. CASE e = 2
      BY <1>1, <2>2
    <2>3. CASE e = 7
      BY <1>1, <2>3
    <2> QED BY <2>1, <2>2, <2>3
  <1>4. ASSUME NEW n \in 1 .. N, NEW i \in 1 .. e
        PROVE  \E k \in 1 .. (e * N): ((k - 1) \div e) + 1 = n /\ ((k - 1) % e) + 1 = i
    <2>1. CASE e = 1
      BY <1>1, <2>1
    <2>2. CASE e = 2
      <3>1. PICK k \in Int: k = 2 * (n - 1) + i
        BY <1>1
      <3>2. k \in 1 .. (2 * N) /\ k - 1 = 2 * (n - 1) + (i - 1)
        BY <1>1, <2>2, <3>1
      <3>3. i - 1 \in 0 .. 1 /\ n - 1 \in Nat /\ n \in Int /\ i \in Int
        BY <1>1, <2>2
      <3>4. (k - 1) \div 2 = n - 1 /\ (k - 1) % 2 = i - 1
        BY <3>2, <3>3, Division
      <3>5. (n - 1) + 1 = n /\ (i - 1) + 1 = i
        BY <3>3
      <3> QED BY <2>2, <3>2, <3>4, <3>5
    <2>3. CASE e = 7
      <3>1. PICK k \in Int: k = 7 * (n - 1) + i
        BY <1>1
      <3>2. k \in 1 .. (7 * N) /\ k - 1 = 7 * (n - 1) + (i - 1)
        BY <1>1, <2>3, <3>1
      <3>3. i - 1 \in 0 .. 6 /\ n - 1 \in Nat /\ n \in Int /\ i \in Int
        BY <1>1, <2>3
      <3>4. (k - 1) \div 7 = n - 1 /\ (k - 1) % 7 = i - 1
        BY <3>2, <3>3, Division
      <3>5. (n - 1) + 1 = n /\ (i - 1) + 1 = i
        BY <3>3
      <3> QED BY <2>3, <3>2, <3>4, <3>5
    <2> QED BY <2>1, <2>2, <2>3
  <1>5. ASSUME NEW s \in Slots PROVE writes[s] \in Seq(Ops) /\ DOMAIN writes[s] = 1 .. e
    OBVIOUS
  <1>6. e * N \in Nat /\ DOMAIN j = 1 .. (e * N)
    BY <1>1, <1>2
  <1>7. ASSUME NEW k \in DOMAIN j
        PROVE  \E s \in Slots, i \in 1 .. e: j[k] = writes[s][i]
    <2> DEFINE n == ((k - 1) \div e) + 1
               i == ((k - 1) % e) + 1
    <2>1. n \in 1 .. N /\ i \in 1 .. e /\ j[k] = writes[slots[n]][i]
      BY <1>2, <1>3, <1>6
    <2> HIDE DEF n, i
    <2> QED BY <1>1, <2>1
  <1>8. j \in Seq(Ops)
    <2>1. \A k \in 1 .. (e * N): j[k] \in Ops
      BY <1>5, <1>6, <1>7
    <2>2. j = [k \in 1 .. (e * N) |-> j[k]]
      BY <1>2
    <2> QED BY <1>6, <2>1, <2>2
  <1>9. ASSUME NEW s \in Slots, NEW i \in 1 .. e PROVE Has(j, writes[s][i])
    <2>1. PICK n \in 1 .. N: slots[n] = s
      BY <1>1
    <2>2. PICK k \in 1 .. (e * N): ((k - 1) \div e) + 1 = n /\ ((k - 1) % e) + 1 = i
      BY <1>4
    <2>3. j[k] = writes[s][i]
      BY <1>2, <2>1, <2>2
    <2> QED BY <1>6, <2>3 DEF Has
  <1>10. \A x: Has(j, x) <=> \E s \in Slots: Has(writes[s], x)
    <2>1. ASSUME NEW x, Has(j, x) PROVE \E s \in Slots: Has(writes[s], x)
      <3>1. PICK k \in DOMAIN j: j[k] = x
        BY <2>1 DEF Has
      <3>2. PICK s \in Slots, i \in 1 .. e: j[k] = writes[s][i]
        BY <1>7
      <3> QED BY <1>5, <3>1, <3>2 DEF Has
    <2>2. ASSUME NEW x, NEW s \in Slots, Has(writes[s], x) PROVE Has(j, x)
      <3>1. PICK i \in 1 .. e: writes[s][i] = x
        BY <1>5, <2>2 DEF Has
      <3> QED BY <1>9, <3>1
    <2> QED BY <2>1, <2>2
  <1> QED BY <1>8, <1>10 DEF j

(* Writes that may follow one another in any order are in order. *)
LEMMA Alike ==
    ASSUME NEW j, \A x, y: Has(j, x) /\ Has(j, y) => Free(x, y)
    PROVE  Ordered(j)
  BY DEF Has, Ordered

(* A migration's loop over the slots writes every slot, the working profile  *)
(* included.                                                                 *)
LEMMA EverySlotIs ==
    ASSUME ConfigAssumption, NEW e \in {1, 2}, NEW writes \in [Slots -> Seq(Ops)],
           \A s \in Slots: Len(writes[s]) = e
    PROVE  /\ EverySlot(writes) \in Seq(Ops)
           /\ \A x: Has(EverySlot(writes), x) <=> \E s \in Slots: Has(writes[s], x)
  <1> DEFINE slots == [s \in 1..(MAX_CONFIGS + 1) |-> IF s <= MAX_CONFIGS THEN s ELSE WORKING]
  <1>1. MAX_CONFIGS \in Nat /\ WORKING \in Slots
    BY DEF ConfigAssumption, Slots, WORKING
  <1>2. slots \in Seq(Slots) /\ DOMAIN slots = 1 .. (MAX_CONFIGS + 1)
    BY <1>1 DEF Slots, WORKING
  <1>3. \A s \in Slots: \E n \in DOMAIN slots: slots[n] = s
    <2> SUFFICES ASSUME NEW s \in Slots PROVE \E n \in 1 .. (MAX_CONFIGS + 1): slots[n] = s
      BY <1>2
    <2>1. CASE s = 0
      <3>1. MAX_CONFIGS + 1 \in 1 .. (MAX_CONFIGS + 1) /\ slots[MAX_CONFIGS + 1] = s
        BY <1>1, <2>1 DEF WORKING
      <3> QED BY <3>1
    <2>2. CASE s # 0
      <3>1. s \in 1 .. (MAX_CONFIGS + 1) /\ slots[s] = s
        BY <1>1, <2>2 DEF Slots
      <3> QED BY <3>1
    <2> QED BY <2>1, <2>2
  <1> HIDE DEF slots
  <1>4. /\ InOrder(slots, writes) \in Seq(Ops)
        /\ \A x: Has(InOrder(slots, writes), x) <=> \E s \in Slots: Has(writes[s], x)
    BY <1>1, <1>2, <1>3, InOrderIs
  <1> QED BY <1>4 DEF EverySlot, slots

(* The writes of the shortest jobs. *)
LEMMA HasFew ==
    /\ \A x: ~Has(<<>>, x)
    /\ \A a, x: Has(<<a>>, x) <=> x = a
    /\ \A a, b, x: Has(<<a, b>>, x) <=> x = a \/ x = b
  <1>1. \A x: ~Has(<<>>, x)
    BY DEF Has
  <1>2. ASSUME NEW a, NEW x PROVE Has(<<a>>, x) <=> x = a
    <2>1. DOMAIN <<a>> = {1} /\ <<a>>[1] = a
      OBVIOUS
    <2> QED BY <2>1 DEF Has
  <1>3. ASSUME NEW a, NEW b, NEW x PROVE Has(<<a, b>>, x) <=> x = a \/ x = b
    <2>1. DOMAIN <<a, b>> = {1, 2} /\ <<a, b>>[1] = a /\ <<a, b>>[2] = b
      OBVIOUS
    <2> QED BY <2>1 DEF Has
  <1> QED BY <1>1, <1>2, <1>3

(* A migration block with one write per slot. *)
LEMMA EveryOne ==
    ASSUME ConfigAssumption, NEW a \in [Slots -> Ops],
           NEW writes \in [Slots -> Seq(Ops)], \A s \in Slots: writes[s] = <<a[s]>>
    PROVE  /\ EverySlot(writes) \in Seq(Ops)
           /\ \A x: Has(EverySlot(writes), x) <=> \E s \in Slots: x = a[s]
  <1>1. \A s \in Slots: Len(writes[s]) = 1
    <2> TAKE s \in Slots
    <2>1. Len(<<a[s]>>) = 1
      OBVIOUS
    <2> QED BY <2>1
  <1>2. EverySlot(writes) \in Seq(Ops)
        /\ \A x: Has(EverySlot(writes), x) <=> \E s \in Slots: Has(writes[s], x)
    BY <1>1, EverySlotIs
  <1>3. \A s \in Slots: \A x: Has(writes[s], x) <=> x = a[s]
    <2> TAKE s \in Slots
    <2>1. \A x: Has(<<a[s]>>, x) <=> x = a[s]
      BY HasFew
    <2> QED BY <2>1
  <1> QED BY <1>2, <1>3

(* A migration block with two writes per slot. *)
LEMMA EveryTwo ==
    ASSUME ConfigAssumption, NEW a \in [Slots -> Ops], NEW b \in [Slots -> Ops],
           NEW writes \in [Slots -> Seq(Ops)], \A s \in Slots: writes[s] = <<a[s], b[s]>>
    PROVE  /\ EverySlot(writes) \in Seq(Ops)
           /\ \A x: Has(EverySlot(writes), x) <=> \E s \in Slots: x = a[s] \/ x = b[s]
  <1>1. \A s \in Slots: Len(writes[s]) = 2
    <2> TAKE s \in Slots
    <2>1. Len(<<a[s], b[s]>>) = 2
      OBVIOUS
    <2> QED BY <2>1
  <1>2. EverySlot(writes) \in Seq(Ops)
        /\ \A x: Has(EverySlot(writes), x) <=> \E s \in Slots: Has(writes[s], x)
    BY <1>1, EverySlotIs
  <1>3. \A s \in Slots: \A x: Has(writes[s], x) <=> x = a[s] \/ x = b[s]
    <2> TAKE s \in Slots
    <2>1. \A x: Has(<<a[s], b[s]>>, x) <=> x = a[s] \/ x = b[s]
      BY HasFew
    <2> QED BY <2>1
  <1> QED BY <1>2, <1>3

(* What Put, Seed and Transfer build are writes. *)
LEMMA OpsAre ==
    ASSUME NEW s \in Slots, NEW c \in Cells
    PROVE  /\ \A v \in Kinds: Put(s, c, v) \in Ops
           /\ Seed(s, c) \in Ops
           /\ \A d \in Cells: Transfer(s, c, d) \in Ops
  BY DEF Ops, Op, Fine, Put, Seed, Transfer, Kinds

-----------------------------------------------------------------------------
(***************************************************************************)
(* The migrations.                                                         *)
(***************************************************************************)

(* The repacking before layout 2 writes these bytes and no others. *)
LEMMA RepackIs ==
    ASSUME ConfigAssumption, NEW v \in 0..BLANK
    PROVE  /\ Block(v < 2, Repack) \in Seq(Ops)
           /\ \A x: Has(Block(v < 2, Repack), x) <=> (v < 2) /\ \E s \in Slots: x = Put(s, "x3D", "D") \/ x = Put(s, "x4A", "D")
           /\ Ordered(Block(v < 2, Repack))
  <1> DEFINE a == [s \in Slots |-> Put(s, "x3D", "D")]
             b == [s \in Slots |-> Put(s, "x4A", "D")]
  <1>2. /\ a \in [Slots -> Ops] /\ \A s \in Slots: a[s] = Put(s, "x3D", "D")
        /\ b \in [Slots -> Ops] /\ \A s \in Slots: b[s] = Put(s, "x4A", "D")
    BY OpsAre DEF Cells, Kinds
  <1>1. Repack \in [Slots -> Seq(Ops)] /\ \A s \in Slots: Repack[s] = <<a[s], b[s]>>
    BY <1>2 DEF Repack
  <1> HIDE DEF a, b
  <1>3. EverySlot(Repack) \in Seq(Ops)
        /\ \A x: Has(EverySlot(Repack), x) <=> \E s \in Slots: x = a[s] \/ x = b[s]
    BY <1>1, <1>2, EveryTwo
  <1>4. Block(v < 2, Repack) \in Seq(Ops)
    <2>1. <<>> \in Seq(Ops)
      OBVIOUS
    <2> QED BY <1>3, <2>1 DEF Block
  <1>5. \A x: Has(Block(v < 2, Repack), x) <=> (v < 2) /\ \E s \in Slots: x = Put(s, "x3D", "D") \/ x = Put(s, "x4A", "D")
    <2>1. \A x: Has(Block(v < 2, Repack), x) <=> (v < 2) /\ \E s \in Slots: x = a[s] \/ x = b[s]
      BY <1>3, HasFew DEF Block
    <2> QED BY <1>2, <2>1
  <1>6. \A x, y: Has(Block(v < 2, Repack), x) /\ Has(Block(v < 2, Repack), y) => Free(x, y)
    <2> SUFFICES ASSUME NEW x, NEW y, NEW s \in Slots, NEW r \in Slots,
                        x = Put(s, "x3D", "D") \/ x = Put(s, "x4A", "D"), y = Put(r, "x3D", "D") \/ y = Put(r, "x4A", "D")
                 PROVE  Free(x, y)
      BY <1>5
    <2> QED BY DEF Free, Put, Seed, Transfer
  <1> QED BY <1>4, <1>5, <1>6, Alike

(* The relocation from layout 2 moves these bytes and no others. *)
LEMMA RelocateIs ==
    ASSUME ConfigAssumption, NEW v \in 0..BLANK
    PROVE  /\ Block(v = 2, Relocate) \in Seq(Ops)
           /\ \A x: Has(Block(v = 2, Relocate), x) <=> (v = 2) /\ \E s \in Slots: x = Transfer(s, "x54", "x2C") \/ x = Transfer(s, "x59", "x3D")
           /\ Ordered(Block(v = 2, Relocate))
  <1> DEFINE a == [s \in Slots |-> Transfer(s, "x54", "x2C")]
             b == [s \in Slots |-> Transfer(s, "x59", "x3D")]
  <1>2. /\ a \in [Slots -> Ops] /\ \A s \in Slots: a[s] = Transfer(s, "x54", "x2C")
        /\ b \in [Slots -> Ops] /\ \A s \in Slots: b[s] = Transfer(s, "x59", "x3D")
    BY OpsAre DEF Cells, Kinds
  <1>1. Relocate \in [Slots -> Seq(Ops)] /\ \A s \in Slots: Relocate[s] = <<a[s], b[s]>>
    BY <1>2 DEF Relocate
  <1> HIDE DEF a, b
  <1>3. EverySlot(Relocate) \in Seq(Ops)
        /\ \A x: Has(EverySlot(Relocate), x) <=> \E s \in Slots: x = a[s] \/ x = b[s]
    BY <1>1, <1>2, EveryTwo
  <1>4. Block(v = 2, Relocate) \in Seq(Ops)
    <2>1. <<>> \in Seq(Ops)
      OBVIOUS
    <2> QED BY <1>3, <2>1 DEF Block
  <1>5. \A x: Has(Block(v = 2, Relocate), x) <=> (v = 2) /\ \E s \in Slots: x = Transfer(s, "x54", "x2C") \/ x = Transfer(s, "x59", "x3D")
    <2>1. \A x: Has(Block(v = 2, Relocate), x) <=> (v = 2) /\ \E s \in Slots: x = a[s] \/ x = b[s]
      BY <1>3, HasFew DEF Block
    <2> QED BY <1>2, <2>1
  <1>6. \A x, y: Has(Block(v = 2, Relocate), x) /\ Has(Block(v = 2, Relocate), y) => Free(x, y)
    <2> SUFFICES ASSUME NEW x, NEW y, NEW s \in Slots, NEW r \in Slots,
                        x = Transfer(s, "x54", "x2C") \/ x = Transfer(s, "x59", "x3D"), y = Transfer(r, "x54", "x2C") \/ y = Transfer(r, "x59", "x3D")
                 PROVE  Free(x, y)
      BY <1>5
    <2> QED BY DEF Free, Put, Seed, Transfer
  <1> QED BY <1>4, <1>5, <1>6, Alike

(* The defaults of the brake and load model: these bytes and no others. *)
LEMMA ModelDefIs ==
    ASSUME ConfigAssumption, NEW v \in 0..BLANK
    PROVE  /\ Block(v < 2, ModelDef) \in Seq(Ops)
           /\ \A x: Has(Block(v < 2, ModelDef), x) <=> (v < 2) /\ \E s \in Slots: x = Put(s, "x54", "D") \/ x = Put(s, "x59", "D")
           /\ Ordered(Block(v < 2, ModelDef))
  <1> DEFINE a == [s \in Slots |-> Put(s, "x54", "D")]
             b == [s \in Slots |-> Put(s, "x59", "D")]
  <1>2. /\ a \in [Slots -> Ops] /\ \A s \in Slots: a[s] = Put(s, "x54", "D")
        /\ b \in [Slots -> Ops] /\ \A s \in Slots: b[s] = Put(s, "x59", "D")
    BY OpsAre DEF Cells, Kinds
  <1>1. ModelDef \in [Slots -> Seq(Ops)] /\ \A s \in Slots: ModelDef[s] = <<a[s], b[s]>>
    BY <1>2 DEF ModelDef
  <1> HIDE DEF a, b
  <1>3. EverySlot(ModelDef) \in Seq(Ops)
        /\ \A x: Has(EverySlot(ModelDef), x) <=> \E s \in Slots: x = a[s] \/ x = b[s]
    BY <1>1, <1>2, EveryTwo
  <1>4. Block(v < 2, ModelDef) \in Seq(Ops)
    <2>1. <<>> \in Seq(Ops)
      OBVIOUS
    <2> QED BY <1>3, <2>1 DEF Block
  <1>5. \A x: Has(Block(v < 2, ModelDef), x) <=> (v < 2) /\ \E s \in Slots: x = Put(s, "x54", "D") \/ x = Put(s, "x59", "D")
    <2>1. \A x: Has(Block(v < 2, ModelDef), x) <=> (v < 2) /\ \E s \in Slots: x = a[s] \/ x = b[s]
      BY <1>3, HasFew DEF Block
    <2> QED BY <1>2, <2>1
  <1>6. \A x, y: Has(Block(v < 2, ModelDef), x) /\ Has(Block(v < 2, ModelDef), y) => Free(x, y)
    <2> SUFFICES ASSUME NEW x, NEW y, NEW s \in Slots, NEW r \in Slots,
                        x = Put(s, "x54", "D") \/ x = Put(s, "x59", "D"), y = Put(r, "x54", "D") \/ y = Put(r, "x59", "D")
                 PROVE  Free(x, y)
      BY <1>5
    <2> QED BY DEF Free, Put, Seed, Transfer
  <1> QED BY <1>4, <1>5, <1>6, Alike

(* The block up to layout 4: it seeds ACCEL and sets ACCELADJ. *)
LEMMA SeedRawIs ==
    ASSUME ConfigAssumption, NEW v \in 0..BLANK
    PROVE  /\ Block(v < 4 \/ v = BLANK, SeedRaw) \in Seq(Ops)
           /\ \A x: Has(Block(v < 4 \/ v = BLANK, SeedRaw), x) <=> (v < 4 \/ v = BLANK) /\ \E s \in Slots: x = Seed(s, "x28") \/ x = Put(s, "x61", "D")
           /\ Ordered(Block(v < 4 \/ v = BLANK, SeedRaw))
  <1> DEFINE a == [s \in Slots |-> Seed(s, "x28")]
             b == [s \in Slots |-> Put(s, "x61", "D")]
  <1>2. /\ a \in [Slots -> Ops] /\ \A s \in Slots: a[s] = Seed(s, "x28")
        /\ b \in [Slots -> Ops] /\ \A s \in Slots: b[s] = Put(s, "x61", "D")
    BY OpsAre DEF Cells, Kinds
  <1>1. SeedRaw \in [Slots -> Seq(Ops)] /\ \A s \in Slots: SeedRaw[s] = <<a[s], b[s]>>
    BY <1>2 DEF SeedRaw
  <1> HIDE DEF a, b
  <1>3. EverySlot(SeedRaw) \in Seq(Ops)
        /\ \A x: Has(EverySlot(SeedRaw), x) <=> \E s \in Slots: x = a[s] \/ x = b[s]
    BY <1>1, <1>2, EveryTwo
  <1>4. Block(v < 4 \/ v = BLANK, SeedRaw) \in Seq(Ops)
    <2>1. <<>> \in Seq(Ops)
      OBVIOUS
    <2> QED BY <1>3, <2>1 DEF Block
  <1>5. \A x: Has(Block(v < 4 \/ v = BLANK, SeedRaw), x) <=> (v < 4 \/ v = BLANK) /\ \E s \in Slots: x = Seed(s, "x28") \/ x = Put(s, "x61", "D")
    <2>1. \A x: Has(Block(v < 4 \/ v = BLANK, SeedRaw), x) <=> (v < 4 \/ v = BLANK) /\ \E s \in Slots: x = a[s] \/ x = b[s]
      BY <1>3, HasFew DEF Block
    <2> QED BY <1>2, <2>1
  <1>6. \A x, y: Has(Block(v < 4 \/ v = BLANK, SeedRaw), x) /\ Has(Block(v < 4 \/ v = BLANK, SeedRaw), y) => Free(x, y)
    <2> SUFFICES ASSUME NEW x, NEW y, NEW s \in Slots, NEW r \in Slots,
                        x = Seed(s, "x28") \/ x = Put(s, "x61", "D"), y = Seed(r, "x28") \/ y = Put(r, "x61", "D")
                 PROVE  Free(x, y)
      BY <1>5
    <2> QED BY DEF Free, Put, Seed, Transfer
  <1> QED BY <1>4, <1>5, <1>6, Alike

(* The block up to layout 5: it clears the menu button and nothing else. *)
LEMMA ClearBtnIs ==
    ASSUME ConfigAssumption, NEW v \in 0..BLANK
    PROVE  /\ Block(v < 5 \/ v = BLANK, ClearBtn) \in Seq(Ops)
           /\ \A x: Has(Block(v < 5 \/ v = BLANK, ClearBtn), x) <=> (v < 5 \/ v = BLANK) /\ \E s \in Slots: x = Put(s, "x2C", "D")
           /\ Ordered(Block(v < 5 \/ v = BLANK, ClearBtn))
  <1> DEFINE a == [s \in Slots |-> Put(s, "x2C", "D")]
  <1>2. a \in [Slots -> Ops] /\ \A s \in Slots: a[s] = Put(s, "x2C", "D")
    BY OpsAre DEF Cells, Kinds
  <1>1. ClearBtn \in [Slots -> Seq(Ops)] /\ \A s \in Slots: ClearBtn[s] = <<a[s]>>
    BY <1>2 DEF ClearBtn
  <1> HIDE DEF a
  <1>3. EverySlot(ClearBtn) \in Seq(Ops)
        /\ \A x: Has(EverySlot(ClearBtn), x) <=> \E s \in Slots: x = a[s]
    BY <1>1, <1>2, EveryOne
  <1>4. Block(v < 5 \/ v = BLANK, ClearBtn) \in Seq(Ops)
    <2>1. <<>> \in Seq(Ops)
      OBVIOUS
    <2> QED BY <1>3, <2>1 DEF Block
  <1>5. \A x: Has(Block(v < 5 \/ v = BLANK, ClearBtn), x) <=> (v < 5 \/ v = BLANK) /\ \E s \in Slots: x = Put(s, "x2C", "D")
    <2>1. \A x: Has(Block(v < 5 \/ v = BLANK, ClearBtn), x) <=> (v < 5 \/ v = BLANK) /\ \E s \in Slots: x = a[s]
      BY <1>3, HasFew DEF Block
    <2> QED BY <1>2, <2>1
  <1>6. \A x, y: Has(Block(v < 5 \/ v = BLANK, ClearBtn), x) /\ Has(Block(v < 5 \/ v = BLANK, ClearBtn), y) => Free(x, y)
    <2> SUFFICES ASSUME NEW x, NEW y, NEW s \in Slots, NEW r \in Slots,
                        x = Put(s, "x2C", "D"), y = Put(r, "x2C", "D")
                 PROVE  Free(x, y)
      BY <1>5
    <2> QED BY DEF Free, Put, Seed, Transfer
  <1> QED BY <1>4, <1>5, <1>6, Alike

(* The block up to layout 7: it seeds OPLOAD. *)
LEMMA SeedLoadIs ==
    ASSUME ConfigAssumption, NEW v \in 0..BLANK
    PROVE  /\ Block(v < 7 \/ v = BLANK, SeedLoad) \in Seq(Ops)
           /\ \A x: Has(Block(v < 7 \/ v = BLANK, SeedLoad), x) <=> (v < 7 \/ v = BLANK) /\ \E s \in Slots: x = Seed(s, "x59")
           /\ Ordered(Block(v < 7 \/ v = BLANK, SeedLoad))
  <1> DEFINE a == [s \in Slots |-> Seed(s, "x59")]
  <1>2. a \in [Slots -> Ops] /\ \A s \in Slots: a[s] = Seed(s, "x59")
    BY OpsAre DEF Cells, Kinds
  <1>1. SeedLoad \in [Slots -> Seq(Ops)] /\ \A s \in Slots: SeedLoad[s] = <<a[s]>>
    BY <1>2 DEF SeedLoad
  <1> HIDE DEF a
  <1>3. EverySlot(SeedLoad) \in Seq(Ops)
        /\ \A x: Has(EverySlot(SeedLoad), x) <=> \E s \in Slots: x = a[s]
    BY <1>1, <1>2, EveryOne
  <1>4. Block(v < 7 \/ v = BLANK, SeedLoad) \in Seq(Ops)
    <2>1. <<>> \in Seq(Ops)
      OBVIOUS
    <2> QED BY <1>3, <2>1 DEF Block
  <1>5. \A x: Has(Block(v < 7 \/ v = BLANK, SeedLoad), x) <=> (v < 7 \/ v = BLANK) /\ \E s \in Slots: x = Seed(s, "x59")
    <2>1. \A x: Has(Block(v < 7 \/ v = BLANK, SeedLoad), x) <=> (v < 7 \/ v = BLANK) /\ \E s \in Slots: x = a[s]
      BY <1>3, HasFew DEF Block
    <2> QED BY <1>2, <2>1
  <1>6. \A x, y: Has(Block(v < 7 \/ v = BLANK, SeedLoad), x) /\ Has(Block(v < 7 \/ v = BLANK, SeedLoad), y) => Free(x, y)
    <2> SUFFICES ASSUME NEW x, NEW y, NEW s \in Slots, NEW r \in Slots,
                        x = Seed(s, "x59"), y = Seed(r, "x59")
                 PROVE  Free(x, y)
      BY <1>5
    <2> QED BY DEF Free, Put, Seed, Transfer
  <1> QED BY <1>4, <1>5, <1>6, Alike

(* The block up to layout 8: it seeds BRK2. *)
LEMMA SeedBrakeIs ==
    ASSUME ConfigAssumption, NEW v \in 0..BLANK
    PROVE  /\ Block(v < 8 \/ v = BLANK, SeedBrake) \in Seq(Ops)
           /\ \A x: Has(Block(v < 8 \/ v = BLANK, SeedBrake), x) <=> (v < 8 \/ v = BLANK) /\ \E s \in Slots: x = Seed(s, "x54")
           /\ Ordered(Block(v < 8 \/ v = BLANK, SeedBrake))
  <1> DEFINE a == [s \in Slots |-> Seed(s, "x54")]
  <1>2. a \in [Slots -> Ops] /\ \A s \in Slots: a[s] = Seed(s, "x54")
    BY OpsAre DEF Cells, Kinds
  <1>1. SeedBrake \in [Slots -> Seq(Ops)] /\ \A s \in Slots: SeedBrake[s] = <<a[s]>>
    BY <1>2 DEF SeedBrake
  <1> HIDE DEF a
  <1>3. EverySlot(SeedBrake) \in Seq(Ops)
        /\ \A x: Has(EverySlot(SeedBrake), x) <=> \E s \in Slots: x = a[s]
    BY <1>1, <1>2, EveryOne
  <1>4. Block(v < 8 \/ v = BLANK, SeedBrake) \in Seq(Ops)
    <2>1. <<>> \in Seq(Ops)
      OBVIOUS
    <2> QED BY <1>3, <2>1 DEF Block
  <1>5. \A x: Has(Block(v < 8 \/ v = BLANK, SeedBrake), x) <=> (v < 8 \/ v = BLANK) /\ \E s \in Slots: x = Seed(s, "x54")
    <2>1. \A x: Has(Block(v < 8 \/ v = BLANK, SeedBrake), x) <=> (v < 8 \/ v = BLANK) /\ \E s \in Slots: x = a[s]
      BY <1>3, HasFew DEF Block
    <2> QED BY <1>2, <2>1
  <1>6. \A x, y: Has(Block(v < 8 \/ v = BLANK, SeedBrake), x) /\ Has(Block(v < 8 \/ v = BLANK, SeedBrake), y) => Free(x, y)
    <2> SUFFICES ASSUME NEW x, NEW y, NEW s \in Slots, NEW r \in Slots,
                        x = Seed(s, "x54"), y = Seed(r, "x54")
                 PROVE  Free(x, y)
      BY <1>5
    <2> QED BY DEF Free, Put, Seed, Transfer
  <1> QED BY <1>4, <1>5, <1>6, Alike

(* The byte a migration from layout v writes to a cell, the cell it takes it  *)
(* from, and the cells it fills where they are still erased.                  *)
Puts(v) ==
    (IF v < 2 THEN {"x3D", "x4A", "x54", "x59"} ELSE {})
      \union (IF v < 4 \/ v = BLANK THEN {"x61"} ELSE {})
      \union (IF v < 5 \/ v = BLANK THEN {"x2C"} ELSE {})
Seeds(v) ==
    (IF v < 4 \/ v = BLANK THEN {"x28"} ELSE {})
      \union (IF v < 7 \/ v = BLANK THEN {"x59"} ELSE {})
      \union (IF v < 8 \/ v = BLANK THEN {"x54"} ELSE {})
Moves(v) == IF v = 2 THEN {<<"x54", "x2C">>, <<"x59", "x3D">>} ELSE {}

(* All of applyEepromMigrations(): which bytes an old store of layout v      *)
(* gets put, moved and seeded, in an order in which none spoils another.     *)
LEMMA MigrationsAre ==
    ASSUME ConfigAssumption, NEW v \in 0..BLANK
    PROVE  /\ Migrations(v) \in Seq(Ops)
           /\ Ordered(Migrations(v))
           /\ \A x: Has(Migrations(v), x) <=>
                \E s \in Slots:
                  \/ \E c \in Puts(v): x = Put(s, c, "D")
                  \/ \E m \in Moves(v): x = Transfer(s, m[1], m[2])
                  \/ \E c \in Seeds(v): x = Seed(s, c)
  <1> DEFINE b1 == Block(v < 2, Repack)
             b2 == Block(v = 2, Relocate)
             b3 == Block(v < 2, ModelDef)
             b4 == Block(v < 4 \/ v = BLANK, SeedRaw)
             b5 == Block(v < 5 \/ v = BLANK, ClearBtn)
             b6 == Block(v < 7 \/ v = BLANK, SeedLoad)
             b7 == Block(v < 8 \/ v = BLANK, SeedBrake)
             p2 == b1 \o b2
             p3 == p2 \o b3
             p4 == p3 \o b4
             p5 == p4 \o b5
             p6 == p5 \o b6
  <1>1. /\ b1 \in Seq(Ops) /\ Ordered(b1)
         /\ \A x: Has(b1, x) => x.how = "put" /\ v < 2
    BY RepackIs DEF Put, Seed, Transfer
  <1>2. /\ b2 \in Seq(Ops) /\ Ordered(b2)
         /\ \A x: Has(b2, x) => x.how = "move" /\ v = 2
    <2>1. \A s: Transfer(s, "x54", "x2C").how = "move" /\ Transfer(s, "x59", "x3D").how = "move"
      BY DEF Transfer
    <2>2. /\ b2 \in Seq(Ops) /\ Ordered(b2)
          /\ \A x: Has(b2, x) <=> v = 2 /\ \E s \in Slots: x = Transfer(s, "x54", "x2C") \/ x = Transfer(s, "x59", "x3D")
      BY RelocateIs
    <2> HIDE DEF b2
    <2> QED BY <2>1, <2>2
  <1>3. /\ b3 \in Seq(Ops) /\ Ordered(b3)
         /\ \A x: Has(b3, x) => x.how = "put" /\ v < 2
    BY ModelDefIs DEF Put, Seed, Transfer
  <1>4. /\ b4 \in Seq(Ops) /\ Ordered(b4)
         /\ \A x: Has(b4, x) => (x.how = "seed" /\ x.cell = "x28") \/ (x.how = "put" /\ x.cell = "x61")
    BY SeedRawIs DEF Put, Seed, Transfer
  <1>5. /\ b5 \in Seq(Ops) /\ Ordered(b5)
         /\ \A x: Has(b5, x) => x.how = "put" /\ x.cell = "x2C"
    BY ClearBtnIs DEF Put, Seed, Transfer
  <1>6. /\ b6 \in Seq(Ops) /\ Ordered(b6)
         /\ \A x: Has(b6, x) => x.how = "seed" /\ x.cell = "x59"
    BY SeedLoadIs DEF Put, Seed, Transfer
  <1>7. /\ b7 \in Seq(Ops) /\ Ordered(b7)
         /\ \A x: Has(b7, x) => x.how = "seed" /\ x.cell = "x54"
    BY SeedBrakeIs DEF Put, Seed, Transfer
  <1>8. Migrations(v) = p6 \o b7
    BY DEF Migrations
  <1>9. /\ \A x: Has(b1, x) <=> v < 2 /\ \E s \in Slots: x = Put(s, "x3D", "D") \/ x = Put(s, "x4A", "D")
        /\ \A x: Has(b2, x) <=> v = 2 /\ \E s \in Slots: x = Transfer(s, "x54", "x2C") \/ x = Transfer(s, "x59", "x3D")
        /\ \A x: Has(b3, x) <=> v < 2 /\ \E s \in Slots: x = Put(s, "x54", "D") \/ x = Put(s, "x59", "D")
        /\ \A x: Has(b4, x) <=> (v < 4 \/ v = BLANK) /\ \E s \in Slots: x = Seed(s, "x28") \/ x = Put(s, "x61", "D")
        /\ \A x: Has(b5, x) <=> (v < 5 \/ v = BLANK) /\ \E s \in Slots: x = Put(s, "x2C", "D")
        /\ \A x: Has(b6, x) <=> (v < 7 \/ v = BLANK) /\ \E s \in Slots: x = Seed(s, "x59")
        /\ \A x: Has(b7, x) <=> (v < 8 \/ v = BLANK) /\ \E s \in Slots: x = Seed(s, "x54")
    BY RepackIs, RelocateIs, ModelDefIs, SeedRawIs, ClearBtnIs, SeedLoadIs, SeedBrakeIs
  <1> HIDE DEF b1, b2, b3, b4, b5, b6, b7
  <1>10. /\ p2 \in Seq(Ops) /\ Ordered(p2)
         /\ \A x: Has(p2, x) <=> Has(b1, x) \/ Has(b2, x)
         /\ \A x: Has(p2, x) => (x.how # "seed")
    <2>1. \A x, y: Has(b1, x) /\ Has(b2, y) => Free(x, y)
      BY <1>1, <1>2 DEF Free
    <2>2. b1 \o b2 \in Seq(Ops) /\ Ordered(b1 \o b2)
          /\ \A x: Has(b1 \o b2, x) <=> Has(b1, x) \/ Has(b2, x)
      BY <1>1, <1>2, <2>1, HasConcat
    <2> QED BY <1>1, <1>2, <2>2
  <1> HIDE DEF p2
  <1>11. /\ p3 \in Seq(Ops) /\ Ordered(p3)
         /\ \A x: Has(p3, x) <=> Has(b1, x) \/ Has(b2, x) \/ Has(b3, x)
         /\ \A x: Has(p3, x) => (x.how # "seed")
    <2>1. \A x, y: Has(p2, x) /\ Has(b3, y) => Free(x, y)
      BY <1>10, <1>3 DEF Free
    <2>2. p2 \o b3 \in Seq(Ops) /\ Ordered(p2 \o b3)
          /\ \A x: Has(p2 \o b3, x) <=> Has(p2, x) \/ Has(b3, x)
      BY <1>10, <1>3, <2>1, HasConcat
    <2> QED BY <1>10, <1>3, <2>2
  <1> HIDE DEF p3
  <1>12. /\ p4 \in Seq(Ops) /\ Ordered(p4)
         /\ \A x: Has(p4, x) <=> Has(b1, x) \/ Has(b2, x) \/ Has(b3, x) \/ Has(b4, x)
         /\ \A x: Has(p4, x) => (x.how = "seed" => x.cell = "x28")
    <2>1. \A x, y: Has(p3, x) /\ Has(b4, y) => Free(x, y)
      BY <1>11, <1>4 DEF Free
    <2>2. p3 \o b4 \in Seq(Ops) /\ Ordered(p3 \o b4)
          /\ \A x: Has(p3 \o b4, x) <=> Has(p3, x) \/ Has(b4, x)
      BY <1>11, <1>4, <2>1, HasConcat
    <2> QED BY <1>11, <1>4, <2>2
  <1> HIDE DEF p4
  <1>13. /\ p5 \in Seq(Ops) /\ Ordered(p5)
         /\ \A x: Has(p5, x) <=> Has(b1, x) \/ Has(b2, x) \/ Has(b3, x) \/ Has(b4, x) \/ Has(b5, x)
         /\ \A x: Has(p5, x) => (x.how = "seed" => x.cell = "x28")
    <2>1. \A x, y: Has(p4, x) /\ Has(b5, y) => Free(x, y)
      BY <1>12, <1>5 DEF Free
    <2>2. p4 \o b5 \in Seq(Ops) /\ Ordered(p4 \o b5)
          /\ \A x: Has(p4 \o b5, x) <=> Has(p4, x) \/ Has(b5, x)
      BY <1>12, <1>5, <2>1, HasConcat
    <2> QED BY <1>12, <1>5, <2>2
  <1> HIDE DEF p5
  <1>14. /\ p6 \in Seq(Ops) /\ Ordered(p6)
         /\ \A x: Has(p6, x) <=> Has(b1, x) \/ Has(b2, x) \/ Has(b3, x) \/ Has(b4, x) \/ Has(b5, x) \/ Has(b6, x)
         /\ \A x: Has(p6, x) => (x.how = "seed" => x.cell \in {"x28", "x59"})
    <2>1. \A x, y: Has(p5, x) /\ Has(b6, y) => Free(x, y)
      BY <1>13, <1>6 DEF Free
    <2>2. p5 \o b6 \in Seq(Ops) /\ Ordered(p5 \o b6)
          /\ \A x: Has(p5 \o b6, x) <=> Has(p5, x) \/ Has(b6, x)
      BY <1>13, <1>6, <2>1, HasConcat
    <2> QED BY <1>13, <1>6, <2>2
  <1> HIDE DEF p6
  <1>15. /\ p6 \o b7 \in Seq(Ops) /\ Ordered(p6 \o b7)
         /\ \A x: Has(p6 \o b7, x) <=> Has(b1, x) \/ Has(b2, x) \/ Has(b3, x) \/ Has(b4, x) \/ Has(b5, x) \/ Has(b6, x) \/ Has(b7, x)
    <2>1. \A x, y: Has(p6, x) /\ Has(b7, y) => Free(x, y)
      BY <1>14, <1>7 DEF Free
    <2>2. p6 \o b7 \in Seq(Ops) /\ Ordered(p6 \o b7)
          /\ \A x: Has(p6 \o b7, x) <=> Has(p6, x) \/ Has(b7, x)
      BY <1>14, <1>7, <2>1, HasConcat
    <2> QED BY <1>14, <1>7, <2>2
  <1>16. ASSUME NEW x
         PROVE  Has(Migrations(v), x) <=>
                \E s \in Slots:
                  \/ \E c \in Puts(v): x = Put(s, c, "D")
                  \/ \E m \in Moves(v): x = Transfer(s, m[1], m[2])
                  \/ \E c \in Seeds(v): x = Seed(s, c)
    <2>1. (\E s \in Slots: \E c \in Puts(v): x = Put(s, c, "D")) <=>
             \/ v < 2 /\ \E s \in Slots: x = Put(s, "x3D", "D") \/ x = Put(s, "x4A", "D")
             \/ v < 2 /\ \E s \in Slots: x = Put(s, "x54", "D") \/ x = Put(s, "x59", "D")
             \/ (v < 4 \/ v = BLANK) /\ \E s \in Slots: x = Put(s, "x61", "D")
             \/ (v < 5 \/ v = BLANK) /\ \E s \in Slots: x = Put(s, "x2C", "D")
      BY DEF Puts
    <2>2. (\E s \in Slots: \E m \in Moves(v): x = Transfer(s, m[1], m[2])) <=>
             v = 2 /\ \E s \in Slots: x = Transfer(s, "x54", "x2C") \/ x = Transfer(s, "x59", "x3D")
      <3>1. CASE v = 2
        <4>1. Moves(v) = {<<"x54", "x2C">>, <<"x59", "x3D">>}
          BY <3>1 DEF Moves
        <4>2. ASSUME NEW s \in Slots
              PROVE  (\E m \in Moves(v): x = Transfer(s, m[1], m[2])) <=>
                       x = Transfer(s, "x54", "x2C") \/ x = Transfer(s, "x59", "x3D")
          <5>1. ASSUME NEW m \in Moves(v)
                PROVE  (m[1] = "x54" /\ m[2] = "x2C") \/ (m[1] = "x59" /\ m[2] = "x3D")
            BY <4>1
          <5>2. <<"x54", "x2C">> \in Moves(v) /\ <<"x54", "x2C">>[1] = "x54" /\ <<"x54", "x2C">>[2] = "x2C"
            BY <4>1
          <5>3. <<"x59", "x3D">> \in Moves(v) /\ <<"x59", "x3D">>[1] = "x59" /\ <<"x59", "x3D">>[2] = "x3D"
            BY <4>1
          <5> QED BY <5>1, <5>2, <5>3
        <4> QED BY <3>1, <4>2
      <3>2. CASE v # 2
        BY <3>2 DEF Moves
      <3> QED BY <3>1, <3>2
    <2>3. (\E s \in Slots: \E c \in Seeds(v): x = Seed(s, c)) <=>
             \/ (v < 4 \/ v = BLANK) /\ \E s \in Slots: x = Seed(s, "x28")
             \/ (v < 7 \/ v = BLANK) /\ \E s \in Slots: x = Seed(s, "x59")
             \/ (v < 8 \/ v = BLANK) /\ \E s \in Slots: x = Seed(s, "x54")
      BY DEF Seeds
    <2>4. Has(Migrations(v), x) <=> Has(b1, x) \/ Has(b2, x) \/ Has(b3, x) \/ Has(b4, x)
                                      \/ Has(b5, x) \/ Has(b6, x) \/ Has(b7, x)
      BY <1>8, <1>15
    <2> HIDE DEF Puts, Seeds, Moves
    <2> QED BY <1>9, <2>1, <2>2, <2>3, <2>4
  <1> QED BY <1>8, <1>15, <1>16

Migrated(v, img) ==
    [c \in Cells |->
        LET was == IF c \in Puts(v) THEN "D"
                   ELSE IF v = 2 /\ c = "x54" THEN img["x2C"]
                   ELSE IF v = 2 /\ c = "x59" THEN img["x3D"]
                   ELSE img[c]
        IN  IF was = "E" /\ c \in Seeds(v) THEN "D" ELSE was]

(* The same, slot by slot and byte by byte. *)
LEMMA MigrationHas ==
    ASSUME ConfigAssumption, NEW v \in 0..BLANK, NEW s \in Slots, NEW c \in Cells
    PROVE  /\ \A b \in Kinds: Has(Migrations(v), Put(s, c, b)) <=> c \in Puts(v) /\ b = "D"
           /\ \A d \in Cells: Has(Migrations(v), Transfer(s, c, d)) <=> <<c, d>> \in Moves(v)
           /\ Has(Migrations(v), Seed(s, c)) <=> c \in Seeds(v)
  <1>1. \A x: Has(Migrations(v), x) <=>
                \E r \in Slots:
                  \/ \E k \in Puts(v): x = Put(r, k, "D")
                  \/ \E m \in Moves(v): x = Transfer(r, m[1], m[2])
                  \/ \E k \in Seeds(v): x = Seed(r, k)
    BY MigrationsAre
  <1>2. ASSUME NEW b \in Kinds PROVE Has(Migrations(v), Put(s, c, b)) <=> c \in Puts(v) /\ b = "D"
    <2>1. \A r, k: (Put(s, c, b) = Put(r, k, "D") <=> s = r /\ c = k /\ b = "D") /\ Put(s, c, b) # Seed(r, k)
      BY DEF Put, Seed
    <2>2. \A r, k, d: Put(s, c, b) # Transfer(r, k, d)
      BY DEF Put, Transfer
    <2> QED BY <1>1, <2>1, <2>2
  <1>3. ASSUME NEW d \in Cells PROVE Has(Migrations(v), Transfer(s, c, d)) <=> <<c, d>> \in Moves(v)
    <2>1. \A r, k, e: Transfer(s, c, d) = Transfer(r, k, e) <=> s = r /\ c = k /\ d = e
      BY DEF Transfer
    <2>2. \A r, k: Transfer(s, c, d) # Seed(r, k) /\ Transfer(s, c, d) # Put(r, k, "D")
      BY DEF Put, Seed, Transfer
    <2>3. ASSUME NEW m \in Moves(v) PROVE m = <<m[1], m[2]>>
      BY DEF Moves
    <2>4. <<c, d>>[1] = c /\ <<c, d>>[2] = d
      OBVIOUS
    <2> QED BY <1>1, <2>1, <2>2, <2>3, <2>4
  <1>4. Has(Migrations(v), Seed(s, c)) <=> c \in Seeds(v)
    <2>1. \A r, k: (Seed(s, c) = Seed(r, k) <=> s = r /\ c = k) /\ Seed(s, c) # Put(r, k, "D")
      BY DEF Put, Seed
    <2>2. \A r, k, d: Seed(s, c) # Transfer(r, k, d)
      BY DEF Seed, Transfer
    <2> QED BY <1>1, <2>1, <2>2
  <1> QED BY <1>2, <1>3, <1>4

(* The migrations of layout v turn every slot into its Migrated image. *)
LEMMA MigrationReaches ==
    ASSUME ConfigAssumption, NEW v \in 0..BLANK, NEW st \in [Slots -> Contents]
    PROVE  Reaches(Migrations(v), st, [s \in Slots |-> Migrated(v, st[s])])
  <1> DEFINE j == Migrations(v)
             goal == [s \in Slots |-> Migrated(v, st[s])]
  <1>1. ASSUME NEW s \in Slots, NEW c \in Cells
        PROVE  /\ \A b \in Kinds: Has(j, Put(s, c, b)) => goal[s][c] = Fixed(j, s, c, b)
               /\ \A d \in Cells: Has(j, Transfer(s, c, d)) => goal[s][c] = Fixed(j, s, c, st[s][d])
               /\ (\A b \in Kinds: ~Has(j, Put(s, c, b))) /\ (\A d \in Cells: ~Has(j, Transfer(s, c, d)))
                   => goal[s][c] = Fixed(j, s, c, st[s][c])
    <2> DEFINE was == IF c \in Puts(v) THEN "D"
                      ELSE IF v = 2 /\ c = "x54" THEN st[s]["x2C"]
                      ELSE IF v = 2 /\ c = "x59" THEN st[s]["x3D"]
                      ELSE st[s][c]
    <2>1. goal[s][c] = IF was = "E" /\ c \in Seeds(v) THEN "D" ELSE was
      BY DEF Migrated
    <2>2. /\ \A b \in Kinds: Has(j, Put(s, c, b)) <=> c \in Puts(v) /\ b = "D"
          /\ \A d \in Cells: Has(j, Transfer(s, c, d)) <=> <<c, d>> \in Moves(v)
          /\ Has(j, Seed(s, c)) <=> c \in Seeds(v)
      BY MigrationHas
    <2>3. \A d \in Cells: <<c, d>> \in Moves(v)
                <=> v = 2 /\ ((c = "x54" /\ d = "x2C") \/ (c = "x59" /\ d = "x3D"))
      BY DEF Moves
    <2>4. "x54" \in Puts(v) \/ "x59" \in Puts(v) => v # 2
      BY DEF Puts, BLANK
    <2>5. "D" \in Kinds /\ "x2C" \in Cells /\ "x3D" \in Cells
      BY DEF Kinds, Cells
    <2> HIDE DEF j, goal
    <2>6. \A b: Fixed(j, s, c, b) = IF b = "E" /\ c \in Seeds(v) THEN "D" ELSE b
      BY <2>2 DEF Fixed
    <2>7. CASE c \in Puts(v)
      BY <2>1, <2>2, <2>3, <2>4, <2>5, <2>6, <2>7
    <2>8. CASE c \notin Puts(v)
      BY <2>1, <2>2, <2>3, <2>4, <2>5, <2>6, <2>8
    <2> QED BY <2>7, <2>8
  <1> HIDE DEF j, goal
  <1>2. Reaches(j, st, goal)
    BY <1>1 DEF Reaches
  <1> QED BY <1>2 DEF j, goal

(* A migrated slot read by this firmware means what the old slot meant to    *)
(* the firmware of its layout: for each layout and each field, no value is   *)
(* lost or reread.                                                           *)
LEMMA MigratedMeans ==
    ASSUME NEW v \in (1..Current) \union {BLANK}, NEW img \in Contents,
           v = BLANK => img = Erased
    PROVE  /\ Migrated(v, img) \in Contents
           /\ Meaning(Migrated(v, img), Current) = Meaning(img, v)
  <1> DEFINE m == Migrated(v, img)
  <1>1. \A c \in Cells: img[c] \in Kinds
    BY DEF Contents
  <1>2. \A c \in Cells:
          LET was == IF c \in Puts(v) THEN "D"
                     ELSE IF v = 2 /\ c = "x54" THEN img["x2C"]
                     ELSE IF v = 2 /\ c = "x59" THEN img["x3D"]
                     ELSE img[c]
          IN  m[c] = IF was = "E" /\ c \in Seeds(v) THEN "D" ELSE was
    BY DEF Migrated
  <1>3. m \in Contents
    BY <1>1 DEF Migrated, Contents, Kinds, Cells
  <1> HIDE DEF m
  <1>4. v = BLANK => \A c \in Cells: img[c] = "E"
    BY DEF Erased
  <1>5. v \in {1, 2, 3, 4, 5, 6, 7, 8, 255}
    BY DEF Current, BLANK
  <1>6. DOMAIN Fields = {"accel", "brk2", "opload", "adj", "menuBtn", "charged"}
    BY DEF Fields
  <1>7. /\ RawSince["accel"] = 4 /\ RawSince["brk2"] = 8 /\ RawSince["opload"] = 7
        /\ RawSince["adj"] = 4 /\ RawSince["menuBtn"] = 5 /\ RawSince["charged"] = 9
    BY DEF RawSince
  <1> DEFINE Lost(u, f) == u = BLANK \/ u < RawSince[f]
  <1>8. ASSUME NEW w, NEW u, NEW f \in DOMAIN Fields
        PROVE  /\ Place(f, u) = "" => Meaning(w, u)[f] = "D"
               /\ Lost(u, f) /\ w[Place(f, u)] = "E" => Meaning(w, u)[f] = "D"
               /\ Place(f, u) # "" /\ (~Lost(u, f) \/ w[Place(f, u)] # "E")
                    => Meaning(w, u)[f] = w[Place(f, u)]
    BY DEF Meaning
  <1>9. ASSUME NEW c \in Cells
        PROVE  /\ c \in Puts(v) => m[c] = "D"
               /\ c \notin Puts(v) /\ (v # 2 \/ c \notin {"x54", "x59"})
                    => m[c] = IF img[c] = "E" /\ c \in Seeds(v) THEN "D" ELSE img[c]
               /\ v = 2 /\ c = "x54" => m[c] = IF img["x2C"] = "E" THEN "D" ELSE img["x2C"]
               /\ v = 2 /\ c = "x59" => m[c] = IF img["x3D"] = "E" THEN "D" ELSE img["x3D"]
    <2>1. v = 2 => Puts(v) = {"x61", "x2C"} /\ {"x54", "x59"} \subseteq Seeds(v)
      BY DEF Puts, Seeds, BLANK
    <2>2. "D" # "E"
      OBVIOUS
    <2> QED BY <1>2, <2>1, <2>2
  <1>10. ASSUME NEW f \in DOMAIN Fields
        PROVE  Meaning(m, Current)[f] = Meaning(img, v)[f]
    <2>1. CASE f = "accel"
      <3>1. Place(f, Current) = "x28" /\ "x28" \in Cells /\ "x28" # ""
        BY <2>1 DEF Place, Current, Cells
      <3>2. /\ v \in {1, 2, 3, 4, 5, 6, 7, 8, 255} => Place(f, v) = "x28"
        BY <1>5, <2>1 DEF Place
      <3>3. RawSince[f] = 4
        BY <1>7, <2>1
      <3>4. Lost(v, f) <=> v \in {1, 2, 3, 255}
        BY <1>5, <3>3 DEF BLANK
      <3>5. ~Lost(Current, f)
        BY <3>3 DEF BLANK, Current
      <3> HIDE DEF Lost
      <3>6. Meaning(m, Current)[f] = m["x28"]
        BY <1>8, <3>1, <3>5
      <3>7. ("x28" \in Puts(v) <=> v \in {}) /\ ("x28" \in Seeds(v) <=> v \in {1, 2, 3, 255})
        BY <1>5 DEF Puts, Seeds, BLANK
      <3>8. v = 255 => img["x28"] = "E"
        BY <1>4, <3>1 DEF BLANK
      <3>9. CASE v \in {1, 2, 3, 4, 5, 6, 7, 8, 255}
        <4>1. m["x28"] = img["x28"] \/ (img["x28"] = "E" /\ m["x28"] = "D")
          BY <1>9, <3>1, <3>7, <3>9
        <4>2. CASE v \in {1, 2, 3, 255}
          <5>1. Lost(v, f) /\ Place(f, v) = "x28"
            BY <3>2, <3>4, <3>9, <4>2
          <5>2. img["x28"] = "E" => m["x28"] = "D"
            BY <1>9, <3>1, <3>7, <3>9, <4>2
          <5>3. Meaning(img, v)[f] = IF img["x28"] = "E" THEN "D" ELSE img["x28"]
            BY ONLY <1>8, <3>1, <5>1, f \in DOMAIN Fields
          <5> QED BY ONLY <3>6, <4>1, <5>2, <5>3
        <4>3. CASE v \in {4, 5, 6, 7, 8}
          <5>1. ~Lost(v, f) /\ Place(f, v) = "x28" /\ m["x28"] = img["x28"]
            BY <1>9, <3>1, <3>2, <3>4, <3>7, <3>9, <4>3
          <5> QED BY <1>8, <3>1, <3>6, <5>1
        <4> QED BY <3>9, <4>2, <4>3
      <3> QED BY <1>5, <3>9
    <2>2. CASE f = "brk2"
      <3>1. Place(f, Current) = "x54" /\ "x54" \in Cells /\ "x54" # ""
        BY <2>2 DEF Place, Current, Cells
      <3>2. /\ v \in {3, 4, 5, 6, 7, 8} => Place(f, v) = "x54"
            /\ v \in {1, 255} => Place(f, v) = ""
            /\ v = 2 => Place(f, v) = "x2C"
        BY <1>5, <2>2 DEF Place
      <3>3. RawSince[f] = 8
        BY <1>7, <2>2
      <3>4. Lost(v, f) <=> v \in {1, 2, 3, 4, 5, 6, 7, 255}
        BY <1>5, <3>3 DEF BLANK
      <3>5. ~Lost(Current, f)
        BY <3>3 DEF BLANK, Current
      <3> HIDE DEF Lost
      <3>6. Meaning(m, Current)[f] = m["x54"]
        BY <1>8, <3>1, <3>5
      <3>7. ("x54" \in Puts(v) <=> v \in {1}) /\ ("x54" \in Seeds(v) <=> v \in {1, 2, 3, 4, 5, 6, 7, 255})
        BY <1>5 DEF Puts, Seeds, BLANK
      <3>8. v = 255 => img["x54"] = "E"
        BY <1>4, <3>1 DEF BLANK
      <3>9. CASE v \in {1, 255}
        <4>1. Place(f, v) = ""
          BY <3>2, <3>9
        <4>2. Meaning(img, v)[f] = "D"
          BY <1>8, <4>1
        <4>3. CASE "x54" \in Puts(v)
          <5>1. m["x54"] = "D"
            BY <1>9, <3>1, <4>3
          <5> QED BY <3>6, <4>2, <5>1
        <4>4. CASE "x54" \notin Puts(v)
          <5>1. v = 255 /\ img["x54"] = "E"
            BY <3>7, <3>8, <3>9, <4>4
          <5>2. m["x54"] = IF img["x54"] = "E" /\ "x54" \in Seeds(v) THEN "D" ELSE img["x54"]
            BY <1>9, <3>1, <4>4, <5>1
          <5>3. m["x54"] = "D"
            BY <3>7, <5>1, <5>2
          <5> QED BY <3>6, <4>2, <5>3
        <4> QED BY <4>3, <4>4
      <3>10. CASE v \in {2}
        <4>1. m["x54"] = IF img["x2C"] = "E" THEN "D" ELSE img["x2C"]
          BY <1>9, <3>1, <3>10
        <4>2. Lost(v, f) /\ Place(f, v) = "x2C" /\ "x2C" # ""
          BY <3>2, <3>4, <3>10
        <4>3. Meaning(img, v)[f] = IF img["x2C"] = "E" THEN "D" ELSE img["x2C"]
          BY ONLY <1>8, <4>2, f \in DOMAIN Fields
        <4> QED BY ONLY <3>6, <4>1, <4>3
      <3>11. CASE v \in {3, 4, 5, 6, 7, 8}
        <4>1. m["x54"] = img["x54"] \/ (img["x54"] = "E" /\ m["x54"] = "D")
          BY <1>9, <3>1, <3>7, <3>11
        <4>2. CASE v \in {3, 4, 5, 6, 7}
          <5>1. Lost(v, f) /\ Place(f, v) = "x54"
            BY <3>2, <3>4, <3>11, <4>2
          <5>2. img["x54"] = "E" => m["x54"] = "D"
            BY <1>9, <3>1, <3>7, <3>11, <4>2
          <5>3. Meaning(img, v)[f] = IF img["x54"] = "E" THEN "D" ELSE img["x54"]
            BY ONLY <1>8, <3>1, <5>1, f \in DOMAIN Fields
          <5> QED BY ONLY <3>6, <4>1, <5>2, <5>3
        <4>3. CASE v \in {8}
          <5>1. ~Lost(v, f) /\ Place(f, v) = "x54" /\ m["x54"] = img["x54"]
            BY <1>9, <3>1, <3>2, <3>4, <3>7, <3>11, <4>3
          <5> QED BY <1>8, <3>1, <3>6, <5>1
        <4> QED BY <3>11, <4>2, <4>3
      <3> QED BY <1>5, <3>9, <3>10, <3>11
    <2>3. CASE f = "opload"
      <3>1. Place(f, Current) = "x59" /\ "x59" \in Cells /\ "x59" # ""
        BY <2>3 DEF Place, Current, Cells
      <3>2. /\ v \in {3, 4, 5, 6, 7, 8} => Place(f, v) = "x59"
            /\ v \in {1, 255} => Place(f, v) = ""
            /\ v = 2 => Place(f, v) = "x3D"
        BY <1>5, <2>3 DEF Place
      <3>3. RawSince[f] = 7
        BY <1>7, <2>3
      <3>4. Lost(v, f) <=> v \in {1, 2, 3, 4, 5, 6, 255}
        BY <1>5, <3>3 DEF BLANK
      <3>5. ~Lost(Current, f)
        BY <3>3 DEF BLANK, Current
      <3> HIDE DEF Lost
      <3>6. Meaning(m, Current)[f] = m["x59"]
        BY <1>8, <3>1, <3>5
      <3>7. ("x59" \in Puts(v) <=> v \in {1}) /\ ("x59" \in Seeds(v) <=> v \in {1, 2, 3, 4, 5, 6, 255})
        BY <1>5 DEF Puts, Seeds, BLANK
      <3>8. v = 255 => img["x59"] = "E"
        BY <1>4, <3>1 DEF BLANK
      <3>9. CASE v \in {1, 255}
        <4>1. Place(f, v) = ""
          BY <3>2, <3>9
        <4>2. Meaning(img, v)[f] = "D"
          BY <1>8, <4>1
        <4>3. CASE "x59" \in Puts(v)
          <5>1. m["x59"] = "D"
            BY <1>9, <3>1, <4>3
          <5> QED BY <3>6, <4>2, <5>1
        <4>4. CASE "x59" \notin Puts(v)
          <5>1. v = 255 /\ img["x59"] = "E"
            BY <3>7, <3>8, <3>9, <4>4
          <5>2. m["x59"] = IF img["x59"] = "E" /\ "x59" \in Seeds(v) THEN "D" ELSE img["x59"]
            BY <1>9, <3>1, <4>4, <5>1
          <5>3. m["x59"] = "D"
            BY <3>7, <5>1, <5>2
          <5> QED BY <3>6, <4>2, <5>3
        <4> QED BY <4>3, <4>4
      <3>10. CASE v \in {2}
        <4>1. m["x59"] = IF img["x3D"] = "E" THEN "D" ELSE img["x3D"]
          BY <1>9, <3>1, <3>10
        <4>2. Lost(v, f) /\ Place(f, v) = "x3D" /\ "x3D" # ""
          BY <3>2, <3>4, <3>10
        <4>3. Meaning(img, v)[f] = IF img["x3D"] = "E" THEN "D" ELSE img["x3D"]
          BY ONLY <1>8, <4>2, f \in DOMAIN Fields
        <4> QED BY ONLY <3>6, <4>1, <4>3
      <3>11. CASE v \in {3, 4, 5, 6, 7, 8}
        <4>1. m["x59"] = img["x59"] \/ (img["x59"] = "E" /\ m["x59"] = "D")
          BY <1>9, <3>1, <3>7, <3>11
        <4>2. CASE v \in {3, 4, 5, 6}
          <5>1. Lost(v, f) /\ Place(f, v) = "x59"
            BY <3>2, <3>4, <3>11, <4>2
          <5>2. img["x59"] = "E" => m["x59"] = "D"
            BY <1>9, <3>1, <3>7, <3>11, <4>2
          <5>3. Meaning(img, v)[f] = IF img["x59"] = "E" THEN "D" ELSE img["x59"]
            BY ONLY <1>8, <3>1, <5>1, f \in DOMAIN Fields
          <5> QED BY ONLY <3>6, <4>1, <5>2, <5>3
        <4>3. CASE v \in {7, 8}
          <5>1. ~Lost(v, f) /\ Place(f, v) = "x59"
            <6>1. v \notin {1, 2, 3, 4, 5, 6, 255} /\ v \in {3, 4, 5, 6, 7, 8}
              BY <4>3
            <6>2. ~Lost(v, f)
              BY <3>4, <6>1
            <6>3. Place(f, v) = "x59"
              BY <3>2, <6>1
            <6> QED BY <6>2, <6>3
          <5>2. "x59" \notin Puts(v) /\ "x59" \notin Seeds(v) /\ v # 2
            BY <3>7, <4>3
          <5>3. m["x59"] = img["x59"]
            BY <1>9, <3>1, <5>2
          <5> QED BY <1>8, <3>1, <3>6, <5>1, <5>3
        <4> QED BY <3>11, <4>2, <4>3
      <3> QED BY <1>5, <3>9, <3>10, <3>11
    <2>4. CASE f = "adj"
      <3>1. Place(f, Current) = "x61" /\ "x61" \in Cells /\ "x61" # ""
        BY <2>4 DEF Place, Current, Cells
      <3>2. /\ v \in {4, 5, 6, 7, 8} => Place(f, v) = "x61"
            /\ v \in {1, 2, 3, 255} => Place(f, v) = ""
        BY <1>5, <2>4 DEF Place
      <3>3. RawSince[f] = 4
        BY <1>7, <2>4
      <3>4. Lost(v, f) <=> v \in {1, 2, 3, 255}
        BY <1>5, <3>3 DEF BLANK
      <3>5. ~Lost(Current, f)
        BY <3>3 DEF BLANK, Current
      <3> HIDE DEF Lost
      <3>6. Meaning(m, Current)[f] = m["x61"]
        BY <1>8, <3>1, <3>5
      <3>7. ("x61" \in Puts(v) <=> v \in {1, 2, 3, 255}) /\ ("x61" \in Seeds(v) <=> v \in {})
        BY <1>5 DEF Puts, Seeds, BLANK
      <3>8. v = 255 => img["x61"] = "E"
        BY <1>4, <3>1 DEF BLANK
      <3>9. CASE v \in {1, 2, 3, 255}
        <4>1. Place(f, v) = ""
          BY <3>2, <3>9
        <4>2. Meaning(img, v)[f] = "D"
          BY <1>8, <4>1
        <4>3. CASE "x61" \in Puts(v)
          <5>1. m["x61"] = "D"
            BY <1>9, <3>1, <4>3
          <5> QED BY <3>6, <4>2, <5>1
        <4>4. "x61" \in Puts(v)
          BY <3>7, <3>9
        <4> QED BY <4>3, <4>4
      <3>10. CASE v \in {4, 5, 6, 7, 8}
        <4>1. ~Lost(v, f) /\ Place(f, v) = "x61" /\ m["x61"] = img["x61"]
          BY <1>9, <3>1, <3>2, <3>4, <3>7, <3>10
        <4> QED BY <1>8, <3>1, <3>6, <4>1
      <3> QED BY <1>5, <3>9, <3>10
    <2>5. CASE f = "menuBtn"
      <3>1. Place(f, Current) = "x2C" /\ "x2C" \in Cells /\ "x2C" # ""
        BY <2>5 DEF Place, Current, Cells
      <3>2. /\ v \in {5, 6, 7, 8} => Place(f, v) = "x2C"
            /\ v \in {1, 2, 3, 4, 255} => Place(f, v) = ""
        BY <1>5, <2>5 DEF Place
      <3>3. RawSince[f] = 5
        BY <1>7, <2>5
      <3>4. Lost(v, f) <=> v \in {1, 2, 3, 4, 255}
        BY <1>5, <3>3 DEF BLANK
      <3>5. ~Lost(Current, f)
        BY <3>3 DEF BLANK, Current
      <3> HIDE DEF Lost
      <3>6. Meaning(m, Current)[f] = m["x2C"]
        BY <1>8, <3>1, <3>5
      <3>7. ("x2C" \in Puts(v) <=> v \in {1, 2, 3, 4, 255}) /\ ("x2C" \in Seeds(v) <=> v \in {})
        BY <1>5 DEF Puts, Seeds, BLANK
      <3>8. v = 255 => img["x2C"] = "E"
        BY <1>4, <3>1 DEF BLANK
      <3>9. CASE v \in {1, 2, 3, 4, 255}
        <4>1. Place(f, v) = ""
          BY <3>2, <3>9
        <4>2. Meaning(img, v)[f] = "D"
          BY <1>8, <4>1
        <4>3. CASE "x2C" \in Puts(v)
          <5>1. m["x2C"] = "D"
            BY <1>9, <3>1, <4>3
          <5> QED BY <3>6, <4>2, <5>1
        <4>4. "x2C" \in Puts(v)
          BY <3>7, <3>9
        <4> QED BY <4>3, <4>4
      <3>10. CASE v \in {5, 6, 7, 8}
        <4>1. ~Lost(v, f) /\ Place(f, v) = "x2C" /\ m["x2C"] = img["x2C"]
          BY <1>9, <3>1, <3>2, <3>4, <3>7, <3>10
        <4> QED BY <1>8, <3>1, <3>6, <4>1
      <3> QED BY <1>5, <3>9, <3>10
    <2>6. CASE f = "charged"
      <3>1. Place(f, Current) = "x4A" /\ "x4A" \in Cells /\ "x4A" # ""
        BY <2>6 DEF Place, Current, Cells
      <3>2. /\ v \in {2, 3, 4, 5, 6, 7, 8} => Place(f, v) = "x4A"
            /\ v \in {1, 255} => Place(f, v) = ""
        BY <1>5, <2>6 DEF Place
      <3>3. RawSince[f] = 9
        BY <1>7, <2>6
      <3>4. Lost(v, f) <=> v \in {1, 2, 3, 4, 5, 6, 7, 8, 255}
        BY <1>5, <3>3 DEF BLANK
      <3>5. Lost(Current, f)
        BY <3>3 DEF BLANK, Current
      <3> HIDE DEF Lost
      <3>6. Meaning(m, Current)[f] = IF m["x4A"] = "E" THEN "D" ELSE m["x4A"]
        BY <1>8, <3>1, <3>5
      <3>7. ("x4A" \in Puts(v) <=> v \in {1}) /\ ("x4A" \in Seeds(v) <=> v \in {})
        BY <1>5 DEF Puts, Seeds, BLANK
      <3>8. v = 255 => img["x4A"] = "E"
        BY <1>4, <3>1 DEF BLANK
      <3>9. CASE v \in {1, 255}
        <4>1. Place(f, v) = ""
          BY <3>2, <3>9
        <4>2. Meaning(img, v)[f] = "D"
          BY <1>8, <4>1
        <4>3. CASE "x4A" \in Puts(v)
          <5>1. m["x4A"] = "D"
            BY <1>9, <3>1, <4>3
          <5> QED BY <3>6, <4>2, <5>1
        <4>4. CASE "x4A" \notin Puts(v)
          <5>1. v = 255 /\ img["x4A"] = "E"
            BY <3>7, <3>8, <3>9, <4>4
          <5>2. m["x4A"] = IF img["x4A"] = "E" /\ "x4A" \in Seeds(v) THEN "D" ELSE img["x4A"]
            BY <1>9, <3>1, <4>4, <5>1
          <5>3. m["x4A"] = "D" \/ m["x4A"] = "E"
            BY <3>7, <5>1, <5>2
          <5> QED BY <3>6, <4>2, <5>3
        <4> QED BY <4>3, <4>4
      <3>10. CASE v \in {2, 3, 4, 5, 6, 7, 8}
        <4>1. m["x4A"] = img["x4A"] \/ (img["x4A"] = "E" /\ m["x4A"] = "D")
          BY <1>9, <3>1, <3>7, <3>10
        <4>2. CASE v \in {2, 3, 4, 5, 6, 7, 8}
          <5>1. Lost(v, f) /\ Place(f, v) = "x4A"
            BY <3>2, <3>4, <3>10, <4>2
          <5>2. Meaning(img, v)[f] = IF img["x4A"] = "E" THEN "D" ELSE img["x4A"]
            BY ONLY <1>8, <3>1, <5>1, f \in DOMAIN Fields
          <5> QED BY ONLY <3>6, <4>1, <5>2
        <4> QED BY <3>10, <4>2
      <3> QED BY <1>5, <3>9, <3>10
    <2> QED BY <1>6, <2>1, <2>2, <2>3, <2>4, <2>5, <2>6
  <1>11. Meaning(m, Current) = Meaning(img, v)
    <2>1. \A w, u: Meaning(w, u) = [f \in DOMAIN Fields |-> Meaning(w, u)[f]]
      BY DEF Meaning
    <2> QED BY <1>10, <2>1
  <1> QED BY <1>3, <1>11 DEF m

(***************************************************************************)
(* The operations' own jobs write bytes and nothing else.                  *)
(***************************************************************************)

(* A job of plain writes makes the image that they spell. *)
LEMMA PutsReach ==
    ASSUME NEW j \in Seq(Ops), \A x: Has(j, x) => x.how = "put",
           NEW st \in [Slots -> Contents], NEW goal \in [Slots -> Contents],
           \A s \in Slots, c \in Cells, v \in Kinds: Has(j, Put(s, c, v)) => goal[s][c] = v,
           \A s \in Slots, c \in Cells:
             (\A v \in Kinds: ~Has(j, Put(s, c, v))) => goal[s][c] = st[s][c]
    PROVE  Ordered(j) /\ Reaches(j, st, goal)
  <1>1. \A x, y: Has(j, x) /\ Has(j, y) => Free(x, y)
    BY DEF Free
  <1>2. ASSUME NEW s \in Slots, NEW c \in Cells
        PROVE  ~Has(j, Seed(s, c)) /\ \A d \in Cells: ~Has(j, Transfer(s, c, d))
    BY DEF Seed, Transfer
  <1>3. \A s \in Slots, c \in Cells: \A v: Fixed(j, s, c, v) = v
    BY <1>2 DEF Fixed
  <1>4. Reaches(j, st, goal)
    BY <1>2, <1>3 DEF Reaches
  <1> QED BY <1>1, <1>4, Alike

(* A slot written whole has one write for each byte. *)
LEMMA ImageIs ==
    ASSUME NEW s \in Slots, NEW img \in Contents
    PROVE  /\ Image(s, img) \in Seq(Ops) /\ Len(Image(s, img)) = 7
           /\ \A x: Has(Image(s, img), x) <=> \E c \in Cells: x = Put(s, c, img[c])
  <1> DEFINE j == Image(s, img)
  <1>1. DOMAIN CellSeq = 1 .. 7 /\ Len(CellSeq) = 7
    BY DEF CellSeq
  <1>2. \A k \in 1 .. 7: CellSeq[k] \in Cells
    BY DEF CellSeq, Cells
  <1>3. \A c \in Cells: \E k \in 1 .. 7: CellSeq[k] = c
    <2>1. /\ CellSeq[1] = "x28" /\ CellSeq[2] = "x2C" /\ CellSeq[3] = "x3D" /\ CellSeq[4] = "x4A"
          /\ CellSeq[5] = "x54" /\ CellSeq[6] = "x59" /\ CellSeq[7] = "x61"
      BY DEF CellSeq
    <2>2. 1 \in 1 .. 7 /\ 2 \in 1 .. 7 /\ 3 \in 1 .. 7 /\ 4 \in 1 .. 7 /\ 5 \in 1 .. 7 /\ 6 \in 1 .. 7 /\ 7 \in 1 .. 7
      OBVIOUS
    <2> QED BY <2>1, <2>2 DEF Cells
  <1>4. j = [k \in 1 .. 7 |-> Put(s, CellSeq[k], img[CellSeq[k]])]
    BY <1>1 DEF Image
  <1>5. \A k \in 1 .. 7: j[k] \in Ops
    BY <1>2, <1>4, OpsAre DEF Contents
  <1>6. j \in Seq(Ops) /\ Len(j) = 7 /\ DOMAIN j = 1 .. 7
    <2>1. j = [k \in 1 .. 7 |-> j[k]]
      BY <1>4
    <2> HIDE DEF j
    <2> QED BY <1>5, <2>1
  <1>7. \A k \in 1 .. 7: j[k] = Put(s, CellSeq[k], img[CellSeq[k]])
    BY <1>4
  <1> HIDE DEF j
  <1>8. \A x: Has(j, x) <=> \E c \in Cells: x = Put(s, c, img[c])
    BY <1>2, <1>3, <1>6, <1>7 DEF Has
  <1> QED BY <1>6, <1>8 DEF j

(* Two plain writes are the same only if they write the same byte the same. *)
LEMMA PutIs ==
    \A s, c, v: /\ Put(s, c, v).how = "put" /\ Put(s, c, v).slot = s /\ Put(s, c, v).cell = c /\ Put(s, c, v).val = v
                /\ \A r, d, u: Put(s, c, v) = Put(r, d, u) <=> s = r /\ c = d /\ v = u
  BY DEF Put

(* A slot written whole becomes that image and leaves the others. *)
LEMMA ImageReaches ==
    ASSUME NEW s \in Slots, NEW img \in Contents, NEW st \in [Slots -> Contents]
    PROVE  /\ Image(s, img) \in Seq(Ops) /\ Ordered(Image(s, img))
           /\ Reaches(Image(s, img), st, [st EXCEPT ![s] = img])
  <1> DEFINE j == Image(s, img)
             goal == [st EXCEPT ![s] = img]
  <1>1. j \in Seq(Ops) /\ \A x: Has(j, x) <=> \E c \in Cells: x = Put(s, c, img[c])
    BY ImageIs
  <1>2. goal \in [Slots -> Contents] /\ goal[s] = img /\ \A r \in Slots: r # s => goal[r] = st[r]
    OBVIOUS
  <1>3. \A c \in Cells: img[c] \in Kinds
    BY DEF Contents
  <1> HIDE DEF j, goal
  <1>4. \A x: Has(j, x) => x.how = "put"
    BY <1>1, PutIs
  <1>5. \A r \in Slots, c \in Cells, v \in Kinds: Has(j, Put(r, c, v)) => goal[r][c] = v
    BY <1>1, <1>2, PutIs
  <1>6. ASSUME NEW r \in Slots, NEW c \in Cells, \A v \in Kinds: ~Has(j, Put(r, c, v))
        PROVE  goal[r][c] = st[r][c]
    BY <1>1, <1>2, <1>3, <1>6
  <1>7. Ordered(j) /\ Reaches(j, st, goal)
    BY <1>1, <1>2, <1>4, <1>5, <1>6, PutsReach
  <1> QED BY <1>1, <1>7 DEF j, goal

(* resetConfig() makes every slot the default image. *)
LEMMA ResetReaches ==
    ASSUME ConfigAssumption, NEW img \in Contents, NEW st \in [Slots -> Contents]
    PROVE  LET j == InOrder([n \in 1..(MAX_CONFIGS + 1) |-> n - 1], [s \in Slots |-> Image(s, img)])
           IN  j \in Seq(Ops) /\ Ordered(j) /\ Reaches(j, st, [s \in Slots |-> img])
  <1> DEFINE slots == [n \in 1..(MAX_CONFIGS + 1) |-> n - 1]
             writes == [s \in Slots |-> Image(s, img)]
             goal == [s \in Slots |-> img]
             j == InOrder(slots, writes)
  <1>1. MAX_CONFIGS \in Nat /\ WORKING \in Slots /\ Slots = 0 .. MAX_CONFIGS
    BY DEF ConfigAssumption, Slots, WORKING
  <1>2. slots \in Seq(Slots) /\ DOMAIN slots = 1 .. (MAX_CONFIGS + 1)
    BY <1>1
  <1>3. \A s \in Slots: \E n \in DOMAIN slots: slots[n] = s
    <2> SUFFICES ASSUME NEW s \in Slots PROVE \E n \in 1 .. (MAX_CONFIGS + 1): slots[n] = s
      BY <1>2
    <2>1. s + 1 \in 1 .. (MAX_CONFIGS + 1) /\ slots[s + 1] = s
      BY <1>1
    <2> QED BY <2>1
  <1>4. \A s \in Slots: /\ writes[s] = Image(s, img) /\ writes[s] \in Seq(Ops) /\ Len(writes[s]) = 7
                        /\ \A x: Has(writes[s], x) <=> \E c \in Cells: x = Put(s, c, img[c])
    BY ImageIs
  <1>5. writes \in [Slots -> Seq(Ops)]
    BY <1>4
  <1>6. goal \in [Slots -> Contents] /\ \A s \in Slots: goal[s] = img
    OBVIOUS
  <1> HIDE DEF slots, writes, goal
  <1>7. /\ InOrder(slots, writes) \in Seq(Ops)
        /\ \A x: Has(InOrder(slots, writes), x) <=> \E s \in Slots: Has(writes[s], x)
    BY <1>1, <1>2, <1>3, <1>4, <1>5, InOrderIs
  <1> HIDE DEF j
  <1>8. j \in Seq(Ops) /\ \A x: Has(j, x) <=> \E s \in Slots: Has(writes[s], x)
    BY <1>7 DEF j
  <1>9. \A x: Has(j, x) <=> \E s \in Slots, c \in Cells: x = Put(s, c, img[c])
    <2>1. ASSUME NEW x PROVE Has(j, x) <=> \E s \in Slots, c \in Cells: x = Put(s, c, img[c])
      <3>1. Has(j, x) <=> \E s \in Slots: Has(writes[s], x)
        BY <1>8
      <3>2. \A s \in Slots: Has(writes[s], x) <=> \E c \in Cells: x = Put(s, c, img[c])
        BY <1>4
      <3> QED BY <3>1, <3>2
    <2> QED BY <2>1
  <1>10. \A c \in Cells: img[c] \in Kinds
    BY DEF Contents
  <1>11. \A x: Has(j, x) => x.how = "put"
    BY <1>9, PutIs
  <1>12. \A s \in Slots, c \in Cells, v \in Kinds: Has(j, Put(s, c, v)) => goal[s][c] = v
    BY <1>6, <1>9, PutIs
  <1>13. \A s \in Slots, c \in Cells: Has(j, Put(s, c, img[c])) /\ img[c] \in Kinds
    BY <1>9, <1>10
  <1>14. Ordered(j) /\ Reaches(j, st, goal)
    BY <1>6, <1>8, <1>11, <1>12, <1>13, PutsReach
  <1> QED BY <1>8, <1>14 DEF goal, j, slots, writes

(* No two fields share a byte, and no field has the unused one. *)
LEMMA FieldsAre ==
    /\ DOMAIN Fields = {"accel", "brk2", "opload", "adj", "menuBtn", "charged"}
    /\ \A f \in DOMAIN Fields: Fields[f] \in Cells \ {"x3D"}
    /\ \A f, g \in DOMAIN Fields: Fields[f] = Fields[g] => f = g
    /\ \A f \in DOMAIN Fields: Fields[f] = "x4A" <=> f = "charged"
  BY DEF Fields, Cells

(* The writes of a screen's SAVE bring the working profile to the edited     *)
(* values when the other screens' values are as stored.                      *)
LEMMA SaveReaches ==
    ASSUME NEW saved \in Screens, NEW img \in [DOMAIN Fields -> Kinds], NEW st \in [Slots -> Contents],
           WORKING \in Slots,
           \A f \in DOMAIN Fields: (\A k \in DOMAIN saved: saved[k] # f) => img[f] = st[WORKING][Fields[f]]
    PROVE  LET j == [k \in DOMAIN saved |-> Put(WORKING, Fields[saved[k]], img[saved[k]])]
           IN
           /\ j \in Seq(Ops) /\ Ordered(j)
           /\ \E goal \in [Slots -> Contents]:
                /\ Reaches(j, st, goal)
                /\ \A f \in DOMAIN Fields: goal[WORKING][Fields[f]] = img[f]
                /\ \A s \in Slots: s # WORKING => goal[s] = st[s]
  <1> DEFINE j == [k \in DOMAIN saved |-> Put(WORKING, Fields[saved[k]], img[saved[k]])]
             names == {saved[k] : k \in DOMAIN saved}
             slot == [c \in Cells |-> IF \E f \in names: Fields[f] = c
                                        THEN img[CHOOSE f \in names: Fields[f] = c] ELSE st[WORKING][c]]
             goal == [st EXCEPT ![WORKING] = slot]
  <1>1. PICK n \in Nat: DOMAIN saved = 1 .. n /\ \A k \in 1 .. n: saved[k] \in DOMAIN Fields
    <2>1. CASE saved = <<"accel", "brk2", "opload", "adj">>
      <3>1. DOMAIN saved = 1 .. 4 /\ \A k \in 1 .. 4: saved[k] \in DOMAIN Fields
        BY <2>1, FieldsAre
      <3> QED BY <3>1
    <2>2. CASE saved = <<"menuBtn">>
      <3>1. DOMAIN saved = 1 .. 1 /\ \A k \in 1 .. 1: saved[k] \in DOMAIN Fields
        BY <2>2, FieldsAre
      <3> QED BY <3>1
    <2>3. CASE saved = <<"charged">>
      <3>1. DOMAIN saved = 1 .. 1 /\ \A k \in 1 .. 1: saved[k] \in DOMAIN Fields
        BY <2>3, FieldsAre
      <3> QED BY <3>1
    <2> QED BY <2>1, <2>2, <2>3 DEF Screens
  <1>2. names \subseteq DOMAIN Fields /\ \A k \in 1 .. n: saved[k] \in names
    BY <1>1
  <1>3. \A x: Has(j, x) <=> \E f \in names: x = Put(WORKING, Fields[f], img[f])
    BY <1>1 DEF Has
  <1>4. j \in Seq(Ops)
    <2>1. \A f \in DOMAIN Fields: Put(WORKING, Fields[f], img[f]) \in Ops
      BY FieldsAre, OpsAre
    <2>2. \A k \in 1 .. n: j[k] \in Ops
      BY <1>1, <2>1
    <2>3. j = [k \in 1 .. n |-> j[k]]
      BY <1>1
    <2> QED BY <2>2, <2>3
  <1>5. \A f \in DOMAIN Fields \ names: img[f] = st[WORKING][Fields[f]]
    OBVIOUS
  <1>6. st[WORKING] \in Contents /\ \A c \in Cells: st[WORKING][c] \in Kinds
    BY DEF Contents
  <1> HIDE DEF names, j
  <1>7. ASSUME NEW f \in names PROVE slot[Fields[f]] = img[f] /\ img[f] \in Kinds
    <2>1. Fields[f] \in Cells /\ f \in DOMAIN Fields
      BY <1>2, FieldsAre
    <2>2. (CHOOSE g \in names: Fields[g] = Fields[f]) = f
      BY <1>2, FieldsAre
    <2> QED BY <2>1, <2>2
  <1>8. ASSUME NEW c \in Cells, ~\E f \in names: Fields[f] = c PROVE slot[c] = st[WORKING][c]
    BY <1>8
  <1>9. slot \in Contents
    <2>1. ASSUME NEW c \in Cells PROVE slot[c] \in Kinds
      BY <1>6, <1>7, <1>8
    <2>2. slot = [c \in Cells |-> slot[c]]
      OBVIOUS
    <2> HIDE DEF slot
    <2> QED BY <2>1, <2>2 DEF Contents
  <1> HIDE DEF slot
  <1>10. /\ goal \in [Slots -> Contents] /\ goal[WORKING] = slot
         /\ \A s \in Slots: s # WORKING => goal[s] = st[s]
    BY <1>9
  <1> HIDE DEF goal
  <1>11. \A f \in DOMAIN Fields: goal[WORKING][Fields[f]] = img[f]
    <2> TAKE f \in DOMAIN Fields
    <2>1. CASE f \in names
      BY <1>7, <1>10, <2>1
    <2>2. CASE f \notin names
      <3>1. ~\E g \in names: Fields[g] = Fields[f]
        BY <1>2, <2>2, FieldsAre
      <3> QED BY <1>5, <1>8, <1>10, <2>2, <3>1, FieldsAre
    <2> QED BY <2>1, <2>2
  <1>12. \A x: Has(j, x) => x.how = "put"
    BY <1>3, PutIs
  <1>13. \A s \in Slots, c \in Cells, v \in Kinds: Has(j, Put(s, c, v)) => goal[s][c] = v
    BY <1>3, <1>7, <1>10, PutIs
  <1>14. ASSUME NEW s \in Slots, NEW c \in Cells, \A v \in Kinds: ~Has(j, Put(s, c, v))
         PROVE  goal[s][c] = st[s][c]
    <2>1. CASE s = WORKING
      <3>1. ~\E f \in names: Fields[f] = c
        BY <1>3, <1>7, <1>14, <2>1
      <3> QED BY <1>8, <1>10, <2>1, <3>1
    <2>2. CASE s # WORKING
      BY <1>10, <2>2
    <2> QED BY <2>1, <2>2
  <1>15. Ordered(j) /\ Reaches(j, st, goal)
    BY <1>4, <1>10, <1>12, <1>13, <1>14, PutsReach
  <1> QED BY <1>4, <1>10, <1>11, <1>15 DEF j

(***************************************************************************)
(* What a slot means.                                                      *)
(***************************************************************************)

(* What a slot means to this firmware: its bytes, an erased CHARGED being    *)
(* the default.                                                              *)
LEMMA MeaningNow ==
    ASSUME NEW img
    PROVE  \A f \in DOMAIN Fields:
             Meaning(img, Current)[f] = IF f = "charged" /\ img["x4A"] = "E" THEN "D" ELSE img[Fields[f]]
  <1> SUFFICES ASSUME NEW f \in DOMAIN Fields
               PROVE  Meaning(img, Current)[f]
                        = IF f = "charged" /\ img["x4A"] = "E" THEN "D" ELSE img[Fields[f]]
    OBVIOUS
  <1> DEFINE Lost == Current = BLANK \/ Current < RawSince[f]
  <1>1. Place(f, Current) = Fields[f] /\ Fields[f] # ""
    <2>1. /\ Place("accel", Current) = "x28" /\ Place("brk2", Current) = "x54" /\ Place("opload", Current) = "x59"
          /\ Place("adj", Current) = "x61" /\ Place("menuBtn", Current) = "x2C" /\ Place("charged", Current) = "x4A"
      BY DEF Place, Current
    <2>2. /\ Fields["accel"] = "x28" /\ Fields["brk2"] = "x54" /\ Fields["opload"] = "x59"
          /\ Fields["adj"] = "x61" /\ Fields["menuBtn"] = "x2C" /\ Fields["charged"] = "x4A"
      BY DEF Fields
    <2>3. f \in {"accel", "brk2", "opload", "adj", "menuBtn", "charged"}
      BY FieldsAre
    <2> QED BY <2>1, <2>2, <2>3
  <1>2. Lost <=> f = "charged"
    <2>1. f \in {"accel", "brk2", "opload", "adj", "menuBtn", "charged"}
      BY FieldsAre
    <2>2. CASE f = "charged"
      <3>1. RawSince[f] = 9
        BY <2>2 DEF RawSince
      <3> QED BY <2>2, <3>1 DEF Current, BLANK
    <2>3. CASE f # "charged"
      <3>1. RawSince[f] \in {4, 5, 7, 8}
        BY <2>1, <2>3 DEF RawSince
      <3>2. ~(8 < RawSince[f]) /\ 8 # 255
        BY <3>1
      <3> QED BY <2>3, <3>2 DEF Current, BLANK
    <2> QED BY <2>2, <2>3
  <1>3. Meaning(img, Current)[f]
          = IF Place(f, Current) = "" \/ (img[Place(f, Current)] = "E" /\ Lost)
              THEN "D" ELSE img[Place(f, Current)]
    BY DEF Meaning
  <1>4. f = "charged" => Fields[f] = "x4A"
    BY FieldsAre
  <1> HIDE DEF Lost
  <1> QED BY <1>1, <1>2, <1>3, <1>4

(* A meaning gives every field a value. *)
LEMMA MeaningType ==
    ASSUME NEW img \in Contents, NEW v
    PROVE  Meaning(img, v) \in [DOMAIN Fields -> Kinds]
  <1>1. ASSUME NEW f \in DOMAIN Fields PROVE Meaning(img, v)[f] \in Kinds
    <2>1. Place(f, v) = "" \/ Place(f, v) \in Cells
      BY FieldsAre DEF Place, Cells
    <2>2. Meaning(img, v)[f] = "D" \/ (Place(f, v) # "" /\ Meaning(img, v)[f] = img[Place(f, v)])
      BY DEF Meaning
    <2>3. "D" \in Kinds /\ \A c \in Cells: img[c] \in Kinds
      BY DEF Kinds, Contents
    <2> QED BY <2>1, <2>2, <2>3
  <1>2. Meaning(img, v) = [f \in DOMAIN Fields |-> Meaning(img, v)[f]]
    BY DEF Meaning
  <1> QED BY <1>1, <1>2

(* The healing at the end of readConfig() changes no meaning, and the        *)
(* settings it leaves are the meaning.                                       *)
LEMMA HealedMeans ==
    ASSUME NEW img \in Contents
    PROVE  /\ HealedSlot(img) \in Contents
           /\ Meaning(HealedSlot(img), Current) = Meaning(img, Current)
           /\ Decode(HealedSlot(img)) = Meaning(img, Current)
           /\ Decode(HealedSlot(img))["charged"] # "E"
  <1>1. "D" \in Kinds /\ "D" # "E" /\ "x4A" \in Cells
    BY DEF Kinds, Cells
  <1>2. HealedSlot(img) \in Contents
    BY <1>1 DEF HealedSlot, Contents
  <1>3. /\ \A c \in Cells: c # "x4A" => HealedSlot(img)[c] = img[c]
        /\ HealedSlot(img)["x4A"] = IF img["x4A"] = "E" THEN "D" ELSE img["x4A"]
    BY <1>1 DEF HealedSlot, Contents
  <1>4. \A f \in DOMAIN Fields: Decode(HealedSlot(img))[f] = HealedSlot(img)[Fields[f]]
    BY DEF Decode
  <1>5. ASSUME NEW f \in DOMAIN Fields
        PROVE  /\ Meaning(HealedSlot(img), Current)[f] = Meaning(img, Current)[f]
               /\ Decode(HealedSlot(img))[f] = Meaning(img, Current)[f]
    <2>1. Fields[f] \in Cells /\ (Fields[f] = "x4A" <=> f = "charged")
      BY FieldsAre
    <2>2. Meaning(img, Current)[f] = IF f = "charged" /\ img["x4A"] = "E" THEN "D" ELSE img[Fields[f]]
      BY MeaningNow
    <2>3. Meaning(HealedSlot(img), Current)[f]
            = IF f = "charged" /\ HealedSlot(img)["x4A"] = "E" THEN "D" ELSE HealedSlot(img)[Fields[f]]
      BY MeaningNow
    <2> QED BY <1>1, <1>3, <1>4, <2>1, <2>2, <2>3
  <1>6. /\ \A w, u: Meaning(w, u) = [f \in DOMAIN Fields |-> Meaning(w, u)[f]]
        /\ \A w: Decode(w) = [f \in DOMAIN Fields |-> Decode(w)[f]]
    BY DEF Meaning, Decode
  <1>7. Decode(HealedSlot(img))["charged"] # "E"
    <2>1. "charged" \in DOMAIN Fields /\ Fields["charged"] = "x4A"
      BY FieldsAre
    <2> QED BY <1>1, <1>3, <1>4, <2>1
  <1> QED BY <1>2, <1>5, <1>6, <1>7

(* A slot that holds the settings byte for byte means them. *)
LEMMA SameMeaning ==
    ASSUME NEW img, NEW vals \in [DOMAIN Fields -> Kinds], vals["charged"] # "E",
           \A f \in DOMAIN Fields: img[Fields[f]] = vals[f]
    PROVE  Meaning(img, Current) = vals
  <1>1. "charged" \in DOMAIN Fields /\ Fields["charged"] = "x4A"
    BY FieldsAre
  <1>2. ASSUME NEW f \in DOMAIN Fields PROVE Meaning(img, Current)[f] = vals[f]
    BY <1>1, MeaningNow
  <1>3. Meaning(img, Current) = [f \in DOMAIN Fields |-> Meaning(img, Current)[f]]
    BY DEF Meaning
  <1> QED BY <1>2, <1>3

(* Once a slot has no write left it has reached the job's goal. *)
LEMMA NothingLeft ==
    ASSUME NEW st \in [Slots -> Contents], NEW goal \in [Slots -> Contents],
           NEW j \in Seq(Ops), Reaches(j, st, goal), NEW s \in Slots, \A k \in DOMAIN j: j[k].slot # s
    PROVE  goal[s] = st[s]
  <1>1. \A c \in Cells: ~Has(j, Seed(s, c))
    BY DEF Has, Seed
  <1>2. \A c \in Cells, v \in Kinds: ~Has(j, Put(s, c, v))
    BY DEF Has, Put
  <1>3. \A c, d \in Cells: ~Has(j, Transfer(s, c, d))
    BY DEF Has, Transfer
  <1>4. \A c \in Cells: goal[s][c] = st[s][c]
    BY <1>1, <1>2, <1>3 DEF Reaches, Fixed
  <1> QED BY <1>4 DEF Contents

-----------------------------------------------------------------------------
(***************************************************************************)
(* The invariant.  Until the stamp is written the store is as the older    *)
(* firmware left it; from then on what is still to be written completes    *)
(* the profiles, each to what the book says of it.                         *)
(***************************************************************************)

StoreTypes ==
    /\ version \in (1..Current) \union {BLANK}
    /\ store \in [Slots -> Contents]
    /\ settings \in [DOMAIN Fields -> Kinds]
    /\ phase \in {"off", "busy", "ready", "editing"}
    /\ jobs \in 0..MaxJobs
    /\ book \in [Slots -> [DOMAIN Fields -> Kinds]]
    /\ torn \subseteq Slots

(* Until the stamp is written nothing of an old store is. *)
OldStore ==
    version # Current =>
      /\ torn = {}
      /\ \A s \in Slots: book[s] = Meaning(store[s], version)
      /\ version = BLANK => \A s \in Slots: store[s] = Erased
      /\ \/ phase = "off" /\ job = <<>>
         \/ phase = "busy" /\ job = Stamp(version) \o Migrations(version)

AtRest ==
    version = Current /\ phase # "busy" =>
      /\ job = <<>>
      /\ \A s \in Slots \ torn: Meaning(store[s], Current) = book[s]

(* The writes still to do bring every profile that is not torn to the book. *)
Completes(j, st, bk, tn) ==
    /\ j \in Seq(Ops) /\ Ordered(j)
    /\ \E goal \in [Slots -> Contents]:
         Reaches(j, st, goal) /\ \A s \in Slots \ tn: Meaning(goal[s], Current) = bk[s]

AtWork == version = Current /\ phase = "busy" => Completes(job, store, book, torn)

Live ==
    phase \in {"ready", "editing"} =>
      /\ version = Current
      /\ settings["charged"] # "E"
      /\ phase = "ready" => settings = Meaning(store[WORKING], Current)

StoreInv == StoreTypes /\ OldStore /\ AtRest /\ AtWork /\ Live

(* The layout version is stamped before the first migration write. *)
LEMMA StampIs ==
    ASSUME ConfigAssumption, NEW v \in 0..BLANK, v # Current
    PROVE  LET j == Stamp(v) \o Migrations(v)
           IN  /\ j # <<>> /\ Head(j).how = "stamp" /\ Tail(j) = Migrations(v)
               /\ \A k \in DOMAIN j: j[k].slot \in Slots /\ j[k].cell \in Cells
  <1> DEFINE m == Migrations(v)
             w == [how |-> "stamp", slot |-> WORKING, cell |-> "x28", val |-> "D"]
             j == <<w>> \o m
  <1>1. m \in Seq(Ops)
    BY MigrationsAre
  <1>2. w.how = "stamp" /\ w.slot \in Slots /\ w.cell \in Cells
    BY DEF Slots, WORKING, Cells, ConfigAssumption
  <1>3. Stamp(v) = <<w>>
    BY DEF Stamp
  <1>4. \A o \in Ops: o.slot \in Slots /\ o.cell \in Cells
    BY DEF Ops, Op
  <1> HIDE DEF m, w
  <1>5. m \in Seq(Ops \union {w}) /\ <<w>> \in Seq(Ops \union {w})
    <2>1. Len(m) \in Nat /\ m = [k \in 1 .. Len(m) |-> m[k]] /\ \A k \in 1 .. Len(m): m[k] \in Ops \union {w}
      BY <1>1
    <2>2. m \in Seq(Ops \union {w})
      BY <2>1
    <2> QED BY <2>2
  <1>6. j # <<>> /\ Head(j) = w /\ Tail(j) = m /\ \A k \in DOMAIN j: j[k] \in Ops \union {w}
    BY <1>5
  <1> QED BY <1>2, <1>3, <1>4, <1>6 DEF m

(* The migrations bring every slot to what the book says of it. *)
LEMMA Migrates ==
    ASSUME ConfigAssumption, NEW v \in (1..Current) \union {BLANK}, NEW st \in [Slots -> Contents],
           v = BLANK => \A s \in Slots: st[s] = Erased,
           NEW bk, NEW tn, \A s \in Slots \ tn: bk[s] = Meaning(st[s], v)
    PROVE  Completes(Migrations(v), st, bk, tn)
  <1> DEFINE goal == [s \in Slots |-> Migrated(v, st[s])]
  <1>1. v \in 0..BLANK
    BY DEF Current, BLANK
  <1>2. \A s \in Slots: Migrated(v, st[s]) \in Contents /\ Meaning(Migrated(v, st[s]), Current) = Meaning(st[s], v)
    BY MigratedMeans
  <1>3. goal \in [Slots -> Contents] /\ \A s \in Slots: goal[s] = Migrated(v, st[s])
    BY <1>2
  <1>4. Reaches(Migrations(v), st, goal)
    BY <1>1, MigrationReaches
  <1> HIDE DEF goal
  <1>5. Migrations(v) \in Seq(Ops) /\ Ordered(Migrations(v))
    BY <1>1, MigrationsAre
  <1> QED BY <1>2, <1>3, <1>4, <1>5 DEF Completes

(* The invariant holds of a cab that was never booted by this firmware. *)
LEMMA StoreInit ==
    ASSUME ConfigAssumption, CHInit
    PROVE  StoreInv
  <1>1. /\ version \in (1..Current) \union {BLANK} /\ phase = "off" /\ job = <<>> /\ jobs = 0 /\ torn = {}
        /\ store \in [Slots -> IF version = BLANK THEN {Erased} ELSE Images]
        /\ settings = NoSettings /\ book = [s \in Slots |-> Meaning(store[s], version)]
    BY DEF CHInit, CInit
  <1>2. Erased \in Contents /\ Images \subseteq Contents
    BY DEF Erased, Contents, Kinds, ConfigAssumption
  <1>3. store \in [Slots -> Contents] /\ (version = BLANK => \A s \in Slots: store[s] = Erased)
    BY <1>1, <1>2
  <1>4. \A s \in Slots: book[s] = Meaning(store[s], version) /\ book[s] \in [DOMAIN Fields -> Kinds]
    BY <1>1, <1>3, MeaningType
  <1>5. book \in [Slots -> [DOMAIN Fields -> Kinds]]
    BY <1>1, <1>4
  <1>6. settings \in [DOMAIN Fields -> Kinds]
    BY <1>1 DEF NoSettings, Kinds
  <1>7. jobs \in 0..MaxJobs
    BY <1>1 DEF ConfigAssumption
  <1>8. StoreTypes
    BY <1>1, <1>3, <1>5, <1>6, <1>7 DEF StoreTypes
  <1>9. OldStore
    BY <1>1, <1>3, <1>4 DEF OldStore
  <1>10. AtRest
    BY <1>1, <1>4 DEF AtRest
  <1>11. AtWork /\ Live
    BY <1>1 DEF AtWork, Live
  <1> QED BY <1>8, <1>9, <1>10, <1>11 DEF StoreInv

(* Boot keeps the invariant: an old store gets its migrations, a current     *)
(* one none.                                                                 *)
LEMMA BootKeeps ==
    ASSUME ConfigAssumption, StoreInv, Boot, UNCHANGED <<book, torn>>
    PROVE  StoreInv'
  <1>1. /\ phase = "off" /\ phase' = "busy" /\ job' = Stamp(version) \o Migrations(version)
        /\ version' = version /\ store' = store /\ settings' = settings /\ jobs' = jobs /\ book' = book /\ torn' = torn
    BY DEF Boot
  <1>2. StoreTypes'
    BY <1>1 DEF StoreInv, StoreTypes
  <1>3. CASE version # Current
    <2>1. OldStore'
      BY <1>1, <1>3 DEF StoreInv, OldStore
    <2> QED BY <1>1, <1>2, <1>3, <2>1 DEF StoreInv, AtRest, AtWork, Live
  <1>4. CASE version = Current
    <2>1. Stamp(version) = <<>> /\ version \in 0..BLANK
      BY <1>4 DEF Stamp, Current, BLANK
    <2>2. job' = Migrations(version)
      <3>1. Migrations(version) \in Seq(Ops)
        BY <2>1, MigrationsAre
      <3> QED BY <1>1, <2>1, <3>1
    <2>3. Completes(Migrations(version), store, book, torn)
      BY <1>1, <1>4, Migrates DEF StoreInv, StoreTypes, AtRest, Current, BLANK
    <2>4. AtWork'
      BY <1>1, <2>2, <2>3 DEF AtWork
    <2> QED BY <1>1, <1>2, <1>4, <2>4 DEF StoreInv, OldStore, AtRest, Live
  <1> QED BY <1>3, <1>4

(* A single byte's write keeps the invariant. *)
LEMMA WriteKeeps ==
    ASSUME ConfigAssumption, StoreInv, Write, UNCHANGED <<book, torn>>
    PROVE  StoreInv'
  <1>1. /\ phase = "busy" /\ job # <<>> /\ phase' = "busy" /\ job' = Tail(job)
        /\ settings' = settings /\ jobs' = jobs /\ book' = book /\ torn' = torn
    BY DEF Write
  <1>2. \/ /\ Head(job).how = "stamp" /\ version' = Current /\ store' = store
        \/ /\ Head(job).how # "stamp" /\ version' = version
           /\ store' = [store EXCEPT ![Head(job).slot] = Written(@, Head(job))]
    BY DEF Write
  <1>3. CASE version # Current
    <2>1. /\ job = Stamp(version) \o Migrations(version) /\ version \in 0..BLANK /\ torn = {}
          /\ \A s \in Slots: book[s] = Meaning(store[s], version)
          /\ version = BLANK => \A s \in Slots: store[s] = Erased
          /\ version \in (1..Current) \union {BLANK} /\ store \in [Slots -> Contents]
      BY <1>1, <1>3 DEF StoreInv, OldStore, StoreTypes, Current, BLANK
    <2>2. Head(job).how = "stamp" /\ Tail(job) = Migrations(version)
      BY <1>3, <2>1, StampIs
    <2>3. version' = Current /\ store' = store /\ job' = Migrations(version)
      BY <1>1, <1>2, <2>2
    <2>4. Completes(Migrations(version), store, book, torn)
      BY <2>1, Migrates
    <2>5. StoreTypes'
      BY <1>1, <2>3 DEF StoreInv, StoreTypes, Current
    <2> QED BY <1>1, <2>3, <2>4, <2>5 DEF StoreInv, OldStore, AtRest, AtWork, Live
  <1>4. CASE version = Current
    <2>1. PICK goal \in [Slots -> Contents]:
             /\ job \in Seq(Ops) /\ Ordered(job) /\ Reaches(job, store, goal)
             /\ \A s \in Slots \ torn: Meaning(goal[s], Current) = book[s]
      BY <1>1, <1>4 DEF StoreInv, AtWork, Completes
    <2>2. Head(job).how # "stamp"
      <3>1. Head(job) \in Ops
        BY <1>1, <2>1, HasTail
      <3> QED BY <3>1 DEF Ops, Op
    <2>3. store \in [Slots -> Contents]
      BY DEF StoreInv, StoreTypes
    <2>4. version' = version /\ store' = [store EXCEPT ![Head(job).slot] = Written(@, Head(job))]
      BY <1>2, <2>2
    <2>5. /\ Tail(job) \in Seq(Ops) /\ Ordered(Tail(job)) /\ store' \in [Slots -> Contents]
          /\ Reaches(Tail(job), store', goal)
      BY <1>1, <2>1, <2>3, <2>4, WriteReaches
    <2>6. Completes(job', store', book', torn')
      BY <1>1, <2>1, <2>5 DEF Completes
    <2>7. StoreTypes'
      BY <1>1, <2>4, <2>5 DEF StoreInv, StoreTypes
    <2> QED BY <1>1, <1>4, <2>4, <2>6, <2>7 DEF StoreInv, OldStore, AtRest, AtWork, Live
  <1> QED BY <1>3, <1>4

(* readConfig() keeps the invariant: it heals the working profile and loads  *)
(* the settings from it.                                                     *)
LEMMA ReadKeeps ==
    ASSUME ConfigAssumption, StoreTypes, ReadSettings, version = Current, job = <<>>,
           UNCHANGED <<jobs, book, torn>>,
           \A s \in Slots \ torn: Meaning(store[s], Current) = book[s]
    PROVE  StoreInv'
  <1>1. /\ store' = [store EXCEPT ![WORKING] = HealedSlot(@)] /\ settings' = Decode(store'[WORKING])
        /\ phase' = "ready" /\ version' = version /\ job' = job /\ jobs' = jobs /\ book' = book /\ torn' = torn
    BY DEF ReadSettings
  <1>2. WORKING \in Slots /\ store \in [Slots -> Contents]
    BY DEF ConfigAssumption, Slots, WORKING, StoreTypes
  <1>3. /\ HealedSlot(store[WORKING]) \in Contents
        /\ Meaning(HealedSlot(store[WORKING]), Current) = Meaning(store[WORKING], Current)
        /\ Decode(HealedSlot(store[WORKING])) = Meaning(store[WORKING], Current)
        /\ Decode(HealedSlot(store[WORKING]))["charged"] # "E"
    BY <1>2, HealedMeans
  <1>4. /\ store' \in [Slots -> Contents] /\ store'[WORKING] = HealedSlot(store[WORKING])
        /\ \A s \in Slots: s # WORKING => store'[s] = store[s]
    BY <1>1, <1>2, <1>3
  <1>5. \A s \in Slots: Meaning(store'[s], Current) = Meaning(store[s], Current)
    BY <1>3, <1>4
  <1>6. settings' \in [DOMAIN Fields -> Kinds] /\ settings' = Meaning(store'[WORKING], Current) /\ settings'["charged"] # "E"
    <2>1. Meaning(store[WORKING], Current) \in [DOMAIN Fields -> Kinds]
      BY <1>2, MeaningType
    <2> QED BY <1>1, <1>3, <1>4, <2>1
  <1>7. StoreTypes'
    BY <1>1, <1>4, <1>6 DEF StoreTypes
  <1>8. AtRest'
    BY <1>1, <1>5 DEF AtRest
  <1>9. Live'
    BY <1>1, <1>6 DEF Live
  <1> QED BY <1>1, <1>7, <1>8, <1>9 DEF StoreInv, OldStore, AtWork

(* The end of a job keeps the invariant. *)
LEMMA FinishKeeps ==
    ASSUME ConfigAssumption, StoreInv, Finish, UNCHANGED <<book, torn>>
    PROVE  StoreInv'
  <1>1. phase = "busy" /\ job = <<>> /\ ReadSettings /\ jobs' = jobs
    BY DEF Finish
  <1>2. version = Current
    <2> SUFFICES ASSUME version # Current PROVE FALSE
      OBVIOUS
    <2>1. job = Stamp(version) \o Migrations(version) /\ version \in 0..BLANK
      BY <1>1 DEF StoreInv, OldStore, StoreTypes, Current, BLANK
    <2> QED BY <1>1, <2>1, StampIs
  <1>3. PICK goal \in [Slots -> Contents]:
           /\ job \in Seq(Ops) /\ Reaches(job, store, goal)
           /\ \A s \in Slots \ torn: Meaning(goal[s], Current) = book[s]
    BY <1>1, <1>2 DEF StoreInv, AtWork, Completes
  <1>4. store \in [Slots -> Contents]
    BY DEF StoreInv, StoreTypes
  <1>5. \A s \in Slots: goal[s] = store[s]
    <2>1. \A s \in Slots: \A k \in DOMAIN job: job[k].slot # s
      BY <1>1
    <2> QED BY <1>3, <1>4, <2>1, NothingLeft
  <1> QED BY <1>1, <1>2, <1>3, <1>5, ReadKeeps DEF StoreInv

(* A job that would bring the store to the new book may begin. *)
LEMMA BeginKeeps ==
    ASSUME ConfigAssumption, StoreInv, phase \in {"ready", "editing"}, NEW writes, Begin(writes),
           book' \in [Slots -> [DOMAIN Fields -> Kinds]], torn' \subseteq Slots,
           Completes(writes, store, book', torn')
    PROVE  StoreInv'
  <1>1. /\ jobs < MaxJobs /\ jobs' = jobs + 1 /\ job' = writes /\ phase' = "busy"
        /\ version' = version /\ store' = store /\ settings' = settings
    BY DEF Begin
  <1>2. version = Current
    BY DEF StoreInv, Live
  <1>3. jobs' \in 0..MaxJobs
    BY <1>1 DEF StoreInv, StoreTypes, ConfigAssumption
  <1>4. StoreTypes'
    BY <1>1, <1>3 DEF StoreInv, StoreTypes
  <1>5. AtWork'
    BY <1>1 DEF AtWork
  <1> QED BY <1>1, <1>2, <1>4, <1>5 DEF StoreInv, OldStore, AtRest, Live

(* LOAD and SAVE of a profile keep the invariant, a torn source tearing the  *)
(* copy.                                                                     *)
LEMMA CopyKeeps ==
    ASSUME ConfigAssumption, StoreInv, NEW src \in Slots, NEW dst \in Slots, Copy(src, dst),
           book' = [book EXCEPT ![dst] = book[src]],
           torn' = IF src \in torn THEN torn \union {dst} ELSE torn \ {dst}
    PROVE  StoreInv'
  <1>1. phase = "ready" /\ Begin(Image(dst, store[src]))
    BY DEF Copy
  <1>2. /\ store \in [Slots -> Contents] /\ book \in [Slots -> [DOMAIN Fields -> Kinds]] /\ torn \subseteq Slots
        /\ \A s \in Slots \ torn: Meaning(store[s], Current) = book[s]
    BY <1>1 DEF StoreInv, StoreTypes, Live, AtRest
  <1>3. book' \in [Slots -> [DOMAIN Fields -> Kinds]] /\ torn' \subseteq Slots
    BY <1>2
  <1> DEFINE goal == [store EXCEPT ![dst] = store[src]]
  <1>4. /\ Image(dst, store[src]) \in Seq(Ops) /\ Ordered(Image(dst, store[src]))
        /\ Reaches(Image(dst, store[src]), store, goal)
    BY <1>2, ImageReaches
  <1>5. goal \in [Slots -> Contents] /\ goal[dst] = store[src] /\ \A s \in Slots: s # dst => goal[s] = store[s]
    BY <1>2
  <1>6. book'[dst] = book[src] /\ \A s \in Slots: s # dst => book'[s] = book[s]
    BY <1>2
  <1> HIDE DEF goal
  <1>7. \A s \in Slots \ torn': Meaning(goal[s], Current) = book'[s]
    BY <1>2, <1>5, <1>6
  <1>8. Completes(Image(dst, store[src]), store, book', torn')
    BY <1>4, <1>5, <1>7 DEF Completes
  <1> QED BY <1>1, <1>3, <1>8, BeginKeeps

(* A profile pulled over the air keeps the invariant. *)
LEMMA PullKeeps ==
    ASSUME ConfigAssumption, StoreInv, NEW img \in Images, Pull(img),
           book' = [book EXCEPT ![WORKING] = Meaning(img, Current)], torn' = torn \ {WORKING}
    PROVE  StoreInv'
  <1>1. phase = "ready" /\ Begin(Image(WORKING, img))
    BY DEF Pull
  <1>2. /\ store \in [Slots -> Contents] /\ book \in [Slots -> [DOMAIN Fields -> Kinds]] /\ torn \subseteq Slots
        /\ \A s \in Slots \ torn: Meaning(store[s], Current) = book[s]
    BY <1>1 DEF StoreInv, StoreTypes, Live, AtRest
  <1>3. WORKING \in Slots /\ img \in Contents
    BY DEF ConfigAssumption, Slots, WORKING, Contents
  <1>4. Meaning(img, Current) \in [DOMAIN Fields -> Kinds]
    BY <1>3, MeaningType
  <1>5. book' \in [Slots -> [DOMAIN Fields -> Kinds]] /\ torn' \subseteq Slots
    BY <1>2, <1>4
  <1> DEFINE goal == [store EXCEPT ![WORKING] = img]
  <1>6. /\ Image(WORKING, img) \in Seq(Ops) /\ Ordered(Image(WORKING, img))
        /\ Reaches(Image(WORKING, img), store, goal)
    BY <1>2, <1>3, ImageReaches
  <1>7. goal \in [Slots -> Contents] /\ goal[WORKING] = img /\ \A s \in Slots: s # WORKING => goal[s] = store[s]
    BY <1>2, <1>3
  <1>8. book'[WORKING] = Meaning(img, Current) /\ \A s \in Slots: s # WORKING => book'[s] = book[s]
    BY <1>2, <1>3
  <1> HIDE DEF goal
  <1>9. \A s \in Slots \ torn': Meaning(goal[s], Current) = book'[s]
    BY <1>2, <1>7, <1>8
  <1>10. Completes(Image(WORKING, img), store, book', torn')
    BY <1>6, <1>7, <1>9 DEF Completes
  <1> QED BY <1>1, <1>5, <1>10, BeginKeeps

(* resetConfig() keeps the invariant. *)
LEMMA ResetKeeps ==
    ASSUME ConfigAssumption, StoreInv, Reset,
           book' = [s \in Slots |-> [f \in DOMAIN Fields |-> "D"]], torn' = {}
    PROVE  StoreInv'
  <1> DEFINE default == [c \in Cells |-> IF c = "x3D" THEN store[WORKING][c] ELSE "D"]
             writes == InOrder([n \in 1..(MAX_CONFIGS + 1) |-> n - 1], [s \in Slots |-> Image(s, default)])
             goal == [s \in Slots |-> default]
  <1>1. phase = "ready" /\ Begin(writes)
    BY DEF Reset
  <1>2. store \in [Slots -> Contents] /\ WORKING \in Slots /\ "D" \in Kinds
    BY DEF StoreInv, StoreTypes, ConfigAssumption, Slots, WORKING, Kinds
  <1>3. default \in Contents
    BY <1>2 DEF Contents, Cells
  <1>4. \A c \in Cells \ {"x3D"}: default[c] = "D"
    OBVIOUS
  <1> HIDE DEF default
  <1>5. writes \in Seq(Ops) /\ Ordered(writes) /\ Reaches(writes, store, goal)
    BY <1>2, <1>3, ResetReaches
  <1> DEFINE plain == [f \in DOMAIN Fields |-> "D"]
  <1>6. Meaning(default, Current) = plain
    <2>1. plain \in [DOMAIN Fields -> Kinds] /\ \A f \in DOMAIN Fields: plain[f] = "D"
      BY <1>2
    <2>2. "charged" \in DOMAIN Fields /\ "D" # "E"
      BY FieldsAre
    <2> HIDE DEF plain
    <2> QED BY <1>4, <2>1, <2>2, FieldsAre, SameMeaning
  <1>7. book' \in [Slots -> [DOMAIN Fields -> Kinds]] /\ torn' \subseteq Slots
    BY <1>2
  <1>8. goal \in [Slots -> Contents] /\ \A s \in Slots: goal[s] = default
    BY <1>3
  <1>9. \A s \in Slots: book'[s] = plain
    OBVIOUS
  <1> HIDE DEF writes, goal, plain
  <1>10. Completes(writes, store, book', torn')
    BY <1>5, <1>6, <1>8, <1>9 DEF Completes
  <1> QED BY <1>1, <1>7, <1>10, BeginKeeps

(* Browsing a value keeps the invariant. *)
LEMMA EditKeeps ==
    ASSUME ConfigAssumption, StoreInv, EditSettings, UNCHANGED <<book, torn>>
    PROVE  StoreInv'
  <1>1. PICK f \in DOMAIN Fields, v \in Kinds:
          (f \in {"menuBtn", "charged"} => v # "E") /\ settings' = [settings EXCEPT ![f] = v]
    BY DEF EditSettings
  <1>2. /\ phase = "ready" /\ phase' = "editing" /\ version' = version /\ store' = store
        /\ job' = job /\ jobs' = jobs /\ book' = book /\ torn' = torn
    BY DEF EditSettings
  <1>3. version = Current /\ settings \in [DOMAIN Fields -> Kinds] /\ settings["charged"] # "E"
    BY <1>2 DEF StoreInv, StoreTypes, Live
  <1>4. settings' \in [DOMAIN Fields -> Kinds] /\ settings'["charged"] # "E"
    <2>1. "charged" \in DOMAIN Fields
      BY FieldsAre
    <2> QED BY <1>1, <1>3, <2>1
  <1>5. StoreTypes'
    BY <1>2, <1>4 DEF StoreInv, StoreTypes
  <1>6. AtRest' /\ Live'
    BY <1>2, <1>3, <1>4 DEF StoreInv, AtRest, Live
  <1> QED BY <1>2, <1>3, <1>5, <1>6 DEF StoreInv, OldStore, AtWork

(* The SAVE of one screen keeps the invariant. *)
LEMMA SaveKeeps ==
    ASSUME ConfigAssumption, StoreInv, NEW saved \in Screens, SaveScreen(saved),
           book' = [book EXCEPT ![WORKING] = settings], torn' = torn
    PROVE  StoreInv'
  <1> DEFINE writes == [k \in DOMAIN saved |-> Put(WORKING, Fields[saved[k]], settings[saved[k]])]
  <1>1. phase = "editing" /\ Begin(writes)
    BY DEF SaveScreen
  <1>2. /\ store \in [Slots -> Contents] /\ book \in [Slots -> [DOMAIN Fields -> Kinds]] /\ torn \subseteq Slots
        /\ settings \in [DOMAIN Fields -> Kinds] /\ settings["charged"] # "E" /\ WORKING \in Slots
        /\ \A s \in Slots \ torn: Meaning(store[s], Current) = book[s]
    BY <1>1 DEF StoreInv, StoreTypes, Live, AtRest, ConfigAssumption, Slots, WORKING
  <1>3. \A f \in DOMAIN Fields:
          (\A k \in DOMAIN saved: saved[k] # f) => settings[f] = store[WORKING][Fields[f]]
    BY DEF SaveScreen, Decode
  <1> HIDE DEF writes
  <1>4. writes \in Seq(Ops) /\ Ordered(writes)
        /\ \E goal \in [Slots -> Contents]:
             /\ Reaches(writes, store, goal)
             /\ \A f \in DOMAIN Fields: goal[WORKING][Fields[f]] = settings[f]
             /\ \A s \in Slots: s # WORKING => goal[s] = store[s]
    BY <1>2, <1>3, SaveReaches DEF writes
  <1>5. PICK goal \in [Slots -> Contents]:
             /\ Reaches(writes, store, goal)
             /\ \A f \in DOMAIN Fields: goal[WORKING][Fields[f]] = settings[f]
             /\ \A s \in Slots: s # WORKING => goal[s] = store[s]
    BY <1>4
  <1>6. Meaning(goal[WORKING], Current) = settings
    BY <1>2, <1>5, SameMeaning
  <1>7. book' \in [Slots -> [DOMAIN Fields -> Kinds]] /\ torn' \subseteq Slots
    BY <1>2
  <1>8. book'[WORKING] = settings /\ \A s \in Slots: s # WORKING => book'[s] = book[s]
    BY <1>2
  <1>9. Completes(writes, store, book', torn')
    BY <1>2, <1>4, <1>5, <1>6, <1>8 DEF Completes
  <1> QED BY <1>1, <1>7, <1>9, BeginKeeps

(* A power loss keeps the invariant: what was still to be written is torn,   *)
(* and before the stamp nothing was written.                                 *)
LEMMA LossKeeps ==
    ASSUME ConfigAssumption, StoreInv, PowerLoss, book' = book,
           torn' = torn \union (IF version = Current THEN Unfinished ELSE {})
    PROVE  StoreInv'
  <1>1. /\ phase' = "off" /\ job' = <<>> /\ settings' = NoSettings /\ jobs < MaxJobs /\ jobs' = jobs + 1
        /\ version' = version /\ store' = store
    BY DEF PowerLoss
  <1>2. settings' \in [DOMAIN Fields -> Kinds]
    BY <1>1 DEF NoSettings, Kinds
  <1>3. jobs' \in 0..MaxJobs
    BY <1>1 DEF StoreInv, StoreTypes, ConfigAssumption
  <1>4. CASE version # Current
    <2>1. torn' = torn
      BY <1>4
    <2>2. StoreTypes'
      BY <1>1, <1>2, <1>3, <2>1 DEF StoreInv, StoreTypes
    <2> QED BY <1>1, <1>4, <2>1, <2>2 DEF StoreInv, OldStore, AtRest, AtWork, Live
  <1>5. CASE version = Current
    <2>1. torn' = torn \union Unfinished
      BY <1>5
    <2>2. job \in Seq(Ops)
      <3>1. <<>> \in Seq(Ops)
        OBVIOUS
      <3> QED BY <1>5, <3>1 DEF StoreInv, AtRest, AtWork, Completes
    <2>3. ASSUME NEW k \in DOMAIN job PROVE job[k].how # "stamp" /\ job[k].slot \in Slots
      <3>1. job[k] \in Ops
        BY <2>2
      <3> QED BY <3>1 DEF Ops, Op
    <2>4. torn' \subseteq Slots
      BY <2>1, <2>3 DEF StoreInv, StoreTypes, Unfinished
    <2>5. StoreTypes'
      BY <1>1, <1>2, <1>3, <2>4 DEF StoreInv, StoreTypes
    <2>6. ASSUME NEW s \in Slots \ torn' PROVE Meaning(store[s], Current) = book[s]
      <3>1. CASE phase # "busy"
        BY <1>5, <2>1, <2>6, <3>1 DEF StoreInv, AtRest
      <3>2. CASE phase = "busy"
        <4>1. PICK goal \in [Slots -> Contents]:
                 Reaches(job, store, goal) /\ \A r \in Slots \ torn: Meaning(goal[r], Current) = book[r]
          BY <1>5, <3>2 DEF StoreInv, AtWork, Completes
        <4>2. \A k \in DOMAIN job: job[k].slot # s
          BY <2>1, <2>3, <2>6 DEF Unfinished
        <4>3. goal[s] = store[s]
          <5>1. store \in [Slots -> Contents]
            BY DEF StoreInv, StoreTypes
          <5>2. s \in Slots /\ Reaches(job, store, goal)
            BY ONLY <2>6, <4>1
          <5> QED BY ONLY <2>2, <4>1, <4>2, <5>1, <5>2, NothingLeft
        <4>4. Meaning(goal[s], Current) = book[s]
          BY ONLY <2>1, <4>1, s \in Slots \ torn'
        <4> QED BY ONLY <4>3, <4>4
      <3> QED BY <3>1, <3>2
    <2> QED BY <1>1, <1>5, <2>5, <2>6 DEF StoreInv, OldStore, AtRest, AtWork, Live
  <1> QED BY <1>4, <1>5

(* Every step keeps the invariant. *)
LEMMA StoreStep ==
    ASSUME ConfigAssumption, StoreInv, [HStep]_chVars
    PROVE  StoreInv'
  <1>1. CASE Boot /\ UNCHANGED <<book, torn>>
    BY <1>1, BootKeeps
  <1>2. CASE Write /\ UNCHANGED <<book, torn>>
    BY <1>2, WriteKeeps
  <1>3. CASE Finish /\ UNCHANGED <<book, torn>>
    BY <1>3, FinishKeeps
  <1>4. CASE DismissEdit /\ UNCHANGED <<book, torn>>
    <2>1. phase = "editing" /\ ReadSettings /\ jobs' = jobs /\ book' = book /\ torn' = torn
      BY <1>4 DEF DismissEdit
    <2>2. StoreTypes /\ version = Current /\ job = <<>> /\ \A s \in Slots \ torn: Meaning(store[s], Current) = book[s]
      BY <2>1 DEF StoreInv, Live, AtRest
    <2> QED BY <2>1, <2>2, ReadKeeps
  <1>5. CASE EditSettings /\ UNCHANGED <<book, torn>>
    BY <1>5, EditKeeps
  <1>6. ASSUME NEW src \in Slots, NEW dst \in Slots, Copy(src, dst), book' = [book EXCEPT ![dst] = book[src]],
               torn' = IF src \in torn THEN torn \union {dst} ELSE torn \ {dst}
        PROVE  StoreInv'
    BY <1>6, CopyKeeps
  <1>7. ASSUME NEW img \in Images, Pull(img), book' = [book EXCEPT ![WORKING] = Meaning(img, Current)],
               torn' = torn \ {WORKING}
        PROVE  StoreInv'
    BY <1>7, PullKeeps
  <1>8. CASE Reset /\ book' = [s \in Slots |-> [f \in DOMAIN Fields |-> "D"]] /\ torn' = {}
    BY <1>8, ResetKeeps
  <1>9. ASSUME NEW saved \in Screens, SaveScreen(saved), book' = [book EXCEPT ![WORKING] = settings], torn' = torn
        PROVE  StoreInv'
    BY <1>9, SaveKeeps
  <1>10. CASE PowerLoss /\ torn' = torn \union (IF version = Current THEN Unfinished ELSE {}) /\ book' = book
    BY <1>10, LossKeeps
  <1>11. CASE UNCHANGED chVars
    BY <1>11 DEF chVars, cVars, StoreInv, StoreTypes, OldStore, AtRest, AtWork, Live
  <1> QED BY <1>1, <1>2, <1>3, <1>4, <1>5, <1>6, <1>7, <1>8, <1>9, <1>10, <1>11 DEF HStep

(* The invariant shows what is promised. *)
LEMMA StoreShows ==
    ASSUME ConfigAssumption, StoreInv
    PROVE  CTypeOK /\ BookKept /\ LiveIsStored
  <1>1. \A k \in DOMAIN job : job[k].slot \in Slots /\ job[k].cell \in Cells
    <2>1. CASE job = <<>>
      BY <2>1
    <2>2. CASE job \in Seq(Ops)
      <3>1. \A k \in DOMAIN job: job[k] \in Ops
        BY <2>2
      <3> QED BY <3>1 DEF Ops, Op
    <2>3. CASE version # Current /\ job = Stamp(version) \o Migrations(version)
      <3>1. version \in 0..BLANK
        BY DEF StoreInv, StoreTypes, Current, BLANK
      <3> QED BY <2>3, <3>1, StampIs
    <2> QED BY <2>1, <2>2, <2>3 DEF StoreInv, OldStore, AtRest, AtWork, Completes
  <1>2. CTypeOK
    BY <1>1 DEF StoreInv, StoreTypes, CTypeOK, Contents
  <1>3. BookKept /\ LiveIsStored
    BY DEF StoreInv, AtRest, Live, BookKept, LiveIsStored
  <1> QED BY <1>2, <1>3

(* The store's variables keep their types: the writes still to be done are     *)
(* always of the slots and cells there are.                                    *)
THEOREM StoreTypeCorrect == ConfigAssumption => (CHSpec => []CTypeOK)
  <1> SUFFICES ASSUME ConfigAssumption PROVE CHSpec => []CTypeOK
    OBVIOUS
  <1>1. CHInit => StoreInv
    BY StoreInit
  <1>2. StoreInv /\ [HStep]_chVars => StoreInv'
    BY StoreStep
  <1>3. StoreInv => CTypeOK
    BY StoreShows
  <1> QED BY <1>1, <1>2, <1>3, PTL DEF CHSpec

(* Whatever the layout the store was written in, and wherever power was lost,  *)
(* a profile no interrupted job was writing means what was last put there, and *)
(* the settings in use are those of the working profile.                       *)
THEOREM StoreKeepsBook == ConfigAssumption => (CHSpec => []StoreKept)
  <1> SUFFICES ASSUME ConfigAssumption PROVE CHSpec => []StoreKept
    OBVIOUS
  <1>1. CHInit => StoreInv
    BY StoreInit
  <1>2. StoreInv /\ [HStep]_chVars => StoreInv'
    BY StoreStep
  <1>3. StoreInv => StoreKept
    BY StoreShows DEF StoreKept
  <1> QED BY <1>1, <1>2, <1>3, PTL DEF CHSpec
-----------------------------------------------------------------------------

Notes == [addr : Locos, state : EngineStates]
Size == ENGINE_STATE_QUEUE_SIZE

(* Where a queue with n notes, the next place being k, keeps the p-th of them. *)
Spot(n, k, p) == IF n < Size THEN p ELSE IF k + p - 1 > Size THEN k + p - 1 - Size ELSE k + p - 1

(* The invariant: ring and account hold the same notes, each in its place, *)
(* and no two of one locomotive; before the ring is full, the places behind *)
(* the notes are those of address 0.                                        *)
EngineTypes ==
  /\ EngineTypeOK
  /\ left \in Seq(Notes) /\ Len(left) <= Size

QueueHolds ==
  /\ Len(left) < Size => next = Len(left) + 1 /\ \A p \in 1 .. Len(left): left[p].addr # NoLoco
  /\ \A p \in 1 .. Len(left): Spot(Len(left), next, p) \in Places /\ entries[Spot(Len(left), next, p)] = left[p]
  /\ \A i \in Places: \/ Len(left) < Size /\ entries[i].addr = NoLoco
                     \/ \E p \in 1 .. Len(left): Spot(Len(left), next, p) = i
  /\ \A p, q \in 1 .. Len(left): left[p].addr = left[q].addr => p = q

EngineInv == EngineTypes /\ QueueHolds

(* The search in the ring returns what its account remembers of an address:  *)
(* it finds an entry exactly if there is one, and there is one at most.      *)
LEMMA QueueFinds ==
    ASSUME EngineAssumption, EngineInv, NEW addr \in Locos, addr = NoLoco => Len(left) = Size
    PROVE  /\ (Known(entries, addr) <=> Recall(addr) # {})
           /\ Recall(addr) = {} => StateFor(addr) = engine
           /\ \A p \in Recall(addr): /\ StateFor(addr) = left[p].state /\ left[p].state \in EngineStates
                                     /\ Recall(addr) = {p}
                                     /\ First(entries, addr) \in Places
                                     /\ \A i \in Places: entries[i].addr = addr <=> i = First(entries, addr)
  <1>1. \A p \in 1 .. Len(left): left[p] \in Notes /\ left[p].state \in EngineStates
    <2>1. left \in Seq(Notes)
      BY DEF EngineInv, EngineTypes
    <2>2. \A p \in 1 .. Len(left): left[p] \in Notes
      BY <2>1
    <2> QED BY <2>2 DEF Notes
  <1>2. NotInitialized \notin EngineStates
    BY DEF NotInitialized, EngineStates
  <1>0. \A i \in Places: entries[i].addr = addr => \E p \in 1 .. Len(left): Spot(Len(left), next, p) = i
    <2>1. Size \in Nat
      BY DEF EngineAssumption, Size
    <2> QED BY <2>1 DEF EngineInv, QueueHolds
  <1>3. Known(entries, addr) => Recall(addr) # {}
    BY <1>0 DEF EngineInv, QueueHolds, Known, Recall
  <1>4. Recall(addr) # {} => Known(entries, addr)
    BY DEF EngineInv, QueueHolds, Known, Recall
  <1>5. Recall(addr) = {} => StateFor(addr) = engine
    BY <1>3 DEF StateFor, Lookup
  <1>6. ASSUME NEW p \in Recall(addr)
        PROVE  /\ StateFor(addr) = left[p].state /\ left[p].state \in EngineStates
               /\ Recall(addr) = {p}
               /\ First(entries, addr) \in Places
               /\ \A i \in Places: entries[i].addr = addr <=> i = First(entries, addr)
    <2>1. p \in 1 .. Len(left) /\ left[p].addr = addr /\ Spot(Len(left), next, p) \in Places /\ entries[Spot(Len(left), next, p)] = left[p]
      BY DEF Recall, EngineInv, QueueHolds
    <2>2. Recall(addr) = {p}
      BY <2>1 DEF Recall, EngineInv, QueueHolds
    <2>3. ASSUME NEW i \in Places, entries[i].addr = addr PROVE i = Spot(Len(left), next, p)
      <3>1. PICK q \in 1 .. Len(left): Spot(Len(left), next, q) = i
        BY <1>0, <2>3
      <3>2. left[q].addr = left[p].addr
        BY <2>1, <2>3, <3>1 DEF EngineInv, QueueHolds
      <3> QED BY <2>1, <3>1, <3>2 DEF EngineInv, QueueHolds
    <2>4. \A j \in 1 .. Spot(Len(left), next, p) - 1: entries[j].addr # addr
      <3> SUFFICES ASSUME NEW j \in 1 .. Spot(Len(left), next, p) - 1 PROVE entries[j].addr # addr
        OBVIOUS
      <3>1. j \in Places /\ j # Spot(Len(left), next, p)
        BY <2>1 DEF Places, EngineAssumption
      <3> QED BY <2>3, <3>1
    <2>5. First(entries, addr) = Spot(Len(left), next, p)
      BY <2>1, <2>3, <2>4 DEF First
    <2>6. Lookup(entries, addr) = left[p].state
      BY <1>4, <2>1, <2>5 DEF Lookup
    <2>7. \A i \in Places: entries[i].addr = addr <=> i = First(entries, addr)
      BY <2>1, <2>3, <2>5
    <2> QED BY <1>1, <1>2, <2>1, <2>2, <2>5, <2>6, <2>7 DEF StateFor
  <1> QED BY <1>3, <1>4, <1>5, <1>6

(* Before the ring is full, a search for address 0 finds the next place to    *)
(* be used, and what it holds is a state once address 0 was left.            *)
LEMMA SpareIsFirst ==
    ASSUME EngineAssumption, EngineInv, Len(left) < Size
    PROVE  /\ Known(entries, NoLoco) /\ First(entries, NoLoco) = next /\ Recall(NoLoco) = {}
           /\ StateFor(NoLoco) \in EngineStates
  <1>1. /\ Size \in Nat \ {0} /\ Places = 1 .. Size /\ Len(left) \in Nat /\ engine \in EngineStates
        /\ entries \in [Places -> [addr : Locos \cup {NoLoco}, state : EngineStates \cup {NotInitialized}]]
    BY DEF EngineAssumption, EngineInv, EngineTypes, EngineTypeOK, Size, Places
  <1>2. next = Len(left) + 1 /\ \A p \in 1 .. Len(left): left[p].addr # NoLoco
    BY DEF EngineInv, QueueHolds
  <1>3. \A p \in 1 .. Len(left): Spot(Len(left), next, p) = p
    BY DEF Spot
  <1>4. \A j \in 1 .. next - 1: entries[j].addr # NoLoco
    BY <1>1, <1>2, <1>3 DEF EngineInv, QueueHolds
  <1>5. next \in Places /\ entries[next].addr = NoLoco
    BY <1>1, <1>2, <1>3 DEF EngineInv, QueueHolds
  <1>6. First(entries, NoLoco) = next
    <2>1. ASSUME NEW i \in Places, entries[i].addr = NoLoco, \A j \in 1 .. i - 1 : entries[j].addr # NoLoco
          PROVE  i = next
      BY <1>1, <1>4, <1>5, <2>1
    <2> QED BY <1>4, <1>5, <2>1 DEF First
  <1>7. Known(entries, NoLoco)
    BY <1>5 DEF Known
  <1>8. StateFor(NoLoco) \in EngineStates
    BY <1>1, <1>5, <1>6, <1>7 DEF StateFor, Lookup
  <1> QED BY <1>2, <1>6, <1>7, <1>8 DEF Recall

(* Leaving address 0 before the ring is full touches no note.                *)
LEMMA QueueSpares ==
    ASSUME EngineAssumption, EngineInv, Len(left) < Size,
           entries' = [entries EXCEPT ![next].state = engine], next' = next, left' = left
    PROVE  QueueHolds'
  <1>1. /\ Size \in Nat \ {0} /\ Places = 1 .. Size /\ Len(left) \in Nat
        /\ entries \in [Places -> [addr : Locos \cup {NoLoco}, state : EngineStates \cup {NotInitialized}]]
        /\ Places' = Places /\ Size' = Size
    BY DEF EngineAssumption, EngineInv, EngineTypes, EngineTypeOK, Size, Places
  <1>2. next = Len(left) + 1 /\ \A p \in 1 .. Len(left): Spot(Len(left), next, p) = p
    BY DEF EngineInv, QueueHolds, Spot
  <1>3. \A i \in Places: entries'[i].addr = entries[i].addr /\ (i # next => entries'[i] = entries[i])
    BY <1>1
  <1>4. \A p \in 1 .. Len(left): p \in Places /\ p # next /\ entries[p] = left[p]
    BY <1>1, <1>2 DEF EngineInv, QueueHolds
  <1>5. \A p \in 1 .. Len(left'): Spot(Len(left'), next', p) \in Places /\ entries'[Spot(Len(left'), next', p)] = left'[p]
    BY <1>2, <1>3, <1>4
  <1>6. \A i \in Places: \/ Len(left') < Size /\ entries'[i].addr = NoLoco
                         \/ \E p \in 1 .. Len(left'): Spot(Len(left'), next', p) = i
    BY <1>3 DEF EngineInv, QueueHolds
  <1>7. /\ Len(left') < Size => next' = Len(left') + 1 /\ \A p \in 1 .. Len(left'): left'[p].addr # NoLoco
        /\ \A p, q \in 1 .. Len(left'): left'[p].addr = left'[q].addr => p = q
    BY DEF EngineInv, QueueHolds
  <1> QED BY <1>1, <1>5, <1>6, <1>7 DEF QueueHolds

(* A new entry keeps ring and account alike, also where it replaces the      *)
(* oldest one.                                                               *)
LEMMA QueueInserts ==
    ASSUME EngineAssumption, EngineInv, Recall(loco) = {}, loco = NoLoco => Len(left) = Size,
           entries' = [entries EXCEPT ![next] = [addr |-> loco, state |-> engine]],
           next' = IF next = Size THEN 1 ELSE next + 1,
           left' = IF Len(left) = Size THEN Append(Tail(left), [addr |-> loco, state |-> engine])
                   ELSE Append(left, [addr |-> loco, state |-> engine])
    PROVE  /\ left' \in Seq(Notes) /\ Len(left') <= Size /\ next' \in Places
           /\ QueueHolds'
  <1> DEFINE note == [addr |-> loco, state |-> engine]
             n == Len(left)
  <1>1. /\ Size \in Nat \ {0} /\ Places = 1 .. Size /\ next \in Places /\ n \in 0 .. Size
        /\ left \in Seq(Notes) /\ note \in Notes /\ note.addr = loco
        /\ entries \in [Places -> [addr : Locos \cup {NoLoco}, state : EngineStates \cup {NotInitialized}]]
    BY DEF EngineAssumption, EngineInv, EngineTypes, EngineTypeOK, Size, Places, Notes
  <1>2. next' \in Places
    BY <1>1
  <1>3. entries'[next] = note /\ \A i \in Places: i # next => entries'[i] = entries[i]
    BY <1>1
  <1>4. \A p \in 1 .. n: left[p].addr # loco
    BY DEF Recall
  <1> HIDE DEF note
  <1>5. CASE n < Size
    <2>0. QueueHolds
      BY DEF EngineInv
    <2>a. left' = Append(left, note)
      BY <1>1, <1>5 DEF note
    <2>c. \A p \in 1 .. n: Spot(n, next, p) = p
      BY ONLY <1>5 DEF Spot
    <2>b. next = n + 1 /\ \A i \in Places: i > n => entries[i].addr = NoLoco
      BY ONLY <1>1, <1>5, <2>0, <2>c DEF QueueHolds
    <2>1. /\ next = n + 1 /\ left' = Append(left, note)
          /\ \A p \in 1 .. n: entries[p] = left[p]
          /\ \A i \in Places: i > n => entries[i].addr = NoLoco
      BY <2>0, <2>a, <2>b, <2>c DEF QueueHolds
    <2>2. /\ left' \in Seq(Notes) /\ Len(left') = n + 1 /\ left'[n + 1] = note
          /\ \A p \in 1 .. n: left'[p] = left[p]
      BY <1>1, <2>1
    <2>3. \A p \in 1 .. n + 1: Spot(Len(left'), next', p) = p
      BY <1>1, <1>5, <2>1, <2>2 DEF Spot
    <2>4. \A p \in 1 .. n + 1: p \in Places /\ entries'[p] = left'[p]
      BY <1>1, <1>3, <1>5, <2>1, <2>2
    <2>5. \A i \in Places: (n + 1 < Size /\ entries'[i].addr = NoLoco) \/ i \in 1 .. n + 1
      BY <1>1, <1>3, <1>5, <2>1
    <2>6. \A p, q \in 1 .. n + 1: left'[p].addr = left'[q].addr => p = q
      <3> SUFFICES ASSUME NEW p \in 1 .. n + 1, NEW q \in 1 .. n + 1, left'[p].addr = left'[q].addr
                   PROVE  p = q
        OBVIOUS
      <3>1. p \in 1 .. n \/ p = n + 1
        BY <1>1
      <3>2. q \in 1 .. n \/ q = n + 1
        BY <1>1
      <3> QED BY <1>1, <1>4, <2>2, <3>1, <3>2 DEF EngineInv, QueueHolds
    <2>7. n + 1 < Size => next' = n + 2 /\ \A p \in 1 .. n + 1: left'[p].addr # NoLoco
      <3>1. n + 1 < Size => next' = n + 2
        BY <1>1, <2>1
      <3>2. note.addr # NoLoco /\ \A p \in 1 .. n: left[p].addr # NoLoco
        BY <1>1, <1>5, <2>0 DEF QueueHolds
      <3> QED BY <1>1, <2>2, <3>1, <3>2
    <2>8. QueueHolds'
      BY <1>1, <2>2, <2>3, <2>4, <2>5, <2>6, <2>7 DEF QueueHolds, Size, Places
    <2> QED BY <1>1, <1>2, <1>5, <2>2, <2>8
  <1>6. CASE n = Size
    <2> DEFINE t == Tail(left)
    <2>1. left' = Append(t, note)
      BY <1>6 DEF note
    <2>2. t \in Seq(Notes) /\ Len(t) = n - 1 /\ \A p \in 1 .. n - 1: t[p] = left[p + 1]
      BY <1>1, <1>6
    <2> HIDE DEF t
    <2>3. /\ left' \in Seq(Notes) /\ Len(left') = n /\ left'[n] = note
          /\ \A p \in 1 .. n - 1: left'[p] = left[p + 1]
      BY <1>1, <1>6, <2>1, <2>2
    <2>4. \A p \in 1 .. n - 1: Spot(Len(left'), next', p) = Spot(Len(left), next, p + 1) /\ Spot(Len(left'), next', p) \in Places /\ Spot(Len(left'), next', p) # next
      BY <1>1, <1>6, <2>3 DEF Spot
    <2>5. Spot(Len(left'), next', n) = next
      BY <1>1, <1>6, <2>3 DEF Spot
    <2>6. \A p \in 1 .. n: Spot(Len(left'), next', p) \in Places /\ entries'[Spot(Len(left'), next', p)] = left'[p]
      <3> SUFFICES ASSUME NEW p \in 1 .. n PROVE Spot(Len(left'), next', p) \in Places /\ entries'[Spot(Len(left'), next', p)] = left'[p]
        OBVIOUS
      <3>1. CASE p = n
        BY <1>1, <1>3, <2>3, <2>5, <3>1
      <3>2. CASE p # n
        <4>1. p \in 1 .. n - 1 /\ p + 1 \in 1 .. n
          BY <1>1, <3>2
        <4>2. entries[Spot(Len(left), next, p + 1)] = left[p + 1]
          BY <4>1 DEF EngineInv, QueueHolds
        <4> QED BY <1>3, <2>3, <2>4, <4>1, <4>2
      <3> QED BY <3>1, <3>2
    <2>7. ASSUME NEW i \in Places PROVE \E p \in 1 .. n: Spot(Len(left'), next', p) = i
      <3>1. CASE i = next
        BY <1>1, <1>6, <2>5, <3>1
      <3>2. CASE i > next
        <4>1. PICK p \in Int: p = i - next
          BY <1>1
        <4>2. p \in 1 .. n /\ Spot(n, next', p) = i
          BY <1>1, <1>6, <3>2, <4>1 DEF Spot
        <4> QED BY <2>3, <4>2
      <3>3. CASE i < next
        <4>0. i \in Int /\ next \in Int /\ n \in Int
          BY <1>1
        <4> HIDE DEF n
        <4>1. PICK p \in Int: p = i - next + n
          BY <4>0
        <4>2. p \in 1 .. n /\ Spot(n, next', p) = i
          BY <1>1, <1>6, <3>3, <4>1 DEF Spot
        <4> QED BY <2>3, <4>2
      <3> QED BY <1>1, <3>1, <3>2, <3>3
    <2>8. \A p, q \in 1 .. n: left'[p].addr = left'[q].addr => p = q
      <3> SUFFICES ASSUME NEW p \in 1 .. n, NEW q \in 1 .. n, left'[p].addr = left'[q].addr
                   PROVE  p = q
        OBVIOUS
      <3>1. (p \in 1 .. n - 1 /\ p + 1 \in 1 .. n) \/ p = n
        BY <1>1
      <3>2. (q \in 1 .. n - 1 /\ q + 1 \in 1 .. n) \/ q = n
        BY <1>1
      <3>3. p \in 1 .. n - 1 /\ q \in 1 .. n - 1 => p + 1 = q + 1
        BY <2>3, <3>1, <3>2 DEF EngineInv, QueueHolds
      <3> QED BY <1>1, <1>4, <2>3, <3>1, <3>2, <3>3
    <2>9. QueueHolds'
      <3>1. Len(left') = n /\ ~(Len(left') < Size) /\ Places' = Places /\ Size' = Size
        BY <1>1, <1>6, <2>3 DEF Places, Size
      <3> HIDE DEF n
      <3>2. \A p \in 1 .. Len(left'): Spot(Len(left'), next', p) \in Places /\ entries'[Spot(Len(left'), next', p)] = left'[p]
        BY <2>6, <3>1
      <3>3. \A i \in Places: \E p \in 1 .. Len(left'): Spot(Len(left'), next', p) = i
        BY <2>7, <3>1
      <3>4. \A p, q \in 1 .. Len(left'): left'[p].addr = left'[q].addr => p = q
        BY <2>8, <3>1
      <3> QED BY <3>1, <3>2, <3>3, <3>4 DEF QueueHolds
    <2> QED BY <1>1, <1>2, <1>6, <2>3, <2>9
  <1> QED BY <1>1, <1>5, <1>6

(* An entry that is there already is updated in place. *)
LEMMA QueueUpdates ==
    ASSUME EngineAssumption, EngineInv, Recall(loco) # {},
           entries' = [i \in Places |-> IF entries[i].addr = loco THEN [entries[i] EXCEPT !.state = engine]
                                        ELSE entries[i]],
           next' = next,
           left' = [p \in 1 .. Len(left) |-> IF p \in Recall(loco) THEN [addr |-> loco, state |-> engine]
                                             ELSE left[p]]
    PROVE  left' \in Seq(Notes) /\ Len(left') <= Size /\ QueueHolds'
  <1> DEFINE note == [addr |-> loco, state |-> engine]
             n == Len(left)
  <1>1. /\ Size \in Nat \ {0} /\ Places = 1 .. Size /\ n \in 0 .. Size
        /\ left \in Seq(Notes) /\ note \in Notes /\ note.addr = loco
        /\ entries \in [Places -> [addr : Locos \cup {NoLoco}, state : EngineStates \cup {NotInitialized}]]
    BY DEF EngineAssumption, EngineInv, EngineTypes, EngineTypeOK, Size, Places, Notes
  <1>2. \A p \in 1 .. n: left[p] \in Notes
    BY <1>1
  <1>3. \A p \in 1 .. n: left'[p] = (IF left[p].addr = loco THEN note ELSE left[p]) /\ left'[p].addr = left[p].addr
    BY <1>1 DEF Recall
  <1>4. left' \in Seq(Notes) /\ Len(left') = n
    <2>1. \A p \in 1 .. n: left'[p] \in Notes
      BY <1>1, <1>2, <1>3
    <2>2. left' = [p \in 1 .. n |-> left'[p]] /\ n \in Nat
      BY <1>1
    <2> QED BY <2>1, <2>2
  <1>5. \A i \in Places: /\ entries'[i].addr = entries[i].addr
                         /\ entries[i].addr # loco => entries'[i] = entries[i]
                         /\ \A p \in 1 .. n: entries[i] = left[p] /\ left[p].addr = loco => entries'[i] = note
    <2> SUFFICES ASSUME NEW i \in Places
                 PROVE  /\ entries'[i].addr = entries[i].addr
                        /\ entries[i].addr # loco => entries'[i] = entries[i]
                        /\ \A p \in 1 .. n: entries[i] = left[p] /\ left[p].addr = loco => entries'[i] = note
      OBVIOUS
    <2>1. entries[i] \in [addr : Locos \cup {NoLoco}, state : EngineStates \cup {NotInitialized}]
      BY <1>1
    <2>2. entries'[i] = IF entries[i].addr = loco THEN [entries[i] EXCEPT !.state = engine] ELSE entries[i]
      OBVIOUS
    <2>3. entries[i].addr = loco => [entries[i] EXCEPT !.state = engine] = note
      BY <2>1
    <2> QED BY <1>1, <2>2, <2>3
  <1>6. Places' = Places /\ Size' = Size
    BY DEF Places, Size
  <1> HIDE DEF n, note
  <1>7. n = Len(left)
    BY DEF n
  <1>8. Len(left') < Size => next' = Len(left') + 1 /\ \A p \in 1 .. Len(left'): left'[p].addr # NoLoco
    BY <1>3, <1>4, <1>7 DEF EngineInv, QueueHolds
  <1>9. ASSUME NEW p \in 1 .. Len(left')
        PROVE  /\ Spot(Len(left'), next', p) \in Places
               /\ entries'[Spot(Len(left'), next', p)] = left'[p]
    <2>1. p \in 1 .. n /\ Spot(Len(left'), next', p) = Spot(Len(left), next, p)
      BY <1>4, <1>7
    <2>2. Spot(Len(left), next, p) \in Places /\ entries[Spot(Len(left), next, p)] = left[p]
      BY <1>4, <1>7, <2>1 DEF EngineInv, QueueHolds
    <2>3. PICK i \in Places: i = Spot(Len(left), next, p) /\ entries[i] = left[p]
      BY <2>2
    <2>4. left'[p] = IF left[p].addr = loco THEN note ELSE left[p]
      BY <1>3, <2>1
    <2>5. entries'[i] = left'[p]
      <3>1. CASE left[p].addr = loco
        BY <1>5, <2>1, <2>3, <2>4, <3>1
      <3>2. CASE left[p].addr # loco
        BY <1>5, <2>3, <2>4, <3>2
      <3> QED BY <3>1, <3>2
    <2> HIDE DEF Spot
    <2> QED BY ONLY <2>1, <2>2, <2>3, <2>5
  <1>10. \A i \in Places: \/ Len(left') < Size /\ entries'[i].addr = NoLoco
                          \/ \E p \in 1 .. Len(left'): Spot(Len(left'), next', p) = i
    BY <1>4, <1>5, <1>7 DEF EngineInv, QueueHolds
  <1>11. \A p, q \in 1 .. Len(left'): left'[p].addr = left'[q].addr => p = q
    BY <1>3, <1>4, <1>7 DEF EngineInv, QueueHolds
  <1>12. QueueHolds'
    BY <1>6, <1>8, <1>9, <1>10, <1>11 DEF QueueHolds
  <1> QED BY <1>1, <1>4, <1>12

(* A change of locomotive keeps the invariant and gives the engine the       *)
(* state that the account remembers.                                         *)
LEMMA SwapKeeps ==
    ASSUME EngineAssumption, EngineInv, NEW addr \in Locos, Swap(addr), levels' \in BOOLEAN,
           left' = Noted(loco, engine)
    PROVE  /\ EngineInv'
           /\ (addr = NoLoco => Full) =>
                engine' = IF Recall(addr) = {} THEN engine ELSE left[CHOOSE p \in Recall(addr) : TRUE].state
  <1>1. /\ loco \in Locos /\ engine \in EngineStates /\ engineTimer \in 0 .. ENGINE_TIMER_DECISECS
        /\ entries \in [Places -> [addr : Locos \cup {NoLoco}, state : EngineStates \cup {NotInitialized}]]
        /\ next \in Places /\ onScreen \in BOOLEAN
    BY DEF EngineInv, EngineTypes, EngineTypeOK
  <1>2. /\ engine' = StateFor(addr) /\ entries' = Remembered(loco, engine) /\ next' = NextAfter(loco)
        /\ loco' = addr /\ engineTimer' = engineTimer /\ onScreen' = onScreen
    BY DEF Swap
  <1>a. Len(left) \in 0 .. Size /\ Size \in Nat /\ (Full <=> Len(left) = Size)
    BY DEF EngineInv, EngineTypes, EngineAssumption, Size, Full
  <1>3. ASSUME addr = NoLoco => Full
        PROVE  engine' = IF Recall(addr) = {} THEN engine ELSE left[CHOOSE p \in Recall(addr) : TRUE].state
    <2>1. CASE Recall(addr) = {}
      BY <1>2, <1>3, <1>a, <2>1, QueueFinds
    <2>2. CASE Recall(addr) # {}
      <3>1. PICK p \in Recall(addr): TRUE
        BY <2>2
      <3>2. StateFor(addr) = left[p].state /\ Recall(addr) = {p}
        BY <1>3, <1>a, <3>1, QueueFinds
      <3>3. (CHOOSE q \in Recall(addr) : TRUE) = p
        BY <3>2
      <3> QED BY <1>2, <2>2, <3>2, <3>3
    <2> QED BY <2>1, <2>2
  <1>4. engine' \in EngineStates
    <2>1. CASE addr = NoLoco /\ ~Full
      BY <1>2, <1>a, <2>1, SpareIsFirst
    <2>2. CASE addr = NoLoco => Full
      BY <1>1, <1>2, <1>a, <2>2, QueueFinds
    <2> QED BY <2>1, <2>2
  <1>6. /\ left' \in Seq(Notes) /\ Len(left') <= Size /\ next' \in Places
        /\ QueueHolds'
    <2>1. CASE loco = NoLoco /\ ~Full
      <3>1. Known(entries, loco) /\ First(entries, loco) = next /\ Recall(loco) = {}
        BY <1>a, <2>1, SpareIsFirst
      <3>2. entries' = [entries EXCEPT ![next].state = engine] /\ next' = next /\ left' = left
        BY <1>2, <2>1, <3>1 DEF Remembered, NextAfter, Noted
      <3>3. QueueHolds'
        BY <1>a, <2>1, <3>2, QueueSpares
      <3> QED BY <1>1, <3>2, <3>3 DEF EngineInv, EngineTypes
    <2>2. CASE (loco = NoLoco => Full) /\ Recall(loco) = {}
      <3>0. ~Known(entries, loco)
        BY <1>1, <1>a, <2>2, QueueFinds
      <3>1. /\ entries' = [entries EXCEPT ![next] = [addr |-> loco, state |-> engine]]
            /\ next' = IF next = Size THEN 1 ELSE next + 1
        BY <1>2, <3>0 DEF Remembered, NextAfter, Size
      <3>2. left' = IF Len(left) = Size THEN Append(Tail(left), [addr |-> loco, state |-> engine])
                    ELSE Append(left, [addr |-> loco, state |-> engine])
        BY <2>2 DEF Noted, Full, Size
      <3> QED BY <1>a, <2>2, <3>1, <3>2, QueueInserts
    <2>3. CASE (loco = NoLoco => Full) /\ Recall(loco) # {}
      <3>0. /\ Known(entries, loco) /\ First(entries, loco) \in Places
            /\ \A i \in Places: entries[i].addr = loco <=> i = First(entries, loco)
        BY <1>1, <1>a, <2>3, QueueFinds
      <3>1. entries' = [entries EXCEPT ![First(entries, loco)].state = engine] /\ next' = next
        BY <1>2, <3>0 DEF Remembered, NextAfter
      <3>2. entries' = [i \in Places |-> IF entries[i].addr = loco THEN [entries[i] EXCEPT !.state = engine]
                                         ELSE entries[i]]
        BY <1>1, <3>0, <3>1
      <3>3. left' = [p \in 1 .. Len(left) |-> IF p \in Recall(loco) THEN [addr |-> loco, state |-> engine]
                                              ELSE left[p]]
        BY <2>3 DEF Noted
      <3> QED BY <1>1, <2>3, <3>1, <3>2, <3>3, QueueUpdates
    <2> QED BY <2>1, <2>2, <2>3
  <1>7. entries' \in [Places -> [addr : Locos \cup {NoLoco}, state : EngineStates \cup {NotInitialized}]]
    <2>1. CASE Known(entries, loco)
      <3>1. entries' = [entries EXCEPT ![First(entries, loco)].state = engine]
        BY <1>2, <2>1 DEF Remembered
      <3>2. \A i \in Places: [entries[i] EXCEPT !.state = engine]
                               \in [addr : Locos \cup {NoLoco}, state : EngineStates \cup {NotInitialized}]
        BY <1>1
      <3>3. \A i \in Places: entries'[i] = entries[i] \/ entries'[i] = [entries[i] EXCEPT !.state = engine]
        BY <1>1, <3>1
      <3>4. entries' = [i \in Places |-> entries'[i]]
        BY <1>1, <3>1
      <3> QED BY <1>1, <3>2, <3>3, <3>4
    <2>2. CASE ~Known(entries, loco)
      BY <1>1, <1>2, <2>2 DEF Remembered
    <2> QED BY <2>1, <2>2
  <1>8. EngineTypes'
    BY <1>1, <1>2, <1>4, <1>6, <1>7 DEF EngineTypes, EngineTypeOK, Size, Notes
  <1> QED BY <1>3, <1>6, <1>8 DEF EngineInv

(* Every step keeps the invariant, and each change of address finds its      *)
(* engine as it was left.                                                    *)
LEMMA EngineStep ==
    ASSUME EngineAssumption, EngineInv, [LHNext]_engineall
    PROVE  EngineInv' /\ (loco' # loco /\ (loco' = NoLoco => Full) =>
             engine' = IF Recall(loco') = {} THEN engine ELSE left[CHOOSE p \in Recall(loco') : TRUE].state)
  <1>1. /\ loco \in Locos /\ engine \in EngineStates /\ engineTimer \in 0 .. ENGINE_TIMER_DECISECS
        /\ onScreen \in BOOLEAN /\ levels \in BOOLEAN
        /\ ENGINE_TIMER_DECISECS \in Nat \ {0}
    BY DEF EngineInv, EngineTypes, EngineTypeOK, EngineAssumption
  <1>2. ASSUME UNCHANGED <<loco, entries, next, left>>, engine' \in EngineStates,
               engineTimer' \in 0 .. ENGINE_TIMER_DECISECS, onScreen' \in BOOLEAN, levels' \in BOOLEAN
        PROVE  EngineInv'
    <2>1. EngineTypes'
      BY <1>2 DEF EngineInv, EngineTypes, EngineTypeOK, Size, Notes
    <2>2. QueueHolds'
      BY <1>2 DEF EngineInv, QueueHolds, Size, Places, Spot
    <2> QED BY <2>1, <2>2 DEF EngineInv
  <1>3. {"OFF", "ON", "START", "RUNNING", "STOP", "NOT_IDLE"} \subseteq EngineStates
    BY DEF EngineStates
  <1>4. ASSUME NEW idle \in BOOLEAN, Pass(idle), UNCHANGED left PROVE EngineInv' /\ loco' = loco
    <2>1. engine' \in EngineStates
      BY <1>1, <1>3, <1>4 DEF Pass
    <2> QED BY <1>1, <1>2, <1>4, <2>1 DEF Pass
  <1>5. ASSUME NEW idle \in BOOLEAN, Down(idle), UNCHANGED left PROVE EngineInv' /\ loco' = loco
    <2>1. engine' \in EngineStates /\ engineTimer' \in 0 .. ENGINE_TIMER_DECISECS
      BY <1>1, <1>3, <1>5 DEF Down
    <2> QED BY <1>1, <1>2, <1>5, <2>1 DEF Down
  <1>6. CASE Decisec /\ UNCHANGED left
    <2>1. engineTimer' \in 0 .. ENGINE_TIMER_DECISECS
      BY <1>1, <1>6 DEF Decisec
    <2> QED BY <1>1, <1>2, <1>6, <2>1 DEF Decisec
  <1>7. CASE ShowEngine /\ UNCHANGED left
    BY <1>1, <1>2, <1>7 DEF ShowEngine
  <1>8. CASE Up /\ UNCHANGED left
    <2>1. engine' \in EngineStates /\ engineTimer' \in 0 .. ENGINE_TIMER_DECISECS
      BY <1>1, <1>3, <1>8 DEF Up
    <2> QED BY <1>1, <1>2, <1>8, <2>1 DEF Up
  <1>9. CASE LeaveEngine /\ UNCHANGED left
    <2>1. engine' \in EngineStates
      BY <1>1, <1>3, <1>9 DEF LeaveEngine
    <2> QED BY <1>1, <1>2, <1>9, <2>1 DEF LeaveEngine
  <1>10. ASSUME NEW addr \in Locos, SetLoco(addr) \/ LoadLoco(addr), left' = Noted(loco, engine)
         PROVE  /\ EngineInv' /\ loco' = addr
                /\ (addr = NoLoco => Full) =>
                     engine' = IF Recall(addr) = {} THEN engine ELSE left[CHOOSE p \in Recall(addr) : TRUE].state
    <2>1. Swap(addr) /\ levels' \in BOOLEAN
      BY <1>1, <1>10 DEF SetLoco, LoadLoco
    <2>2. loco' = addr
      BY <2>1 DEF Swap
    <2> QED BY <1>10, <2>1, <2>2, SwapKeeps
  <1>11. CASE UNCHANGED engineall
    BY <1>1, <1>2, <1>11 DEF engineall, enginevars
  <1>12. CASE \E addr \in Locos : (SetLoco(addr) \/ LoadLoco(addr)) /\ left' = Noted(loco, engine)
    <2>1. PICK addr \in Locos: (SetLoco(addr) \/ LoadLoco(addr)) /\ left' = Noted(loco, engine)
      BY <1>12
    <2>2. /\ EngineInv' /\ loco' = addr
          /\ (addr = NoLoco => Full) =>
               engine' = IF Recall(addr) = {} THEN engine ELSE left[CHOOSE p \in Recall(addr) : TRUE].state
      BY <1>10, <2>1
    <2> QED BY <2>2
  <1> QED BY <1>4, <1>5, <1>6, <1>7, <1>8, <1>9, <1>11, <1>12 DEF LHNext

(* The invariant holds at power on, the ring being empty. *)
LEMMA EngineStart ==
    ASSUME EngineAssumption, LHInit
    PROVE  EngineInv
  <1>1. /\ loco \in Locos /\ engine = "OFF" /\ engineTimer = 0 /\ next = 1 /\ onScreen = FALSE /\ levels \in BOOLEAN
        /\ entries = [i \in Places |-> [addr |-> NoLoco, state |-> NotInitialized]] /\ left = <<>>
        /\ Size \in Nat \ {0} /\ ENGINE_TIMER_DECISECS \in Nat \ {0} /\ Places = 1 .. Size
    BY DEF LHInit, EngineInit, EngineAssumption, Size, Places
  <1>2. left \in Seq(Notes) /\ Len(left) = 0
    BY <1>1
  <1>3. EngineTypes
    <2>1. entries \in [Places -> [addr : Locos \cup {NoLoco}, state : EngineStates \cup {NotInitialized}]]
      BY <1>1
    <2>2. engine \in EngineStates /\ 0 \in 0 .. ENGINE_TIMER_DECISECS /\ 1 \in Places /\ Len(left) <= Size
      BY <1>1, <1>2 DEF EngineStates
    <2> QED BY <1>1, <1>2, <2>1, <2>2 DEF EngineTypes, EngineTypeOK
  <1>4. QueueHolds
    BY <1>1, <1>2 DEF QueueHolds
  <1> QED BY <1>3, <1>4 DEF EngineInv

(* The engine's variables keep their types: every remembered state is one    *)
(* that an engine can be in.                                                 *)
THEOREM EngineTypeCorrect == EngineAssumption => (LHSpec => []EngineTypeOK)
  <1> SUFFICES ASSUME EngineAssumption PROVE LHSpec => []EngineTypeOK
    OBVIOUS
  <1>1. LHInit => EngineInv
    BY EngineStart
  <1>2. EngineInv /\ [LHNext]_engineall => EngineInv'
    BY EngineStep
  <1>3. EngineInv => EngineTypeOK
    BY DEF EngineInv, EngineTypes
  <1> QED BY <1>1, <1>2, <1>3, PTL DEF LHSpec

(* A locomotive taken up again has the engine state it was left in, as long  *)
(* as it is among the last ones remembered, and otherwise that of the one    *)
(* before: the ring with its wrapping index is a queue without double        *)
(* entries.                                                                  *)
THEOREM EnginesComeBack == EngineAssumption => (LHSpec => EngineComesBack)
  <1> SUFFICES ASSUME EngineAssumption PROVE LHSpec => EngineComesBack
    OBVIOUS
  <1>1. LHInit => EngineInv
    BY EngineStart
  <1>2. EngineInv /\ [LHNext]_engineall => EngineInv'
    BY EngineStep
  <1>3. EngineInv /\ [LHNext]_engineall =>
          [loco' # loco /\ (loco' = NoLoco => Full) =>
                           engine' = IF Recall(loco') = {} THEN engine
                                     ELSE left[CHOOSE p \in Recall(loco') : TRUE].state]_engineall
    BY EngineStep
  <1> QED BY <1>1, <1>2, <1>3, PTL DEF LHSpec, EngineComesBack

-----------------------------------------------------------------------------
(* The first digit says short only where the others fit a short address. *)
EditorInv ==
  /\ digit \in [0 .. 3 -> Int] /\ at \in 0 .. 3
  /\ digit[0] \in 0 .. 9 \/ (digit[0] = Short /\ FitsShort(digit))
  /\ \A i \in 1 .. 3: digit[i] \in Digits

Numbers == 0 .. 9999

(* The number of four digits. *)
Value(d0, d1, d2, d3) == d0 * 1000 + (d1 * 100 + d2 * 10 + d3)

(* What DigitsOf makes of a number. *)
Shows(n, d0, d1, d2, d3) ==
    /\ (n \div 1000) % 10 = d0 /\ (n \div 100) % 10 = d1 /\ (n \div 10) % 10 = d2
    /\ (n \div 1) % 10 = d3

(* DigitsOf takes a number apart into the digits it was made of. *)
LEMMA FourDigits ==
    ASSUME NEW d0 \in 0 .. 9, NEW d1 \in 0 .. 9, NEW d2 \in 0 .. 9, NEW d3 \in 0 .. 9
    PROVE  /\ Value(d0, d1, d2, d3) \in Numbers
           /\ Shows(Value(d0, d1, d2, d3), d0, d1, d2, d3)
  <1> DEFINE n == Value(d0, d1, d2, d3)
  <1>0. n \in 0 .. 9999
    <2>1. d0 * 1000 \in 0 .. 9000 /\ d1 * 100 + d2 * 10 + d3 \in 0 .. 999
      OBVIOUS
    <2> DEFINE high == d0 * 1000
               low == d1 * 100 + d2 * 10 + d3
    <2>2. n = high + low
      BY ONLY DEF Value
    <2> HIDE DEF high, low, n
    <2>3. high \in 0 .. 9000 /\ low \in 0 .. 999
      BY ONLY <2>1 DEF high, low
    <2> QED BY ONLY <2>2, <2>3
  <1>a. n = d0 * 1000 + (d1 * 100 + d2 * 10 + d3)
    BY ONLY DEF Value
  <1> HIDE DEF n
  <1>1. n \in Nat /\ n = d0 * 1000 + (d1 * 100 + d2 * 10 + d3)
    <2>1. n \in Nat
      BY ONLY <1>0
    <2> QED BY ONLY <1>a, <2>1
  <1>2. n \div 1000 = d0
    <2>1. ASSUME NEW r \in 0 .. 999 PROVE (d0 * 1000 + r) \div 1000 = d0
      OBVIOUS
    <2>2. d1 * 100 + d2 * 10 + d3 \in 0 .. 999
      OBVIOUS
    <2> QED BY ONLY <1>1, <2>1, <2>2
  <1>3. n \div 100 = d0 * 10 + d1
    <2>1. ASSUME NEW q \in 0 .. 99, NEW r \in 0 .. 99 PROVE (q * 100 + r) \div 100 = q
      BY ONLY <2>1
    <2>2. d0 * 10 + d1 \in 0 .. 99 /\ d2 * 10 + d3 \in 0 .. 99
          /\ n = (d0 * 10 + d1) * 100 + (d2 * 10 + d3)
      BY ONLY <1>1, d0 \in 0 .. 9, d1 \in 0 .. 9, d2 \in 0 .. 9, d3 \in 0 .. 9
    <2> QED BY ONLY <2>1, <2>2
  <1>4. n \div 10 = d0 * 100 + d1 * 10 + d2
    <2>1. ASSUME NEW q \in 0 .. 999, NEW r \in 0 .. 9 PROVE (q * 10 + r) \div 10 = q
      BY ONLY <2>1
    <2>2. d0 * 100 + d1 * 10 + d2 \in 0 .. 999 /\ n = (d0 * 100 + d1 * 10 + d2) * 10 + d3
      BY ONLY <1>1, d0 \in 0 .. 9, d1 \in 0 .. 9, d2 \in 0 .. 9, d3 \in 0 .. 9
    <2> QED BY ONLY <2>1, <2>2, d3 \in 0 .. 9
  <1>5. ASSUME NEW q \in 0 .. 999, NEW r \in 0 .. 9 PROVE (q * 10 + r) % 10 = r
    BY ONLY <1>5
  <1>6. d0 % 10 = d0 /\ n \div 1 = n
    BY ONLY <1>1, d0 \in 0 .. 9
  <1>7. (d0 * 10 + d1) % 10 = d1
    BY ONLY <1>5, d0 \in 0 .. 9, d1 \in 0 .. 9
  <1>8. (d0 * 100 + d1 * 10 + d2) % 10 = d2
    <2>1. d0 * 10 + d1 \in 0 .. 999 /\ d0 * 100 + d1 * 10 + d2 = (d0 * 10 + d1) * 10 + d2
      OBVIOUS
    <2> QED BY ONLY <1>5, <2>1, d2 \in 0 .. 9
  <1>9. n % 10 = d3
    <2>1. d0 * 100 + d1 * 10 + d2 \in 0 .. 999 /\ n = (d0 * 100 + d1 * 10 + d2) * 10 + d3
      BY ONLY <1>1, d0 \in 0 .. 9, d1 \in 0 .. 9, d2 \in 0 .. 9, d3 \in 0 .. 9
    <2> QED BY ONLY <1>5, <2>1, d3 \in 0 .. 9
  <1>10. Shows(n, d0, d1, d2, d3)
    BY ONLY <1>2, <1>3, <1>4, <1>6, <1>7, <1>8, <1>9 DEF Shows
  <1>11. n \in Numbers
    BY ONLY <1>0 DEF Numbers
  <1> QED BY ONLY <1>10, <1>11, Zenon DEF n

(* readConfig() accepts the edited address, and its digits are those shown. *)
LEMMA SelectReturns ==
    ASSUME EditorInv
    PROVE  Accepted(Edited) = Edited /\ DigitsOf(Edited) = digit
  <1>1. digit[1] \in 0 .. 9 /\ digit[2] \in 0 .. 9 /\ digit[3] \in 0 .. 9
    BY DEF EditorInv, Digits
  <1>2. \A i \in 0 .. 3: i \in {0, 1, 2, 3}
    OBVIOUS
  <1> DEFINE long == Value(digit[0], digit[1], digit[2], digit[3])
             short == Value(0, digit[1], digit[2], digit[3])
             n == Edited.number
  <1>3. CASE digit[0] \in 0 .. 9
    <2>1. ~(digit[0] > 9)
      BY ONLY <1>3
    <2>2. Edited = [short |-> FALSE, number |-> digit[0] * 1000 + Low(digit)]
      BY ONLY <2>1 DEF Edited
    <2>3. Edited = [short |-> FALSE, number |-> long]
      <3>1. long = digit[0] * 1000 + (digit[1] * 100 + digit[2] * 10 + digit[3])
        BY ONLY Zenon DEF Value
      <3>2. Low(digit) = digit[1] * 100 + digit[2] * 10 + digit[3]
        BY DEF Low
      <3> HIDE DEF long
      <3> QED BY ONLY <2>2, <3>1, <3>2
    <2>4. long \in Numbers /\ Shows(long, digit[0], digit[1], digit[2], digit[3])
      BY ONLY <1>1, <1>3, FourDigits, Zenon
    <2> HIDE DEF long
    <2>5. n = long /\ Edited.short = FALSE
      BY ONLY <2>3
    <2>6. ~(n > 9999)
      BY ONLY <2>4, <2>5 DEF Numbers
    <2>7. Accepted(Edited) = Edited
      BY ONLY <2>5, <2>6 DEF Accepted
    <2>8. Shows(n, digit[0], digit[1], digit[2], digit[3])
      BY ONLY <2>4, <2>5
    <2> QED BY <1>2, <2>5, <2>7, <2>8 DEF DigitsOf, Shows, EditorInv
  <1>4. CASE digit[0] = Short /\ FitsShort(digit)
    <2>1. digit[0] > 9
      BY ONLY <1>4 DEF Short
    <2>2. Edited = [short |-> TRUE, number |-> Low(digit)]
      BY ONLY <2>1 DEF Edited
    <2>3. 0 * 1000 + (digit[1] * 100 + digit[2] * 10 + digit[3]) = Low(digit)
      <3>1. ASSUME NEW a \in 0 .. 9, NEW b \in 0 .. 9, NEW c \in 0 .. 9
            PROVE  0 * 1000 + (a * 100 + b * 10 + c) = a * 100 + b * 10 + c
        BY ONLY <3>1
      <3>2. Low(digit) = digit[1] * 100 + digit[2] * 10 + digit[3]
        BY DEF Low
      <3> QED BY ONLY <1>1, <3>1, <3>2
    <2>4. short = Low(digit)
      BY ONLY <2>3 DEF Value
    <2>5. 0 \in 0 .. 9
      OBVIOUS
    <2>6. short \in Numbers /\ Shows(short, 0, digit[1], digit[2], digit[3])
      BY ONLY <1>1, <2>5, FourDigits, Zenon
    <2> HIDE DEF short
    <2>7. n = short /\ Edited.short = TRUE
      BY ONLY <2>2, <2>4
    <2>8. short < 128
      BY ONLY <1>4, <2>4 DEF FitsShort
    <2>9. ~(n > 127)
      BY ONLY <2>6, <2>7, <2>8 DEF Numbers
    <2>10. Accepted(Edited) = Edited
      BY ONLY <2>7, <2>9 DEF Accepted
    <2>11. Shows(n, 0, digit[1], digit[2], digit[3])
      BY ONLY <2>6, <2>7
    <2> QED BY <1>2, <1>4, <2>7, <2>10, <2>11 DEF DigitsOf, Shows, EditorInv
  <1> QED BY <1>3, <1>4 DEF EditorInv

Room(a, b, c) == a * 100 + b * 10 + c < 128

(* Which digits may take the place of one another in an address below 128. *)
LEMMA ShortDigits ==
    ASSUME NEW d1 \in 0 .. 9, NEW d2 \in 0 .. 9, NEW d3 \in 0 .. 9, Room(d1, d2, d3)
    PROVE  /\ Room(0, d2, d3) /\ Room(d1, 0, d3) /\ Room(d1, d2, 0)
           /\ Room(d1 + 1, d2, d3) => Room(1, d2, d3)
           /\ d1 > 0 => Room(d1 - 1, d2, d3)
           /\ d2 > 0 => Room(d1, d2 - 1, d3)
           /\ d2 = 0 => Room(d1, 1, d3)
           /\ d3 > 0 => Room(d1, d2, d3 - 1)
           /\ d3 = 0 => Room(d1, d2, 7)
  BY DEF Room

(* Every turn of a digit keeps a short address below 128. *)
LEMMA EditorStep ==
    ASSUME EditorInv, [EditorNext]_editorvars
    PROVE  EditorInv'
  <1>1. /\ digit \in [0 .. 3 -> Int] /\ at \in 0 .. 3
        /\ digit[1] \in 0 .. 9 /\ digit[2] \in 0 .. 9 /\ digit[3] \in 0 .. 9
    BY DEF EditorInv, Digits
  <1>2. ASSUME NEW i \in 0 .. 3, NEW v \in Int, Set(i, v),
               i = 0 => v \in 0 .. 9 \/ (v = Short /\ FitsShort(digit)),
               i # 0 => v \in 0 .. 9 /\ (digit[0] \in 0 .. 9 \/ Fits(i, v))
        PROVE  EditorInv'
    <2>1. /\ digit' \in [0 .. 3 -> Int] /\ at' = at /\ digit' = [digit EXCEPT ![i] = v]
          /\ digit'[i] = v /\ \A k \in 0 .. 3: k # i => digit'[k] = digit[k]
      BY <1>1, <1>2 DEF Set
    <2>2. \A k \in 1 .. 3: digit'[k] \in Digits
      BY <1>2, <2>1 DEF EditorInv, Digits
    <2>3. CASE i = 0
      BY <1>1, <1>2, <2>1, <2>2, <2>3 DEF EditorInv, FitsShort, Low
    <2>4. CASE i # 0
      BY <1>1, <1>2, <2>1, <2>2, <2>4 DEF EditorInv, Fits
    <2> QED BY <2>3, <2>4
  <1>3. Short = 67 /\ 0 \in 0 .. 3
    BY DEF Short
  <1>4. CASE UpFirst
    BY <1>1, <1>2, <1>3, <1>4 DEF UpFirst, EditorInv
  <1>5. CASE DownFirst
    BY <1>1, <1>2, <1>3, <1>5 DEF DownFirst, EditorInv
  <1>6. CASE UpLong
    BY <1>1, <1>2, <1>3, <1>6 DEF UpLong, EditorInv
  <1>7. CASE DownLong
    BY <1>1, <1>2, <1>3, <1>7 DEF DownLong, EditorInv
  <1>8. \A v \in Int: /\ (Fits(1, v) <=> Room(v, digit[2], digit[3]))
                       /\ (Fits(2, v) <=> Room(digit[1], v, digit[3]))
                       /\ (Fits(3, v) <=> Room(digit[1], digit[2], v))
    BY <1>1 DEF Fits, FitsShort, Low, Room
  <1>9. CASE UpShort
    <2>1. /\ at \in {1, 2, 3} /\ at # 0
          /\ digit[0] \notin 0 .. 9
      BY <1>1, <1>9 DEF UpShort
    <2>0. Room(digit[1], digit[2], digit[3])
      BY <2>1 DEF EditorInv, FitsShort, Low, Room
    <2>2. CASE at = 1
      <3>1. \E v \in 0 .. 9: Fits(1, v) /\ Set(1, v)
        <4>1. CASE Fits(1, digit[1] + 1)
          <5>1. Fits(1, 1) /\ 1 \in 0 .. 9
            BY <1>1, <1>8, <2>0, ShortDigits, <4>1
          <5> QED BY <1>9, <2>2, <4>1, <5>1 DEF UpShort
        <4>2. CASE ~Fits(1, digit[1] + 1)
          <5>1. Fits(1, 0) /\ 0 \in 0 .. 9
            BY <1>1, <1>8, <2>0, ShortDigits, <4>2
          <5> QED BY <1>9, <2>2, <4>2, <5>1 DEF UpShort
        <4> QED BY <4>1, <4>2
      <3> QED BY <1>2, <2>1, <2>2, <3>1
    <2>3. CASE at = 2
      <3>1. \E v \in 0 .. 9: Fits(2, v) /\ Set(2, v)
        <4>1. CASE Fits(2, digit[2] + 1) /\ digit[2] < 9
          <5>1. Fits(2, digit[2] + 1) /\ digit[2] + 1 \in 0 .. 9
            BY <1>1, <1>8, <2>0, ShortDigits, <4>1
          <5> QED BY <1>9, <2>3, <4>1, <5>1 DEF UpShort
        <4>2. CASE ~(Fits(2, digit[2] + 1) /\ digit[2] < 9)
          <5>1. Fits(2, 0) /\ 0 \in 0 .. 9
            BY <1>1, <1>8, <2>0, ShortDigits, <4>2
          <5> QED BY <1>9, <2>3, <4>2, <5>1 DEF UpShort
        <4> QED BY <4>1, <4>2
      <3> QED BY <1>2, <2>1, <2>3, <3>1
    <2>4. CASE at = 3
      <3>1. \E v \in 0 .. 9: Fits(3, v) /\ Set(3, v)
        <4>1. CASE Fits(3, digit[3] + 1) /\ digit[3] < 9
          <5>1. Fits(3, digit[3] + 1) /\ digit[3] + 1 \in 0 .. 9
            BY <1>1, <1>8, <2>0, ShortDigits, <4>1
          <5> QED BY <1>9, <2>4, <4>1, <5>1 DEF UpShort
        <4>2. CASE ~(Fits(3, digit[3] + 1) /\ digit[3] < 9)
          <5>1. Fits(3, 0) /\ 0 \in 0 .. 9
            BY <1>1, <1>8, <2>0, ShortDigits, <4>2
          <5> QED BY <1>9, <2>4, <4>2, <5>1 DEF UpShort
        <4> QED BY <4>1, <4>2
      <3> QED BY <1>2, <2>1, <2>4, <3>1
    <2> QED BY <2>1, <2>2, <2>3, <2>4
  <1>10. CASE DownShort
    <2>1. /\ at \in {1, 2, 3} /\ at # 0
          /\ digit[0] \notin 0 .. 9
      BY <1>1, <1>10 DEF DownShort
    <2>0. Room(digit[1], digit[2], digit[3])
      BY <2>1 DEF EditorInv, FitsShort, Low, Room
    <2>2. CASE at = 1
      <3>1. \E v \in 0 .. 9: Fits(1, v) /\ Set(1, v)
        <4>1. CASE digit[1] > 0
          <5>1. Fits(1, digit[1] - 1) /\ digit[1] - 1 \in 0 .. 9
            BY <1>1, <1>8, <2>0, ShortDigits, <4>1
          <5> QED BY <1>10, <2>2, <4>1, <5>1 DEF DownShort
        <4>2. CASE digit[1] = 0 /\ Fits(1, 1)
          <5>1. Fits(1, 1) /\ 1 \in 0 .. 9
            BY <1>1, <1>8, <2>0, ShortDigits, <4>2
          <5> QED BY <1>10, <2>2, <4>2, <5>1 DEF DownShort
        <4>3. CASE digit[1] = 0 /\ ~Fits(1, 1)
          <5>1. Fits(1, 0) /\ 0 \in 0 .. 9
            BY <1>1, <1>8, <2>0, ShortDigits, <4>3
          <5>2. ~(digit[1] > 0)
            BY <4>3
          <5>3. Set(1, 0)
            BY <1>10, <2>2, <4>3, <5>2 DEF DownShort
          <5> QED BY <5>1, <5>3
        <4> QED BY <1>1, <4>1, <4>2, <4>3
      <3> QED BY <1>2, <2>1, <2>2, <3>1
    <2>3. CASE at = 2
      <3>1. \E v \in 0 .. 9: Fits(2, v) /\ Set(2, v)
        <4>1. CASE digit[2] > 0
          <5>1. Fits(2, digit[2] - 1) /\ digit[2] - 1 \in 0 .. 9
            BY <1>1, <1>8, <2>0, ShortDigits, <4>1
          <5> QED BY <1>10, <2>3, <4>1, <5>1 DEF DownShort
        <4>2. CASE digit[2] = 0 /\ Fits(2, 9)
          <5>1. Fits(2, 9) /\ 9 \in 0 .. 9
            BY <1>1, <1>8, <2>0, ShortDigits, <4>2
          <5> QED BY <1>10, <2>3, <4>2, <5>1 DEF DownShort
        <4>3. CASE digit[2] = 0 /\ ~Fits(2, 9) /\ Fits(2, 2)
          <5>1. Fits(2, 2) /\ 2 \in 0 .. 9
            BY <1>1, <1>8, <2>0, ShortDigits, <4>3
          <5> QED BY <1>10, <2>3, <4>3, <5>1 DEF DownShort
        <4>4. CASE digit[2] = 0 /\ ~Fits(2, 9) /\ ~Fits(2, 2)
          <5>1. Fits(2, 1) /\ 1 \in 0 .. 9
            BY <1>1, <1>8, <2>0, ShortDigits, <4>4
          <5>2. ~(digit[2] > 0)
            BY <4>4
          <5>3. Set(2, 1)
            BY <1>10, <2>3, <4>4, <5>2 DEF DownShort
          <5> QED BY <5>1, <5>3
        <4> QED BY <1>1, <4>1, <4>2, <4>3, <4>4
      <3> QED BY <1>2, <2>1, <2>3, <3>1
    <2>4. CASE at = 3
      <3>1. \E v \in 0 .. 9: Fits(3, v) /\ Set(3, v)
        <4>1. CASE digit[3] > 0
          <5>1. Fits(3, digit[3] - 1) /\ digit[3] - 1 \in 0 .. 9
            BY <1>1, <1>8, <2>0, ShortDigits, <4>1
          <5> QED BY <1>10, <2>4, <4>1, <5>1 DEF DownShort
        <4>2. CASE digit[3] = 0 /\ Fits(3, 9)
          <5>1. Fits(3, 9) /\ 9 \in 0 .. 9
            BY <1>1, <1>8, <2>0, ShortDigits, <4>2
          <5> QED BY <1>10, <2>4, <4>2, <5>1 DEF DownShort
        <4>3. CASE digit[3] = 0 /\ ~Fits(3, 9)
          <5>1. Fits(3, 7) /\ 7 \in 0 .. 9
            BY <1>1, <1>8, <2>0, ShortDigits, <4>3
          <5>2. ~(digit[3] > 0)
            BY <4>3
          <5>3. Set(3, 7)
            BY <1>10, <2>4, <4>3, <5>2 DEF DownShort
          <5> QED BY <5>1, <5>3
        <4> QED BY <1>1, <4>1, <4>2, <4>3
      <3> QED BY <1>2, <2>1, <2>4, <3>1
    <2> QED BY <2>1, <2>2, <2>3, <2>4
  <1>11. CASE Advance
    <2>1. at' \in 0 .. 3 /\ digit' = digit
      BY <1>1, <1>11 DEF Advance
    <2> QED BY <2>1 DEF EditorInv
  <1>12. CASE Select
    <2>1. digit' = digit /\ at' = 0
      BY <1>12, SelectReturns DEF Select
    <2> QED BY <2>1 DEF EditorInv
  <1>13. CASE UNCHANGED editorvars
    BY <1>13 DEF editorvars, EditorInv
  <1> QED BY <1>4, <1>5, <1>6, <1>7, <1>9, <1>10, <1>11, <1>12, <1>13 DEF EditorNext

(* The editor's invariant holds of the address after a reset. *)
LEMMA EditorStart ==
    ASSUME EditorInit
    PROVE  EditorInv
  <1>1. /\ at = 0 /\ digit = [i \in 0 .. 3 |-> IF i = 0 THEN 67
                                               ELSE (3 \div (IF i = 1 THEN 100 ELSE IF i = 2 THEN 10 ELSE 1)) % 10]
    BY DEF EditorInit, DigitsOf, Short
  <1>2. digit[0] = 67 /\ digit[1] = 0 /\ digit[2] = 0 /\ digit[3] = 3
    <2>1. (3 \div 100) % 10 = 0 /\ (3 \div 10) % 10 = 0 /\ (3 \div 1) % 10 = 3
      OBVIOUS
    <2> QED BY <1>1, <2>1
  <1>3. digit = [i \in 0 .. 3 |-> digit[i]] /\ \A i \in 0 .. 3: digit[i] \in Int
    <2>1. \A i \in 0 .. 3: i \in {0, 1, 2, 3}
      OBVIOUS
    <2> QED BY <1>1, <1>2, <2>1
  <1> QED BY <1>1, <1>2, <1>3 DEF EditorInv, Digits, Short, FitsShort, Low

(* However the digits are turned, readConfig() has nothing to reset in the   *)
(* address that SELECT saves.                                                *)
THEOREM EditorSetsShown == EditorSpec => []ShownIsSet
  <1>1. EditorInit => EditorInv
    BY EditorStart
  <1>2. EditorInv /\ [EditorNext]_editorvars => EditorInv'
    BY EditorStep
  <1>3. EditorInv => ShownIsSet
    BY SelectReturns DEF ShownIsSet
  <1> QED BY <1>1, <1>2, <1>3, PTL DEF EditorSpec

(* Both, for the LOCO screen and the queue behind it. *)
THEOREM LocoAlwaysFollows == EngineAssumption => (EditorSpec /\ LHSpec => LocoFollows)
  BY EditorSetsShown, EnginesComeBack DEF LocoFollows
=============================================================================
