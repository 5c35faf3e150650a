---------------------------- MODULE ConfigStore ----------------------------
(***************************************************************************)
(* The configuration store: profile slots and the working profile in       *)
(* EEPROM, the RAM settings read from the latter, the operations that copy *)
(* one over another, and the migrations a newer firmware applies to an     *)
(* older store at its first boot.  An EEPROM write takes milliseconds and  *)
(* a slot many of them, so an operation is a job of single writes and the  *)
(* power may go between any two.                                           *)
(*                                                                         *)
(* A slot is represented by one byte of each kind the migrations treat     *)
(* differently, named by its offset:                                       *)
(*   x28  ACCEL, raw since layout 4, seeded where it was erased before     *)
(*   x2C  BRK2 in layout 2, MENU BTN since layout 5                        *)
(*   x3D  OPLOAD in layout 2, unused since                                 *)
(*   x4A  CHARGED since layout 2, healed when it reads as erased           *)
(*   x54  BRK2 since layout 3, raw since 8                                 *)
(*   x59  OPLOAD since layout 3, raw since 7                               *)
(*   x61  ACCELADJ since layout 4, raw                                     *)
(* and a byte is "D" the field's default, "U" a value of the user's, or    *)
(* "E" erased (0xFF), which for a raw field is a value as well.            *)
(***************************************************************************)
EXTENDS Naturals, Sequences

CONSTANTS
    MAX_CONFIGS,    \* local profiles
    Images,         \* what a slot may hold before the upgrade: [Cells -> Kinds]
    MaxJobs         \* bound: operations begun after the first boot

VARIABLES
    version,    \* EE_LAYOUT_VERSION
    store,      \* [Slots -> [Cells -> Kinds]]
    settings,   \* the settings readConfig() left, as edited since
    phase,      \* "off", "busy" writing, "ready" or "editing"
    job,        \* the writes still to do
    jobs        \* operations begun, against MaxJobs

cVars == <<version, store, settings, phase, job, jobs>>

Kinds   == {"D", "U", "E"}
Current == 8                            \* EEPROM_LAYOUT_VERSION
BLANK   == 255                          \* the version byte of an erased chip
WORKING == 0                            \* WORKING_CONFIG
Slots   == 0..MAX_CONFIGS
Cells   == {"x28", "x2C", "x3D", "x4A", "x54", "x59", "x61"}
Fields  == [accel |-> "x28", brk2 |-> "x54", opload |-> "x59", adj |-> "x61",
            menuBtn |-> "x2C", charged |-> "x4A"]
Erased  == [c \in Cells |-> "E"]

\* The fields one screen's SAVE writes, in this order.
Screens == {<<"accel", "brk2", "opload", "adj">>, <<"menuBtn">>, <<"charged">>}

ConfigAssumption ==
    MAX_CONFIGS \in Nat /\ MaxJobs \in Nat /\ Images \subseteq [Cells -> Kinds]

(***************************************************************************)
(* Writes.  A seed only fills an erased byte; a transfer takes the byte of *)
(* the old place at the time it is done.                                   *)
(***************************************************************************)
Put(s, c, v)  == [how |-> "put", slot |-> s, cell |-> c, val |-> v]
Seed(s, c)    == [how |-> "seed", slot |-> s, cell |-> c, val |-> "D"]
Transfer(s, c, d) == [how |-> "move", slot |-> s, cell |-> c, val |-> d]

Written(img, w) ==
    CASE w.how = "put"  -> [img EXCEPT ![w.cell] = w.val]
      [] w.how = "move" -> [img EXCEPT ![w.cell] = img[w.val]]
      [] w.how = "seed" -> IF img[w.cell] = "E" THEN [img EXCEPT ![w.cell] = "D"]
                           ELSE img

\* The writes of one slot after the other; all slots have as many.
InOrder(slots, writes) ==
    LET each == Len(writes[WORKING])
    IN  [k \in 1..(each * Len(slots)) |->
            writes[slots[((k - 1) \div each) + 1]][((k - 1) % each) + 1]]

\* One block over every slot, the working profile last.
EverySlot(writes) ==
    InOrder([s \in 1..(MAX_CONFIGS + 1) |-> IF s <= MAX_CONFIGS THEN s ELSE WORKING], writes)

(***************************************************************************)
(* applyEepromMigrations().                                                *)
(***************************************************************************)
Block(cond, writes) == IF cond THEN EverySlot(writes) ELSE <<>>

Repack    == [s \in Slots |-> <<Put(s, "x3D", "D"), Put(s, "x4A", "D")>>]
Relocate  == [s \in Slots |-> <<Transfer(s, "x54", "x2C"), Transfer(s, "x59", "x3D")>>]
ModelDef  == [s \in Slots |-> <<Put(s, "x54", "D"), Put(s, "x59", "D")>>]
SeedRaw   == [s \in Slots |-> <<Seed(s, "x28"), Put(s, "x61", "D")>>]
ClearBtn  == [s \in Slots |-> <<Put(s, "x2C", "D")>>]
SeedLoad  == [s \in Slots |-> <<Seed(s, "x59")>>]
SeedBrake == [s \in Slots |-> <<Seed(s, "x54")>>]

\* Mutant: gated on the current version, as the -> 5 block once was.
MigrationsNotCurrent(v) ==
       Block(v < 2, Repack) \o Block(v = 2, Relocate) \o Block(v < 2, ModelDef)
    \o Block(v < 4 \/ v = BLANK, SeedRaw)
    \o Block(v # Current, ClearBtn)
    \o Block(v < 7 \/ v = BLANK, SeedLoad) \o Block(v < 8 \/ v = BLANK, SeedBrake)

Migrations(v) ==
       Block(v < 2, Repack) \o Block(v = 2, Relocate) \o Block(v < 2, ModelDef)
    \o Block(v < 4 \/ v = BLANK, SeedRaw)
    \o Block(v < 5 \/ v = BLANK, ClearBtn)
    \o Block(v < 7 \/ v = BLANK, SeedLoad) \o Block(v < 8 \/ v = BLANK, SeedBrake)

Stamp(v) == IF v # Current
              THEN <<[how |-> "stamp", slot |-> WORKING, cell |-> "x28", val |-> "D"]>>
              ELSE <<>>

(***************************************************************************)
(* The end of readConfig(): heal the bytes that are not raw, in EEPROM and *)
(* in the copy.                                                            *)
(***************************************************************************)
HealedSlot(img) == IF img["x4A"] = "E" THEN [img EXCEPT !["x4A"] = "D"] ELSE img
Decode(img) == [f \in DOMAIN Fields |-> img[Fields[f]]]

NoSettings == [f \in DOMAIN Fields |-> "E"]

(***************************************************************************)
(* The operations.                                                         *)
(***************************************************************************)
Boot ==
    /\ phase = "off"
    /\ phase' = "busy"
    /\ job' = Stamp(version) \o Migrations(version)
    /\ UNCHANGED <<version, store, settings, jobs>>

Write ==
    /\ phase = "busy" /\ job # <<>>
    /\ LET w == Head(job)
       IN  IF w.how = "stamp"
             THEN version' = Current /\ UNCHANGED store
             ELSE /\ store' = [store EXCEPT ![w.slot] = Written(@, w)]
                  /\ UNCHANGED version
    /\ job' = Tail(job)
    /\ UNCHANGED <<settings, phase, jobs>>

\* Every operation ends in readConfig().
ReadSettings ==
    /\ store' = [store EXCEPT ![WORKING] = HealedSlot(@)]
    /\ settings' = Decode(store'[WORKING])
    /\ phase' = "ready"
    /\ UNCHANGED <<version, job>>

Finish ==
    /\ phase = "busy" /\ job = <<>>
    /\ ReadSettings
    /\ UNCHANGED jobs

Begin(writes) ==
    /\ jobs < MaxJobs
    /\ jobs' = jobs + 1
    /\ job' = writes
    /\ phase' = "busy"
    /\ UNCHANGED <<version, store, settings>>

\* A slot written whole, byte by byte.
CellSeq == <<"x28", "x2C", "x3D", "x4A", "x54", "x59", "x61">>
Image(s, img) == [k \in 1..Len(CellSeq) |-> Put(s, CellSeq[k], img[CellSeq[k]])]

\* copyConfig() reads the source whole before it writes.
Copy(src, dst) ==
    /\ phase = "ready"
    /\ {src, dst} \subseteq Slots /\ WORKING \in {src, dst} /\ src # dst
    /\ Begin(Image(dst, store[src]))

\* A profile pulled over the air, of the same layout, buffered whole before it
\* is written (CnfSync has the exchange itself).
Pull(img) ==
    /\ phase = "ready"
    /\ Begin(Image(WORKING, img))

\* resetConfig(): the working profile first, then a copy of it to the others.
Reset ==
    /\ phase = "ready"
    /\ LET default == [c \in Cells |-> IF c = "x3D" THEN store[WORKING][c] ELSE "D"]
       IN  Begin(InOrder([n \in 1..(MAX_CONFIGS + 1) |-> n - 1],
                         [s \in Slots |-> Image(s, default)]))

\* Browsing a value changes the settings at once; the byte of a field that
\* heals never takes the erased value, and a button always has a function.
EditSettings ==
    /\ phase = "ready" /\ jobs < MaxJobs
    /\ \E f \in DOMAIN Fields, v \in Kinds :
          /\ f \in {"menuBtn", "charged"} => v # "E"
          /\ settings' = [settings EXCEPT ![f] = v]
    /\ settings' # settings
    /\ phase' = "editing"
    /\ UNCHANGED <<version, store, job, jobs>>

SaveScreen(saved) ==
    /\ phase = "editing"
    /\ \A f \in DOMAIN Fields \ {saved[k] : k \in DOMAIN saved} :
          settings[f] = Decode(store[WORKING])[f]
    /\ Begin([k \in DOMAIN saved |-> Put(WORKING, Fields[saved[k]], settings[saved[k]])])

DismissEdit ==
    /\ phase = "editing"
    /\ ReadSettings
    /\ UNCHANGED jobs

\* RAM is lost, and with it the writes not yet done.
PowerLoss ==
    /\ phase # "off"
    /\ phase' = "off"
    /\ job' = <<>>
    /\ settings' = NoSettings
    /\ jobs < MaxJobs /\ jobs' = jobs + 1
    /\ UNCHANGED <<version, store>>

CInit ==
    /\ version \in (1..Current) \union {BLANK}
    /\ store \in [Slots -> IF version = BLANK THEN {Erased} ELSE Images]
    /\ settings = NoSettings
    /\ phase = "off" /\ job = <<>> /\ jobs = 0

CNext ==
    \/ Boot \/ Write \/ Finish \/ DismissEdit \/ Reset \/ EditSettings \/ PowerLoss
    \/ \E src, dst \in Slots : Copy(src, dst)
    \/ \E img \in Images : Pull(img)
    \/ \E saved \in Screens : SaveScreen(saved)
=============================================================================
