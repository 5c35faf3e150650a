---------------------------- MODULE SpeedScreen ----------------------------
(***************************************************************************)
(* The SPEED CFG screen, its decoder families and the LOAD button.  The    *)
(* family (TYPE) of a profile decides which parameters of the speed model  *)
(* exist: the others are forced to a value the model ignores, when the     *)
(* operator steps TYPE (speedResetModel) and whenever a profile is read    *)
(* (speedApplyTypeInert).  The simulation runs on the very array the       *)
(* screen edits; the LOAD button asserts a decoder function all the time,  *)
(* so it runs on a copy taken when the profile is read.                    *)
(*                                                                         *)
(* A run of presses of one arrow on a value is one step to any value the   *)
(* editor reaches; TYPE goes by single presses, each re-initialising.      *)
(***************************************************************************)
EXTENDS Naturals

CONSTANTS
    Samples,     \* [items edited in this instance -> values the operator picks]
    Profiles     \* stored profiles LOAD may bring: [Items -> Byte]

VARIABLES
    ram,        \* speedCfg[]
    ee,         \* the same bytes of the working profile in EEPROM
    display,    \* configBits' SPEED display bit, as edited
    eeDisplay,  \* ... as stored
    onLoad,     \* the function of one button is LOAD, as edited
    eeOnLoad,   \* ... as stored
    committed,  \* committedOploadFn, committedPrloadFn, committedLoadEligible
    mode,       \* loadModeUp
    advFunc,    \* SYSTEMBITS_ADV_FUNC
    screen      \* the subscreen being edited

sVars == <<ram, ee, display, eeDisplay, onLoad, eeOnLoad, committed, mode,
           advFunc, screen>>

Byte == 0..255
OFF  == 255                     \* SPEED_STOP_WATCH_FN_OFF, an erased byte too

V5DCC  == 0
V5MULT == 1
V4     == 2
TypeCount == 3

Agnostic  == {"TYPE", "MAX_MPH", "UNIT", "ACCEL", "DECEL"}
Droppable == {"ACCEL_ADJ", "DECEL_ADJ", "BRAKE2", "BRAKE3",
              "OPLOAD", "OPLOAD_FN", "PRLOAD", "PRLOAD_FN"}
AdvGated  == {"ACCEL_PCT", "ACCEL_TARGET", "DECEL_PCT", "DECEL_THRESHOLD"}
EsuV4     == {"BRAKE1", "START_DELAY", "HOLD_FN", "STOP_FN"} \union AdvGated
Esu       == {"ACCEL_ADJ", "DECEL_ADJ", "BRAKE1", "BRAKE2", "BRAKE3",
              "START_DELAY", "HOLD_FN", "STOP_FN", "OPLOAD", "OPLOAD_FN",
              "PRLOAD", "PRLOAD_FN"} \union AdvGated
Items     == Agnostic \union Esu

WatchFns   == {"HOLD_FN", "STOP_FN", "OPLOAD_FN", "PRLOAD_FN"}
SignedAdjs == {"ACCEL_ADJ", "DECEL_ADJ"}
FullRange  == {"ACCEL", "DECEL", "BRAKE1", "BRAKE2", "BRAKE3", "START_DELAY",
               "OPLOAD", "PRLOAD"}

ModelItems(t) == IF t = V4 THEN EsuV4 ELSE Esu
\* No editor and no firmware so far has stored another TYPE.
ASSUME SpeedScreenAssumption ==
    /\ \A p \in Profiles : p \in [Items -> Byte] /\ p["TYPE"] \in 0..(TypeCount - 1) \union {255}
    /\ DOMAIN Samples \subseteq Items \ {"TYPE"}

SpeedType(c)  == IF c["TYPE"] < TypeCount THEN c["TYPE"] ELSE V5DCC
TypeHasLoad(c) == "OPLOAD_FN" \in ModelItems(SpeedType(c))

ItemDefault(i) == IF i = "BRAKE2" THEN 70
                  ELSE IF i = "BRAKE3" THEN 100
                  ELSE IF i \in {"OPLOAD", "PRLOAD"} THEN 128
                  ELSE IF i \in {"OPLOAD_FN", "PRLOAD_FN"} THEN OFF
                  ELSE 0
ItemInert(i)   == IF i \in {"BRAKE2", "BRAKE3"} THEN 0 ELSE ItemDefault(i)

\* Mutant: the parameters a family loses keep their values.
ResetGainedOnly(c, old, new) ==
    [i \in Items |-> IF i \in ModelItems(new) \ ModelItems(old)
                       THEN ItemDefault(i) ELSE c[i]]

ResetModel(c, old, new) ==
    LET gone   == ModelItems(old) \ ModelItems(new)
        gained == ModelItems(new) \ ModelItems(old)
    IN  IF {old, new} \subseteq 0..(TypeCount - 1)
          THEN [i \in Items |-> IF i \in gone THEN ItemInert(i)
                                ELSE IF i \in gained THEN ItemDefault(i)
                                ELSE c[i]]
          ELSE c

ApplyTypeInert(c) ==
    [i \in Items |-> IF i \in Droppable \ ModelItems(SpeedType(c))
                       THEN ItemInert(i) ELSE c[i]]

(***************************************************************************)
(* readConfig().  Most bytes heal from 0xFF to a default on the way; the   *)
(* others are read as they are, because 255 is a value of theirs.          *)
(***************************************************************************)
\* Mutant: HOLDFN heals too, so a saved OFF comes back as F09.
HealedHoldFn == [MAX_MPH |-> 50, UNIT |-> 0, TYPE |-> V5DCC, STOP_FN |-> OFF,
                 HOLD_FN |-> 9, OPLOAD_FN |-> OFF, PRLOAD_FN |-> OFF,
                 DECEL_THRESHOLD |-> 11, DECEL_PCT |-> 22, ACCEL_PCT |-> 8,
                 ACCEL_TARGET |-> 5]

Healed == [MAX_MPH |-> 50, UNIT |-> 0, TYPE |-> V5DCC, STOP_FN |-> OFF,
           OPLOAD_FN |-> OFF, PRLOAD_FN |-> OFF, DECEL_THRESHOLD |-> 11,
           DECEL_PCT |-> 22, ACCEL_PCT |-> 8, ACCEL_TARGET |-> 5]

ReadByte(e, i) == IF i \in DOMAIN Healed /\ e[i] = 255 THEN Healed[i] ELSE e[i]
ReadSlot(e)    == [i \in Items |-> ReadByte(e, i)]

\* What the run-time keeps of profile e, with display bit d.
Commit(e, d) == LET c == ApplyTypeInert(ReadSlot(e))
                IN  [op |-> c["OPLOAD_FN"], pr |-> c["PRLOAD_FN"],
                     eligible |-> d /\ TypeHasLoad(c)]

ReadConfig(e, d, f) ==
    /\ ee' = ReadSlot(e)
    /\ ram' = ApplyTypeInert(ReadSlot(e))
    /\ committed' = Commit(e, d)
    /\ eeDisplay' = d /\ display' = d
    /\ eeOnLoad' = f /\ onLoad' = f
    /\ screen' = "none"

(***************************************************************************)
(* The LOAD button's contribution to the function mask.                    *)
(***************************************************************************)
LoadActive == onLoad /\ committed.eligible

LoadFunction(m, op, pr) ==
    CASE m = "OPLOAD" /\ op <= 28 -> {op}
      [] m = "PRLOAD" /\ pr <= 28 -> {pr}
      [] OTHER -> {}

\* Mutant: the settings as they are being edited.
AssertedLive == IF onLoad /\ display /\ TypeHasLoad(ram)
                  THEN LoadFunction(mode, ram["OPLOAD_FN"], ram["PRLOAD_FN"])
                  ELSE {}

Asserted == IF LoadActive THEN LoadFunction(mode, committed.op, committed.pr)
            ELSE {}

AdvanceLoadMode(m) == CASE m = "OFF" -> "OPLOAD"
                        [] m = "OPLOAD" -> "PRLOAD"
                        [] OTHER -> "OFF"

(***************************************************************************)
(* The editors.                                                            *)
(***************************************************************************)
\* The items the MENU key walks through (speedItemAt).
ItemsShown(c) == Agnostic \union
                 {i \in ModelItems(SpeedType(c)) : i \in AdvGated => advFunc}

\* The values the arrows reach.
Editable(i) == IF i \in WatchFns THEN (0..28) \union {OFF}
               ELSE IF i \in SignedAdjs THEN Byte \ {128}
               ELSE IF i = "UNIT" THEN 0..1
               ELSE IF i = "MAX_MPH" THEN 1..254
               ELSE IF i \in FullRange THEN Byte
               ELSE 0..254

Enter(s) ==
    /\ screen = "none"
    /\ screen' = s
    /\ UNCHANGED <<ram, ee, display, eeDisplay, onLoad, eeOnLoad, committed,
                   mode, advFunc>>

Change(i) ==
    /\ screen = "SPEED" /\ i \in ItemsShown(ram)
    /\ \E v \in Samples[i] \intersect Editable(i) : ram' = [ram EXCEPT ![i] = v]
    /\ UNCHANGED <<ee, display, eeDisplay, onLoad, eeOnLoad, committed, mode,
                   advFunc, screen>>

StepType ==
    /\ screen = "SPEED"
    /\ \E t \in Byte :
          /\ (t = ram["TYPE"] + 1 /\ t < TypeCount) \/ t + 1 = ram["TYPE"]
          /\ ram' = ResetModel([ram EXCEPT !["TYPE"] = t], ram["TYPE"], t)
    /\ UNCHANGED <<ee, display, eeDisplay, onLoad, eeOnLoad, committed, mode,
                   advFunc, screen>>

BrowseDisplay ==
    /\ screen = "PREFS"
    /\ display' = ~display
    /\ UNCHANGED <<ram, ee, eeDisplay, onLoad, eeOnLoad, committed, mode,
                   advFunc, screen>>

\* CONFIG FUNC offers LOAD only while the committed profile has it.
BrowseFunction ==
    /\ screen = "FUNC"
    /\ ~onLoad => committed.eligible
    /\ onLoad' = ~onLoad
    /\ UNCHANGED <<ram, ee, display, eeDisplay, eeOnLoad, committed, mode,
                   advFunc, screen>>

\* SELECT: every byte is written, a LOAD button the family no longer has is
\* cleared, and the profile is read back.
Save ==
    /\ screen # "none"
    /\ CASE screen = "SPEED" ->
              ReadConfig(ram, eeDisplay, eeOnLoad /\ TypeHasLoad(ram))
         [] screen = "PREFS" -> ReadConfig(ee, display, eeOnLoad /\ display)
         [] screen = "FUNC"  -> ReadConfig(ee, eeDisplay, onLoad)
    /\ UNCHANGED <<mode, advFunc>>

\* A long press of MENU.
Dismiss ==
    /\ screen # "none"
    /\ ReadConfig(ee, eeDisplay, eeOnLoad)
    /\ UNCHANGED <<mode, advFunc>>

\* LOAD CNF copies a stored profile over the working one.
LoadProfile ==
    /\ screen = "none"
    /\ \E p \in Profiles, f \in BOOLEAN : ReadConfig(p, eeDisplay, f)
    /\ UNCHANGED <<mode, advFunc>>

PressLoad ==
    /\ screen = "none" /\ LoadActive
    /\ mode' = AdvanceLoadMode(mode)
    /\ UNCHANGED <<ram, ee, display, eeDisplay, onLoad, eeOnLoad, committed,
                   advFunc, screen>>

SInit ==
    /\ ee \in {ReadSlot(p) : p \in Profiles}
    /\ ram = ApplyTypeInert(ee)
    /\ display \in BOOLEAN /\ eeDisplay = display
    /\ onLoad = FALSE /\ eeOnLoad = FALSE
    /\ committed = Commit(ee, display)
    /\ mode = "OFF" /\ screen = "none"
    /\ advFunc \in BOOLEAN

SNext ==
    \/ \E s \in {"SPEED", "PREFS", "FUNC"} : Enter(s)
    \/ \E i \in DOMAIN Samples : Change(i)
    \/ StepType \/ BrowseDisplay \/ BrowseFunction
    \/ Save \/ Dismiss \/ LoadProfile \/ PressLoad

SSpec == SInit /\ [][SNext]_sVars

STypeOK ==
    /\ ram \in [Items -> Byte] /\ ee \in [Items -> Byte]
    /\ {display, eeDisplay, onLoad, eeOnLoad, advFunc} \subseteq BOOLEAN
    /\ committed \in [op : Byte, pr : Byte, eligible : BOOLEAN]
    /\ mode \in {"OFF", "OPLOAD", "PRLOAD"}
    /\ screen \in {"none", "SPEED", "PREFS", "FUNC"}

\* The simulation never runs on a parameter its decoder family does not have:
\* not after a profile saved by another family is read, nor half way through
\* an edit of TYPE (speedResetModel, speedApplyTypeInert).
ForeignInert ==
    \A i \in Droppable \ ModelItems(SpeedType(ram)) : ram[i] = ItemInert(i)

\* What the operator saves is what the read-back leaves in force: no value an
\* editor can reach is one that readConfig() takes for an erased byte.
EditsStick == [][screen = "SPEED" /\ Save => ram' = ram]_sVars

\* While the operator browses TYPE, the load functions or the display option,
\* the LOAD button goes on asserting what the stored profile says
\* (committedLoadEligible and its two companions).
LoadFollowsStore ==
    onLoad => Asserted = IF eeDisplay /\ TypeHasLoad(ee)
                           THEN LoadFunction(mode, ee["OPLOAD_FN"], ee["PRLOAD_FN"])
                           ELSE {}
=============================================================================
