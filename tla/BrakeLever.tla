----------------------------- MODULE BrakeLever -----------------------------
(***************************************************************************)
(* The independent-brake lever: the part of the main loop of mrbw-cst.c    *)
(* that turns the lever's ADC reading into the BRAKE / BRAKE_REL / BK2 /   *)
(* BK3 bits of `controls'.                                                 *)
(*                                                                         *)
(* Four brake types share two pieces of memory that outlive a change of    *)
(* type: brakeState, one state machine reused by Standard, Step and Pulse  *)
(* with different meanings, and `controls' itself.  STACK keeps a sticky   *)
(* band of its own.  The type in force is the committed one: it changes    *)
(* only inside readConfig(), which a screen may call between the dispatch  *)
(* and the point where the function mask is built.  The 10 Hz timer        *)
(* interrupt advances brakeCounter at any moment.                          *)
(***************************************************************************)
EXTENDS Integers, FiniteSets

CONSTANTS
  Lever,                \* readings processADC() may store in brakePosition
  Settings,             \* brake settings a readConfig() may commit
  brakeLowThreshold,    \* the calibration stored by THRESHOLD CAL
  brakeThreshold,
  brakeHighThreshold

Byte == 0 .. 255
BrakeTypes == {"STANDARD", "STEP", "PULSE", "STACK"}
StackBits == {"BRAKE", "BK2", "BK3"}          \* what a STACK combo may assert
BrakeBits == StackBits \cup {"REL"}

Width == 2 .. 10                              \* BRAKE_PULSE_WIDTH_MIN .. MAX
BRAKE_HYSTERESIS == 5

(* VAR BRK off is STANDARD; otherwise BRK TYPE names the variant.  combos   *)
(* is the band -> combo table of the committed STACK variant; band 0 is     *)
(* fixed to "none".                                                         *)
Setting == [type : BrakeTypes, fiveStep : BOOLEAN,
            combos : [0 .. 5 -> SUBSET StackBits], width : Width]

ASSUME LeverAssumption == Lever \subseteq Byte
ASSUME CalibrationAssumption ==
  /\ brakeLowThreshold \in Byte
  /\ brakeThreshold \in Byte
  /\ brakeHighThreshold \in Byte
ASSUME SettingsAssumption ==
  /\ Settings \subseteq Setting
  /\ \A s \in Settings : s.combos[0] = {}

VARIABLES
  brakePosition,    \* the last reading
  brakeState,       \* [level, wait]: 0 LOW, 1..4 20..80PCNT, 5 FULL; BEGIN or WAIT
  controls,         \* the four brake bits of `controls'
  currentStackBand,
  committed,        \* committedOptionBits, committedBrakePulseWidth, committed combos
  brakeCounter,
  atRest,           \* independentBrakeAtRest of the last pass: what updateBrake10Hz()
                    \* is handed if that pass saw the 10 Hz tick
  at                \* "lever" before the dispatch, "mask" before the mask is built

vars == <<brakePosition, brakeState, controls, currentStackBand, committed,
          brakeCounter, atRest, at>>

Level == 0 .. 5
BEGIN(l) == [level |-> l, wait |-> FALSE]
WAIT(l)  == [level |-> l, wait |-> TRUE]
BrakeStates == [level : Level, wait : BOOLEAN]
LOW == 0
FULL == 5

-----------------------------------------------------------------------------
(* brakePcnt: a uint8_t, so a narrow calibration wraps it. *)
Pcnt(p) ==
  IF p < brakeLowThreshold THEN 0
  ELSE IF brakeHighThreshold > brakeLowThreshold
       THEN ((100 * (p - brakeLowThreshold))
               \div (brakeHighThreshold - brakeLowThreshold)) % 256
       ELSE 100

(* evaluateStackBrake() and updateBrake10Hz() both clamp it first. *)
Pcnt100(p) == IF Pcnt(p) > 100 THEN 100 ELSE Pcnt(p)

(* Switch bits off, then on, and move the shared machine.  Every type but   *)
(* STACK ends the dispatch with the stale-combo cleanup.                    *)
Drive(off, on, next) ==
  /\ controls' = ((controls \ off) \cup on) \ {"BK2", "BK3"}
  /\ brakeState' = next
  /\ currentStackBand' = 0

-----------------------------------------------------------------------------
(* BRK TYPE = STEP: each level crossed pulses BRAKE for one pass; a return  *)
(* below the low threshold pulses BRAKE_REL.                                *)
StepBegin ==
  /\ ~brakeState.wait
  /\ Drive({}, {IF brakeState.level = LOW THEN "REL" ELSE "BRAKE"},
           WAIT(brakeState.level))

(* Mutants: FULL steps on past itself; 80PCNT never reaches FULL. *)
StepDeeperPastFull(p) ==
  IF brakeState.level < 4 THEN Pcnt(p) >= 20 * (brakeState.level + 1)
  ELSE p > brakeHighThreshold

StepDeeper(p) ==                 \* the lever has crossed the next level
  IF brakeState.level < 4 THEN Pcnt(p) >= 20 * (brakeState.level + 1)
  ELSE brakeState.level = 4 /\ p > brakeHighThreshold

(* Mutant: the pulse is not switched off. *)
StepWaitKeepsPulse(p) ==
  /\ brakeState.wait
  /\ Drive({}, {}, IF brakeState.level # LOW /\ p < brakeLowThreshold THEN BEGIN(LOW)
                   ELSE IF StepDeeper(p) THEN BEGIN(brakeState.level + 1)
                   ELSE brakeState)

StepWait(p) ==
  /\ brakeState.wait
  /\ Drive({IF brakeState.level = LOW THEN "REL" ELSE "BRAKE"}, {},
           IF brakeState.level # LOW /\ p < brakeLowThreshold THEN BEGIN(LOW)
           ELSE IF StepDeeper(p) THEN BEGIN(brakeState.level + 1)
           ELSE brakeState)

Step(p) == committed.type = "STEP" /\ (StepBegin \/ StepWait(p))

-----------------------------------------------------------------------------
(* BRK TYPE = PULSE: BRAKE on while brakePcnt reaches the threshold of the  *)
(* current quarter of the duty cycle.  20PCNT and 40PCNT stand for "off",   *)
(* 60PCNT and 80PCNT for "on"; LOW and FULL each clear one bit a pass       *)
(* before they set the other.                                               *)
QuarterThreshold == (((brakeCounter \div committed.width) + 1) * 20)

(* Mutant: release without the pass that first clears BRAKE. *)
PulseLowAtOnce ==
  /\ brakeState.level = LOW
  /\ Drive({}, {"REL"}, BEGIN(1))

PulseLow ==
  /\ brakeState.level = LOW
  /\ IF brakeState.wait THEN Drive({}, {"REL"}, BEGIN(1))
                        ELSE Drive({"BRAKE"}, {}, WAIT(LOW))

PulseOff(p) ==
  /\ brakeState.level \in {1, 2}
  /\ Drive({}, {}, IF Pcnt(p) >= QuarterThreshold THEN BEGIN(FULL) ELSE brakeState)

(* Mutant: the comparison that ends the pulse the wrong way round. *)
PulseOnInverted(p) ==
  /\ brakeState.level \in {3, 4}
  /\ Drive({}, {}, IF Pcnt(p) > QuarterThreshold THEN BEGIN(LOW) ELSE brakeState)

PulseOn(p) ==
  /\ brakeState.level \in {3, 4}
  /\ Drive({}, {}, IF Pcnt(p) < QuarterThreshold THEN BEGIN(LOW) ELSE brakeState)

PulseFull ==
  /\ brakeState.level = FULL
  /\ IF brakeState.wait THEN Drive({}, {"BRAKE"}, BEGIN(3))
                        ELSE Drive({"REL"}, {}, WAIT(FULL))

Pulse(p) ==
  committed.type = "PULSE" /\ (PulseLow \/ PulseOff(p) \/ PulseOn(p) \/ PulseFull)

-----------------------------------------------------------------------------
(* VAR BRK off: BRAKE_REL at rest, BRAKE above brakeThreshold, and always a *)
(* pass with both clear in between.                                         *)
StandardLow(p) ==
  /\ brakeState.level = LOW
  /\ Drive({}, {"REL"}, IF p >= brakeLowThreshold THEN BEGIN(1) ELSE brakeState)

StandardMiddle(p) ==
  /\ brakeState.level \in 1 .. 4
  /\ Drive({"BRAKE", "REL"}, {},
           IF p < brakeLowThreshold THEN BEGIN(LOW)
           ELSE IF p >= brakeThreshold THEN BEGIN(FULL) ELSE brakeState)

ReleaseThreshold ==
  LET t == IF brakeThreshold > BRAKE_HYSTERESIS
           THEN brakeThreshold - BRAKE_HYSTERESIS ELSE 0
  IN  IF t > brakeLowThreshold THEN t ELSE brakeLowThreshold

(* Mutant: from FULL straight to LOW, without the middle state. *)
StandardFullNoMiddle(p) ==
  /\ brakeState.level = FULL
  /\ IF p < brakeLowThreshold
     THEN Drive({"BRAKE"}, {"REL"}, BEGIN(LOW))
     ELSE Drive({}, {"BRAKE"}, IF p < ReleaseThreshold THEN BEGIN(1) ELSE brakeState)

StandardFull(p) ==
  /\ brakeState.level = FULL
  /\ Drive({}, {"BRAKE"}, IF p < ReleaseThreshold THEN BEGIN(1) ELSE brakeState)

Standard(p) ==
  committed.type = "STANDARD" /\ (StandardLow(p) \/ StandardMiddle(p) \/ StandardFull(p))

-----------------------------------------------------------------------------
(* BRK TYPE = STACK: the band is derived afresh from the lever, sticky by   *)
(* BRAKE_HYSTERESIS, and its combo replaces all three brake bits.           *)
TopBand == IF committed.fiveStep THEN 5 ELSE 3
Boundary == IF committed.fiveStep THEN <<17, 33, 50, 67, 83>> ELSE <<25, 50, 75>>

Clamped(b) == IF b > TopBand THEN TopBand ELSE b

(* Mutant: no hysteresis. *)
DeescalatedAtOnce(b, q) ==
  CHOOSE k \in 0 .. b :
    /\ k = 0 \/ q >= Boundary[k]
    /\ \A j \in k + 1 .. b : q < Boundary[j]

(* The two while loops: climb while the next boundary is reached, then come *)
(* down while the lever is BRAKE_HYSTERESIS below the one underneath.       *)
Escalated(b, q) ==
  CHOOSE k \in b .. TopBand :
    /\ k = TopBand \/ q < Boundary[k + 1]
    /\ \A j \in b .. k - 1 : q >= Boundary[j + 1]
Deescalated(b, q) ==
  CHOOSE k \in 0 .. b :
    /\ k = 0 \/ q >= Boundary[k] - BRAKE_HYSTERESIS
    /\ \A j \in k + 1 .. b : q < Boundary[j] - BRAKE_HYSTERESIS

Stack(p) ==
  /\ committed.type = "STACK"
  /\ LET band == Deescalated(Escalated(Clamped(currentStackBand), Pcnt100(p)), Pcnt100(p))
     IN  /\ currentStackBand' = band
         /\ controls' = committed.combos[band] \cup (IF band = 0 THEN {"REL"} ELSE {})
  /\ UNCHANGED brakeState

-----------------------------------------------------------------------------
Init ==
  /\ brakePosition = 0
  /\ brakeState = BEGIN(LOW)
  /\ controls = {}
  /\ currentStackBand = 0
  /\ committed \in Settings
  /\ brakeCounter = 0
  /\ atRest = TRUE
  /\ at = "lever"

(* One pass as far as the dispatch: processADC() may have finished a        *)
(* conversion of the lever, then exactly one of the four machines runs.     *)
Dispatch ==
  /\ at = "lever"
  /\ \E p \in Lever :
       /\ brakePosition' = p
       /\ Step(p) \/ Pulse(p) \/ Stack(p) \/ Standard(p)
  /\ at' = "mask"
  /\ UNCHANGED <<committed, brakeCounter, atRest>>

(* Mutant: STACK judged by brakeState, which it never moves. *)
AtRestByBrakeState(s) ==
  \/ s.type \in {"STEP", "STACK"} /\ brakeState.level = LOW
  \/ s.type \notin {"STEP", "STACK"} /\ Pcnt(brakePosition) < 20

(* independentBrakeAtRest, from the settings committed by then. *)
IndependentBrakeAtRest(s) ==
  \/ s.type = "STEP" /\ brakeState.level = LOW
  \/ s.type = "STACK" /\ currentStackBand = 0
  \/ s.type \notin {"STEP", "STACK"} /\ Pcnt(brakePosition) < 20

(* The rest of the pass: the screen saves, loads or cancels (readConfig())  *)
(* or leaves the settings alone; then the air-brake model is told whether   *)
(* the lever is at rest and the mask is built from `controls'.              *)
FinishPass(s) ==
  /\ at = "mask"
  /\ committed' = s
  /\ atRest' = IndependentBrakeAtRest(s)
  /\ at' = "lever"
  /\ UNCHANGED <<brakePosition, brakeState, controls, currentStackBand, brakeCounter>>

BuildMask == FinishPass(committed)
ReadConfig == \E s \in Settings : FinishPass(s)

(* The 10 Hz part of TIMER0_COMPA_vect. *)
Tick ==
  /\ brakeCounter' = IF brakeCounter + 1 >= 4 * committed.width THEN 0 ELSE brakeCounter + 1
  /\ UNCHANGED <<brakePosition, brakeState, controls, currentStackBand, committed,
                 atRest, at>>

Next == Dispatch \/ BuildMask \/ ReadConfig \/ Tick

Spec == Init /\ [][Next]_vars

(* The loop never blocks and the timer never stops while the throttle is    *)
(* awake.                                                                   *)
FairSpec == Spec /\ WF_vars(Dispatch) /\ WF_vars(BuildMask) /\ WF_vars(Tick)

(* The same throttle whose BRK TYPE is never changed: settings may still be *)
(* saved or reloaded, with another STACK variant or pulse width.            *)
SameType == committed'.type = committed.type
SpecFixedType == Init /\ [][Next /\ SameType]_vars

-----------------------------------------------------------------------------
TypeOK ==
  /\ brakePosition \in Byte
  /\ brakeState \in BrakeStates
  /\ controls \in SUBSET BrakeBits
  /\ currentStackBand \in 0 .. 5
  /\ committed \in Settings
  /\ brakeCounter \in 0 .. 39
  /\ atRest \in BOOLEAN
  /\ at \in {"lever", "mask"}

(* Whatever the history of brake types, the dispatch leaves BK2 and BK3     *)
(* asserted only while STACK is in force: no combo survives a change of BRK *)
(* TYPE (mrbw-cst.c:2607-2613).                                             *)
CombosOnlyInStack ==
  (at = "mask" /\ {"BK2", "BK3"} \cap controls # {}) => committed.type = "STACK"

(* Under STACK the band always fits the lever, even straight after the      *)
(* number of bands changed: the boundary above it has not been reached and  *)
(* the one below is held to within BRAKE_HYSTERESIS.                        *)
BandFitsLever ==
  (at = "mask" /\ committed.type = "STACK") =>
    LET b == currentStackBand  q == Pcnt100(brakePosition)
    IN  /\ b <= TopBand
        /\ b = TopBand \/ q < Boundary[b + 1]
        /\ b = 0 \/ q >= Boundary[b] - BRAKE_HYSTERESIS

(* Under one BRK TYPE the brake-on and brake-off functions are never        *)
(* asserted together.                                                       *)
NotBothAsserted == ~({"BRAKE", "REL"} \subseteq controls)

(* Standard, Step and Pulse never change the brake-on and the brake-off     *)
(* function in the same pass, so that a packet per pass never carries both  *)
(* changes: "TCS decoders don't like these functions changing at the same   *)
(* time in the same packet" (mrbw-cst.c:2562-2565).                         *)
Changes(bit) == (bit \in controls) # (bit \in controls')
OneChangeAtATime ==
  [][ committed.type # "STACK" => ~(Changes("BRAKE") /\ Changes("REL")) ]_vars
=============================================================================
