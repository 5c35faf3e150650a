---------------------------- MODULE BrakeProofs ----------------------------
(***************************************************************************)
(* What the brake lever guarantees for every calibration, every set of     *)
(* lever readings and every set of settings: first in one pass, then over  *)
(* several.  The facts of a throttle whose BRK TYPE is never changed carry *)
(* over to any throttle for as long as it has not been; the history        *)
(* variables speak of a settled lever, of Step and of the band.            *)
(***************************************************************************)
EXTENDS BrakeHistory, TLAPS

-----------------------------------------------------------------------------
(* The two loops of evaluateStackBrake() terminate in the table: Escalated  *)
(* returns a band no lower than it was given whose upper boundary has not   *)
(* been reached.                                                            *)
LEMMA EscalatedFits ==
  ASSUME committed \in Setting,
         NEW b \in 0 .. TopBand, NEW q \in 0 .. 100
  PROVE  /\ Escalated(b, q) \in b .. TopBand
         /\ Escalated(b, q) = TopBand \/ q < Boundary[Escalated(b, q) + 1]
         /\ \A j \in b .. Escalated(b, q) - 1 : q >= Boundary[j + 1]
<1> DEFINE Fits(k) == /\ k = TopBand \/ q < Boundary[k + 1]
                      /\ \A j \in b .. k - 1 : q >= Boundary[j + 1]
<1>1. \E k \in b .. TopBand : Fits(k)
  <2>1. CASE committed.fiveStep
    <3> DEFINE reached == IF q < 17 THEN 0 ELSE IF q < 33 THEN 1 ELSE IF q < 50 THEN 2
                          ELSE IF q < 67 THEN 3 ELSE IF q < 83 THEN 4 ELSE 5
    <3> DEFINE k0 == IF reached > b THEN reached ELSE b
    <3>1. TopBand = 5 /\ Boundary = <<17, 33, 50, 67, 83>>  BY <2>1 DEF TopBand, Boundary
    <3>2. k0 \in b .. TopBand  BY <3>1
    <3>3. Fits(k0)  BY <3>1
    <3> QED  BY <3>2, <3>3
  <2>2. CASE ~committed.fiveStep
    <3> DEFINE reached == IF q < 25 THEN 0 ELSE IF q < 50 THEN 1 ELSE IF q < 75 THEN 2 ELSE 3
    <3> DEFINE k0 == IF reached > b THEN reached ELSE b
    <3>1. TopBand = 3 /\ Boundary = <<25, 50, 75>>  BY <2>2 DEF TopBand, Boundary
    <3>2. k0 \in b .. TopBand  BY <3>1
    <3>3. Fits(k0)  BY <3>1
    <3> QED  BY <3>2, <3>3
  <2> QED  BY <2>1, <2>2
<1>2. Escalated(b, q) = CHOOSE k \in b .. TopBand : Fits(k)  BY DEF Escalated
<1> HIDE DEF Fits
<1>3. Escalated(b, q) \in b .. TopBand /\ Fits(Escalated(b, q))  BY <1>1, <1>2
<1> QED  BY <1>3 DEF Fits

(* Deescalated returns a band no higher than it was given, held by the      *)
(* boundary underneath less the hysteresis; and it leaves a band alone that *)
(* still holds.                                                             *)
LEMMA DeescalatedFits ==
  ASSUME committed \in Setting,
         NEW b \in 0 .. TopBand, NEW q \in 0 .. 100
  PROVE  /\ Deescalated(b, q) \in 0 .. b
         /\ Deescalated(b, q) = 0
            \/ q >= Boundary[Deescalated(b, q)] - BRAKE_HYSTERESIS
         /\ \A j \in Deescalated(b, q) + 1 .. b : q < Boundary[j] - BRAKE_HYSTERESIS
<1> DEFINE Holds(k) == /\ k = 0 \/ q >= Boundary[k] - BRAKE_HYSTERESIS
                       /\ \A j \in k + 1 .. b : q < Boundary[j] - BRAKE_HYSTERESIS
<1>1. \E k \in 0 .. b : Holds(k)
  <2>1. CASE committed.fiveStep
    <3> DEFINE held == IF q < 12 THEN 0 ELSE IF q < 28 THEN 1 ELSE IF q < 45 THEN 2
                       ELSE IF q < 62 THEN 3 ELSE IF q < 78 THEN 4 ELSE 5
    <3> DEFINE k0 == IF held < b THEN held ELSE b
    <3>1. TopBand = 5 /\ Boundary = <<17, 33, 50, 67, 83>> /\ BRAKE_HYSTERESIS = 5
      BY <2>1 DEF TopBand, Boundary, BRAKE_HYSTERESIS
    <3>2. k0 \in 0 .. b  BY <3>1
    <3>3. Holds(k0)  BY <3>1
    <3> QED  BY <3>2, <3>3
  <2>2. CASE ~committed.fiveStep
    <3> DEFINE held == IF q < 20 THEN 0 ELSE IF q < 45 THEN 1 ELSE IF q < 70 THEN 2 ELSE 3
    <3> DEFINE k0 == IF held < b THEN held ELSE b
    <3>1. TopBand = 3 /\ Boundary = <<25, 50, 75>> /\ BRAKE_HYSTERESIS = 5
      BY <2>2 DEF TopBand, Boundary, BRAKE_HYSTERESIS
    <3>2. k0 \in 0 .. b  BY <3>1
    <3>3. Holds(k0)  BY <3>1
    <3> QED  BY <3>2, <3>3
  <2> QED  BY <2>1, <2>2
<1>2. Deescalated(b, q) = CHOOSE k \in 0 .. b : Holds(k)  BY DEF Deescalated
<1> HIDE DEF Holds
<1>3. Deescalated(b, q) \in 0 .. b /\ Holds(Deescalated(b, q))  BY <1>1, <1>2
<1> QED  BY <1>3 DEF Holds

-----------------------------------------------------------------------------
(* The lever percentage is a byte for every calibration, and a percentage   *)
(* once clamped.                                                            *)
LEMMA PcntType ==
  ASSUME NEW p \in Byte
  PROVE  Pcnt(p) \in Byte /\ Pcnt100(p) \in 0 .. 100
<1>1. brakeLowThreshold \in Int /\ brakeHighThreshold \in Int
  BY CalibrationAssumption DEF Byte
<1>2. CASE p < brakeLowThreshold
  BY <1>2 DEF Pcnt, Pcnt100, Byte
<1>3. CASE ~(p < brakeLowThreshold) /\ brakeHighThreshold > brakeLowThreshold
  <2> DEFINE n == 100 * (p - brakeLowThreshold)
             d == brakeHighThreshold - brakeLowThreshold
  <2>1. n \in Int /\ d \in Int /\ d > 0  BY <1>1, <1>3 DEF Byte
  <2> HIDE DEF n, d
  <2>2. n \div d \in Int  BY <2>1
  <2>3. (n \div d) % 256 \in 0 .. 255  BY <2>2
  <2>4. Pcnt(p) = (n \div d) % 256  BY <1>3 DEF Pcnt, n, d
  <2> QED  BY <2>3, <2>4 DEF Pcnt100, Byte
<1>4. CASE ~(p < brakeLowThreshold) /\ ~(brakeHighThreshold > brakeLowThreshold)
  BY <1>4 DEF Pcnt, Pcnt100, Byte
<1> QED  BY <1>2, <1>3, <1>4

(* What a committed setting offers the STACK machine and the pulse: a combo  *)
(* for every band, a top band of the table, a pulse width in its range.     *)
LEMMA SettingFacts ==
  ASSUME committed \in Settings
  PROVE  /\ committed \in Setting
         /\ TopBand \in {3, 5}
         /\ committed.combos[0] = {}
         /\ \A b \in 0 .. 5 : committed.combos[b] \subseteq StackBits
         /\ committed.width \in 2 .. 10
BY SettingsAssumption DEF Setting, TopBand, Width

(* The band STACK moves to, and where it leaves the lever between the       *)
(* boundaries.                                                              *)
LEMMA StackBandFits ==
  ASSUME committed \in Settings, currentStackBand \in 0 .. 5, NEW q \in 0 .. 100,
         NEW band, band = Deescalated(Escalated(Clamped(currentStackBand), q), q)
  PROVE  /\ band \in 0 .. TopBand
         /\ band = TopBand \/ q < Boundary[band + 1]
         /\ band = 0 \/ q >= Boundary[band] - BRAKE_HYSTERESIS
<1>1. committed \in Setting /\ TopBand \in {3, 5}  BY SettingFacts
<1> DEFINE c == Clamped(currentStackBand)
           e == Escalated(c, q)
<1>2. c \in 0 .. TopBand  BY <1>1 DEF Clamped
<1> HIDE DEF c
<1>3. e \in c .. TopBand /\ (e = TopBand \/ q < Boundary[e + 1])
  BY <1>1, <1>2, EscalatedFits
<1>4. e \in 0 .. TopBand  BY <1>1, <1>2, <1>3
<1>5. band = Deescalated(e, q)  BY DEF c
<1> HIDE DEF e
<1>6. /\ band \in 0 .. e
      /\ band = 0 \/ q >= Boundary[band] - BRAKE_HYSTERESIS
      /\ \A j \in band + 1 .. e : q < Boundary[j] - BRAKE_HYSTERESIS
  BY <1>1, <1>4, <1>5, DeescalatedFits
<1>7. band \in 0 .. TopBand  BY <1>1, <1>4, <1>6
<1>8. band = TopBand \/ q < Boundary[band + 1]
  <2>1. CASE band = e  BY <2>1, <1>3
  <2>2. CASE band # e
    <3>1. band + 1 \in band + 1 .. e  BY <2>2, <1>1, <1>4, <1>6
    <3>2. q < Boundary[band + 1] - BRAKE_HYSTERESIS  BY <3>1, <1>6
    <3>3. band + 1 \in 1 .. TopBand  BY <3>1, <1>1, <1>4, <1>6
    <3>4. Boundary[band + 1] \in Nat  BY <3>3 DEF TopBand, Boundary
    <3> QED  BY <3>2, <3>4 DEF BRAKE_HYSTERESIS
  <2> QED  BY <2>1, <2>2
<1> QED  BY <1>6, <1>7, <1>8

-----------------------------------------------------------------------------
USE DEF LOW, FULL, BEGIN, WAIT

(* The four machines keep the brake variables in their types. *)
LEMMA MachineTypes ==
  ASSUME TypeOK, NEW p \in Byte,
         Step(p) \/ Pulse(p) \/ Stack(p) \/ Standard(p)
  PROVE  /\ brakeState' \in BrakeStates
         /\ controls' \in SUBSET BrakeBits
         /\ currentStackBand' \in 0 .. 5
<1> USE DEF TypeOK, BrakeStates, Level, BrakeBits, StackBits, Drive
<1>1. CASE Step(p)
  <2>1. CASE StepBegin  BY <2>1 DEF StepBegin
  <2>2. CASE StepWait(p)
    <3>1. brakeState.level \in 0 .. 5  OBVIOUS
    <3>2. StepDeeper(p) => brakeState.level + 1 \in 0 .. 5  BY <3>1 DEF StepDeeper
    <3>3. BEGIN(LOW) \in BrakeStates  OBVIOUS
    <3>4. StepDeeper(p) => BEGIN(brakeState.level + 1) \in BrakeStates  BY <3>2
    <3>5. brakeState' \in BrakeStates  BY <2>2, <3>3, <3>4 DEF StepWait
    <3>6. controls' \in SUBSET BrakeBits  BY <2>2 DEF StepWait
    <3> QED  BY <2>2, <3>5, <3>6 DEF StepWait
  <2> QED  BY <1>1, <2>1, <2>2 DEF Step
<1>2. CASE Pulse(p)
  <2>1. CASE PulseLow
    <3>1. Drive({}, {"REL"}, BEGIN(1)) \/ Drive({"BRAKE"}, {}, WAIT(LOW))
      BY <2>1 DEF PulseLow
    <3>2. CASE Drive({}, {"REL"}, BEGIN(1))  BY <3>2
    <3>3. CASE Drive({"BRAKE"}, {}, WAIT(LOW))  BY <3>3
    <3> QED  BY <3>1, <3>2, <3>3
  <2>2. CASE PulseOff(p)  BY <2>2 DEF PulseOff
  <2>3. CASE PulseOn(p)  BY <2>3 DEF PulseOn
  <2>4. CASE PulseFull
    <3>1. Drive({}, {"BRAKE"}, BEGIN(3)) \/ Drive({"REL"}, {}, WAIT(FULL))
      BY <2>4 DEF PulseFull
    <3>2. CASE Drive({}, {"BRAKE"}, BEGIN(3))  BY <3>2
    <3>3. CASE Drive({"REL"}, {}, WAIT(FULL))  BY <3>3
    <3> QED  BY <3>1, <3>2, <3>3
  <2> QED  BY <1>2, <2>1, <2>2, <2>3, <2>4 DEF Pulse
<1>3. CASE Stack(p)
  <2> DEFINE q == Pcnt100(p)
             band == Deescalated(Escalated(Clamped(currentStackBand), q), q)
  <2>1. q \in 0 .. 100  BY PcntType
  <2> HIDE DEF q
  <2>2. band \in 0 .. TopBand  BY <2>1, StackBandFits
  <2> HIDE DEF band
  <2>3. band \in 0 .. 5  BY <2>2, SettingFacts
  <2>4. controls' = committed.combos[band] \cup (IF band = 0 THEN {"REL"} ELSE {})
    BY <1>3 DEF Stack, q, band
  <2>5. currentStackBand' = band /\ brakeState' = brakeState
    BY <1>3 DEF Stack, q, band
  <2>6. committed.combos[band] \subseteq StackBits  BY <2>3, SettingFacts
  <2> QED  BY <2>3, <2>4, <2>5, <2>6
<1>4. CASE Standard(p)
  <2>1. CASE StandardLow(p)  BY <2>1 DEF StandardLow
  <2>2. CASE StandardMiddle(p)  BY <2>2 DEF StandardMiddle
  <2>3. CASE StandardFull(p)  BY <2>3 DEF StandardFull
  <2> QED  BY <1>4, <2>1, <2>2, <2>3 DEF Standard
<1> QED  BY <1>1, <1>2, <1>3, <1>4

(* The throttle starts with every brake variable in its type.               *)
LEMMA InitTypeOK == Init => TypeOK
BY DEF Init, TypeOK, Byte, BrakeStates, Level, BrakeBits, StackBits

(* Every step of the loop, a readConfig() and the timer interrupt keep the   *)
(* brake variables in their types.                                          *)
LEMMA NextTypeOK == TypeOK /\ [Next]_vars => TypeOK'
<1> SUFFICES ASSUME TypeOK, [Next]_vars PROVE TypeOK'
  OBVIOUS
<1>1. CASE Dispatch
  <2>1. PICK p \in Lever : /\ brakePosition' = p
                           /\ Step(p) \/ Pulse(p) \/ Stack(p) \/ Standard(p)
    BY <1>1 DEF Dispatch
  <2>2. p \in Byte  BY LeverAssumption
  <2>3. /\ brakeState' \in BrakeStates
        /\ controls' \in SUBSET BrakeBits
        /\ currentStackBand' \in 0 .. 5
    BY <2>1, <2>2, MachineTypes
  <2> QED  BY <1>1, <2>1, <2>2, <2>3 DEF Dispatch, TypeOK
<1>2. ASSUME NEW s \in Settings, FinishPass(s) PROVE TypeOK'
  BY <1>2 DEF FinishPass, IndependentBrakeAtRest, TypeOK
<1>3. CASE BuildMask  BY <1>2, <1>3 DEF BuildMask, TypeOK
<1>4. CASE ReadConfig  BY <1>2, <1>4 DEF ReadConfig
<1>5. CASE Tick
  <2>1. committed.width \in 2 .. 10  BY SettingFacts DEF TypeOK
  <2>2. brakeCounter' \in 0 .. 39  BY <1>5, <2>1 DEF Tick, TypeOK
  <2> QED  BY <1>5, <2>2 DEF Tick, TypeOK
<1>6. CASE UNCHANGED vars  BY <1>6 DEF vars, TypeOK
<1> QED  BY <1>1, <1>3, <1>4, <1>5, <1>6 DEF Next

(* The variables keep their types whatever the calibration, the lever and   *)
(* the settings; in particular brakeCounter stays below four times the      *)
(* widest pulse though the width may shrink under it, and the band stays in *)
(* the tables though the number of bands may.                               *)
THEOREM TypeCorrect == Spec => []TypeOK
BY InitTypeOK, NextTypeOK, PTL DEF Spec

-----------------------------------------------------------------------------
(* What the shared state machine remembers about the bits, for each type    *)
(* that has run since the start.                                            *)
Off(bit) == bit \notin controls

StandardMemory ==
  /\ brakeState.level = LOW => Off("BRAKE")
  /\ brakeState.level = FULL => Off("REL")
StepMemory ==
  /\ brakeState.level = LOW => Off("BRAKE")
  /\ brakeState.level # LOW => Off("REL")
PulseMemory ==
  /\ brakeState.level = LOW => Off("REL")
  /\ brakeState.level = LOW /\ brakeState.wait => Off("BRAKE")
  /\ brakeState.level \in {1, 2} => Off("BRAKE")
  /\ brakeState.level \in {3, 4} => Off("REL")
  /\ brakeState.level = FULL /\ ~brakeState.wait => Off("BRAKE")
  /\ brakeState.level = FULL /\ brakeState.wait => Off("REL")

(* The inductive strengthening of NotBothAsserted. *)
LeverInv ==
  /\ TypeOK
  /\ NotBothAsserted
  /\ committed.type = "STANDARD" => StandardMemory
  /\ committed.type = "STEP" => StepMemory
  /\ committed.type = "PULSE" => PulseMemory

(* The start state: LOW, nothing asserted, in every type's memory.          *)
LEMMA InitLeverInv == Init => LeverInv
BY InitTypeOK DEF Init, LeverInv, NotBothAsserted, StandardMemory, StepMemory,
   PulseMemory, Off

(* Every machine keeps its own memory of the bits and never moves both.     *)
LEMMA MachineKeepsInv ==
  ASSUME LeverInv, NEW p \in Byte, committed' = committed, TypeOK',
         Step(p) \/ Pulse(p) \/ Stack(p) \/ Standard(p)
  PROVE  /\ LeverInv'
         /\ committed.type # "STACK" => ~(Changes("BRAKE") /\ Changes("REL"))
<1> USE DEF LeverInv, NotBothAsserted, Off, Changes, Drive
<1>1. brakeState.level \in 0 .. 5 /\ brakeState.wait \in BOOLEAN
  BY DEF TypeOK, BrakeStates, Level
<1>2. CASE Step(p)
  <2>1. committed.type = "STEP" /\ StepMemory  BY <1>2 DEF Step
  <2>2. CASE StepBegin
    BY <1>1, <2>1, <2>2 DEF StepBegin, StepMemory
  <2>3. CASE StepWait(p)
    BY <1>1, <2>1, <2>3 DEF StepWait, StepMemory, StepDeeper
  <2> QED  BY <1>2, <2>2, <2>3 DEF Step
<1>3. CASE Pulse(p)
  <2>1. committed.type = "PULSE" /\ PulseMemory  BY <1>3 DEF Pulse
  <2>2. CASE PulseLow
    BY <1>1, <2>1, <2>2 DEF PulseLow, PulseMemory
  <2>3. CASE PulseOff(p)
    BY <1>1, <2>1, <2>3 DEF PulseOff, PulseMemory
  <2>4. CASE PulseOn(p)
    BY <1>1, <2>1, <2>4 DEF PulseOn, PulseMemory
  <2>5. CASE PulseFull
    BY <1>1, <2>1, <2>5 DEF PulseFull, PulseMemory
  <2> QED  BY <1>3, <2>2, <2>3, <2>4, <2>5 DEF Pulse
<1>4. CASE Stack(p)
  <2> DEFINE q == Pcnt100(p)
             band == Deescalated(Escalated(Clamped(currentStackBand), q), q)
  <2>1. q \in 0 .. 100  BY PcntType
  <2>2. controls' = committed.combos[band] \cup (IF band = 0 THEN {"REL"} ELSE {})
    BY <1>4 DEF Stack
  <2> HIDE DEF q
  <2>3. band \in 0 .. 5
    <3>1. band \in 0 .. TopBand  BY <2>1, StackBandFits DEF TypeOK
    <3> QED  BY <3>1, SettingFacts DEF TypeOK
  <2> HIDE DEF band
  <2>4. committed.combos[0] = {} /\ committed.combos[band] \subseteq StackBits
    BY <2>3, SettingFacts DEF TypeOK
  <2>5. NotBothAsserted'  BY <2>2, <2>4 DEF StackBits
  <2>6. committed.type = "STACK"  BY <1>4 DEF Stack
  <2> QED  BY <2>5, <2>6
<1>5. CASE Standard(p)
  <2>1. committed.type = "STANDARD" /\ StandardMemory  BY <1>5 DEF Standard
  <2>2. CASE StandardLow(p)
    BY <1>1, <2>1, <2>2 DEF StandardLow, StandardMemory
  <2>3. CASE StandardMiddle(p)
    BY <1>1, <2>1, <2>3 DEF StandardMiddle, StandardMemory
  <2>4. CASE StandardFull(p)
    BY <1>1, <2>1, <2>4 DEF StandardFull, StandardMemory
  <2> QED  BY <1>5, <2>2, <2>3, <2>4 DEF Standard
<1> QED  BY <1>2, <1>3, <1>4, <1>5

(* A whole step, the dispatch or the rest of the pass, keeps the memory of   *)
(* the type in force.                                                       *)
LEMMA NextLeverInv ==
  ASSUME LeverInv, [Next /\ SameType]_vars
  PROVE  /\ LeverInv'
         /\ committed.type # "STACK" => ~(Changes("BRAKE") /\ Changes("REL"))
<1>1. TypeOK'  BY NextTypeOK DEF LeverInv
<1>2. CASE Dispatch
  <2>1. PICK p \in Lever : Step(p) \/ Pulse(p) \/ Stack(p) \/ Standard(p)
    BY <1>2 DEF Dispatch
  <2>2. p \in Byte /\ committed' = committed  BY <1>2, LeverAssumption DEF Dispatch
  <2> QED  BY <1>1, <2>1, <2>2, MachineKeepsInv
<1>3. ASSUME UNCHANGED <<brakeState, controls>>, committed'.type = committed.type
      PROVE  /\ LeverInv'
             /\ committed.type # "STACK" => ~(Changes("BRAKE") /\ Changes("REL"))
  BY <1>1, <1>3 DEF LeverInv, NotBothAsserted, StandardMemory, StepMemory,
     PulseMemory, Off, Changes
<1>4. CASE (BuildMask \/ ReadConfig) /\ SameType
  BY <1>3, <1>4 DEF BuildMask, ReadConfig, FinishPass, SameType
<1>5. CASE Tick  BY <1>3, <1>5 DEF Tick
<1>6. CASE UNCHANGED vars  BY <1>3, <1>6 DEF vars
<1> QED  BY <1>2, <1>4, <1>5, <1>6 DEF Next

(* While the BRK TYPE is not changed, the brake-on and the brake-off        *)
(* function are never asserted together, whatever the lever does.           *)
THEOREM NeverBothAsserted == SpecFixedType => []NotBothAsserted
<1>1. LeverInv /\ [Next /\ SameType]_vars => LeverInv'  BY NextLeverInv
<1>2. LeverInv => NotBothAsserted  BY DEF LeverInv
<1> QED  BY InitLeverInv, <1>1, <1>2, PTL DEF SpecFixedType

(* ... and Standard, Step and Pulse never change both of them in one pass.  *)
THEOREM OneChangePerPass == SpecFixedType => OneChangeAtATime
<1>1. LeverInv /\ [Next /\ SameType]_vars => LeverInv'  BY NextLeverInv
<1>2. LeverInv /\ [Next /\ SameType]_vars
        => [committed.type # "STACK" => ~(Changes("BRAKE") /\ Changes("REL"))]_vars
  BY NextLeverInv
<1> QED  BY InitLeverInv, <1>1, <1>2, PTL DEF SpecFixedType, OneChangeAtATime

-----------------------------------------------------------------------------
(* Whatever types have run before, no STACK combo outlives STACK and the    *)
(* band fits the lever: the two facts that survive a change of BRK TYPE.    *)
BandInv == TypeOK /\ CombosOnlyInStack /\ BandFitsLever

(* Every step, a change of BRK TYPE included, keeps the band and the combos. *)
LEMMA NextBandInv == BandInv /\ [Next]_vars => BandInv'
<1> SUFFICES ASSUME BandInv, [Next]_vars PROVE BandInv'
  OBVIOUS
<1>1. TypeOK'  BY NextTypeOK DEF BandInv
<1>2. CASE Dispatch
  <2>1. PICK p \in Lever : /\ brakePosition' = p
                           /\ Step(p) \/ Pulse(p) \/ Stack(p) \/ Standard(p)
    BY <1>2 DEF Dispatch
  <2>2. p \in Byte /\ committed' = committed  BY <1>2, <2>1, LeverAssumption DEF Dispatch
  <2>3. CASE committed.type = "STACK"
    <3>1. Stack(p)  BY <2>1, <2>3 DEF Step, Pulse, Standard
    <3> DEFINE q == Pcnt100(p)
    <3>2. q \in 0 .. 100  BY <2>2, PcntType
    <3> HIDE DEF q
    <3>3. currentStackBand' = Deescalated(Escalated(Clamped(currentStackBand), q), q)
      BY <3>1 DEF Stack, q
    <3>4. /\ currentStackBand' \in 0 .. TopBand
          /\ currentStackBand' = TopBand \/ q < Boundary[currentStackBand' + 1]
          /\ currentStackBand' = 0 \/ q >= Boundary[currentStackBand'] - BRAKE_HYSTERESIS
      BY <3>2, <3>3, StackBandFits DEF BandInv, TypeOK
    <3>5. TopBand' = TopBand /\ Boundary' = Boundary  BY <2>2 DEF TopBand, Boundary
    <3>6. Pcnt100(brakePosition)' = q  BY <2>1 DEF q, Pcnt100, Pcnt
    <3>7. currentStackBand' <= TopBand  BY <3>4, SettingFacts DEF BandInv, TypeOK
    <3>8. BandFitsLever'  BY <3>4, <3>5, <3>6, <3>7 DEF BandFitsLever
    <3>9. CombosOnlyInStack'  BY <2>2, <2>3 DEF CombosOnlyInStack
    <3> QED  BY <1>1, <3>8, <3>9 DEF BandInv
  <2>4. CASE committed.type # "STACK"
    <3>1. Step(p) \/ Pulse(p) \/ Standard(p)  BY <2>1, <2>4 DEF Stack
    <3>2. {"BK2", "BK3"} \cap controls' = {}
      BY <3>1 DEF Drive, Step, StepBegin, StepWait, Pulse, PulseLow, PulseOff, PulseOn,
                  PulseFull, Standard, StandardLow, StandardMiddle, StandardFull
    <3> QED  BY <1>1, <2>2, <2>4, <3>2 DEF BandInv, CombosOnlyInStack, BandFitsLever
  <2> QED  BY <2>3, <2>4
<1>3. CASE BuildMask \/ ReadConfig
  <2>1. at' = "lever"  BY <1>3 DEF BuildMask, ReadConfig, FinishPass
  <2> QED  BY <1>1, <2>1 DEF BandInv, CombosOnlyInStack, BandFitsLever
<1>4. CASE Tick \/ UNCHANGED vars
  BY <1>1, <1>4 DEF Tick, vars, BandInv, CombosOnlyInStack, BandFitsLever,
                    TopBand, Boundary, Pcnt100, Pcnt
<1> QED  BY <1>2, <1>3, <1>4 DEF Next

(* The start state asserts no combo and no band.                            *)
LEMMA InitBandInv == Init => BandInv
BY InitTypeOK DEF Init, BandInv, CombosOnlyInStack, BandFitsLever

(* No brake combo sticks when BRK TYPE is switched away from STACK.         *)
THEOREM NoStaleCombo == Spec => []CombosOnlyInStack
<1>1. BandInv => CombosOnlyInStack  BY DEF BandInv
<1> QED  BY InitBandInv, NextBandInv, <1>1, PTL DEF Spec

(* The band walk lands on a band of the table that fits the lever, straight *)
(* after a change between 3-STEP and 5-STEP too.                            *)
THEOREM BandAlwaysFits == Spec => []BandFitsLever
<1>1. BandInv => BandFitsLever  BY DEF BandInv
<1> QED  BY InitBandInv, NextBandInv, <1>1, PTL DEF Spec

-----------------------------------------------------------------------------

KeptInv == kept \in BOOLEAN /\ (kept => LeverInv)

(* A step either changes BRK TYPE, which ends kept, or is one of the lever  *)
(* under one BRK TYPE.                                                      *)
LEMMA KeptStep ==
  ASSUME [HNext]_allvars
  PROVE  /\ kept' => kept
         /\ kept' => [Next /\ SameType]_vars
<1>1. CASE ObservedDispatch
  BY <1>1 DEF ObservedDispatch, Observe, Next, Dispatch, SameType
<1>2. CASE Unobserved(BuildMask)
  BY <1>2 DEF Unobserved, hvars, Next, BuildMask, FinishPass, SameType
<1>3. CASE ObservedReadConfig
  BY <1>3 DEF ObservedReadConfig, Next
<1>4. CASE Unobserved(Tick)
  BY <1>4 DEF Unobserved, hvars, Next, Tick, SameType
<1>5. CASE UNCHANGED allvars
  BY <1>5 DEF allvars, hvars
<1> QED  BY <1>1, <1>2, <1>3, <1>4, <1>5 DEF HNext

LEMMA KeptInvStep == KeptInv /\ [HNext]_allvars => KeptInv'
<1> SUFFICES ASSUME KeptInv, [HNext]_allvars PROVE KeptInv'
  OBVIOUS
<1>1. kept' \in BOOLEAN
  BY DEF KeptInv, HNext, ObservedDispatch, Observe, Unobserved, hvars,
         ObservedReadConfig, allvars
<1>2. kept' => LeverInv'  BY KeptStep, NextLeverInv DEF KeptInv
<1> QED  BY <1>1, <1>2 DEF KeptInv

LEMMA KeptInvInit == HInit => KeptInv
BY InitLeverInv DEF HInit, KeptInv

(* As long as BRK TYPE is left alone the two brake functions are apart,     *)
(* whatever the lever does and whatever other settings are saved.           *)
THEOREM ApartWhileKept == HSpec => []KeptApart
<1>1. KeptInv => KeptApart  BY DEF KeptInv, LeverInv, KeptApart
<1> QED  BY KeptInvInit, KeptInvStep, <1>1, PTL DEF HSpec

(* ... and Standard, Step and Pulse change one of them per pass.            *)
THEOREM OneChangeWhileKept == HSpec => KeptOneChange
<1>1. KeptInv /\ [HNext]_allvars
        => [ kept' /\ committed.type # "STACK"
               => ~(Changes("BRAKE") /\ Changes("REL")) ]_allvars
  BY KeptStep, NextLeverInv DEF KeptInv
<1> QED  BY KeptInvInit, KeptInvStep, <1>1, PTL DEF HSpec, KeptOneChange
-----------------------------------------------------------------------------
(* A step of the observed lever is one of the lever: its types hold, and    *)
(* the history variables keep theirs.                                       *)
LEMMA HStepIsStep == [HNext]_allvars => [Next]_vars
BY DEF HNext, ObservedDispatch, Unobserved, ObservedReadConfig, Next, allvars

LEMMA HTypedInit == HInit => HTypeOK
<1> SUFFICES ASSUME HInit PROVE HTypeOK
  OBVIOUS
<1>1. TypeOK  BY InitTypeOK DEF HInit
<1> QED  BY <1>1 DEF HInit, HTypeOK, TypeOK, Unmoved

LEMMA HTypedStep == HTypeOK /\ [HNext]_allvars => HTypeOK'
<1> SUFFICES ASSUME HTypeOK, [HNext]_allvars PROVE HTypeOK'
  OBVIOUS
<1>1. TypeOK'  BY HStepIsStep, NextTypeOK DEF HTypeOK
<1>2. CASE ObservedDispatch
  <2>1. Observe /\ committed \in Settings
    BY <1>2 DEF ObservedDispatch, HTypeOK, TypeOK
  <2>2. Pcnt100(brakePosition') \in 0 .. 100  BY <1>1, PcntType DEF TypeOK
  <2>3. currentStackBand \in 0 .. 5 /\ currentStackBand' \in 0 .. 5
    BY <1>1 DEF HTypeOK, TypeOK
  <2>4. steady' \in 0 .. 3  BY <2>1 DEF Observe, HTypeOK
  <2>5. bandMoved' \in [pcnt : 0 .. 100, up : BOOLEAN]
    BY <2>1, <2>2, <2>3 DEF Observe, HTypeOK, Unmoved
  <2>6. ratchet' \in 0 .. 6  BY <2>1 DEF Observe, HTypeOK
  <2> QED  BY <1>1, <2>1, <2>4, <2>5, <2>6 DEF Observe, HTypeOK
<1>3. CASE ObservedReadConfig
  BY <1>1, <1>3 DEF ObservedReadConfig, HTypeOK, SameType
<1>4. CASE UNCHANGED hvars
  BY <1>1, <1>4 DEF hvars, HTypeOK
<1> QED  BY <1>2, <1>3, <1>4 DEF HNext, Unobserved, allvars

(* The variables and what is remembered of their past keep their types.     *)
THEOREM HistoryTypes == HSpec => []HTypeOK
BY HTypedInit, HTypedStep, PTL DEF HSpec

-----------------------------------------------------------------------------
USE DEF LOW, FULL, BEGIN, WAIT

(* What Step remembers: REL is on in WAIT(LOW) only, BRAKE in the other     *)
(* waiting states only, and a pulse is one short of the level it begins.    *)
StepCounts ==
  /\ "REL" \in controls => brakeState = WAIT(LOW)
  /\ "BRAKE" \in controls => brakeState.wait /\ brakeState.level # LOW
  /\ brakeState.wait => ratchet = brakeState.level
  /\ ~brakeState.wait /\ brakeState.level # LOW => ratchet = brakeState.level - 1

CountInv ==
  /\ HTypeOK
  /\ kept /\ committed.type = "STEP" => StepCounts

LEMMA CountInit == HInit => CountInv
BY HTypedInit DEF HInit, Init, CountInv, StepCounts

LEMMA CountStep == CountInv /\ [HNext]_allvars => CountInv'
<1> SUFFICES ASSUME CountInv, [HNext]_allvars, kept', committed'.type = "STEP"
             PROVE  StepCounts'
  BY HTypedStep DEF CountInv
<1>1. kept /\ committed.type = "STEP"
  BY KeptStep DEF SameType, vars
<1>2. CASE ObservedDispatch
  <2>1. PICK p \in Lever : brakePosition' = p /\ Step(p)
    BY <1>1, <1>2 DEF ObservedDispatch, Dispatch, Pulse, Stack, Standard
  <2>2. /\ brakeState \in BrakeStates /\ ratchet \in 0 .. 6
        /\ controls \in SUBSET BrakeBits
        /\ ratchet' = IF Rises("REL") THEN 0
                      ELSE IF Rises("BRAKE") /\ ratchet < 6 THEN ratchet + 1 ELSE ratchet
    BY <1>2 DEF ObservedDispatch, Observe, CountInv, HTypeOK, TypeOK
  <2>3. brakeState.level \in 0 .. 5 /\ brakeState.wait \in BOOLEAN
    BY <2>2 DEF BrakeStates, Level
  <2>4. brakeState = [level |-> brakeState.level, wait |-> brakeState.wait]
    BY <2>2 DEF BrakeStates
  <2>5. CASE StepBegin
    <3>1. CASE brakeState.level = LOW
      <4>1. "REL" \notin controls /\ "BRAKE" \notin controls
        BY <1>1, <2>3, <2>5, <3>1 DEF CountInv, StepCounts, StepBegin
      <4>2. brakeState' = WAIT(LOW) /\ "REL" \in controls' /\ "BRAKE" \notin controls'
        BY <2>5, <3>1, <4>1 DEF StepBegin, Drive
      <4>3. ratchet' = 0  BY <2>2, <4>1, <4>2 DEF Rises
      <4> QED  BY <4>2, <4>3 DEF StepCounts
    <3>2. CASE brakeState.level # LOW
      <4>1. /\ "REL" \notin controls /\ "BRAKE" \notin controls
            /\ ratchet = brakeState.level - 1
        BY <1>1, <2>3, <2>5, <3>2 DEF CountInv, StepCounts, StepBegin
      <4>2. /\ brakeState' = WAIT(brakeState.level)
            /\ "REL" \notin controls' /\ "BRAKE" \in controls'
        BY <2>5, <3>2, <4>1 DEF StepBegin, Drive
      <4>3. ratchet' = brakeState.level  BY <2>2, <2>3, <4>1, <4>2 DEF Rises
      <4> QED  BY <3>2, <4>2, <4>3 DEF StepCounts
    <3> QED  BY <3>1, <3>2
  <2>6. CASE StepWait(p)
    <3>1. /\ "REL" \in controls => brakeState.level = LOW
          /\ "BRAKE" \in controls => brakeState.level # LOW
          /\ ratchet = brakeState.level
      BY <1>1, <2>3, <2>6 DEF CountInv, StepCounts, StepWait
    <3>2. "REL" \notin controls' /\ "BRAKE" \notin controls'
      BY <2>6, <3>1 DEF StepWait, Drive
    <3>3. ratchet' = ratchet  BY <2>2, <3>2 DEF Rises
    <3>4. \/ brakeState' = BEGIN(LOW)
          \/ brakeState' = BEGIN(brakeState.level + 1)
          \/ brakeState' = brakeState
      BY <2>6 DEF StepWait, Drive
    <3>5. CASE brakeState' = BEGIN(LOW)  BY <3>2, <3>5 DEF StepCounts
    <3>6. CASE brakeState' = BEGIN(brakeState.level + 1)
      <4>1. ratchet' = (brakeState.level + 1) - 1  BY <2>3, <3>1, <3>3
      <4> QED  BY <3>2, <3>6, <4>1 DEF StepCounts
    <3>7. CASE brakeState' = brakeState
      BY <2>6, <3>1, <3>2, <3>3, <3>7 DEF StepCounts, StepWait
    <3> QED  BY <3>4, <3>5, <3>6, <3>7
  <2> QED  BY <2>1, <2>5, <2>6 DEF Step
<1>3. CASE UNCHANGED <<brakeState, controls, ratchet>>
  BY <1>1, <1>3 DEF CountInv, StepCounts
<1> QED
  BY <1>2, <1>3 DEF HNext, Unobserved, hvars, ObservedReadConfig, BuildMask, ReadConfig,
                    FinishPass, Tick, allvars, vars

(* A decoder that counts Step's pulses is at the level the throttle takes   *)
(* it to be at, for any lever and calibration.                              *)
THEOREM StepKeepsCount == HSpec => []StepRatchet
<1>1. CountInv => StepRatchet  BY DEF CountInv, StepCounts, StepRatchet
<1> QED  BY CountInit, CountStep, <1>1, PTL DEF HSpec
-----------------------------------------------------------------------------
(* Where two or three passes of a steady lever bring the machines that tell *)
(* the air-brake model whether the lever is at rest.                        *)
AtLow == brakePosition < brakeLowThreshold
AtQuarter == Pcnt(brakePosition) >= 25

StepSettles ==
  ran.type = "STEP" =>
    /\ AtLow => (brakeState.level = LOW \/ brakeState.wait)
                /\ (steady >= 1 => brakeState.level = LOW)
    /\ AtQuarter => (steady >= 1 => brakeState.level # LOW \/ brakeState.wait)
                    /\ (steady >= 2 => brakeState.level # LOW)
StackSettles ==
  ran.type = "STACK" /\ steady >= 1 =>
    /\ AtLow => currentStackBand = 0
    /\ AtQuarter => currentStackBand # 0
RestTold ==
  at = "lever" /\ steady >= 1 => atRest = IndependentBrakeAtRest(committed)

RestInv == HTypeOK /\ StepSettles /\ StackSettles /\ RestTold

LEMMA RestInit == HInit => RestInv
BY HTypedInit DEF HInit, Init, RestInv, StepSettles, StackSettles, RestTold

(* One pass of Step from anywhere, and one from where a pass with the same  *)
(* lever has left it.                                                       *)
LEMMA StepPass ==
  ASSUME HTypeOK, StepSettles, ObservedDispatch, committed.type = "STEP"
  PROVE  StepSettles'
<1>1. PICK p \in Lever : brakePosition' = p /\ Step(p)
  BY DEF ObservedDispatch, Dispatch, Pulse, Stack, Standard
<1>2. p \in Byte  BY LeverAssumption
<1>3. /\ brakeState.level \in 0 .. 5 /\ brakeState.wait \in BOOLEAN
      /\ brakeState \in BrakeStates /\ steady \in 0 .. 3
  BY DEF HTypeOK, TypeOK, BrakeStates, Level
<1>4. /\ AtLow' <=> p < brakeLowThreshold
      /\ AtQuarter' <=> Pcnt(p) >= 25
  BY <1>1 DEF AtLow, AtQuarter, Pcnt
<1>5. Pcnt(p) \in 0 .. 255  BY <1>2, PcntType DEF Byte
<1>6. /\ ran' = committed /\ steady' \in 0 .. 3
      /\ steady' >= 1 => brakePosition = p /\ ran = committed
      /\ steady' >= 2 => steady >= 1
  BY <1>1, <1>3 DEF ObservedDispatch, Observe
<1>7. AtLow' => Pcnt(p) = 0  BY <1>4 DEF Pcnt
<1>8. brakeState'.level = LOW /\ brakeState.level = LOW /\ brakeState.wait => ~AtQuarter'
  BY <1>1, <1>3, <1>4, <1>5 DEF Step, StepBegin, StepWait, StepDeeper, Drive
<1>9. brakeState'.level = LOW /\ brakeState.level # LOW => AtLow'
  BY <1>1, <1>3, <1>4, <1>5 DEF Step, StepBegin, StepWait, StepDeeper, Drive
<1>10. AtQuarter' => ~AtLow'  BY <1>4, <1>7
<1>11. ~brakeState.wait => brakeState' = WAIT(brakeState.level)
  BY <1>1, <1>3 DEF Step, StepBegin, StepWait, Drive
<1>12. AtLow' /\ brakeState.wait => brakeState'.level = LOW
  BY <1>1, <1>3, <1>4, <1>7 DEF Step, StepBegin, StepWait, StepDeeper, Drive
<1>13. CASE AtLow'
  <2>1. brakeState'.level = LOW \/ brakeState'.wait  BY <1>11, <1>12, <1>13
  <2>2. ASSUME steady' >= 1  PROVE brakeState'.level = LOW
    <3>1. AtLow /\ ran.type = "STEP"  BY <1>4, <1>6, <1>13, <2>2 DEF AtLow
    <3>2. brakeState.level = LOW \/ brakeState.wait  BY <3>1 DEF StepSettles
    <3> QED  BY <3>2, <1>3, <1>11, <1>12, <1>13
  <2> QED  BY <2>1, <2>2, <1>10, <1>13 DEF StepSettles
<1>14. CASE ~AtLow'
  <2>1. ASSUME AtQuarter', steady' >= 1  PROVE brakeState'.level # LOW \/ brakeState'.wait
    BY <2>1, <1>3, <1>8, <1>9, <1>11, <1>14
  <2>2. ASSUME AtQuarter', steady' >= 2  PROVE brakeState'.level # LOW
    <3>1. AtQuarter /\ ran.type = "STEP" /\ steady >= 1
      BY <1>4, <1>6, <2>2 DEF AtQuarter
    <3>2. brakeState.level # LOW \/ brakeState.wait  BY <3>1 DEF StepSettles
    <3> QED  BY <3>2, <2>2, <1>3, <1>8, <1>9, <1>14
  <2> QED  BY <2>1, <2>2, <1>14 DEF StepSettles
<1> QED  BY <1>13, <1>14

(* One pass of STACK puts the band where the lever is.                      *)
LEMMA StackPass ==
  ASSUME HTypeOK, ObservedDispatch, committed.type = "STACK"
  PROVE  /\ AtLow' => currentStackBand' = 0
         /\ AtQuarter' => currentStackBand' # 0
<1>1. PICK p \in Lever : brakePosition' = p /\ Stack(p)
  BY DEF ObservedDispatch, Dispatch, Pulse, Step, Standard
<1>2. p \in Byte  BY LeverAssumption
<1>3. committed \in Settings /\ currentStackBand \in 0 .. 5  BY DEF HTypeOK, TypeOK
<1> DEFINE q == Pcnt100(p)
<1>4. q \in 0 .. 100 /\ Pcnt(p) \in 0 .. 255  BY <1>2, PcntType DEF Byte
<1>5. AtLow' => q = 0  BY <1>1 DEF AtLow, Pcnt100, Pcnt
<1>6. AtQuarter' => q >= 25
  <2>1. AtQuarter' => Pcnt(p) >= 25  BY <1>1 DEF AtQuarter, Pcnt
  <2> QED  BY <1>4, <2>1 DEF Pcnt100
<1>7. currentStackBand' = Deescalated(Escalated(Clamped(currentStackBand), q), q)
  BY <1>1 DEF Stack
<1> HIDE DEF q
<1>8. /\ currentStackBand' \in 0 .. TopBand
      /\ currentStackBand' = TopBand \/ q < Boundary[currentStackBand' + 1]
      /\ currentStackBand' = 0 \/ q >= Boundary[currentStackBand'] - BRAKE_HYSTERESIS
  BY <1>3, <1>4, <1>7, StackBandFits
<1>9. ASSUME TopBand \in {3, 5}, BRAKE_HYSTERESIS = 5, Boundary[1] <= 25,
               \A b \in 1 .. TopBand : Boundary[b] \in Nat /\ Boundary[b] >= 17
       PROVE  /\ AtLow' => currentStackBand' = 0
              /\ AtQuarter' => currentStackBand' # 0
  <2>1. ASSUME AtLow', currentStackBand' # 0  PROVE FALSE
    <3>1. currentStackBand' \in 1 .. TopBand  BY <1>8, <1>9, <2>1
    <3>2. q = 0 /\ q >= Boundary[currentStackBand'] - 5  BY <1>5, <1>8, <1>9, <2>1
    <3>3. Boundary[currentStackBand'] \in Nat /\ Boundary[currentStackBand'] >= 17
      BY <1>9, <3>1
    <3> QED  BY <3>2, <3>3
  <2>2. ASSUME AtQuarter', currentStackBand' = 0  PROVE FALSE
    <3>1. q >= 25 /\ q < Boundary[1]  BY <1>6, <1>8, <1>9, <2>2
    <3>2. 1 \in 1 .. TopBand  BY <1>9
    <3>3. Boundary[1] \in Nat  BY <1>9, <3>2
    <3> QED  BY <1>4, <1>9, <3>1, <3>3
  <2> QED  BY <2>1, <2>2
<1>10. CASE committed.fiveStep
  <2>1. TopBand = 5 /\ Boundary = <<17, 33, 50, 67, 83>> /\ BRAKE_HYSTERESIS = 5
    BY <1>10 DEF TopBand, Boundary, BRAKE_HYSTERESIS
  <2>2. Boundary[1] <= 25 /\ \A b \in 1 .. TopBand : Boundary[b] \in Nat /\ Boundary[b] >= 17
    BY <2>1
  <2> QED  BY <1>9, <2>1, <2>2
<1>11. CASE ~committed.fiveStep
  <2>1. TopBand = 3 /\ Boundary = <<25, 50, 75>> /\ BRAKE_HYSTERESIS = 5
    BY <1>11 DEF TopBand, Boundary, BRAKE_HYSTERESIS
  <2>2. Boundary[1] <= 25 /\ \A b \in 1 .. TopBand : Boundary[b] \in Nat /\ Boundary[b] >= 17
    BY <2>1
  <2> QED  BY <1>9, <2>1, <2>2
<1> QED  BY <1>10, <1>11

LEMMA RestStep == RestInv /\ [HNext]_allvars => RestInv'
<1> SUFFICES ASSUME RestInv, [HNext]_allvars PROVE RestInv'
  OBVIOUS
<1>1. HTypeOK'  BY HTypedStep DEF RestInv
<1>2. CASE ObservedDispatch
  <2>1. ran' = committed /\ at' = "mask"
    BY <1>2 DEF ObservedDispatch, Observe, Dispatch
  <2>2. StepSettles'
    BY <1>2, <2>1, StepPass DEF RestInv, StepSettles
  <2>3. StackSettles'
    BY <1>2, <2>1, StackPass DEF RestInv, StackSettles
  <2> QED  BY <1>1, <2>1, <2>2, <2>3 DEF RestInv, RestTold
<1>3. CASE UNCHANGED <<brakePosition, brakeState, currentStackBand, ran, steady>>
  <2>1. StepSettles' /\ StackSettles'
    BY <1>3 DEF RestInv, StepSettles, StackSettles, AtLow, AtQuarter, Pcnt
  <2>2. ASSUME NEW s \in Settings, FinishPass(s)  PROVE RestTold'
    BY <1>3, <2>2 DEF FinishPass, RestTold, IndependentBrakeAtRest, Pcnt
  <2>3. ASSUME UNCHANGED <<at, atRest, committed>>  PROVE RestTold'
    <3>1. IndependentBrakeAtRest(committed)' = IndependentBrakeAtRest(committed)
      BY <1>3, <2>3 DEF IndependentBrakeAtRest, Pcnt
    <3> QED  BY <1>3, <2>3, <3>1 DEF RestInv, RestTold
  <2>4. committed \in Settings  BY DEF RestInv, HTypeOK, TypeOK
  <2>5. BuildMask => RestTold'  BY <2>2, <2>4 DEF BuildMask
  <2>6. ReadConfig => RestTold'  BY <2>2 DEF ReadConfig
  <2>7. RestTold'
    BY <1>3, <2>3, <2>5, <2>6
       DEF HNext, Unobserved, ObservedReadConfig, ObservedDispatch, Tick, allvars, vars,
           RestInv, RestTold, Dispatch
  <2> QED  BY <1>1, <2>1, <2>7 DEF RestInv
<1> QED
  BY <1>2, <1>3 DEF HNext, Unobserved, hvars, ObservedReadConfig, BuildMask, ReadConfig,
                    FinishPass, Tick, allvars, vars

(* Whichever types ran before, the air-brake model is told the truth about  *)
(* a lever that has been still for three passes, for any calibration.       *)
THEOREM RestIsTold == HSpec => []SettledRest
<1>1. RestInv => SettledRest
  <2> SUFFICES ASSUME RestInv, at = "lever", steady = 3, committed = ran
               PROVE  (AtLow => atRest) /\ (Pcnt(brakePosition) >= 25 => ~atRest)
    BY DEF SettledRest, AtLow
  <2>1. atRest = IndependentBrakeAtRest(committed)  BY DEF RestInv, RestTold
  <2>2. brakePosition \in Byte  BY DEF RestInv, HTypeOK, TypeOK
  <2>3. Pcnt(brakePosition) \in 0 .. 255  BY <2>2, PcntType DEF Byte
  <2>4. AtLow => Pcnt(brakePosition) = 0  BY DEF AtLow, Pcnt
  <2> QED
    BY <2>1, <2>3, <2>4
       DEF RestInv, StepSettles, StackSettles, AtQuarter, IndependentBrakeAtRest
<1> QED  BY RestInit, RestStep, <1>1, PTL DEF HSpec
-----------------------------------------------------------------------------
(* A band of the table that moves up has reached its lower boundary, one    *)
(* that moves down is BRAKE_HYSTERESIS below its upper one.                 *)
LEMMA BandMoves ==
  ASSUME committed \in Settings, NEW c \in 0 .. TopBand, NEW q \in 0 .. 100,
         NEW band, band = Deescalated(Escalated(Clamped(c), q), q)
  PROVE  /\ band \in 0 .. TopBand
         /\ band > c => q >= Boundary[band]
         /\ band < c => q < Boundary[band + 1] - BRAKE_HYSTERESIS
<1>1. committed \in Setting /\ TopBand \in {3, 5}  BY SettingFacts
<1>2. Clamped(c) = c  BY <1>1 DEF Clamped
<1> DEFINE e == Escalated(c, q)
<1>3. e \in c .. TopBand /\ \A j \in c .. e - 1 : q >= Boundary[j + 1]
  BY <1>1, EscalatedFits
<1>4. e \in 0 .. TopBand  BY <1>1, <1>3
<1>5. band = Deescalated(e, q)  BY <1>2
<1> HIDE DEF e
<1>6. band \in 0 .. e /\ \A j \in band + 1 .. e : q < Boundary[j] - BRAKE_HYSTERESIS
  BY <1>1, <1>4, <1>5, DeescalatedFits
<1>7. ASSUME band > c  PROVE q >= Boundary[band]
  <2>1. band - 1 \in c .. e - 1 /\ (band - 1) + 1 = band  BY <1>1, <1>3, <1>6, <1>7
  <2> QED  BY <1>3, <2>1
<1>8. ASSUME band < c  PROVE q < Boundary[band + 1] - BRAKE_HYSTERESIS
  <2>1. band + 1 \in band + 1 .. e  BY <1>1, <1>3, <1>6, <1>8
  <2> QED  BY <1>6, <2>1
<1> QED  BY <1>1, <1>4, <1>6, <1>7, <1>8

(* The lever percentage at the last move is on the far side of the boundary *)
(* the band moved across, less the hysteresis on the way down.              *)
MoveHeld(band) ==
  bandMoved # Unmoved =>
    IF bandMoved.up THEN band >= 1 /\ bandMoved.pcnt >= Boundary[band]
    ELSE band < TopBand /\ bandMoved.pcnt < Boundary[band + 1] - BRAKE_HYSTERESIS

ChatterInv ==
  /\ HTypeOK
  /\ at = "mask" => ran = committed
  /\ ran = committed /\ committed.type = "STACK" =>
       currentStackBand \in 0 .. TopBand /\ MoveHeld(currentStackBand)

Steady ==
  (/\ currentStackBand' # currentStackBand
   /\ ran = committed /\ committed.type = "STACK"
   /\ bandMoved # Unmoved
   /\ bandMoved.up # (currentStackBand' > currentStackBand))
  => \/ Pcnt100(brakePosition') > bandMoved.pcnt + BRAKE_HYSTERESIS
     \/ Pcnt100(brakePosition') < bandMoved.pcnt - BRAKE_HYSTERESIS

LEMMA ChatterInit == HInit => ChatterInv
BY HTypedInit, SettingFacts DEF HInit, Init, ChatterInv, MoveHeld

LEMMA BoundariesRise ==
  /\ TopBand \in {3, 5} /\ BRAKE_HYSTERESIS = 5
  /\ \A i \in 1 .. TopBand : Boundary[i] \in Nat
  /\ \A i, j \in 1 .. TopBand : i <= j => Boundary[i] <= Boundary[j]
<1>1. CASE committed.fiveStep
  <2>1. TopBand = 5 /\ Boundary = <<17, 33, 50, 67, 83>> /\ BRAKE_HYSTERESIS = 5
    BY <1>1 DEF TopBand, Boundary, BRAKE_HYSTERESIS
  <2> QED  BY <2>1
<1>2. CASE ~committed.fiveStep
  <2>1. TopBand = 3 /\ Boundary = <<25, 50, 75>> /\ BRAKE_HYSTERESIS = 5
    BY <1>2 DEF TopBand, Boundary, BRAKE_HYSTERESIS
  <2> QED  BY <2>1
<1> QED  BY <1>1, <1>2

(* A pass of STACK.                                                         *)
LEMMA StackHeld ==
  ASSUME ChatterInv, HTypeOK', ObservedDispatch, committed.type = "STACK"
  PROVE  Steady /\ ChatterInv'
<1>1. PICK p \in Lever : brakePosition' = p /\ Stack(p)
  BY DEF ObservedDispatch, Dispatch, Pulse, Step, Standard
<1>2. p \in Byte  BY LeverAssumption
<1>3. /\ committed \in Settings /\ currentStackBand \in 0 .. 5
      /\ bandMoved \in [pcnt : 0 .. 100, up : BOOLEAN]
  BY DEF ChatterInv, HTypeOK, TypeOK
<1> DEFINE q == Pcnt100(p)
           band == currentStackBand'
<1>4. q \in 0 .. 100  BY <1>2, PcntType
<1>5. Pcnt100(brakePosition') = q  BY <1>1
<1>6. band = Deescalated(Escalated(Clamped(currentStackBand), q), q)
  BY <1>1 DEF Stack
<1>7. /\ committed' = committed /\ ran' = committed /\ at' = "mask"
      /\ TopBand' = TopBand /\ Boundary' = Boundary
      /\ bandMoved' = IF ran # committed THEN Unmoved
                      ELSE IF band # currentStackBand
                      THEN [pcnt |-> q, up |-> band > currentStackBand] ELSE bandMoved
  BY <1>5 DEF ObservedDispatch, Dispatch, Observe, TopBand, Boundary
<1> HIDE DEF q
<1>8. band \in 0 .. TopBand  BY <1>3, <1>4, <1>6, StackBandFits
<1> HIDE DEF band
<1>9. CASE ran # committed
  <2>1. bandMoved' = Unmoved  BY <1>7, <1>9
  <2>2. MoveHeld(currentStackBand)'  BY <2>1 DEF MoveHeld, Unmoved
  <2> QED  BY <1>7, <1>8, <1>9, <2>2 DEF ChatterInv, Steady, band
<1>10. CASE ran = committed
  <2>1. currentStackBand \in 0 .. TopBand /\ MoveHeld(currentStackBand)
    BY <1>10 DEF ChatterInv
  <2>2. /\ band > currentStackBand => q >= Boundary[band]
        /\ band < currentStackBand => q < Boundary[band + 1] - BRAKE_HYSTERESIS
    BY <1>3, <1>4, <1>6, <2>1, BandMoves
  <2>3. Steady
    <3>1. ASSUME bandMoved # Unmoved, bandMoved.up, band < currentStackBand
          PROVE  q < bandMoved.pcnt - BRAKE_HYSTERESIS
      <4>1. currentStackBand >= 1 /\ bandMoved.pcnt >= Boundary[currentStackBand]
        BY <2>1, <3>1 DEF MoveHeld
      <4>2. band + 1 \in 1 .. TopBand /\ currentStackBand \in 1 .. TopBand
            /\ band + 1 <= currentStackBand
        BY <1>8, <2>1, <3>1, BoundariesRise
      <4>3. Boundary[band + 1] <= Boundary[currentStackBand]  BY <4>2, BoundariesRise
      <4>4. Boundary[band + 1] \in Nat /\ Boundary[currentStackBand] \in Nat
        BY <4>2, BoundariesRise
      <4> QED  BY <1>3, <1>4, <2>2, <3>1, <4>1, <4>3, <4>4, BoundariesRise
    <3>2. ASSUME bandMoved # Unmoved, ~bandMoved.up, band > currentStackBand
          PROVE  q > bandMoved.pcnt + BRAKE_HYSTERESIS
      <4>1. /\ currentStackBand < TopBand
            /\ bandMoved.pcnt < Boundary[currentStackBand + 1] - BRAKE_HYSTERESIS
        BY <2>1, <3>2 DEF MoveHeld
      <4>2. band \in 1 .. TopBand /\ currentStackBand + 1 \in 1 .. TopBand
            /\ currentStackBand + 1 <= band
        BY <1>8, <2>1, <3>2, <4>1, BoundariesRise
      <4>3. Boundary[currentStackBand + 1] <= Boundary[band]  BY <4>2, BoundariesRise
      <4>4. Boundary[band] \in Nat /\ Boundary[currentStackBand + 1] \in Nat
        BY <4>2, BoundariesRise
      <4> QED  BY <1>3, <1>4, <2>2, <3>2, <4>1, <4>3, <4>4, BoundariesRise
    <3>3. band # currentStackBand => band < currentStackBand \/ band > currentStackBand
      BY <1>3, <1>8, BoundariesRise
    <3> QED  BY <1>3, <1>5, <3>1, <3>2, <3>3 DEF Steady, band
  <2>4. MoveHeld(currentStackBand)'
    <3>1. CASE band = currentStackBand
      BY <1>7, <1>10, <2>1, <3>1 DEF MoveHeld, Unmoved, band
    <3>2. CASE band > currentStackBand
      <4>1. band # currentStackBand /\ band >= 1  BY <1>8, <2>1, <3>2, BoundariesRise
      <4>2. bandMoved' = [pcnt |-> q, up |-> TRUE]  BY <1>7, <1>10, <3>2, <4>1
      <4> QED  BY <1>7, <2>2, <3>2, <4>1, <4>2 DEF MoveHeld, band
    <3>3. CASE band < currentStackBand
      <4>1. /\ band # currentStackBand /\ band < TopBand
            /\ (band > currentStackBand) = FALSE
        BY <1>8, <2>1, <3>3, BoundariesRise
      <4>2. bandMoved' = [pcnt |-> q, up |-> FALSE]  BY <1>7, <1>10, <4>1, Zenon
      <4> QED  BY <1>7, <2>2, <3>3, <4>1, <4>2 DEF MoveHeld, band, BRAKE_HYSTERESIS
    <3> QED  BY <1>8, <2>1, <3>1, <3>2, <3>3, BoundariesRise
  <2> QED  BY <1>7, <1>8, <2>3, <2>4 DEF ChatterInv, band
<1> QED  BY <1>9, <1>10

LEMMA ChatterStep == ChatterInv /\ [HNext]_allvars => ChatterInv' /\ [Steady]_allvars
<1> SUFFICES ASSUME ChatterInv, [HNext]_allvars PROVE ChatterInv' /\ Steady
  OBVIOUS
<1>1. HTypeOK'  BY HTypedStep DEF ChatterInv
<1>2. CASE ObservedDispatch
  <2>1. CASE committed.type = "STACK"  BY <1>1, <1>2, <2>1, StackHeld
  <2>2. CASE committed.type # "STACK"
    BY <1>1, <1>2, <2>2 DEF ObservedDispatch, Dispatch, Observe, ChatterInv, Steady
  <2> QED  BY <2>1, <2>2
<1>3. CASE UNCHANGED <<currentStackBand, ran, bandMoved>>
  <2>1. Steady  BY <1>3 DEF Steady
  <2>2. CASE UNCHANGED <<at, committed>>
    <3>1. TopBand' = TopBand /\ Boundary' = Boundary  BY <2>2 DEF TopBand, Boundary
    <3>2. MoveHeld(currentStackBand)' <=> MoveHeld(currentStackBand)
      BY <1>3, <3>1 DEF MoveHeld, Unmoved, BRAKE_HYSTERESIS
    <3> QED  BY <1>1, <1>3, <2>1, <2>2, <3>1, <3>2 DEF ChatterInv
  <2>3. CASE at = "mask" /\ at' = "lever"
    <3>1. ran = committed  BY <2>3 DEF ChatterInv
    <3>2. CASE committed' = committed
      <4>1. TopBand' = TopBand /\ Boundary' = Boundary  BY <3>2 DEF TopBand, Boundary
      <4>2. MoveHeld(currentStackBand)' <=> MoveHeld(currentStackBand)
        BY <1>3, <4>1 DEF MoveHeld, Unmoved, BRAKE_HYSTERESIS
      <4> QED  BY <1>1, <1>3, <2>1, <2>3, <3>1, <3>2, <4>1, <4>2 DEF ChatterInv
    <3>3. CASE committed' # committed
      BY <1>1, <1>3, <2>1, <2>3, <3>1, <3>3 DEF ChatterInv
    <3> QED  BY <3>2, <3>3
  <2>4. (at = "mask" /\ at' = "lever") \/ UNCHANGED <<at, committed>> \/ ObservedDispatch
    BY <1>3 DEF HNext, Unobserved, ObservedReadConfig, BuildMask, ReadConfig, FinishPass,
                Tick, allvars, vars
  <2> QED  BY <1>2, <2>1, <2>2, <2>3, <2>4
<1> QED
  BY <1>2, <1>3 DEF HNext, Unobserved, hvars, ObservedReadConfig, BuildMask, ReadConfig,
                    FinishPass, Tick, allvars, vars

(* The STACK band does not chatter, for any calibration and any sequence of *)
(* readings, settings and changes of BRK TYPE.                              *)
THEOREM BandNeverChatters == HSpec => NoChatter
<1>1. ChatterInv /\ [HNext]_allvars => ChatterInv'  BY ChatterStep
<1>2. ChatterInv /\ [HNext]_allvars
        => [ (/\ currentStackBand' # currentStackBand
              /\ ran = committed /\ committed.type = "STACK"
              /\ bandMoved # Unmoved
              /\ bandMoved.up # (currentStackBand' > currentStackBand))
             => \/ Pcnt100(brakePosition') > bandMoved.pcnt + BRAKE_HYSTERESIS
                \/ Pcnt100(brakePosition') < bandMoved.pcnt - BRAKE_HYSTERESIS ]_allvars
  BY ChatterStep DEF Steady
<1> QED  BY ChatterInit, <1>1, <1>2, PTL DEF HSpec, NoChatter
=============================================================================
