----------------------------- MODULE CabHistory -----------------------------
(***************************************************************************)
(* What the cab's controls promise over time: how often a light knob has   *)
(* been read where it is, and whether the timer has struck since a light   *)
(* function was due to drop.                                               *)
(***************************************************************************)
EXTENDS CabScan

VARIABLES
  alike,   \* per side: the last position read and how many readings in a row gave it
  struck   \* per side: deciseconds since the light's last change of position was noticed

caball == <<cabvars, alike, struck>>

\* A new candidate, as many confirmations as it takes, and one more.
ReadingsNeeded == LIGHT_DEBOUNCE_THRESHOLD + 2

Seen(r, position) ==
  [position |-> position,
   times |-> IF r.position # position THEN 1
             ELSE IF r.times < ReadingsNeeded THEN r.times + 1 ELSE r.times]

Remember ==
  /\ alike' = [s \in Sides |->
       IF adcState % 2 = 1 /\ adcState' # adcState /\ Channel = s
         THEN Seen(alike[s], LightAt(Average)) ELSE alike[s]]
  /\ struck' = [s \in Sides |->
       IF lag'[s].previous # lag[s].previous THEN 0
       ELSE IF Tick /\ struck[s] < LIGHT_LAG_HOLD_DECISECS THEN struck[s] + 1 ELSE struck[s]]

KHInit ==
  /\ CabInit
  /\ alike = [s \in Sides |-> [position |-> "OFF", times |-> 1]]
  /\ struck = [s \in Sides |-> 0]
KHNext == CabNext /\ Remember
KHSpec == KHInit /\ [][KHNext]_caball /\ CabFairness

(* A running conversion belongs to a READ state, the sum is one of as many   *)
(* ten-bit values as were counted, and what lags is asserted.                *)
ScanFits ==
  /\ knob \in [DOMAIN Start -> 0 .. ADC_MAX]
  /\ adcState \in 0 .. ADC_STATE_LAST /\ adcRunning \in BOOLEAN
  /\ adcCount \in 0 .. Samples /\ adcAccumulator \in 0 .. ADC_MAX * adcCount
  /\ adcRunning => adcState % 2 = 1 /\ adcCount < Samples
InputsFit ==
  /\ readings \in [VREV : {"REVERSE", "NEUTRAL", "FORWARD"}, VBRAKE : 0 .. 255, VHORN : 0 .. 255]
  /\ light \in [Sides -> [position : Positions, candidate : Positions,
                           count : 0 .. LIGHT_DEBOUNCE_THRESHOLD]]
  /\ battery \in [filter : 0 .. 255 * BatteryUnit, state : {"FULL", "HALF", "EMPTY", "CRITICAL"}]
LagsFit ==
  /\ horns \subseteq {"HORN", "HORN2"}
  /\ lag \in [Sides -> [previous : Positions, asserted : SUBSET FNumbers, mask : SUBSET FNumbers,
                         timeout : 0 .. LIGHT_LAG_HOLD_DECISECS]]
  /\ \A s \in Sides : lag[s].mask \subseteq lag[s].asserted
PastFits ==
  /\ alike \in [Sides -> [position : Positions, times : 1 .. ReadingsNeeded]]
  /\ struck \in [Sides -> 0 .. LIGHT_LAG_HOLD_DECISECS]
CabTypeOK ==
  /\ ScanFits /\ InputsFit /\ LagsFit /\ PastFits
  /\ at \in {"adc", "horn", "VLIGHT_F", "LAG_F", "VLIGHT_R", "LAG_R", "asleep"}

-----------------------------------------------------------------------------
(* A knob that is being turned, or a reading that sleep has cut short, moves *)
(* no light: a position takes five readings in a row.                        *)
LightsDebounced ==
  [][ \A s \in Sides : light'[s].position # light[s].position =>
        alike'[s] = [position |-> light'[s].position, times |-> ReadingsNeeded] ]_caball

(* "A light-function bit that is being de-asserted ... is held on": no       *)
(* function of a light drops before the timer has struck since the last      *)
(* change of the light was noticed, however quickly one follows another.     *)
CrossfadesOverlap ==
  [][ \A s \in Sides : lag[s].asserted \subseteq lag'[s].asserted
                       \/ struck[s] = LIGHT_LAG_HOLD_DECISECS ]_caball

NoFlicker == LightsDebounced /\ CrossfadesOverlap

(* With its control left alone and the throttle awake, a light ends with the *)
(* functions of the knob's position and no other, ...                        *)
LightSettles ==
  \A s \in Sides : \A v \in Voltages[s] :
    <>[](knob[s] = v /\ at # "asleep" /\ battery.state # "CRITICAL") =>
      <>[](lag[s].asserted = Mask(s, LightAt(v \div 4)))

(* ... each stage of the horn sounds when the lever is pulled as far and is   *)
(* silent when it is let go by the hysteresis, whatever a sleep cut short,   *)
Pulled(v) == 255 - (v \div 4)
HornSettles ==
  \A v \in Voltages["VHORN"] :
    <>[](knob["VHORN"] = v /\ at # "asleep" /\ battery.state # "CRITICAL") =>
      /\ Pulled(v) <= hornThreshold - HORN_HYSTERESIS => <>[]("HORN" \notin horns)
      /\ Pulled(v) >= hornThreshold => <>[](horns # {})
      /\ hornThreshold2 # 255 /\ Pulled(v) >= hornThreshold2 => <>[]("HORN2" \in horns)
      /\ Pulled(v) <= hornThreshold2 - HORN_HYSTERESIS => <>[]("HORN2" \notin horns)

(* ... and a throttle that a low battery has stopped goes on once the supply *)
(* is good again.                                                            *)
Volts(v) == (v * 5) \div 31
BatteryRecovers ==
  \A v \in Voltages["VBATT"] : Volts(v) > 5 * batteryOkay + 5 =>
    (<>[](knob["VBATT"] = v /\ at # "asleep") => <>[](battery.state = "FULL"))

KnobsSettle == LightSettles /\ HornSettles /\ BatteryRecovers
=============================================================================
