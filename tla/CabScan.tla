------------------------------- MODULE CabScan -------------------------------
(***************************************************************************)
(* The analog controls of the cab: the chain of conversions that reads     *)
(* them, one at a time and through an interrupt, the debouncing of the     *)
(* light knobs, the battery, the horn, and the light functions with their  *)
(* trailing lag.  The throttle may go to sleep in the middle of a reading. *)
(***************************************************************************)
EXTENDS Integers, Sequences

CONSTANTS
  Channels,                  \* in the order in which the chain reads them
  Samples,                   \* conversions per reading (64)
  LIGHT_DEBOUNCE_THRESHOLD,
  LIGHT_LAG_HOLD_DECISECS,
  HORN_HYSTERESIS, hornThreshold, hornThreshold2,
  exclusiveHorn,             \* HORN TYPE
  exclusiveDitch,            \* DITCHLTS
  LightFunctions,            \* the functions assigned to the lights of each side
  BATTERY_FILTER_COEF, BatteryUnit,   \* 16 and 256
  batteryOkay, batteryWarn, batteryCritical,
  Voltages,                  \* what each channel of the converter may see
  Start                      \* ... and sees at first

Sides == {"VLIGHT_F", "VLIGHT_R"}
Positions == {"OFF", "DIM", "BRIGHT", "BRIGHT_DITCH"}
FNumbers == 0 .. 28
ADC_MAX == 1023           \* the converter has ten bits

CabAssumption ==
  /\ {Samples, LIGHT_LAG_HOLD_DECISECS, HORN_HYSTERESIS, BATTERY_FILTER_COEF, BatteryUnit}
       \subseteq Nat \ {0}
  /\ LIGHT_DEBOUNCE_THRESHOLD \in Nat
  \* A horn calibrated below the hysteresis never lets go (mrbw-cst.c 2377).
  /\ {hornThreshold, hornThreshold2} \subseteq HORN_HYSTERESIS .. 255
  /\ {batteryOkay, batteryWarn, batteryCritical} \subseteq Nat
  /\ batteryOkay > batteryWarn /\ batteryWarn > batteryCritical
  /\ Voltages \in [DOMAIN Start -> SUBSET (0 .. ADC_MAX)]
  /\ Start \in [DOMAIN Start -> 0 .. ADC_MAX] /\ \A c \in DOMAIN Start : Start[c] \in Voltages[c]
  /\ Channels \in Seq(DOMAIN Start)
  /\ LightFunctions \in [Sides -> [DIM1 : SUBSET FNumbers, DIM2 : SUBSET FNumbers,
                                    HEADLIGHT : SUBSET FNumbers, DITCH : SUBSET FNumbers]]

VARIABLES
  knob,           \* what the converter sees on each channel
  adcState, adcRunning, adcAccumulator, adcCount,
  readings,       \* reverserPosition, brakePosition, hornPosition
  light,          \* per side: position committed, candidate, debounce count
  battery,        \* filter and state
  horns,          \* HORN_CONTROL and HORN2_CONTROL of controls
  lag,            \* per side: previous position, asserted mask, lag mask, timeout
  at              \* where the main loop is

scanVars == <<adcState, adcRunning, adcAccumulator, adcCount>>
inputVars == <<readings, light, battery>>
cabvars == <<knob, scanVars, inputVars, horns, lag, at>>

ADC_STATE_LAST == 2 * Len(Channels)
Channel == Channels[(adcState \div 2) + 1]

-----------------------------------------------------------------------------
(* The chain: a START and a READ state per channel.  Each START powers what  *)
(* it reads.                                                                 *)
StartADC ==
  /\ adcState % 2 = 0 /\ adcState # ADC_STATE_LAST
  /\ adcRunning' = TRUE /\ adcAccumulator' = 0 /\ adcCount' = 0
  /\ adcState' = adcState + 1
  /\ UNCHANGED inputVars

\* The accumulator in eight bits.
Average == adcAccumulator \div (4 * Samples)

ReverserAt(v) == IF v < 48 THEN "REVERSE" ELSE IF v < 112 THEN "NEUTRAL" ELSE "FORWARD"
LightAt(v) ==
  IF v > 160 THEN "OFF" ELSE IF v > 96 THEN "DIM" ELSE IF v > 32 THEN "BRIGHT" ELSE "BRIGHT_DITCH"

\* Mutant: a new candidate only resets the count.
DebouncedOldCandidate(l, new) ==
  IF new # l.candidate THEN [l EXCEPT !.count = 0]
  ELSE IF l.count < LIGHT_DEBOUNCE_THRESHOLD THEN [l EXCEPT !.count = l.count + 1]
  ELSE [l EXCEPT !.position = new]

Debounced(l, new) ==
  IF new # l.candidate THEN [position |-> l.position, candidate |-> new, count |-> 0]
  ELSE IF l.count < LIGHT_DEBOUNCE_THRESHOLD THEN [l EXCEPT !.count = l.count + 1]
  ELSE [l EXCEPT !.position = new]

\* setBatteryVoltage(): a filter, then three thresholds of 100 mV with a hysteresis of one.
Filtered(f, v) ==
  IF f = 0 THEN v
  ELSE IF v > f THEN f + (v - f) \div BATTERY_FILTER_COEF
  ELSE f - (f - v) \div BATTERY_FILTER_COEF
Above(volts, level, next, state) == volts >= 5 * level + (IF state = next THEN 5 ELSE 0)
BatteryState(volts, state) ==
  IF Above(volts, batteryOkay, "HALF", state) THEN "FULL"
  ELSE IF Above(volts, batteryWarn, "EMPTY", state) THEN "HALF"
  ELSE IF Above(volts, batteryCritical, "CRITICAL", state) \/ batteryCritical = 0 THEN "EMPTY"
  ELSE "CRITICAL"
SetBatteryVoltage(v) ==
  LET f == Filtered(battery.filter, v * BatteryUnit) IN
  battery' = [filter |-> f, state |-> BatteryState(f \div BatteryUnit, battery.state)]

ReadHandle ==
  /\ Channel \in {"VREV", "VBRAKE", "VHORN"}
  /\ readings' = [readings EXCEPT ![Channel] =
                    CASE Channel = "VREV" -> ReverserAt(Average)
                      [] Channel = "VBRAKE" -> Average
                      [] Channel = "VHORN" -> 255 - Average]
  /\ UNCHANGED <<light, battery>>
ReadLight ==
  /\ Channel \in Sides
  /\ light' = [light EXCEPT ![Channel] = Debounced(@, LightAt(Average))]
  /\ UNCHANGED <<readings, battery>>
ReadBattery ==
  /\ Channel = "VBATT"
  /\ SetBatteryVoltage(((adcAccumulator \div Samples) * 5) \div 31)
  /\ UNCHANGED <<readings, light>>

\* Whatever has been summed up is taken for the reading once the converter is off.
Read ==
  /\ adcState % 2 = 1
  /\ ReadHandle \/ ReadLight \/ ReadBattery
  /\ adcState' = adcState + 1
  /\ UNCHANGED <<adcRunning, adcAccumulator, adcCount>>

\* adcLoopCount is left to ThrottleTx, which has what depends on it.
NextLoop ==
  /\ adcState = ADC_STATE_LAST /\ adcState' = 0
  /\ UNCHANGED <<adcRunning, adcAccumulator, adcCount, inputVars>>

ProcessADC ==
  /\ at = "adc" /\ at' = "horn"
  /\ \/ adcRunning /\ UNCHANGED <<scanVars, inputVars>>
     \/ ~adcRunning /\ (StartADC \/ Read \/ NextLoop)
  /\ UNCHANGED <<knob, horns, lag>>

\* The interrupt at the end of a conversion.
Convert ==
  /\ adcRunning
  /\ adcAccumulator' = adcAccumulator + knob[Channel]
  /\ adcCount' = adcCount + 1
  /\ adcRunning' = (adcCount' < Samples)
  /\ UNCHANGED <<knob, adcState, inputVars, horns, lag, at>>

-----------------------------------------------------------------------------
(* The pass.  With the battery critical it ends early.                       *)
CriticalBattery ==
  /\ at = "horn" /\ battery.state = "CRITICAL"
  /\ at' = "adc"
  /\ UNCHANGED <<knob, scanVars, inputVars, horns, lag>>

Stage(h, threshold) ==
  IF readings["VHORN"] <= threshold - HORN_HYSTERESIS THEN {}
  ELSE IF readings["VHORN"] >= threshold THEN {h}
  ELSE horns \cap {h}
Stage2 == IF hornThreshold2 = 255 THEN {} ELSE Stage("HORN2", hornThreshold2)
Horn ==
  /\ at = "horn" /\ battery.state # "CRITICAL"
  /\ horns' = IF exclusiveHorn /\ Stage2 # {} THEN Stage2
              ELSE Stage("HORN", hornThreshold) \cup Stage2
  /\ at' = "VLIGHT_F"
  /\ UNCHANGED <<knob, scanVars, inputVars, lag>>

(* The light functions of a side.  A change of position is noticed at one    *)
(* point and its lag looked at later: the timer may strike in between.       *)
Mask(s, position) ==
  LET fn == LightFunctions[s] IN
  CASE position = "OFF" -> {}
    [] position = "DIM" -> fn["DIM1"] \cup fn["DIM2"]
    [] position = "BRIGHT" -> fn["HEADLIGHT"]
    [] position = "BRIGHT_DITCH" -> (IF exclusiveDitch THEN {} ELSE fn["HEADLIGHT"]) \cup fn["DITCH"]
NewMask(s) == Mask(s, light[s].position)
Lagging(s) == IF s = "VLIGHT_F" THEN "LAG_F" ELSE "LAG_R"
Moved(s) == light[s].position # lag[s].previous

\* Mutant: what the last position asserted is held, not what was still lagging with it.
DroppedOfPrevious(s) == Mask(s, lag[s].previous) \ NewMask(s)

Dropped(s) == lag[s].asserted \ NewMask(s)

CaptureLag(s) ==
  /\ at = s /\ Moved(s) /\ at' = Lagging(s)
  /\ lag' = [lag EXCEPT ![s] =
              [previous |-> light[s].position, asserted |-> lag[s].asserted, mask |-> Dropped(s),
               timeout |-> IF Dropped(s) # {} THEN LIGHT_LAG_HOLD_DECISECS ELSE 0]]
  /\ UNCHANGED <<knob, scanVars, inputVars, horns>>

AssertLights(s) ==
  LET held == IF lag[s].timeout > 0 THEN lag[s].mask ELSE {} IN
  /\ at = Lagging(s) \/ (at = s /\ ~Moved(s))
  /\ at' = IF s = "VLIGHT_F" THEN "VLIGHT_R" ELSE "adc"
  /\ lag' = [lag EXCEPT ![s] = [previous |-> lag[s].previous, asserted |-> NewMask(s) \cup held,
                                 mask |-> held, timeout |-> lag[s].timeout]]
  /\ UNCHANGED <<knob, scanVars, inputVars, horns>>

\* At the end of a pass sleep turns the converter off where it is, and the timer.
Sleep ==
  /\ at = "adc" /\ battery.state # "CRITICAL" /\ at' = "asleep"
  /\ adcRunning' = FALSE
  /\ UNCHANGED <<knob, adcState, adcAccumulator, adcCount, inputVars, horns, lag>>
Wake == at = "asleep" /\ at' = "adc" /\ UNCHANGED <<knob, scanVars, inputVars, horns, lag>>

\* A decisecond of the timer interrupt.
Tick ==
  /\ at # "asleep"
  /\ lag' = [s \in Sides |-> [lag[s] EXCEPT !.timeout = IF @ > 0 THEN @ - 1 ELSE 0]]
  /\ UNCHANGED <<knob, scanVars, inputVars, horns, at>>

\* The crew moves a control, or the supply changes.
Turn ==
  /\ \E c \in DOMAIN Voltages : \E v \in Voltages[c] : knob' = [knob EXCEPT ![c] = v]
  /\ UNCHANGED <<scanVars, inputVars, horns, lag, at>>

Pass ==
  \/ ProcessADC \/ CriticalBattery \/ Horn
  \/ \E s \in Sides : CaptureLag(s) \/ AssertLights(s)

CabInit ==
  /\ knob = Start
  /\ adcState = 0 /\ adcRunning = FALSE /\ adcAccumulator = 0 /\ adcCount = 0
  /\ readings = [VREV |-> "NEUTRAL", VBRAKE |-> 0, VHORN |-> 0]
  /\ light = [s \in Sides |-> [position |-> "OFF", candidate |-> "OFF", count |-> 0]]
  /\ battery = [filter |-> 0, state |-> "FULL"]
  /\ horns = {}
  /\ lag = [s \in Sides |-> [previous |-> "OFF", asserted |-> {}, mask |-> {}, timeout |-> 0]]
  /\ at = "adc"

CabNext == Pass \/ Convert \/ Sleep \/ Wake \/ Tick \/ Turn
CabFairness == WF_cabvars(Pass) /\ WF_cabvars(Convert) /\ WF_cabvars(Tick)
CabSpec == CabInit /\ [][CabNext]_cabvars /\ CabFairness
=============================================================================
