--------------------------- MODULE AirBrakeHistory ---------------------------
(***************************************************************************)
(* What the air-brake simulation must do over many ticks: three history    *)
(* variables record the recharge in progress and whether anything moved.   *)
(***************************************************************************)
EXTENDS AirBrake

VARIABLES
  resting,  \* the handle was at rest in the last tick
  calm,     \* the last step was a tick with the handle where it was: at rest, or applied
  owed      \* a recharge whose whole draw is deep is in progress, and the compressor has
            \* not stopped since it began

airhist == <<resting, calm, owed>>
airall == <<airvars, airhist>>

AHInit == AirInit /\ resting = TRUE /\ calm = FALSE /\ owed = FALSE

\* The draw of the recharge that a handle at rest begins.
BeginsDeep(h) ==
  Recharges(h) /\ ~recharging /\ Deep(air, ((Charged(air) - bp) * air.load) \div 100)

AHTick ==
  \E h \in Handles :
    /\ AirTick(h)
    /\ resting' = h.rest /\ calm' = (h.rest = resting)
    /\ owed' = (Recharges(h) /\ (owed \/ BeginsDeep(h)) /\ ~(compressor /\ ~compressor'))

AHSettings ==
  /\ \E c \in AirConfigs : Edit(c) \/ Reseed(c)
  /\ calm' = FALSE /\ owed' = FALSE
  /\ UNCHANGED resting

AHNext == AHTick \/ AHSettings

AHSpec == AHInit /\ [][AHNext]_airall

AirTypeOK ==
  /\ air \in AirConfigs
  /\ {bp, mr} \subseteq Nat
  /\ {emergency, applied, venting, recharging, compressor, deepRun} \subseteq BOOLEAN
  /\ {resting, calm, owed} \subseteq BOOLEAN
  /\ pulse \in 0 .. VENT_PULSE_TICKS - 1
  /\ syncDraw \in 0 .. 510 * Psi

PipeCharged == bp >= Charged(air)
Idle == ~compressor
RunsAgain == compressor \/ Leak(air) = 0

-----------------------------------------------------------------------------
(* A handle left at rest ends with the pipe charged: the taper never stalls *)
(* on a fraction ("completes without stalling on integer division").        *)
RechargeCompletes ==
  <>[](calm /\ resting) => <>[]PipeCharged

(* With the settings left alone and the handle left at rest, or left        *)
(* applied, the compressor never stays on, however the pump and the leak    *)
(* are set, and a leak starts it again.                                     *)
GovernorCycles ==
  <>[]calm =>
    /\ []<>Idle
    /\ []<>RunsAgain

(* The run of the compressor that a deep recharge causes is classified as   *)
(* deep, however late in the recharge the reservoir reaches cut-in.         *)
DeepRunsMarked ==
  [][ compressor' /\ ~compressor /\ owed' => deepRun' ]_airall
=============================================================================
