---------------------------- MODULE SpeedHistory ----------------------------
(***************************************************************************)
(* What the speed simulation must do over many ticks, with history         *)
(* variables for the stop a train starts from, and for the brakes the      *)
(* correction of a deceleration was captured under.                        *)
(***************************************************************************)
EXTENDS SpeedSim

CONSTANT
  MaxDelay    \* bound of the Start Delays in an instance, and of the time counted

VARIABLES
  goal,     \* what the last tick demanded of a train that nothing holds or brakes
  halted,   \* the train came to a genuine stop, under the present settings
  stood,    \* the ticks since then with a demand and no brake, up to MaxStood
  regime,   \* the brakes the correction was captured under
  steady    \* the last step was a tick with the goal of the tick before

speedhist == <<goal, halted, stood, regime, steady>>
speedall == <<speedvars, speedhist>>

Delays == {c.delay : c \in SpeedConfigs} \cup {e.value : e \in {d \in SpeedEdits : d.item = "delay"}}
MaxStood == 3 * MaxDelay

SpeedHistoryAssumption ==
  /\ SpeedAssumption
  /\ MaxDelay \in Bytes /\ Delays \subseteq 0 .. MaxDelay

Regime(h) == <<Braking(h), IF Braking(h) THEN BrakeSum(h) ELSE 0>>

\* A tick that waits at a stand, or that an emergency stop or the stop function ends.
Halts(h) ==
  \/ Snaps(h)
  \/ ~Frozen(h) /\ sim = 0 /\ (Braking(h) \/ (h.demand = 0 /\ ~ramping))

\* A tick that slows the train by a correction, kept or captured now.
Slows(h) == ~Snaps(h) /\ ~Frozen(h) /\ sim > 0 /\ ~(ramping /\ ramping')
            /\ (Braking(h) \/ sim > Target(h))

NoGoal == [demand |-> 0, load |-> "held"]
Goal(h) ==
  IF h.emergency \/ h.hold \/ h.stopFn \/ Braking(h) THEN NoGoal
  ELSE [demand |-> h.demand, load |-> h.load]

SHInit ==
  /\ SpeedInit
  /\ goal = NoGoal
  /\ halted = TRUE /\ stood = 0
  /\ regime = <<FALSE, 0>> /\ steady = FALSE

SHTick ==
  \E h \in Inputs :
    /\ goal' = Goal(h) /\ steady' = (Goal(h) = goal)
    /\ Tick(h)
    /\ halted' = (Halts(h) \/ (halted /\ sim' = 0))
    /\ stood' = IF Halts(h) \/ sim' > 0 THEN 0
                ELSE IF Frozen(h) THEN stood ELSE Lesser(stood + 1, MaxStood)
    /\ regime' = IF Slows(h) /\ Captures(h) THEN Regime(h)
                 ELSE IF extra' = 0 THEN <<FALSE, 0>> ELSE regime

SHSet ==
  /\ \E e \in SpeedEdits : SpeedSet(e)
  /\ halted' = FALSE /\ steady' = FALSE
  /\ UNCHANGED <<goal, stood, regime>>

SHNext == SHTick \/ SHSet

SHSpec == SHInit /\ [][SHNext]_speedall

SpeedTypeOK ==
  /\ cv.maxMph \in Bytes /\ cv.delay \in Delays
  /\ sim \in 0 .. Span
  /\ {delayMs, rampTick, extra} \subseteq Nat
  /\ delayMs < 250 * 255
  /\ {armed, ramping} \subseteq BOOLEAN
  /\ brakeWas \in [on : BOOLEAN, sum : 0 .. 255]
  /\ dda.rest = 0 \/ dda.rest < dda.ticks
  /\ {halted, steady} \subseteq BOOLEAN
  /\ stood \in 0 .. MaxStood

AtGoal == sim = Target(goal)
Bound == goal # NoGoal

-----------------------------------------------------------------------------
(* After a genuine stop (a tick at rest with a brake or no demand, an       *)
(* emergency or a stop function) a train moves off only when the demand has *)
(* stood, unbraked, for the whole Start Delay.                              *)
NoEarlyStart ==
  [][ halted /\ sim = 0 /\ sim' > 0 => (stood + 1) * 100 >= cv.delay * 250 ]_speedall

(* A deceleration is corrected only by what was captured under the brakes   *)
(* that are on now: the same state and the same strength.                   *)
CorrectionMatchesRegime ==
  [][ extra' > 0 => \A h \in Inputs : Tick(h) /\ Slows(h) => regime' = Regime(h) ]_speedall

(* With the inputs left alone and nothing holding the train the simulation  *)
(* arrives at the demanded speed and stays there.                           *)
Arrives ==
  <>[](steady /\ Bound) => <>[]AtGoal

(* "CV==0: snap instantly" *)
ZeroSnaps ==
  [][ sim > 0 /\ Target(goal') > sim /\ AccelTicks(goal') = 0 => sim' = Target(goal') ]_speedall
=============================================================================
