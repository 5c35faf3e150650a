------------------------------ MODULE SpeedSim ------------------------------
(***************************************************************************)
(* The speed simulation of cst-speed.c behind the MPH display: momentum,   *)
(* the standing start (Start Delay, then a cubic ramp to 15 mph), brakes,  *)
(* drive hold, the stop function and the steady-state correction of a      *)
(* deceleration.  updateSpeed10Hz() is one action, Tick.  The arithmetic   *)
(* is the code's, at a scale the constants set.                            *)
(***************************************************************************)
EXTENDS Integers

CONSTANTS
  Steps, Unit,          \* 126 speed steps of 256 units
  Word,                 \* uint16_t counts modulo this
  Multiplier,           \* of the decoder family, x1000
  SPEED_MAX_MPH_DEFAULT,
  SPEED_CEIL_FADE_LO, SPEED_CEIL_FADE_HI, SPEED_CEIL_FADE_DEN,
  SpeedConfigs,         \* the CVs and tunables
  SpeedEdits,           \* [item, value]: what speedSet() is called with
  Inputs                \* [demand, brakes, emergency, stopFn, hold, load]

Bytes == 0 .. 255

SpeedAssumption ==
  /\ {Steps, Unit, Multiplier, SPEED_MAX_MPH_DEFAULT, SPEED_CEIL_FADE_DEN} \subseteq Nat \ {0}
  /\ Word \in Nat /\ Word > Steps * Unit
  /\ SPEED_CEIL_FADE_LO \in Nat /\ SPEED_CEIL_FADE_HI \in Nat
  /\ SPEED_CEIL_FADE_LO < SPEED_CEIL_FADE_HI
  /\ SpeedConfigs \subseteq
       [accel : Bytes, accelAdj : Bytes, decel : Bytes, decelAdj : Bytes,
        brake : [1 .. 3 -> Bytes], delay : Bytes, maxMph : Bytes, opload : Bytes,
        prload : Bytes, accPct : Bytes, accTarget : Bytes, decPct : Bytes, decThr : Bytes]
  /\ SpeedEdits \subseteq
       [item : {"accel", "accelAdj", "decel", "decelAdj", "delay", "maxMph", "opload", "prload",
                "accPct", "accTarget", "decPct", "decThr"}, value : Bytes]
       \cup [item : {"brake"}, value : [1 .. 3 -> Bytes]]
  /\ Inputs \subseteq
       [demand : 0 .. Steps, brakes : SUBSET (1 .. 3), emergency : BOOLEAN,
        stopFn : BOOLEAN, hold : BOOLEAN, load : {"none", "opload", "prload"}]

VARIABLES
  cv,          \* speedCfg
  sim,         \* simSpeedStepQ8
  delayMs,     \* startDelayRemainingMs
  armed,       \* delayArmed
  ramping,     \* rampActive
  rampTick,    \* rampTickIndex
  ramp,        \* rampP, rampQ, rampT, rampS, rampR0
  extra,       \* steadyStopExtraMs
  brakeWas,    \* wasBraking, lastBrakeSum
  dda          \* lastTicksForDelta, deltaRemainder

speedvars == <<cv, sim, delayMs, armed, ramping, rampTick, ramp, extra, brakeWas, dda>>

Span == Steps * Unit
Lesser(a, b) == IF a < b THEN a ELSE b
Quotient(a, b) == IF a >= 0 THEN a \div b ELSE -((-a) \div b)

AdjustedCV(base, adj) ==
  LET v == base + (IF adj >= 128 THEN 128 - adj ELSE adj)
  IN  IF v < 0 THEN 0 ELSE Lesser(v, 382)
EffAccel == AdjustedCV(cv.accel, cv.accelAdj)
EffDecel == AdjustedCV(cv.decel, cv.decelAdj)

CeilFade(eff) ==
  IF eff <= SPEED_CEIL_FADE_LO THEN SPEED_CEIL_FADE_DEN
  ELSE IF eff >= SPEED_CEIL_FADE_HI THEN 0
  ELSE (SPEED_CEIL_FADE_DEN * (SPEED_CEIL_FADE_HI - eff))
         \div (SPEED_CEIL_FADE_HI - SPEED_CEIL_FADE_LO)

ApplyLoad(eff, load) ==
  (eff * (CASE load = "prload" -> cv.prload
            [] load = "opload" -> cv.opload
            [] load = "none" -> 128) + 64) \div 128

TicksToCross(eff) == (eff * Multiplier) \div 100
BrakeTicksToCross(sum, eff) == ((255 - sum) * eff * Multiplier) \div (255 * 100)

AccelTicks(h) == TicksToCross(ApplyLoad(EffAccel, h.load))

BrakeCV(b, h) == IF b \in h.brakes THEN cv.brake[b] ELSE 0
BrakeSum(h) == Lesser(255, BrakeCV(1, h) + BrakeCV(2, h) + BrakeCV(3, h))
Braking(h) == h.brakes # {}
Target(h) == h.demand * Unit

\* How long a full deceleration takes by the CVs, braked or coasting.
DecelTicks(h) ==
  IF Braking(h) THEN BrakeTicksToCross(BrakeSum(h), ApplyLoad(EffDecel, h.load))
  ELSE TicksToCross(ApplyLoad(EffDecel, h.load))

\* Mutant: no remainder is carried.
CarriedNothing(ticks) == Span % ticks

\* computeDelta(): Span \div ticks, with the remainder carried as long as ticks stays.
Carried(ticks) == (IF ticks = dda.ticks THEN dda.rest ELSE 0) + (Span % ticks)
Delta(ticks) ==
  IF ticks = 0 THEN Word - 1
  ELSE Span \div ticks + (IF Carried(ticks) >= ticks THEN 1 ELSE 0)
NextDda(ticks) ==
  IF ticks = 0 THEN dda ELSE [ticks |-> ticks, rest |-> Carried(ticks) % ticks]

-----------------------------------------------------------------------------
\* The cubic of the standing start: tau^2 (P tau + Q) / T^3 + r0 tau, within 0 .. S.
CubicRampPosition(tau, r) ==
  LET pos == Quotient(tau * tau * (r.P * tau + r.Q), r.T * r.T * r.T) + r.r0 * tau
  IN  IF pos < 0 THEN 0 ELSE Lesser(pos, r.S)

\* The slope at 0 that reaches the position at tau, where speeding up alone can.
SolveRampR0(tau, r, desired) ==
  LET base == CubicRampPosition(tau, r)
      f == tau * (tau - r.T) * (tau - r.T)
  IN  IF tau = 0 \/ tau >= r.T \/ base >= desired THEN 0
      ELSE ((desired - base) * r.T * r.T + f - 1) \div f

\* The decoder's own rate per tick.
Rate(h) == IF AccelTicks(h) > 0 THEN Span \div AccelTicks(h) ELSE Word - 1
MaxMph == IF cv.maxMph = 0 THEN SPEED_MAX_MPH_DEFAULT ELSE cv.maxMph

\* The time of ACCPCT is taken out of the climb to 15 mph; a heavy load does not stretch it.
RampTicks(h, S) ==
  LET plain == (S * AccelTicks(h)) \div Span
      head == (((cv.accPct * Span) \div 255) * Lesser(AccelTicks(h), TicksToCross(EffAccel)))
                \div Span
  IN  IF plain > head THEN plain - head ELSE 1

\* Blended toward the plain climb of Rate(h) as the CV nears its ceiling.
Faded(r, h) ==
  LET f == CeilFade(EffAccel) IN
  IF f = 0 THEN [r EXCEPT !.P = 0, !.Q = 0, !.r0 = Rate(h)]
  ELSE IF f < SPEED_CEIL_FADE_DEN
    THEN [r EXCEPT !.P = (@ * f) \div SPEED_CEIL_FADE_DEN,
                   !.Q = (@ * f) \div SPEED_CEIL_FADE_DEN,
                   !.r0 = Rate(h) + ((@ - Rate(h)) * f) \div SPEED_CEIL_FADE_DEN]
    ELSE r

NewRamp(h) ==
  LET S == ((15 * Span) \div MaxMph) % Word
      T == RampTicks(h, S)
      P == Rate(h) * T - 2 * S
      Q == 3 * S * T - Rate(h) * T * T
      plain == [P |-> P, Q |-> Q, T |-> T, S |-> S, r0 |-> 0]
      r0 == Lesser(SolveRampR0(cv.accTarget, plain, Span \div (2 * MaxMph)), Rate(h))
  IN  Faded([plain EXCEPT !.P = P + r0 * T, !.Q = Q - 2 * r0 * T * T, !.r0 = r0], h)

Live(r, h) == Lesser(r.S, Target(h))
RampSpeed(r, tick, h) == Lesser(CubicRampPosition(tick, r), Live(r, h))
RampGoesOn(r, tick, h) == tick < r.T /\ RampSpeed(r, tick, h) < Live(r, h)
-----------------------------------------------------------------------------
NoRamp == [P |-> 0, Q |-> 0, T |-> 0, S |-> 0, r0 |-> 0]

\* resetSpeed()
SpeedInit ==
  /\ cv \in SpeedConfigs
  /\ sim = 0 /\ delayMs = 0 /\ armed = TRUE
  /\ ramping = FALSE /\ rampTick = 0 /\ ramp = NoRamp
  /\ extra = 0
  /\ brakeWas = [on |-> FALSE, sum |-> 0]
  /\ dda = [ticks |-> 0, rest |-> 0]

\* Mutant: only brakes on or off count, not their strength.
RegimeToggled(h) == Braking(h) # brakeWas.on

\* A change of the brakes drops the correction, which was measured against the other regime.
RegimeChanged(h) ==
  \/ Braking(h) # brakeWas.on
  \/ Braking(h) /\ BrakeSum(h) # brakeWas.sum
ExtraKept(h) == IF RegimeChanged(h) THEN 0 ELSE extra

\* The correction of a deceleration from this speed: a part of its time above the threshold.
Capture(h, current) ==
  LET over == IF current > cv.decThr * Unit THEN current - cv.decThr * Unit ELSE 0
      pct == (cv.decPct * CeilFade(EffDecel)) \div SPEED_CEIL_FADE_DEN
  IN  (((DecelTicks(h) * over) \div current) * 100 * pct) \div 255

Captures(h) == ExtraKept(h) = 0
Correction(h, current) == IF Captures(h) THEN Capture(h, current) ELSE ExtraKept(h)

CorrectedTicks(h, e) ==
  IF e \div 100 >= DecelTicks(h) THEN 1 ELSE DecelTicks(h) - e \div 100

Slow(h, current, floor) ==
  LET e == Correction(h, current)
      ticks == CorrectedTicks(h, e)
  IN  /\ extra' = e
      /\ sim' = IF Delta(ticks) >= current \/ current - Delta(ticks) < floor THEN floor
                ELSE current - Delta(ticks)
      /\ dda' = NextDda(ticks)

\* current + delta is a sum of two uint16_t.
Accelerate(h, current) ==
  LET sum == (current + Delta(AccelTicks(h))) % Word IN
  /\ extra' = 0
  /\ sim' = IF sum > Target(h) THEN Target(h) ELSE sum
  /\ dda' = NextDda(AccelTicks(h))

\* The second half of updateSpeed10Hz(), from the speed the ramp left.
Drive(h, current) ==
  IF Braking(h) THEN Slow(h, current, 0)
  ELSE IF current = Target(h) THEN extra' = 0 /\ sim' = current /\ UNCHANGED dda
  ELSE IF current < Target(h) THEN Accelerate(h, current)
  ELSE Slow(h, current, Target(h))

Ramps(r, tick, h) ==
  /\ rampTick' = tick
  /\ IF RampGoesOn(r, tick, h)
     THEN ramping' = TRUE /\ sim' = RampSpeed(r, tick, h) /\ extra' = ExtraKept(h) /\ UNCHANGED dda
     ELSE ramping' = FALSE /\ Drive(h, RampSpeed(r, tick, h))

ContinueRamp(h) ==
  /\ ramping /\ ~Braking(h)
  /\ armed' = FALSE
  /\ IF sim >= Live(ramp, h) \/ rampTick >= ramp.T
     THEN ramping' = FALSE /\ Drive(h, sim) /\ UNCHANGED rampTick
     ELSE Ramps(ramp, rampTick + 1, h)
  /\ UNCHANGED <<delayMs, ramp>>

\* With a brake on or no demand a stopped train waits.
Stand(h) ==
  /\ ~(ramping /\ ~Braking(h)) /\ sim = 0
  /\ Braking(h) \/ h.demand = 0
  /\ armed' = TRUE /\ delayMs' = 0 /\ ramping' = FALSE
  /\ extra' = ExtraKept(h)
  /\ UNCHANGED <<sim, rampTick, ramp, dda>>

DelayNow == IF delayMs = 0 THEN cv.delay * 250 ELSE delayMs
Departs(h) == ~ramping /\ sim = 0 /\ ~Braking(h) /\ h.demand > 0

Delay(h) ==
  /\ Departs(h) /\ armed /\ DelayNow > 100
  /\ delayMs' = DelayNow - 100
  /\ extra' = ExtraKept(h)
  /\ UNCHANGED <<sim, armed, ramping, rampTick, ramp, dda>>

\* The test of rampS > 0 is left out: no MAXSPEED makes it 0.
BeginRamp(h) ==
  /\ Departs(h) /\ armed /\ DelayNow <= 100
  /\ delayMs' = 0 /\ armed' = FALSE
  /\ ramp' = NewRamp(h)
  /\ Ramps(NewRamp(h), 1, h)

\* The ramp just ended, or demand is back within a tick of the stop.
DepartUnarmed(h) ==
  /\ Departs(h) /\ ~armed
  /\ Drive(h, 0)
  /\ UNCHANGED <<delayMs, armed, ramping, rampTick, ramp>>

Move(h) ==
  /\ ~(ramping /\ ~Braking(h)) /\ sim > 0
  /\ armed' = FALSE /\ ramping' = FALSE
  /\ Drive(h, sim)
  /\ UNCHANGED <<delayMs, rampTick, ramp>>

Snaps(h) == h.emergency \/ (h.stopFn /\ ~h.hold)
Frozen(h) == h.hold /\ ~h.emergency

\* Mutant: the stop leaves the delay and the ramp as they were.
SnapSpeedOnly ==
  /\ sim' = 0
  /\ UNCHANGED <<delayMs, armed, ramping, rampTick>>

SnapToStop ==
  /\ sim' = 0 /\ delayMs' = 0 /\ armed' = TRUE /\ ramping' = FALSE /\ rampTick' = 0

\* updateSpeed10Hz(), of which drive hold skips everything and a stop nearly everything.
Tick(h) ==
  /\ UNCHANGED cv
  /\ \/ Snaps(h) /\ SnapToStop /\ UNCHANGED <<ramp, extra, brakeWas, dda>>
     \/ Frozen(h) /\ UNCHANGED <<sim, delayMs, armed, ramping, rampTick, ramp, extra, brakeWas, dda>>
     \/ /\ ~Snaps(h) /\ ~Frozen(h)
        /\ brakeWas' = [on |-> Braking(h),
                        sum |-> IF Braking(h) THEN BrakeSum(h) ELSE brakeWas.sum]
        /\ \/ ContinueRamp(h)
           \/ Stand(h)
           \/ Delay(h)
           \/ BeginRamp(h)
           \/ DepartUnarmed(h)
           \/ Move(h)

\* speedSet(): the settings are edited, loaded or pulled under the running simulation.
SpeedSet(e) ==
  /\ cv' = [cv EXCEPT ![e.item] = e.value]
  /\ UNCHANGED <<sim, delayMs, armed, ramping, rampTick, ramp, extra, brakeWas, dda>>

SpeedNext ==
  \/ \E h \in Inputs : Tick(h)
  \/ \E e \in SpeedEdits : SpeedSet(e)

SpeedSpec == SpeedInit /\ [][SpeedNext]_speedvars
=============================================================================
