------------------------------ MODULE AirBrake ------------------------------
(***************************************************************************)
(* The air-brake simulation of cst-pressure.c: the brake pipe follows the  *)
(* handle, the main reservoir feeds its recharge, the governor starts and  *)
(* stops the compressor.  updateBrake10Hz() is one action, AirTick; the    *)
(* settings may be edited under the running model or saved, which reseeds  *)
(* it.  Pressures are in units of 1/Psi PSI (1/1000 in the code).          *)
(***************************************************************************)
EXTENDS Integers

CONSTANTS
  Psi,                         \* units per PSI
  VENT_PULSE_TICKS,
  AIRBRAKE_MIN_REDUCTION_PSI,
  AIRBRAKE_VENT_RATE_PSI_S,
  AIRBRAKE_EMERG_VENT_RATE_PSI_S,
  AIRBRAKE_RECHARGE_TAIL,      \* units per tick
  Jitter,                      \* the three bits of rand() that initAirBrake() uses
  Handles,                     \* [pcnt, rest]: brakePcnt, independentBrakeAtRest
  AirConfigs                   \* [charged, mrIn, mrOut, charge, leak, pump, load, estop]

AirAssumption ==
  /\ {Psi, VENT_PULSE_TICKS, AIRBRAKE_RECHARGE_TAIL} \subseteq Nat \ {0}
  /\ {AIRBRAKE_MIN_REDUCTION_PSI, AIRBRAKE_VENT_RATE_PSI_S,
      AIRBRAKE_EMERG_VENT_RATE_PSI_S} \subseteq Nat
  /\ Handles \subseteq [pcnt : 0 .. 100, rest : BOOLEAN]
  /\ AirConfigs \subseteq [charged : 0 .. 110, mrIn : 0 .. 254, mrOut : 0 .. 254,
                           charge : Nat, leak : Nat, pump : Nat,
                           load : 0 .. 100, estop : BOOLEAN]
  /\ Jitter \subseteq 0 .. 7

AIRBRAKE_FULLSVC_PCNT == 70
AIRBRAKE_EMERG_PCNT == 95
AIRBRAKE_SYNC_BAND_PCT == 80

VARIABLES
  air,         \* airbrakeCfg, and the BRK ESTP option
  bp,          \* bpMilliPsi
  mr,          \* mrMilliPsi
  emergency,   \* emergencyActive
  applied,     \* appliedLatch
  venting,     \* wasVenting
  recharging,  \* wasRecharging
  pulse,       \* ventPulseTimer
  compressor,  \* compressorOn
  syncDraw,    \* syncDrawMilliPsi
  deepRun      \* compressorRunIsRelease

airvars == <<air, bp, mr, emergency, applied, venting, recharging, pulse, compressor,
             syncDraw, deepRun>>

Least(a, b) == IF a < b THEN a ELSE b
Above0(n) == IF n > 0 THEN n ELSE 0

\* Stored PSI per minute, in units per tick of 100 ms.
PerTick(rate) == (rate * Psi) \div 600

Charged(c) == c.charged * Psi
FullService(c) == ((c.charged * 2 + 6) \div 7) * Psi
CutIn(c) == c.mrIn * Psi

\* Mutant: the band may be empty or inverted.
CutOutAsStored(c) == c.mrOut * Psi

CutOut(c) == IF c.mrOut * Psi < CutIn(c) + Psi THEN CutIn(c) + Psi ELSE c.mrOut * Psi
Band(c) == CutOut(c) - CutIn(c)
Deep(c, draw) == draw >= (Band(c) * AIRBRAKE_SYNC_BAND_PCT) \div 100

Leak(c) == PerTick(c.leak)

\* The net fill is at least 10 of the code's units (RECHARGE_TAIL of these).
Pump(c) == IF PerTick(c.pump) < Leak(c) + AIRBRAKE_RECHARGE_TAIL
           THEN Leak(c) + AIRBRAKE_RECHARGE_TAIL ELSE PerTick(c.pump)

\* initAirBrake(): charged and settled, give or take the jitter of rand().
SeedPipe(c) ==
  IF 4 * Charged(c) > 7 * Psi THEN {Charged(c) - (r * Psi) \div 4 : r \in Jitter}
  ELSE {Charged(c)}
SeedReservoir(c) ==
  IF c.mrOut > 2 THEN {c.mrOut * Psi - Psi - (r * Psi) \div 5 : r \in Jitter}
  ELSE {c.mrOut * Psi}

AirInit ==
  /\ air \in AirConfigs
  /\ bp \in SeedPipe(air) /\ mr \in SeedReservoir(air)
  /\ emergency = FALSE /\ applied = FALSE /\ venting = FALSE /\ recharging = FALSE
  /\ pulse = 0 /\ compressor = FALSE /\ syncDraw = 0 /\ deepRun = FALSE

-----------------------------------------------------------------------------
\* The hysteretic latch of the emergency zone, only with the BRK ESTP option.
EmergencyNow(h) ==
  IF air.estop /\ h.pcnt >= AIRBRAKE_EMERG_PCNT THEN TRUE
  ELSE emergency /\ air.estop /\ h.pcnt + 5 > AIRBRAKE_EMERG_PCNT

Reduction(h) ==
  LET ramp == IF h.pcnt > 10
              THEN ((h.pcnt - 10) * FullService(air)) \div (AIRBRAKE_FULLSVC_PCNT - 10) ELSE 0
      floored == IF ramp < AIRBRAKE_MIN_REDUCTION_PSI * Psi
                 THEN AIRBRAKE_MIN_REDUCTION_PSI * Psi ELSE ramp
  IN  Least(floored, FullService(air))

LeverTarget(h) ==
  IF EmergencyNow(h) THEN 0
  ELSE IF h.rest THEN Charged(air) ELSE Above0(Charged(air) - Reduction(h))

VentRate(h) ==
  ((IF EmergencyNow(h) THEN AIRBRAKE_EMERG_VENT_RATE_PSI_S ELSE AIRBRAKE_VENT_RATE_PSI_S)
    * Psi) \div 10

RechargeK ==
  LET rate == PerTick(air.charge)
      k == IF rate > 0 THEN FullService(air) \div rate ELSE 1
  IN  IF k < 1 THEN 1 ELSE k

\* Mutant: no crawl at the end of the taper.
FillTapered == (Charged(air) - bp) \div RechargeK

Fill == LET gap == Charged(air) - bp IN Least(gap \div RechargeK + AIRBRAKE_RECHARGE_TAIL, gap)

Vents(h) == ~h.rest /\ bp > LeverTarget(h)
Recharges(h) == h.rest /\ bp < Charged(air)

\* The whole draw of a release is credited on the first tick of its recharge.
Credited(h) ==
  IF Recharges(h) /\ ~recharging
  THEN Least(syncDraw + ((Charged(air) - bp) * air.load) \div 100, 2 * Band(air))
  ELSE syncDraw

\* Mutant: the credit leaks away during the recharge as well.
DecayedAlways(h) == Above0(Credited(h) - Leak(air))

Decayed(h) == IF Recharges(h) THEN Credited(h) ELSE Above0(Credited(h) - Leak(air))

\* The reservoir after the leak and the recharge, before the pump.
Drained(h) ==
  Above0(mr - Leak(air) - (IF Recharges(h) THEN (Fill * air.load) \div 100 ELSE 0))

CompressorNow(h) == (compressor \/ Drained(h) <= CutIn(air)) /\ Drained(h) < CutOut(air)

\* updateBrake10Hz()
AirTick(h) ==
  /\ emergency' = EmergencyNow(h)
  /\ venting' = Vents(h) /\ recharging' = Recharges(h)
  /\ bp' = IF Vents(h) THEN bp - Least(bp - LeverTarget(h), VentRate(h))
           ELSE IF Recharges(h) THEN bp + Fill ELSE bp
  /\ applied' = (~h.rest /\ (applied \/ Vents(h)))
  /\ pulse' = Above0((IF Vents(h) /\ ~venting THEN VENT_PULSE_TICKS ELSE pulse) - 1)
  /\ compressor' = CompressorNow(h)
  /\ mr' = Drained(h) + (IF CompressorNow(h) THEN Pump(air) ELSE 0)
  /\ deepRun' = IF CompressorNow(h) /\ ~compressor THEN Deep(air, Decayed(h)) ELSE deepRun
  /\ syncDraw' = IF ~CompressorNow(h) /\ compressor THEN 0 ELSE Decayed(h)
  /\ UNCHANGED air

\* UP and DOWN in AIRBRAKE CFG change the settings under the running model, and a
\* dismissal puts the saved ones back ...
Edit(c) == air' = c /\ UNCHANGED <<bp, mr, emergency, applied, venting, recharging, pulse,
                                   compressor, syncDraw, deepRun>>

\* ... SELECT there, a LOAD or a pulled profile reseeds it.
Reseed(c) ==
  /\ air' = c
  /\ bp' \in SeedPipe(c) /\ mr' \in SeedReservoir(c)
  /\ emergency' = FALSE /\ applied' = FALSE /\ venting' = FALSE /\ recharging' = FALSE
  /\ pulse' = 0 /\ compressor' = FALSE /\ syncDraw' = 0 /\ deepRun' = FALSE

AirNext ==
  \/ \E h \in Handles : AirTick(h)
  \/ \E c \in AirConfigs : Edit(c) \/ Reseed(c)

AirSpec == AirInit /\ [][AirNext]_airvars
=============================================================================
