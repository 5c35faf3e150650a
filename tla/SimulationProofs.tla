-------------------------- MODULE SimulationProofs --------------------------
(***************************************************************************)
(* The simulations behind the cab's displays, proved for any constants:    *)
(*   - the air brake keeps its types, and its compressor's deep runs are   *)
(*     marked (AirInv);                                                    *)
(*   - the SPEED CFG screen keeps foreign parameters inert and the LOAD    *)
(*     button on the stored profile (SInv);                                *)
(*   - the speed simulation keeps its types, starts no train early and     *)
(*     corrects no deceleration by another regime's capture (SpeedInv).    *)
(***************************************************************************)
EXTENDS SpeedScreen, AirBrakeHistory, SpeedHistory, TLAPS

-----------------------------------------------------------------------------
\* The settings in use, typed field by field.
Set(c) ==
  /\ c \in AirConfigs
  /\ c.charged \in 0 .. 110 /\ c.mrIn \in 0 .. 254 /\ c.mrOut \in 0 .. 254
  /\ c.charge \in Nat /\ c.leak \in Nat /\ c.pump \in Nat
  /\ c.load \in 0 .. 100 /\ c.estop \in BOOLEAN

\* The inductive invariant: a recharge that is owed its mark still has its credit.
AirInv ==
  /\ AirAssumption
  /\ AirTypeOK
  /\ owed => recharging /\ Deep(air, syncDraw)

-----------------------------------------------------------------------------
(* Arithmetic.                                                              *)

LEMMA Products ==
  ASSUME NEW a \in Nat, NEW b \in Nat
  PROVE  a * b \in Nat
OBVIOUS

LEMMA ProductsGrow ==
  ASSUME NEW a \in Nat, NEW b \in Nat, a <= b, NEW k \in Nat
  PROVE  a * k <= b * k
OBVIOUS

LEMMA Quotients ==
  ASSUME NEW a \in Nat, NEW b \in Nat \ {0}
  PROVE  a \div b \in Nat
OBVIOUS

LEMMA Hundredths ==
  ASSUME NEW a \in Nat, NEW p \in 0 .. 100
  PROVE  (a * p) \div 100 \in Nat /\ (a * p) \div 100 <= a
<1>1. a * p \in Nat /\ a * p <= a * 100
  OBVIOUS
<1> QED  BY <1>1

LEMMA Leasts ==
  ASSUME NEW a \in Int, NEW b \in Int
  PROVE  /\ Least(a, b) \in {a, b} /\ Least(a, b) <= a /\ Least(a, b) <= b
         /\ Above0(a) \in Nat /\ (a >= 0 => Above0(a) = a) /\ (a <= 0 => Above0(a) = 0)
BY DEF Least, Above0

-----------------------------------------------------------------------------
(* The quantities of a profile.                                             *)

LEMMA ScaleTyped ==
  ASSUME AirAssumption
  PROVE  /\ Psi \in Nat \ {0} /\ VENT_PULSE_TICKS \in Nat \ {0}
         /\ AIRBRAKE_RECHARGE_TAIL \in Nat \ {0}
         /\ AIRBRAKE_MIN_REDUCTION_PSI \in Nat /\ AIRBRAKE_VENT_RATE_PSI_S \in Nat
         /\ AIRBRAKE_EMERG_VENT_RATE_PSI_S \in Nat
BY DEF AirAssumption

LEMMA SettingsTyped ==
  ASSUME AirAssumption, NEW c \in AirConfigs
  PROVE  Set(c)
BY DEF AirAssumption, Set

LEMMA RateTyped ==
  ASSUME AirAssumption, NEW r \in Nat
  PROVE  PerTick(r) \in Nat
<1>1. r * Psi \in Nat  BY ScaleTyped, Products
<1> QED  BY <1>1, Quotients DEF PerTick

LEMMA ProfileTyped ==
  ASSUME AirAssumption, NEW c \in AirConfigs
  PROVE  /\ Charged(c) \in Nat /\ FullService(c) \in Nat /\ Leak(c) \in Nat
         /\ Pump(c) \in Nat
<1>1. Set(c) /\ Psi \in Nat  BY SettingsTyped, ScaleTyped
<1>2. Charged(c) \in Nat  BY <1>1, Products DEF Charged, Set
<1>3. (c.charged * 2 + 6) \div 7 \in Nat  BY <1>1, Quotients DEF Set
<1>4. FullService(c) \in Nat  BY <1>1, <1>3, Products DEF FullService
<1>5. Leak(c) \in Nat /\ PerTick(c.pump) \in Nat  BY <1>1, RateTyped DEF Leak, Set
<1> QED  BY <1>2, <1>4, <1>5, ScaleTyped DEF Pump

\* The governor's band is never empty, whatever HIGH and LOW were set to.
LEMMA BandTyped ==
  ASSUME AirAssumption, NEW c \in AirConfigs
  PROVE  /\ CutIn(c) \in Nat /\ CutOut(c) \in Nat
         /\ Band(c) \in Nat /\ Psi <= Band(c) /\ Band(c) <= 255 * Psi
<1>1. Set(c) /\ Psi \in Nat \ {0}  BY SettingsTyped, ScaleTyped
<1> DEFINE in == c.mrIn * Psi
           out == c.mrOut * Psi
<1>2. in \in Nat /\ out \in Nat  BY <1>1, Products DEF Set
<1>3. in <= 254 * Psi /\ out <= 254 * Psi  BY <1>1, ProductsGrow DEF Set
<1>4. CutIn(c) = in /\ CutOut(c) = IF out < in + Psi THEN in + Psi ELSE out
  BY DEF CutIn, CutOut
<1> HIDE DEF in, out
<1>5. 254 * Psi + Psi = 255 * Psi  BY <1>1
<1> QED  BY <1>1, <1>2, <1>3, <1>4, <1>5 DEF Band

LEMMA FillTyped ==
  ASSUME AirAssumption, air \in AirConfigs, bp \in Nat, bp < Charged(air)
  PROVE  Fill \in Nat /\ bp + Fill <= Charged(air)
<1>1. Charged(air) \in Nat /\ FullService(air) \in Nat /\ Set(air)
  BY ProfileTyped, SettingsTyped
<1>2. PerTick(air.charge) \in Nat  BY <1>1, RateTyped DEF Set
<1>3. RechargeK \in Nat \ {0}
  <2>1. PerTick(air.charge) > 0 => FullService(air) \div PerTick(air.charge) \in Nat
    BY <1>1, <1>2, Quotients
  <2> QED  BY <1>2, <2>1 DEF RechargeK
<1>4. (Charged(air) - bp) \div RechargeK \in Nat  BY <1>1, <1>3, Quotients
<1> QED  BY <1>1, <1>4, ScaleTyped, Leasts DEF Fill, Least

-----------------------------------------------------------------------------
(* What a tick computes.                                                    *)

LEMMA HandleTyped ==
  ASSUME AirAssumption, NEW h \in Handles
  PROVE  h.pcnt \in 0 .. 100 /\ h.rest \in BOOLEAN
BY DEF AirAssumption

LEMMA TargetTyped ==
  ASSUME AirAssumption, AirTypeOK, NEW h \in Handles
  PROVE  LeverTarget(h) \in Nat /\ VentRate(h) \in Nat /\ EmergencyNow(h) \in BOOLEAN
<1>1. air \in AirConfigs /\ Set(air) /\ emergency \in BOOLEAN
  BY SettingsTyped DEF AirTypeOK
<1>2. Charged(air) \in Nat /\ FullService(air) \in Nat  BY <1>1, ProfileTyped
<1>3. EmergencyNow(h) \in BOOLEAN  BY <1>1 DEF EmergencyNow
<1>4. Reduction(h) \in Nat
  <2> DEFINE slope == IF h.pcnt > 10
                     THEN ((h.pcnt - 10) * FullService(air)) \div (AIRBRAKE_FULLSVC_PCNT - 10)
                     ELSE 0
  <2>1. slope \in Nat
    <3>1. h.pcnt > 10 => (h.pcnt - 10) * FullService(air) \in Nat
      BY <1>2, HandleTyped, Products
    <3> QED  BY <3>1, Quotients DEF AIRBRAKE_FULLSVC_PCNT
  <2>2. AIRBRAKE_MIN_REDUCTION_PSI * Psi \in Nat  BY ScaleTyped, Products
  <2> HIDE DEF slope
  <2>3. Reduction(h) = Least(IF slope < AIRBRAKE_MIN_REDUCTION_PSI * Psi
                             THEN AIRBRAKE_MIN_REDUCTION_PSI * Psi ELSE slope, FullService(air))
    BY DEF Reduction, slope
  <2> QED  BY <1>2, <2>1, <2>2, <2>3 DEF Least
<1>5. LeverTarget(h) \in Nat  BY <1>2, <1>4, Leasts DEF LeverTarget
<1>6. AIRBRAKE_EMERG_VENT_RATE_PSI_S * Psi \in Nat /\ AIRBRAKE_VENT_RATE_PSI_S * Psi \in Nat
  BY ScaleTyped, Products
<1>7. VentRate(h) \in Nat  BY <1>6, Quotients DEF VentRate
<1> QED  BY <1>3, <1>5, <1>7

LEMMA CreditTyped ==
  ASSUME AirAssumption, AirTypeOK, NEW h \in Handles
  PROVE  /\ Credited(h) \in 0 .. 510 * Psi /\ Decayed(h) \in 0 .. 510 * Psi
         /\ Recharges(h) /\ ~recharging =>
              ((Charged(air) - bp) * air.load) \div 100 \in Nat
<1>1. air \in AirConfigs /\ Set(air) /\ bp \in Nat /\ syncDraw \in 0 .. 510 * Psi
  BY SettingsTyped DEF AirTypeOK
<1>2. Charged(air) \in Nat /\ Leak(air) \in Nat  BY <1>1, ProfileTyped
<1>3. Psi \in Nat /\ Band(air) \in Nat /\ 2 * Band(air) <= 510 * Psi
  BY <1>1, BandTyped, ScaleTyped
<1>4. Recharges(h) => ((Charged(air) - bp) * air.load) \div 100 \in Nat
  <2> SUFFICES ASSUME Recharges(h)
               PROVE  ((Charged(air) - bp) * air.load) \div 100 \in Nat
    OBVIOUS
  <2>1. Charged(air) - bp \in Nat  BY <1>1, <1>2 DEF Recharges
  <2> QED  BY <1>1, <2>1, Hundredths DEF Set
<1>5. Credited(h) \in 0 .. 510 * Psi
  <2> DEFINE d == ((Charged(air) - bp) * air.load) \div 100
  <2>1. Credited(h) = IF Recharges(h) /\ ~recharging THEN Least(syncDraw + d, 2 * Band(air))
                      ELSE syncDraw
    BY DEF Credited
  <2>2. Recharges(h) => d \in Nat  BY <1>4
  <2> HIDE DEF d
  <2> QED  BY <1>1, <1>3, <2>1, <2>2 DEF Least
<1>6. Decayed(h) \in 0 .. 510 * Psi  BY <1>2, <1>3, <1>5 DEF Decayed, Above0
<1> QED  BY <1>4, <1>5, <1>6

LEMMA ReservoirTyped ==
  ASSUME AirAssumption, AirTypeOK, NEW h \in Handles
  PROVE  Drained(h) \in Nat /\ CompressorNow(h) \in BOOLEAN
<1>1. air \in AirConfigs /\ Set(air) /\ bp \in Nat /\ mr \in Nat /\ compressor \in BOOLEAN
  BY SettingsTyped DEF AirTypeOK
<1>2. Leak(air) \in Nat /\ Charged(air) \in Nat  BY <1>1, ProfileTyped
<1>3. Recharges(h) => (Fill * air.load) \div 100 \in Nat
  BY <1>1, FillTyped, Hundredths DEF Recharges, Set
<1>4. Drained(h) \in Nat
  <2> DEFINE d == (Fill * air.load) \div 100
  <2>1. Drained(h) = Above0(mr - Leak(air) - (IF Recharges(h) THEN d ELSE 0))  BY DEF Drained
  <2>2. Recharges(h) => d \in Nat  BY <1>3
  <2> HIDE DEF d
  <2> QED  BY <1>1, <1>2, <2>1, <2>2 DEF Above0
<1> QED  BY <1>1, <1>4 DEF CompressorNow

-----------------------------------------------------------------------------
(* Every step keeps the types.                                              *)

LEMMA TickTyped ==
  ASSUME AirAssumption, AirTypeOK, NEW h \in Handles, AirTick(h),
         {resting', calm', owed'} \subseteq BOOLEAN
  PROVE  AirTypeOK'
<1>1. /\ air \in AirConfigs /\ Set(air) /\ bp \in Nat /\ mr \in Nat /\ air' = air
      /\ {emergency, applied, venting, recharging, compressor, deepRun} \subseteq BOOLEAN
      /\ pulse \in 0 .. VENT_PULSE_TICKS - 1
  BY SettingsTyped DEF AirTypeOK, AirTick
<1>2. bp' \in Nat
  <2>1. CASE Vents(h)
    <3>1. bp' = bp - Least(bp - LeverTarget(h), VentRate(h))  BY <2>1 DEF AirTick
    <3> QED  BY <1>1, <2>1, <3>1, TargetTyped DEF Vents, Least
  <2>2. CASE Recharges(h)
    <3>1. bp' = bp + Fill  BY <2>2 DEF AirTick, Vents, Recharges
    <3> QED  BY <1>1, <2>2, <3>1, FillTyped DEF Recharges
  <2>3. CASE ~Vents(h) /\ ~Recharges(h)
    BY <1>1, <2>3 DEF AirTick
  <2> QED  BY <2>1, <2>2, <2>3
<1>3. mr' \in Nat
  <2>1. Pump(air) \in Nat  BY <1>1, ProfileTyped
  <2> QED  BY <2>1, ReservoirTyped DEF AirTick
<1>4. emergency' \in BOOLEAN /\ compressor' \in BOOLEAN
  BY TargetTyped, ReservoirTyped DEF AirTick
<1>5. venting' \in BOOLEAN /\ recharging' \in BOOLEAN /\ applied' \in BOOLEAN
  BY <1>1, HandleTyped DEF AirTick, Vents, Recharges
<1>6. deepRun' \in BOOLEAN
  <2>1. Deep(air, Decayed(h)) \in BOOLEAN  BY DEF Deep
  <2>2. deepRun' = Deep(air, Decayed(h)) \/ deepRun' = deepRun  BY DEF AirTick
  <2> QED  BY <1>1, <2>1, <2>2
<1>7. pulse' \in 0 .. VENT_PULSE_TICKS - 1
  <2> DEFINE p == IF Vents(h) /\ ~venting THEN VENT_PULSE_TICKS ELSE pulse
  <2>1. VENT_PULSE_TICKS \in Nat \ {0}  BY ScaleTyped
  <2>2. p \in 0 .. VENT_PULSE_TICKS  BY <1>1, <2>1
  <2>3. pulse' = Above0(p - 1)  BY DEF AirTick
  <2> HIDE DEF p
  <2> QED  BY <2>1, <2>2, <2>3 DEF Above0
<1>8. syncDraw' \in 0 .. 510 * Psi
  BY CreditTyped, ScaleTyped DEF AirTick
<1> QED  BY <1>1, <1>2, <1>3, <1>4, <1>5, <1>6, <1>7, <1>8 DEF AirTypeOK

LEMMA SeedTyped ==
  ASSUME AirAssumption, NEW c \in AirConfigs
  PROVE  SeedPipe(c) \subseteq Nat /\ SeedReservoir(c) \subseteq Nat
<1>1. Set(c) /\ Psi \in Nat \ {0} /\ Charged(c) \in Nat /\ c.mrOut * Psi \in Nat
  BY SettingsTyped, ScaleTyped, ProfileTyped, Products DEF Set
<1>2. ASSUME NEW r \in Jitter
      PROVE  /\ (r * Psi) \div 4 \in Nat /\ 4 * ((r * Psi) \div 4) <= 7 * Psi
             /\ (r * Psi) \div 5 \in Nat /\ 5 * ((r * Psi) \div 5) <= 7 * Psi
  <2>1. r \in 0 .. 7  BY DEF AirAssumption
  <2>2. r * Psi \in Nat /\ r * Psi <= 7 * Psi  BY <1>1, <2>1, Products, ProductsGrow
  <2> QED  BY <1>1, <2>2
<1>3. SeedPipe(c) \subseteq Nat
  <2>1. ASSUME NEW r \in Jitter, 4 * Charged(c) > 7 * Psi
        PROVE  Charged(c) - (r * Psi) \div 4 \in Nat
    BY <1>1, <1>2, <2>1
  <2> QED  BY <1>1, <2>1 DEF SeedPipe
<1>4. SeedReservoir(c) \subseteq Nat
  <2>1. ASSUME NEW r \in Jitter, c.mrOut > 2
        PROVE  c.mrOut * Psi - Psi - (r * Psi) \div 5 \in Nat
    <3>1. c.mrOut * Psi >= 3 * Psi  BY <1>1, <2>1, ProductsGrow DEF Set
    <3>2. (r * Psi) \div 5 \in Nat /\ 5 * ((r * Psi) \div 5) <= 7 * Psi  BY <1>2
    <3> QED  BY <1>1, <3>1, <3>2
  <2> QED  BY <1>1, <2>1 DEF SeedReservoir
<1> QED  BY <1>3, <1>4

LEMMA SettingsStepTyped ==
  ASSUME AirAssumption, AirTypeOK, AHSettings
  PROVE  AirTypeOK'
<1>1. PICK c \in AirConfigs : Edit(c) \/ Reseed(c)
  BY DEF AHSettings
<1>2. calm' = FALSE /\ owed' = FALSE /\ resting' = resting
  BY DEF AHSettings
<1>3. CASE Edit(c)
  BY <1>2, <1>3 DEF Edit, AirTypeOK
<1>4. CASE Reseed(c)
  <2>1. air' \in AirConfigs /\ bp' \in Nat /\ mr' \in Nat
    BY <1>4, SeedTyped DEF Reseed
  <2>2. pulse' \in 0 .. VENT_PULSE_TICKS - 1 /\ syncDraw' \in 0 .. 510 * Psi
    BY <1>4, ScaleTyped DEF Reseed
  <2>3. {emergency', applied', venting', recharging', compressor', deepRun'} \subseteq BOOLEAN
    BY <1>4 DEF Reseed
  <2>4. {resting', calm', owed'} \subseteq BOOLEAN
    BY <1>2 DEF AirTypeOK
  <2> QED  BY <2>1, <2>2, <2>3, <2>4 DEF AirTypeOK
<1> QED  BY <1>1, <1>3, <1>4

LEMMA InitTyped ==
  ASSUME AirAssumption, AHInit
  PROVE  AirTypeOK
<1>1. air \in AirConfigs /\ bp \in Nat /\ mr \in Nat
  BY SeedTyped DEF AHInit, AirInit
<1>2. pulse \in 0 .. VENT_PULSE_TICKS - 1 /\ syncDraw \in 0 .. 510 * Psi
  BY ScaleTyped DEF AHInit, AirInit
<1>3. {emergency, applied, venting, recharging, compressor, deepRun} \subseteq BOOLEAN
  BY DEF AHInit, AirInit
<1>4. {resting, calm, owed} \subseteq BOOLEAN
  BY DEF AHInit
<1> QED  BY <1>1, <1>2, <1>3, <1>4 DEF AirTypeOK

-----------------------------------------------------------------------------
(* The credit of a recharge.                                                *)

\* While a recharge is owed its mark, the credit of the tick is deep.
LEMMA OwedIsDeep ==
  ASSUME AirInv, NEW h \in Handles, Recharges(h), owed \/ BeginsDeep(h)
  PROVE  Deep(air, Decayed(h))
<1>1. air \in AirConfigs /\ syncDraw \in Nat
  BY ScaleTyped DEF AirInv, AirTypeOK
<1>2. Band(air) \in Nat  BY <1>1, BandTyped DEF AirInv
<1>3. Decayed(h) = Credited(h)  BY DEF Decayed
<1>4. CASE owed
  <2>1. Credited(h) = syncDraw  BY <1>4 DEF AirInv, Credited
  <2> QED  BY <1>3, <1>4, <2>1 DEF AirInv
<1>5. CASE BeginsDeep(h)
  <2> DEFINE d == ((Charged(air) - bp) * air.load) \div 100
  <2>1. d \in Nat  BY <1>5, CreditTyped DEF BeginsDeep, AirInv
  <2>2. Credited(h) = Least(syncDraw + d, 2 * Band(air))  BY <1>5 DEF BeginsDeep, Credited
  <2>3. d >= (Band(air) * AIRBRAKE_SYNC_BAND_PCT) \div 100  BY <1>5 DEF BeginsDeep, Deep
  <2> HIDE DEF d
  <2>4. Credited(h) >= (Band(air) * AIRBRAKE_SYNC_BAND_PCT) \div 100
    BY <1>1, <1>2, <2>1, <2>2, <2>3 DEF Least, AIRBRAKE_SYNC_BAND_PCT
  <2> QED  BY <1>3, <2>4 DEF Deep
<1> QED  BY <1>4, <1>5

LEMMA TickKeepsOwed ==
  ASSUME AirInv, NEW h \in Handles, AirTick(h),
         owed' = (Recharges(h) /\ (owed \/ BeginsDeep(h)) /\ ~(compressor /\ ~compressor'))
  PROVE  /\ owed' => recharging' /\ Deep(air', syncDraw')
         /\ compressor' /\ ~compressor /\ owed' => deepRun'
<1> SUFFICES ASSUME owed'
             PROVE  /\ recharging' /\ Deep(air', syncDraw')
                    /\ compressor' /\ ~compressor => deepRun'
  OBVIOUS
<1>1. Recharges(h) /\ (owed \/ BeginsDeep(h)) /\ ~(compressor /\ ~compressor')
  OBVIOUS
<1>2. Deep(air, Decayed(h))  BY <1>1, OwedIsDeep
<1>3. compressor' = CompressorNow(h)  BY DEF AirTick
<1>4. syncDraw' = Decayed(h) /\ air' = air /\ recharging'
  BY <1>1, <1>3 DEF AirTick
<1>5. Deep(air', syncDraw')  BY <1>2, <1>4
<1>6. compressor' /\ ~compressor => deepRun'  BY <1>2, <1>3 DEF AirTick
<1> QED  BY <1>4, <1>5, <1>6

LEMMA InitAirInv == AirAssumption /\ AHInit => AirInv
BY InitTyped DEF AirInv, AHInit

LEMMA NextAirInv ==
  AirInv /\ [AHNext]_airall => AirInv' /\ (compressor' /\ ~compressor /\ owed' => deepRun')
<1> SUFFICES ASSUME AirInv, [AHNext]_airall
             PROVE  AirInv' /\ (compressor' /\ ~compressor /\ owed' => deepRun')
  OBVIOUS
<1>1. AirAssumption /\ AirTypeOK  BY DEF AirInv
<1>2. CASE AHTick
  <2>1. PICK h \in Handles :
          /\ AirTick(h)
          /\ resting' = h.rest /\ calm' = (h.rest = resting)
          /\ owed' = (Recharges(h) /\ (owed \/ BeginsDeep(h)) /\ ~(compressor /\ ~compressor'))
    BY <1>2 DEF AHTick
  <2>2. {resting', calm', owed'} \subseteq BOOLEAN
    BY <1>1, <2>1, HandleTyped
  <2>3. AirTypeOK'  BY <1>1, <2>1, <2>2, TickTyped
  <2>4. /\ owed' => recharging' /\ Deep(air', syncDraw')
        /\ compressor' /\ ~compressor /\ owed' => deepRun'
    BY <2>1, TickKeepsOwed
  <2> QED  BY <1>1, <2>3, <2>4 DEF AirInv, Deep, Band, CutOut, CutIn
<1>3. CASE AHSettings
  <2>1. AirTypeOK'  BY <1>1, <1>3, SettingsStepTyped
  <2>2. ~owed'  BY <1>3 DEF AHSettings
  <2> QED  BY <1>1, <2>1, <2>2 DEF AirInv
<1>4. CASE UNCHANGED airall
  BY <1>1, <1>4 DEF airall, airvars, airhist, AirInv, AirTypeOK, Deep, Band, CutOut, CutIn
<1> QED  BY <1>2, <1>3, <1>4 DEF AHNext

-----------------------------------------------------------------------------
(* The theorems.                                                            *)

LEMMA AlwaysAirInv == AirAssumption => (AHSpec => []AirInv)
<1>1. AirInv /\ [AHNext]_airall => AirInv'  BY NextAirInv
<1> QED  BY InitAirInv, <1>1, PTL DEF AHSpec

\* Pressures, credit and pulse stay in their types, for any settings and scale:
\* nothing goes below zero, and the credit never exceeds twice the widest band.
THEOREM AirTypes == AirAssumption => (AHSpec => []AirTypeOK)
<1>1. AirInv => AirTypeOK  BY DEF AirInv
<1> QED  BY AlwaysAirInv, <1>1, PTL

\* The compressor run a deep recharge causes is always classified as deep.
THEOREM DeepAlwaysMarked == AirAssumption => (AHSpec => DeepRunsMarked)
<1>1. AirInv /\ [AHNext]_airall => [compressor' /\ ~compressor /\ owed' => deepRun']_airall
  BY NextAirInv
<1> QED  BY AlwaysAirInv, <1>1, PTL DEF AHSpec, DeepRunsMarked

-----------------------------------------------------------------------------
\* No value of ram is one that readConfig() would replace.
NothingHeals(c) == \A i \in DOMAIN Healed : c[i] = 255 => Healed[i] = 255

Known(c) == c \in [Items -> Byte] /\ c["TYPE"] \in 0..(TypeCount - 1)

\* The inductive invariant.
SInv ==
    /\ STypeOK
    /\ Known(ram) /\ Known(ee)
    /\ NothingHeals(ram) /\ NothingHeals(ee)
    /\ ForeignInert
    /\ committed = Commit(ee, eeDisplay)

-----------------------------------------------------------------------------
(* The operators.                                                           *)

LEMMA HealedDomain ==
    DOMAIN Healed = {"MAX_MPH", "UNIT", "TYPE", "STOP_FN", "OPLOAD_FN", "PRLOAD_FN",
                     "DECEL_THRESHOLD", "DECEL_PCT", "ACCEL_PCT", "ACCEL_TARGET"}
  BY DEF Healed

LEMMA HealedTyped ==
    \A i \in DOMAIN Healed : Healed[i] \in Byte /\ i \in Items
  BY HealedDomain DEF Healed, Byte, OFF, V5DCC, Items, Agnostic, Esu, AdvGated

LEMMA DefaultsTyped ==
    \A i \in Items : ItemDefault(i) \in Byte /\ ItemInert(i) \in Byte
  BY DEF ItemDefault, ItemInert, Byte, OFF

\* A profile as readConfig() reads it is typed, of a known family, and settled.
LEMMA SlotRead ==
    ASSUME NEW e \in [Items -> Byte], e["TYPE"] \in 0..(TypeCount - 1) \union {255}
    PROVE  Known(ReadSlot(e)) /\ NothingHeals(ReadSlot(e))
  <1>1. ReadSlot(e) \in [Items -> Byte]
    BY HealedTyped DEF ReadSlot, ReadByte, Byte
  <1>2. "TYPE" \in Items /\ "TYPE" \in DOMAIN Healed /\ Healed["TYPE"] = 0
    BY HealedDomain DEF Items, Agnostic, Healed, V5DCC
  <1>3. ReadSlot(e)["TYPE"] \in 0..(TypeCount - 1)
    BY <1>2 DEF ReadSlot, ReadByte, TypeCount
  <1>4. NothingHeals(ReadSlot(e))
    BY HealedTyped DEF NothingHeals, ReadSlot, ReadByte
  <1> QED  BY <1>1, <1>3, <1>4 DEF Known

\* What readConfig() has settled it reads unchanged.
LEMMA SlotSettled ==
    ASSUME NEW c \in [Items -> Byte], NothingHeals(c)
    PROVE  ReadSlot(c) = c
  BY DEF NothingHeals, ReadSlot, ReadByte

LEMMA InertKeepsType ==
    ASSUME NEW c \in [Items -> Byte], Known(c)
    PROVE  /\ Known(ApplyTypeInert(c))
           /\ SpeedType(ApplyTypeInert(c)) = SpeedType(c)
  <1>1. "TYPE" \in Items /\ "TYPE" \notin Droppable
    BY DEF Items, Agnostic, Droppable
  <1>2. ApplyTypeInert(c) \in [Items -> Byte]
    BY DefaultsTyped DEF ApplyTypeInert
  <1>3. ApplyTypeInert(c)["TYPE"] = c["TYPE"]
    BY <1>1 DEF ApplyTypeInert
  <1> QED  BY <1>2, <1>3 DEF Known, SpeedType

\* Forcing a family's missing parameters makes them inert and heals nothing.
LEMMA InertSettles ==
    ASSUME NEW c \in [Items -> Byte], Known(c), NothingHeals(c)
    PROVE  /\ NothingHeals(ApplyTypeInert(c))
           /\ \A i \in Droppable \ ModelItems(SpeedType(c)) :
                 ApplyTypeInert(c)[i] = ItemInert(i)
  <1>1. Droppable \subseteq Items
    BY DEF Droppable, Items, Esu, AdvGated, Agnostic
  <1>2. \A i \in DOMAIN Healed : i \in Droppable => Healed[i] = 255
    BY HealedDomain DEF Healed, Droppable, OFF
  <1>3. NothingHeals(ApplyTypeInert(c))
    BY <1>2, HealedTyped DEF NothingHeals, ApplyTypeInert
  <1> QED  BY <1>1, <1>3 DEF ApplyTypeInert

\* Where the missing parameters are inert already, forcing them changes nothing.
LEMMA InertIdle ==
    ASSUME NEW c \in [Items -> Byte],
           \A i \in Droppable \ ModelItems(SpeedType(c)) : c[i] = ItemInert(i)
    PROVE  ApplyTypeInert(c) = c
  BY DEF ApplyTypeInert

LEMMA LoadTyped == \A c : TypeHasLoad(c) \in BOOLEAN
  BY DEF TypeHasLoad

\* A committed copy is typed, and reading the profile it came from again leaves it.
LEMMA Committed ==
    ASSUME NEW e \in [Items -> Byte], e["TYPE"] \in 0..(TypeCount - 1) \union {255},
           NEW d \in BOOLEAN
    PROVE  /\ Commit(e, d) \in [op : Byte, pr : Byte, eligible : BOOLEAN]
           /\ Commit(ReadSlot(e), d) = Commit(e, d)
  <1>1. Known(ReadSlot(e)) /\ NothingHeals(ReadSlot(e))
    BY SlotRead
  <1>2. ReadSlot(ReadSlot(e)) = ReadSlot(e)
    BY <1>1, SlotSettled DEF Known
  <1>3. ApplyTypeInert(ReadSlot(e)) \in [Items -> Byte]
    BY <1>1, InertKeepsType DEF Known
  <1>4. "OPLOAD_FN" \in Items /\ "PRLOAD_FN" \in Items
    BY DEF Items, Esu
  <1> QED  BY <1>2, <1>3, <1>4, LoadTyped DEF Commit

-----------------------------------------------------------------------------
(* Every step keeps the invariant: first the ones that end in readConfig(). *)

LEMMA ReadConfigStep ==
    ASSUME NEW e \in [Items -> Byte], e["TYPE"] \in 0..(TypeCount - 1) \union {255},
           NEW d \in BOOLEAN, NEW f \in BOOLEAN,
           ReadConfig(e, d, f), UNCHANGED <<mode, advFunc>>, STypeOK
    PROVE  SInv'
  <1> DEFINE r == ReadSlot(e)
  <1>1. Known(r) /\ NothingHeals(r) /\ r \in [Items -> Byte]
    BY SlotRead DEF Known
  <1>2. ee' = r /\ ram' = ApplyTypeInert(r) /\ eeDisplay' = d /\ committed' = Commit(e, d)
    BY DEF ReadConfig
  <1> HIDE DEF r
  <1>3. Known(ram') /\ SpeedType(ram') = SpeedType(r)
    BY <1>1, <1>2, InertKeepsType
  <1>4. NothingHeals(ram') /\ ForeignInert'
    BY <1>1, <1>2, <1>3, InertSettles DEF ForeignInert
  <1>5. committed' = Commit(ee', eeDisplay')
    BY <1>2, Committed DEF r
  <1>6. committed' \in [op : Byte, pr : Byte, eligible : BOOLEAN]
    BY <1>2, Committed
  <1>7. STypeOK'
    BY <1>1, <1>2, <1>3, <1>6 DEF STypeOK, Known, ReadConfig
  <1>8. Known(ee') /\ NothingHeals(ee')
    BY <1>1, <1>2
  <1> QED  BY <1>3, <1>4, <1>5, <1>7, <1>8 DEF SInv, Known, NothingHeals

LEMMA InitSInv == SInit => SInv
  <1> SUFFICES ASSUME SInit PROVE SInv
    OBVIOUS
  <1>1. PICK p \in Profiles : ee = ReadSlot(p)
    BY DEF SInit
  <1>2. p \in [Items -> Byte] /\ p["TYPE"] \in 0..(TypeCount - 1) \union {255}
    BY SpeedScreenAssumption
  <1>3. Known(ee) /\ NothingHeals(ee) /\ ee \in [Items -> Byte]
    BY <1>1, <1>2, SlotRead DEF Known
  <1>4. ram = ApplyTypeInert(ee) /\ committed = Commit(ee, eeDisplay) /\ eeDisplay \in BOOLEAN
    BY DEF SInit
  <1>5. Known(ram) /\ SpeedType(ram) = SpeedType(ee)
    BY <1>3, <1>4, InertKeepsType
  <1>6. NothingHeals(ram) /\ ForeignInert
    BY <1>3, <1>4, <1>5, InertSettles DEF ForeignInert
  <1>7. committed \in [op : Byte, pr : Byte, eligible : BOOLEAN]
    BY <1>3, <1>4, Committed DEF Known
  <1>8. STypeOK
    BY <1>3, <1>5, <1>7 DEF SInit, STypeOK, Known
  <1> QED  BY <1>3, <1>4, <1>5, <1>6, <1>8 DEF SInv

LEMMA ChangeStep ==
    ASSUME SInv, NEW i \in DOMAIN Samples, Change(i)
    PROVE  SInv'
  <1>1. PICK v \in Samples[i] \intersect Editable(i) : ram' = [ram EXCEPT ![i] = v]
    BY DEF Change
  <1>2. i \in Items /\ i # "TYPE" /\ i \in ItemsShown(ram)
    BY SpeedScreenAssumption DEF Change
  <1>3. v \in Byte
    BY <1>1 DEF Editable, Byte, OFF
  <1>4. ram' \in [Items -> Byte] /\ ram'["TYPE"] = ram["TYPE"]
    BY <1>1, <1>2, <1>3 DEF SInv, Known
  <1>5. i \in DOMAIN Healed /\ v = 255 => Healed[i] = 255
    BY <1>1, <1>2, HealedDomain DEF Healed, Editable, OFF, WatchFns, SignedAdjs, FullRange
  <1>6. NothingHeals(ram')
    BY <1>1, <1>4, <1>5, HealedTyped DEF SInv, NothingHeals, Known
  <1>7. i \notin Droppable \ ModelItems(SpeedType(ram))
    BY <1>2 DEF ItemsShown, Droppable, Agnostic
  <1>8. SpeedType(ram') = SpeedType(ram)
    BY <1>4 DEF SpeedType
  <1>9. ForeignInert'
    BY <1>1, <1>7, <1>8 DEF ForeignInert, SInv, Known
  <1>10. UNCHANGED <<ee, display, eeDisplay, onLoad, eeOnLoad, committed, mode, advFunc, screen>>
    BY DEF Change
  <1>11. STypeOK'
    BY <1>4, <1>10 DEF SInv, STypeOK
  <1> QED  BY <1>4, <1>6, <1>9, <1>10, <1>11 DEF SInv, Known, NothingHeals, Commit

\* What a change of family re-initialises.
LEMMA ResetSettles ==
    ASSUME NEW c \in [Items -> Byte], NothingHeals(c),
           NEW old \in 0..(TypeCount - 1), NEW new \in 0..(TypeCount - 1),
           old + 1 = new \/ new + 1 = old, c["TYPE"] = new,
           \A i \in Droppable \ ModelItems(old) : c[i] = ItemInert(i)
    PROVE  /\ Known(ResetModel(c, old, new)) /\ NothingHeals(ResetModel(c, old, new))
           /\ \A i \in Droppable \ ModelItems(new) : ResetModel(c, old, new)[i] = ItemInert(i)
  <1> DEFINE r == ResetModel(c, old, new)
  <1>1. r = [i \in Items |-> IF i \in ModelItems(old) \ ModelItems(new) THEN ItemInert(i)
                             ELSE IF i \in ModelItems(new) \ ModelItems(old) THEN ItemDefault(i)
                             ELSE c[i]]
    BY DEF ResetModel
  <1> HIDE DEF r
  <1>2. r \in [Items -> Byte]
    BY <1>1, DefaultsTyped
  <1>3. "TYPE" \in Items /\ \A x : "TYPE" \notin ModelItems(x)
    BY DEF Items, Agnostic, ModelItems, Esu, EsuV4, AdvGated
  <1>4. Known(r)
    BY <1>1, <1>2, <1>3 DEF Known
  <1>5. \A i \in DOMAIN Healed :
          i \in ModelItems(old) \ ModelItems(new) \/ i \in ModelItems(new) \ ModelItems(old)
            => Healed[i] = 255
    BY HealedDomain DEF Healed, OFF, ModelItems, Esu, EsuV4, AdvGated
  <1>6. NothingHeals(r)
    BY <1>1, <1>5, HealedTyped DEF NothingHeals
  <1>7. ASSUME NEW i \in Droppable \ ModelItems(new) PROVE r[i] = ItemInert(i)
    <2>1. i \in Items
      BY DEF Droppable, Items, Esu
    <2>2. CASE i \in ModelItems(old)
      BY <1>1, <2>1, <2>2
    <2>3. CASE i \notin ModelItems(old)
      BY <1>1, <2>1, <2>3
    <2> QED  BY <2>2, <2>3
  <1> QED  BY <1>4, <1>6, <1>7 DEF r

LEMMA StepTypeStep ==
    ASSUME SInv, StepType
    PROVE  SInv'
  <1>1. PICK t \in Byte :
          /\ (t = ram["TYPE"] + 1 /\ t < TypeCount) \/ t + 1 = ram["TYPE"]
          /\ ram' = ResetModel([ram EXCEPT !["TYPE"] = t], ram["TYPE"], t)
    BY DEF StepType
  <1> DEFINE c == [ram EXCEPT !["TYPE"] = t]
             old == ram["TYPE"]
  <1>2. /\ old \in 0..(TypeCount - 1) /\ t \in 0..(TypeCount - 1)
        /\ old + 1 = t \/ t + 1 = old
    BY <1>1 DEF SInv, Known, TypeCount, Byte
  <1>3. "TYPE" \in Items /\ "TYPE" \notin Droppable
    BY DEF Items, Agnostic, Droppable
  <1>4. c \in [Items -> Byte] /\ c["TYPE"] = t
    BY <1>3 DEF SInv, Known
  <1>5. NothingHeals(c)
    BY <1>2, HealedTyped DEF NothingHeals, SInv, Known, TypeCount
  <1>6. SpeedType(ram) = old
    BY <1>2 DEF SpeedType, TypeCount
  <1>7. \A i \in Droppable \ ModelItems(old) : c[i] = ItemInert(i)
    BY <1>3, <1>6 DEF SInv, ForeignInert, Known
  <1> HIDE DEF c
  <1>8. /\ Known(ram') /\ NothingHeals(ram')
        /\ \A i \in Droppable \ ModelItems(t) : (ram')[i] = ItemInert(i)
    <2>1. ram' = ResetModel(c, old, t)
      BY ONLY <1>1 DEF c
    <2>2. /\ Known(ResetModel(c, old, t)) /\ NothingHeals(ResetModel(c, old, t))
          /\ \A i \in Droppable \ ModelItems(t) : ResetModel(c, old, t)[i] = ItemInert(i)
      BY ONLY <1>2, <1>4, <1>5, <1>7, ResetSettles
    <2> QED  BY ONLY <2>1, <2>2
  <1>9. (ram')["TYPE"] = t
    BY <1>1, <1>2, <1>3, <1>4 DEF ResetModel, c, ModelItems, Esu, EsuV4, AdvGated
  <1>10. SpeedType(ram') = t
    BY <1>2, <1>9 DEF SpeedType, TypeCount
  <1>11. ForeignInert'
    BY <1>8, <1>10 DEF ForeignInert
  <1>12. UNCHANGED <<ee, display, eeDisplay, onLoad, eeOnLoad, committed, mode, advFunc, screen>>
    BY DEF StepType
  <1>13. STypeOK'
    BY <1>8, <1>12 DEF SInv, STypeOK, Known
  <1> QED  BY <1>8, <1>11, <1>12, <1>13 DEF SInv, Known, NothingHeals, Commit

\* Steps that leave the settings, the store and the committed copy alone.
LEMMA QuietStep ==
    ASSUME SInv, UNCHANGED <<ram, ee, eeDisplay, committed>>, STypeOK'
    PROVE  SInv'
  BY DEF SInv, Known, NothingHeals, ForeignInert, Commit

LEMMA SaveStep ==
    ASSUME SInv, Save
    PROVE  SInv'
  <1>1. UNCHANGED <<mode, advFunc>> /\ STypeOK /\ screen \in {"SPEED", "PREFS", "FUNC"}
    BY DEF SInv, STypeOK, Save
  <1>2. /\ ram \in [Items -> Byte] /\ ram["TYPE"] \in 0..(TypeCount - 1)
        /\ ee \in [Items -> Byte] /\ ee["TYPE"] \in 0..(TypeCount - 1)
    BY DEF SInv, Known
  <1>3. {display, eeDisplay, onLoad, eeOnLoad} \subseteq BOOLEAN
    BY <1>1 DEF STypeOK
  <1>4. CASE screen = "SPEED"
    <2>1. ReadConfig(ram, eeDisplay, eeOnLoad /\ TypeHasLoad(ram))
      BY <1>4 DEF Save
    <2>2. (eeOnLoad /\ TypeHasLoad(ram)) \in BOOLEAN
      OBVIOUS
    <2> QED  BY <1>1, <1>2, <1>3, <2>1, <2>2, ReadConfigStep
  <1>5. CASE screen = "PREFS"
    <2>1. ReadConfig(ee, display, eeOnLoad /\ display)
      BY <1>5 DEF Save
    <2>2. (eeOnLoad /\ display) \in BOOLEAN
      OBVIOUS
    <2> QED  BY <1>1, <1>2, <1>3, <2>1, <2>2, ReadConfigStep
  <1>6. CASE screen = "FUNC"
    <2>1. ReadConfig(ee, eeDisplay, onLoad)
      BY <1>6 DEF Save
    <2> QED  BY <1>1, <1>2, <1>3, <2>1, ReadConfigStep
  <1> QED  BY <1>1, <1>4, <1>5, <1>6

LEMMA NextSInv == SInv /\ [SNext]_sVars => SInv'
  <1> SUFFICES ASSUME SInv, [SNext]_sVars PROVE SInv'
    OBVIOUS
  <1>1. CASE UNCHANGED sVars
    BY <1>1, QuietStep DEF sVars, SInv, STypeOK
  <1>2. ASSUME NEW s \in {"SPEED", "PREFS", "FUNC"}, Enter(s) PROVE SInv'
    BY <1>2, QuietStep DEF Enter, SInv, STypeOK
  <1>3. ASSUME NEW i \in DOMAIN Samples, Change(i) PROVE SInv'
    BY <1>3, ChangeStep
  <1>4. CASE StepType
    BY <1>4, StepTypeStep
  <1>5. CASE BrowseDisplay
    BY <1>5, QuietStep DEF BrowseDisplay, SInv, STypeOK
  <1>6. CASE BrowseFunction
    BY <1>6, QuietStep DEF BrowseFunction, SInv, STypeOK
  <1>7. CASE Save
    BY <1>7, SaveStep
  <1>8. CASE Dismiss
    BY <1>8, ReadConfigStep DEF Dismiss, SInv, STypeOK, Known
  <1>9. CASE LoadProfile
    <2>1. PICK p \in Profiles, f \in BOOLEAN : ReadConfig(p, eeDisplay, f)
      BY <1>9 DEF LoadProfile
    <2> QED  BY <1>9, <2>1, SpeedScreenAssumption, ReadConfigStep DEF LoadProfile, SInv, STypeOK
  <1>10. CASE PressLoad
    BY <1>10, QuietStep DEF PressLoad, AdvanceLoadMode, SInv, STypeOK
  <1> QED  BY <1>1, <1>2, <1>3, <1>4, <1>5, <1>6, <1>7, <1>8, <1>9, <1>10 DEF SNext

-----------------------------------------------------------------------------
(* The theorems.                                                            *)

LEMMA AlwaysSInv == SSpec => []SInv
  BY InitSInv, NextSInv, PTL DEF SSpec

\* The types of the screen's variables, for any profiles and any values edited.
THEOREM ScreenTypes == SSpec => []STypeOK
<1>1. SInv => STypeOK  BY DEF SInv
<1> QED  BY AlwaysSInv, <1>1, PTL

\* A parameter the decoder family of the settings in use does not have is
\* always inert: while TYPE is browsed, and after any profile was read.
THEOREM ForeignAlwaysInert == SSpec => []ForeignInert
<1>1. SInv => ForeignInert  BY DEF SInv
<1> QED  BY AlwaysSInv, <1>1, PTL

\* Whatever was edited, SAVE leaves exactly it in force: no value an editor
\* reaches is taken for an erased byte or belongs to another family.
THEOREM SavedIsInForce == SSpec => EditsStick
<1>1. SInv /\ [SNext]_sVars => [screen = "SPEED" /\ Save => ram' = ram]_sVars
  <2> SUFFICES ASSUME SInv, screen = "SPEED", Save PROVE ram' = ram
    OBVIOUS
  <2>1. ram' = ApplyTypeInert(ReadSlot(ram))
    BY DEF Save, ReadConfig
  <2>2. ReadSlot(ram) = ram
    BY SlotSettled DEF SInv, Known
  <2>3. ApplyTypeInert(ram) = ram
    BY InertIdle DEF SInv, Known, ForeignInert
  <2> QED  BY <2>1, <2>2, <2>3
<1> QED  BY AlwaysSInv, <1>1, PTL DEF SSpec, EditsStick

\* Whatever is being browsed, the LOAD button asserts what the stored profile
\* and the stored display option say.
THEOREM LoadAlwaysFollowsStore == SSpec => []LoadFollowsStore
<1>1. SInv => LoadFollowsStore
  <2> SUFFICES ASSUME SInv, onLoad
               PROVE  Asserted = IF eeDisplay /\ TypeHasLoad(ee)
                                   THEN LoadFunction(mode, ee["OPLOAD_FN"], ee["PRLOAD_FN"])
                                   ELSE {}
    BY DEF LoadFollowsStore
  <2> DEFINE c == ApplyTypeInert(ee)
  <2>1. ReadSlot(ee) = ee
    BY SlotSettled DEF SInv, Known
  <2>2. committed = [op |-> c["OPLOAD_FN"], pr |-> c["PRLOAD_FN"],
                     eligible |-> eeDisplay /\ TypeHasLoad(c)]
    BY <2>1 DEF SInv, Commit
  <2>3. SpeedType(c) = SpeedType(ee)
    BY InertKeepsType DEF SInv, Known
  <2>4. TypeHasLoad(c) <=> TypeHasLoad(ee)
    BY <2>3 DEF TypeHasLoad
  <2>5. TypeHasLoad(ee) => c["OPLOAD_FN"] = ee["OPLOAD_FN"] /\ c["PRLOAD_FN"] = ee["PRLOAD_FN"]
    BY DEF ApplyTypeInert, TypeHasLoad, ModelItems, Esu, EsuV4, AdvGated, Items
  <2> HIDE DEF c
  <2>6. LoadActive <=> eeDisplay /\ TypeHasLoad(ee)
    BY <2>2, <2>4 DEF LoadActive
  <2> QED  BY <2>2, <2>5, <2>6 DEF Asserted
<1> QED  BY AlwaysSInv, <1>1, PTL

-----------------------------------------------------------------------------
(* The speed simulation.                                                    *)

\* The CVs and tunables, each a byte.
CVs == [accel : Bytes, accelAdj : Bytes, decel : Bytes, decelAdj : Bytes,
        brake : [1 .. 3 -> Bytes], delay : Bytes, maxMph : Bytes, opload : Bytes,
        prload : Bytes, accPct : Bytes, accTarget : Bytes, decPct : Bytes, decThr : Bytes]

\* The coefficients of a climb.
Climb(r) == /\ r.P \in Int /\ r.Q \in Int /\ r.r0 \in Int
            /\ r.T \in Nat /\ r.S \in Nat

\* The types of the state, part by part.
SettingsFit == cv \in CVs /\ cv.delay \in Delays
MotionFits ==
  /\ sim \in 0 .. Span /\ delayMs \in Nat /\ delayMs < 250 * 255
  /\ armed \in BOOLEAN /\ ramping \in BOOLEAN
ClimbFits == rampTick \in Nat /\ Climb(ramp) /\ (ramping => ramp.T > 0)
DdaFits == dda \in [ticks : Nat, rest : Nat] /\ (dda.rest = 0 \/ dda.rest < dda.ticks)
BrakesFit == extra \in Nat /\ brakeWas \in [on : BOOLEAN, sum : 0 .. 255]
StopsFit == halted \in BOOLEAN /\ steady \in BOOLEAN /\ stood \in 0 .. MaxStood

SpeedFits == SettingsFit /\ MotionFits /\ ClimbFits /\ DdaFits /\ BrakesFit /\ StopsFit

\* The Start Delay has run its time, but for the tick that departs.
Served == 100 * (stood + 1) >= 250 * cv.delay

\* A halted train stands, and its delay is yet to begin, runs in step with the time stood, or
\* is served.
DelayInStep ==
  halted => /\ sim = 0
            /\ \/ armed /\ ~ramping /\ (delayMs = 0 \/ delayMs + 100 * stood >= 250 * cv.delay)
               \/ Served

\* A correction that is kept was captured under the brakes of the last tick.
CaptureInStep ==
  extra # 0 => regime = <<brakeWas.on, IF brakeWas.on THEN brakeWas.sum ELSE 0>>

\* The inductive invariant.
SpeedInv == SpeedHistoryAssumption /\ SpeedFits /\ DelayInStep /\ CaptureInStep

\* The products of the cubic, kept apart for the solver.
LEMMA IntegerProducts ==
  ASSUME NEW a \in Int, NEW b \in Int
  PROVE  a * b \in Int
OBVIOUS

\* A product of denominators is a denominator.
LEMMA PositiveProducts ==
  ASSUME NEW a \in Nat \ {0}, NEW b \in Nat \ {0}
  PROVE  a * b \in Nat \ {0}
OBVIOUS

\* C's division, toward zero.
LEMMA QuotientTyped ==
  ASSUME NEW a \in Int, NEW b \in Nat \ {0}
  PROVE  Quotient(a, b) \in Int
BY DEF Quotient

\* The scale of the simulation.
LEMMA SpanTyped ==
  ASSUME SpeedAssumption
  PROVE  Steps \in Nat \ {0} /\ Unit \in Nat \ {0} /\ Word \in Nat \ {0} /\ Span \in Nat \ {0}
         /\ Multiplier \in Nat \ {0} /\ SPEED_MAX_MPH_DEFAULT \in Nat \ {0}
         /\ SPEED_CEIL_FADE_DEN \in Nat \ {0}
<1>1. Steps \in Nat \ {0} /\ Unit \in Nat \ {0} /\ Multiplier \in Nat \ {0}
      /\ SPEED_MAX_MPH_DEFAULT \in Nat \ {0} /\ SPEED_CEIL_FADE_DEN \in Nat \ {0}
      /\ Word \in Nat /\ Word > Steps * Unit
  BY DEF SpeedAssumption
<1>2. Steps * Unit \in Nat \ {0}  BY ONLY <1>1, PositiveProducts
<1>3. Word \in Nat \ {0}  BY ONLY <1>1, <1>2
<1> QED  BY ONLY <1>1, <1>2, <1>3 DEF Span

\* What a tick reads.
LEMMA InputTyped ==
  ASSUME SpeedAssumption, NEW h \in Inputs
  PROVE  h.demand \in 0 .. Steps /\ h.brakes \in SUBSET (1 .. 3)
         /\ h.load \in {"none", "opload", "prload"}
BY DEF SpeedAssumption

\* A demanded step is a speed within the span.
LEMMA TargetInSpan ==
  ASSUME SpeedAssumption, NEW h \in Inputs
  PROVE  Target(h) \in 0 .. Span
<1>1. h.demand \in 0 .. Steps  BY InputTyped
<1>2. Steps \in Nat /\ Unit \in Nat  BY SpanTyped
<1>3. h.demand * Unit \in Nat  BY ONLY <1>1, <1>2, Products
<1>4. h.demand * Unit <= Steps * Unit  BY ONLY <1>1, <1>2, ProductsGrow
<1>5. Span \in Nat  BY SpanTyped
<1> QED  BY ONLY <1>3, <1>4, <1>5 DEF Target, Span

\* The settings, field by field.
LEMMA CVTyped ==
  ASSUME cv \in CVs
  PROVE  /\ cv.accel \in 0 .. 255 /\ cv.accelAdj \in 0 .. 255 /\ cv.decel \in 0 .. 255
         /\ cv.decelAdj \in 0 .. 255 /\ cv.delay \in 0 .. 255 /\ cv.maxMph \in 0 .. 255
         /\ cv.opload \in 0 .. 255 /\ cv.prload \in 0 .. 255 /\ cv.accPct \in 0 .. 255
         /\ cv.accTarget \in 0 .. 255 /\ cv.decPct \in 0 .. 255 /\ cv.decThr \in 0 .. 255
         /\ cv.brake \in [1 .. 3 -> 0 .. 255]
BY DEF CVs, Bytes

\* A CV with its adjustment stays a natural number, however negative the adjustment.
LEMMA AdjustedTyped ==
  ASSUME NEW b \in 0 .. 255, NEW a \in 0 .. 255
  PROVE  AdjustedCV(b, a) \in Nat
BY DEF AdjustedCV, Lesser

\* The effective momentum CVs.
LEMMA EffTyped ==
  ASSUME cv \in CVs
  PROVE  EffAccel \in Nat /\ EffDecel \in Nat
<1>1. cv.accel \in 0 .. 255 /\ cv.accelAdj \in 0 .. 255 /\ cv.decel \in 0 .. 255
      /\ cv.decelAdj \in 0 .. 255
  BY CVTyped
<1> QED  BY ONLY <1>1, AdjustedTyped DEF EffAccel, EffDecel

\* The share left of a correction near the CV's ceiling: its denominator is never 0.
LEMMA FadeTyped ==
  ASSUME SpeedAssumption, NEW eff \in Nat
  PROVE  CeilFade(eff) \in Nat
<1> DEFINE lo == SPEED_CEIL_FADE_LO
           hi == SPEED_CEIL_FADE_HI
           den == SPEED_CEIL_FADE_DEN
<1>1. lo \in Nat /\ hi \in Nat /\ lo < hi  BY DEF SpeedAssumption
<1>2. den \in Nat  BY SpanTyped
<1>3. CASE eff > lo /\ eff < hi
  <2>1. hi - eff \in Nat /\ hi - lo \in Nat \ {0}  BY ONLY <1>1, <1>3
  <2>2. den * (hi - eff) \in Nat  BY ONLY <1>2, <2>1, Products
  <2>3. (den * (hi - eff)) \div (hi - lo) \in Nat  BY ONLY <2>1, <2>2, Quotients
  <2> QED  BY ONLY <1>2, <2>3 DEF CeilFade
<1>4. CASE ~(eff > lo /\ eff < hi)  BY ONLY <1>1, <1>2, <1>4 DEF CeilFade
<1> QED  BY ONLY <1>3, <1>4

\* A load scales a momentum CV.
LEMMA LoadedTyped ==
  ASSUME cv \in CVs, NEW eff \in Nat, NEW load \in {"none", "opload", "prload"}
  PROVE  ApplyLoad(eff, load) \in Nat
<1> DEFINE k == CASE load = "prload" -> cv.prload
                  [] load = "opload" -> cv.opload
                  [] load = "none" -> 128
<1>1. k \in Nat  BY CVTyped
<1>2. ApplyLoad(eff, load) = (eff * k + 64) \div 128  BY DEF ApplyLoad
<1> HIDE DEF k
<1>3. eff * k \in Nat  BY ONLY <1>1, Products
<1> QED  BY ONLY <1>2, <1>3, Quotients

\* A momentum CV as ticks over the whole span.
LEMMA TicksTyped ==
  ASSUME SpeedAssumption, NEW eff \in Nat
  PROVE  TicksToCross(eff) \in Nat
<1>1. eff * Multiplier \in Nat  BY SpanTyped, Products
<1> QED  BY ONLY <1>1, Quotients DEF TicksToCross

\* A braked deceleration as ticks: the brakes never make it negative.
LEMMA BrakeTicksTyped ==
  ASSUME SpeedAssumption, NEW sum \in 0 .. 255, NEW eff \in Nat
  PROVE  BrakeTicksToCross(sum, eff) \in Nat
<1>1. 255 - sum \in Nat  OBVIOUS
<1>2. (255 - sum) * eff \in Nat  BY ONLY <1>1, Products
<1>3. Multiplier \in Nat  BY SpanTyped
<1>4. (255 - sum) * eff * Multiplier \in Nat  BY ONLY <1>2, <1>3, Products
<1>5. 255 * 100 \in Nat \ {0}  OBVIOUS
<1> QED  BY ONLY <1>4, <1>5, Quotients DEF BrakeTicksToCross

\* Any combination of the three brakes adds up to at most 255.
LEMMA BrakeSumTyped ==
  ASSUME cv \in CVs, NEW h
  PROVE  BrakeSum(h) \in 0 .. 255
<1>1. cv.brake \in [1 .. 3 -> 0 .. 255]  BY CVTyped
<1>2. cv.brake[1] \in 0 .. 255 /\ cv.brake[2] \in 0 .. 255 /\ cv.brake[3] \in 0 .. 255
  BY ONLY <1>1
<1>3. BrakeCV(1, h) \in 0 .. 255 /\ BrakeCV(2, h) \in 0 .. 255 /\ BrakeCV(3, h) \in 0 .. 255
  BY ONLY <1>2 DEF BrakeCV
<1> DEFINE a == BrakeCV(1, h)
           b == BrakeCV(2, h)
           c == BrakeCV(3, h)
<1>4. BrakeSum(h) = Lesser(255, a + b + c)  BY ONLY Zenon DEF BrakeSum
<1>5. a \in 0 .. 255 /\ b \in 0 .. 255 /\ c \in 0 .. 255  BY ONLY <1>3
<1> HIDE DEF a, b, c
<1> QED  BY ONLY <1>4, <1>5 DEF Lesser

\* The rates of a tick, none of which divides by 0.
LEMMA RatesTyped ==
  ASSUME SpeedAssumption, cv \in CVs, NEW h \in Inputs
  PROVE  AccelTicks(h) \in Nat /\ DecelTicks(h) \in Nat /\ Rate(h) \in Nat
<1>1. h.load \in {"none", "opload", "prload"}  BY InputTyped
<1>2. ApplyLoad(EffAccel, h.load) \in Nat /\ ApplyLoad(EffDecel, h.load) \in Nat
  BY <1>1, EffTyped, LoadedTyped
<1>3. AccelTicks(h) \in Nat /\ DecelTicks(h) \in Nat
  BY <1>2, TicksTyped, BrakeTicksTyped, BrakeSumTyped DEF AccelTicks, DecelTicks
<1>4. Word - 1 \in Nat /\ Span \in Nat  BY SpanTyped
<1>5. AccelTicks(h) > 0 => Span \div AccelTicks(h) \in Nat  BY ONLY <1>3, <1>4, Quotients
<1> QED  BY ONLY <1>3, <1>4, <1>5 DEF Rate

\* The speed at full step is never 0.
LEMMA MaxMphTyped ==
  ASSUME SpeedAssumption, cv \in CVs
  PROVE  MaxMph \in Nat \ {0}
BY CVTyped, SpanTyped DEF MaxMph

\* computeDelta() returns a natural number.
LEMMA DeltaTyped ==
  ASSUME SpeedAssumption, DdaFits, NEW ticks \in Nat
  PROVE  Delta(ticks) \in Nat
<1>1. Span \in Nat /\ Word - 1 \in Nat  BY SpanTyped
<1>2. ticks # 0 => Span \div ticks \in Nat  BY ONLY <1>1, Quotients
<1> QED  BY ONLY <1>1, <1>2 DEF Delta

\* computeDelta() leaves a remainder below its divisor.
LEMMA DdaStays ==
  ASSUME SpeedAssumption, DdaFits, NEW ticks \in Nat, dda' = NextDda(ticks)
  PROVE  DdaFits'
<1>1. Span \in Nat  BY SpanTyped
<1>2. dda.rest \in Nat  BY DEF DdaFits
<1>3. CASE ticks = 0  BY <1>3 DEF DdaFits, NextDda
<1>4. CASE ticks # 0
  <2>1. Carried(ticks) \in Nat  BY ONLY <1>1, <1>2, <1>4, ticks \in Nat DEF Carried
  <2>2. Carried(ticks) % ticks \in Nat /\ Carried(ticks) % ticks < ticks
    BY ONLY <2>1, <1>4, ticks \in Nat
  <2>3. dda' = [ticks |-> ticks, rest |-> Carried(ticks) % ticks]
    BY ONLY dda' = NextDda(ticks), <1>4 DEF NextDda
  <2> HIDE DEF Carried
  <2> QED  BY ONLY <2>2, <2>3, ticks \in Nat DEF DdaFits
<1> QED  BY ONLY <1>3, <1>4

\* The cubic, clamped: between 0 and the height of the climb.
LEMMA PositionTyped ==
  ASSUME NEW r, Climb(r), r.T > 0, NEW tau \in Nat
  PROVE  CubicRampPosition(tau, r) \in 0 .. r.S
<1> DEFINE num == tau * tau * (r.P * tau + r.Q)
           den == r.T * r.T * r.T
           pos == Quotient(num, den) + r.r0 * tau
<1>1. r.P \in Int /\ r.Q \in Int /\ r.r0 \in Int /\ r.T \in Nat \ {0} /\ r.S \in Nat
  BY DEF Climb
<1>2. num \in Int
  <2>1. tau * tau \in Int /\ r.P * tau \in Int  BY ONLY <1>1, tau \in Nat, IntegerProducts
  <2>2. r.P * tau + r.Q \in Int  BY ONLY <1>1, <2>1
  <2> QED  BY ONLY <2>1, <2>2, IntegerProducts
<1>3. den \in Nat \ {0}  BY ONLY <1>1, PositiveProducts
<1>4. r.r0 * tau \in Int  BY ONLY <1>1, tau \in Nat, IntegerProducts
<1>5. CubicRampPosition(tau, r) = IF pos < 0 THEN 0 ELSE Lesser(pos, r.S)
  BY DEF CubicRampPosition
<1> HIDE DEF num, den
<1>6. Quotient(num, den) \in Int  BY ONLY <1>2, <1>3, QuotientTyped
<1>7. pos \in Int  BY ONLY <1>4, <1>6
<1> HIDE DEF pos
<1> QED  BY ONLY <1>1, <1>5, <1>7 DEF Lesser

\* The slope that ACCTARGET asks for: its denominator is tau (T - tau)^2, never 0 where used.
LEMMA SlopeTyped ==
  ASSUME NEW r, Climb(r), r.T > 0, NEW tau \in Nat, NEW desired \in Nat
  PROVE  SolveRampR0(tau, r, desired) \in Int
<1> DEFINE base == CubicRampPosition(tau, r)
           f == tau * (tau - r.T) * (tau - r.T)
           num == (desired - base) * r.T * r.T + f - 1
<1>1. base \in Int /\ r.T \in Nat  BY PositionTyped DEF Climb
<1>2. SolveRampR0(tau, r, desired) =
        IF tau = 0 \/ tau >= r.T \/ base >= desired THEN 0 ELSE num \div f
  BY DEF SolveRampR0
<1>3. (desired - base) * r.T * r.T \in Int
  <2> HIDE DEF base
  <2>1. desired - base \in Int  BY ONLY <1>1, desired \in Nat
  <2>2. (desired - base) * r.T \in Int  BY ONLY <2>1, <1>1, IntegerProducts
  <2> QED  BY ONLY <2>2, <1>1, IntegerProducts
<1>4. CASE tau = 0 \/ tau >= r.T \/ base >= desired  BY ONLY <1>2, <1>4
<1>5. CASE ~(tau = 0 \/ tau >= r.T \/ base >= desired)
  <2>1. tau \in Nat \ {0} /\ tau < r.T  BY ONLY <1>1, <1>5, tau \in Nat
  <2>2. r.T - tau \in Nat \ {0}  BY ONLY <1>1, <2>1
  <2>3. (tau - r.T) * (tau - r.T) = (r.T - tau) * (r.T - tau)  BY ONLY <1>1, <2>1
  <2>4. f = tau * ((tau - r.T) * (tau - r.T))  BY ONLY <1>1, <2>1
  <2>5. (r.T - tau) * (r.T - tau) \in Nat \ {0}  BY ONLY <2>2, PositiveProducts
  <2>6. f \in Nat \ {0}  BY ONLY <2>1, <2>3, <2>4, <2>5, PositiveProducts
  <2> HIDE DEF f, base
  <2>7. num \in Int  BY ONLY <1>3, <2>6
  <2> HIDE DEF num
  <2>8. num \div f \in Int  BY ONLY <2>6, <2>7
  <2> QED  BY ONLY <1>2, <1>5, <2>8
<1> QED  BY ONLY <1>4, <1>5

\* A climb takes at least one tick.
LEMMA ClimbTicks ==
  ASSUME SpeedAssumption, cv \in CVs, NEW h \in Inputs, NEW S \in Nat
  PROVE  RampTicks(h, S) \in Nat \ {0}
<1> DEFINE a == AccelTicks(h)
           b == TicksToCross(EffAccel)
           share == (cv.accPct * Span) \div 255
           plain == (S * a) \div Span
           head == (share * Lesser(a, b)) \div Span
<1>1. a \in Nat /\ b \in Nat  BY RatesTyped, EffTyped, TicksTyped
<1>2. Span \in Nat \ {0} /\ cv.accPct \in Nat  BY SpanTyped, CVTyped
<1>3. share \in Nat
  <2>1. cv.accPct * Span \in Nat  BY ONLY <1>2, Products
  <2> QED  BY ONLY <2>1, Quotients
<1>4. RampTicks(h, S) = IF plain > head THEN plain - head ELSE 1  BY DEF RampTicks
<1> HIDE DEF a, b, share
<1>5. S * a \in Nat  BY ONLY <1>1, S \in Nat, Products
<1>6. Lesser(a, b) \in Nat  BY ONLY <1>1 DEF Lesser
<1>7. share * Lesser(a, b) \in Nat  BY ONLY <1>3, <1>6, Products
<1>8. plain \in Nat /\ head \in Nat  BY ONLY <1>2, <1>5, <1>7, Quotients
<1> HIDE DEF plain, head
<1> QED  BY ONLY <1>4, <1>8

\* Fading changes a climb's slopes, never its length or its height.
LEMMA FadedTyped ==
  ASSUME SpeedAssumption, cv \in CVs, NEW h \in Inputs,
         NEW r \in [P : Int, Q : Int, T : Nat, S : Nat, r0 : Int]
  PROVE  Climb(Faded(r, h)) /\ Faded(r, h).T = r.T
<1> DEFINE f == CeilFade(EffAccel)
           g == SPEED_CEIL_FADE_DEN
           v == Rate(h)
           flat == [r EXCEPT !.P = 0, !.Q = 0, !.r0 = v]
           p == (r.P * f) \div g
           q == (r.Q * f) \div g
           s == v + ((r.r0 - v) * f) \div g
           mix == [r EXCEPT !.P = p, !.Q = q, !.r0 = s]
<1>1. f \in Nat /\ v \in Nat /\ g \in Nat \ {0}
  BY EffTyped, FadeTyped, RatesTyped, SpanTyped
<1>2. Faded(r, h) = IF f = 0 THEN flat ELSE IF f < g THEN mix ELSE r
  BY DEF Faded
<1> HIDE DEF f, g, v
<1>3. p \in Int /\ q \in Int /\ s \in Int
  <2>1. r.P \in Int /\ r.Q \in Int /\ r.r0 \in Int  OBVIOUS
  <2>2. r.r0 - v \in Int  BY ONLY <1>1, <2>1
  <2>3. r.P * f \in Int /\ r.Q * f \in Int /\ (r.r0 - v) * f \in Int
    BY ONLY <1>1, <2>1, <2>2, IntegerProducts
  <2>4. p \in Int /\ q \in Int /\ ((r.r0 - v) * f) \div g \in Int  BY ONLY <1>1, <2>3
  <2> QED  BY ONLY <1>1, <2>4
<1> HIDE DEF p, q, s
<1>4. Climb(flat) /\ flat.T = r.T
  BY ONLY <1>1, r \in [P : Int, Q : Int, T : Nat, S : Nat, r0 : Int] DEF Climb
<1>5. Climb(mix) /\ mix.T = r.T
  BY ONLY <1>3, r \in [P : Int, Q : Int, T : Nat, S : Nat, r0 : Int] DEF Climb
<1>6. Climb(r)  BY DEF Climb
<1> HIDE DEF flat, mix
<1> QED  BY ONLY <1>2, <1>4, <1>5, <1>6

\* A climb that begins has whole coefficients and a length.
LEMMA NewClimb ==
  ASSUME SpeedAssumption, cv \in CVs, NEW h \in Inputs
  PROVE  Climb(NewRamp(h)) /\ NewRamp(h).T > 0
<1> DEFINE S == ((15 * Span) \div MaxMph) % Word
           T == RampTicks(h, S)
           v == Rate(h)
           P == v * T - 2 * S
           Q == 3 * S * T - v * T * T
           plain == [P |-> P, Q |-> Q, T |-> T, S |-> S, r0 |-> 0]
           want == Span \div (2 * MaxMph)
           r0 == Lesser(SolveRampR0(cv.accTarget, plain, want), v)
           p == P + r0 * T
           q == Q - 2 * r0 * T * T
           full == [plain EXCEPT !.P = p, !.Q = q, !.r0 = r0]
<1>1. NewRamp(h) = Faded(full, h)  BY Zenon DEF NewRamp
<1>2. S \in Nat /\ want \in Nat
  <2>1. MaxMph \in Nat \ {0} /\ Span \in Nat /\ Word \in Nat \ {0}  BY MaxMphTyped, SpanTyped
  <2>2. 15 * Span \in Nat /\ 2 * MaxMph \in Nat \ {0}  BY ONLY <2>1
  <2>3. (15 * Span) \div MaxMph \in Nat /\ want \in Nat  BY ONLY <2>1, <2>2, Quotients
  <2> QED  BY ONLY <2>1, <2>3
<1> HIDE DEF S, want
<1>3. T \in Nat \ {0} /\ v \in Nat  BY <1>2, ClimbTicks, RatesTyped
<1> HIDE DEF T, v
<1>4. P \in Int /\ Q \in Int
  <2>1. v * T \in Int /\ 3 * S \in Int  BY ONLY <1>2, <1>3, IntegerProducts
  <2>2. v * T * T \in Int /\ 3 * S * T \in Int  BY ONLY <1>3, <2>1, IntegerProducts
  <2> QED  BY ONLY <1>2, <2>1, <2>2
<1> HIDE DEF P, Q
<1>5. Climb(plain) /\ plain.T > 0  BY ONLY <1>2, <1>3, <1>4 DEF Climb
<1> DEFINE slope == SolveRampR0(cv.accTarget, plain, want)
<1>6. cv.accTarget \in Nat  BY CVTyped
<1>7. slope \in Int
  <2> HIDE DEF plain
  <2> QED  BY ONLY <1>2, <1>5, <1>6, SlopeTyped
<1> HIDE DEF slope
<1>8. r0 = Lesser(slope, v)  BY ONLY Zenon DEF slope
<1>9. r0 \in Int  BY ONLY <1>3, <1>7, <1>8 DEF Lesser
<1> HIDE DEF r0
<1>10. p \in Int /\ q \in Int
  <2>1. r0 * T \in Int /\ 2 * r0 \in Int  BY ONLY <1>3, <1>9, IntegerProducts
  <2>2. 2 * r0 * T \in Int  BY ONLY <1>3, <2>1, IntegerProducts
  <2>3. 2 * r0 * T * T \in Int  BY ONLY <1>3, <2>2, IntegerProducts
  <2> QED  BY ONLY <1>4, <2>1, <2>3
<1> HIDE DEF p, q
<1>11. full \in [P : Int, Q : Int, T : Nat, S : Nat, r0 : Int] /\ full.T = T
  BY ONLY <1>2, <1>3, <1>4, <1>9, <1>10
<1> HIDE DEF full
<1> QED  BY <1>1, <1>3, <1>11, FadedTyped

\* A climb's speed is within the span, and never above the demand.
LEMMA ClimbSpeed ==
  ASSUME SpeedAssumption, NEW h \in Inputs, NEW r, Climb(r), r.T > 0, NEW tick \in Nat
  PROVE  RampSpeed(r, tick, h) \in 0 .. Span /\ RampSpeed(r, tick, h) <= Target(h)
<1>1. CubicRampPosition(tick, r) \in 0 .. r.S /\ r.S \in Nat  BY PositionTyped DEF Climb
<1>2. Target(h) \in 0 .. Span /\ Span \in Nat  BY TargetInSpan, SpanTyped
<1> DEFINE x == CubicRampPosition(tick, r)
           y == Target(h)
<1>3. RampSpeed(r, tick, h) = Lesser(x, Lesser(r.S, y))  BY DEF RampSpeed, Live
<1> HIDE DEF x, y
<1>4. x \in 0 .. r.S /\ y \in 0 .. Span  BY ONLY <1>1, <1>2 DEF x, y
<1>5. Lesser(x, Lesser(r.S, y)) \in 0 .. Span /\ Lesser(x, Lesser(r.S, y)) <= y
  BY ONLY <1>1, <1>2, <1>4 DEF Lesser
<1> QED  BY ONLY <1>3, <1>5 DEF y

-----------------------------------------------------------------------------
(* What a tick of the speed does.                                           *)

\* A correction is a natural number: it is captured from a moving train only.
LEMMA CaptureTyped ==
  ASSUME SpeedAssumption, cv \in CVs, extra \in Nat, NEW h \in Inputs, NEW current \in Nat \ {0}
  PROVE  Correction(h, current) \in Nat
<1> DEFINE floor == cv.decThr * Unit
           over == IF current > floor THEN current - floor ELSE 0
           pct == (cv.decPct * CeilFade(EffDecel)) \div SPEED_CEIL_FADE_DEN
           d == DecelTicks(h)
<1>1. Unit \in Nat /\ SPEED_CEIL_FADE_DEN \in Nat \ {0}  BY SpanTyped
<1>2. cv.decThr \in Nat /\ cv.decPct \in Nat  BY CVTyped
<1>3. floor \in Nat  BY ONLY <1>1, <1>2, Products
<1>4. CeilFade(EffDecel) \in Nat  BY EffTyped, FadeTyped
<1>5. pct \in Nat
  <2>1. cv.decPct * CeilFade(EffDecel) \in Nat  BY ONLY <1>2, <1>4, Products
  <2> QED  BY ONLY <1>1, <2>1, Quotients
<1>6. d \in Nat  BY RatesTyped
<1>7. Capture(h, current) = (((d * over) \div current) * 100 * pct) \div 255  BY DEF Capture
<1> HIDE DEF floor, pct, d
<1>8. over \in Nat  BY ONLY <1>3, current \in Nat \ {0}
<1> HIDE DEF over
<1>9. (d * over) \div current \in Nat
  <2>1. d * over \in Nat  BY ONLY <1>6, <1>8, Products
  <2> QED  BY ONLY <2>1, current \in Nat \ {0}, Quotients
<1>10. ((d * over) \div current) * 100 \in Nat  BY ONLY <1>9, Products
<1>11. ((d * over) \div current) * 100 * pct \in Nat  BY ONLY <1>5, <1>10, Products
<1>12. Capture(h, current) \in Nat  BY ONLY <1>7, <1>11, Quotients
<1> QED  BY ONLY <1>12, extra \in Nat DEF Correction, ExtraKept

\* Slowing ends at or above its floor.
LEMMA SlowTyped ==
  ASSUME SpeedAssumption, cv \in CVs, DdaFits, extra \in Nat, NEW h \in Inputs,
         NEW current \in 0 .. Span, current > 0, NEW floor \in 0 .. Span,
         Slow(h, current, floor)
  PROVE  sim' \in 0 .. Span /\ DdaFits' /\ extra' \in Nat /\ extra' = Correction(h, current)
<1> DEFINE e == Correction(h, current)
           ticks == CorrectedTicks(h, e)
<1>1. Span \in Nat /\ current \in Nat \ {0}  BY SpanTyped
<1>2. e \in Nat  BY <1>1, CaptureTyped
<1>3. DecelTicks(h) \in Nat  BY RatesTyped
<1>4. /\ extra' = e /\ dda' = NextDda(ticks)
      /\ sim' = IF Delta(ticks) >= current \/ current - Delta(ticks) < floor THEN floor
                ELSE current - Delta(ticks)
  BY Zenon DEF Slow
<1> HIDE DEF e
<1>5. ticks \in Nat  BY ONLY <1>2, <1>3, Quotients DEF CorrectedTicks
<1> HIDE DEF ticks
<1>6. DdaFits'  BY <1>4, <1>5, DdaStays
<1>7. Delta(ticks) \in Nat  BY <1>5, DeltaTyped
<1>8. sim' \in 0 .. Span
  BY ONLY <1>1, <1>4, <1>7, current \in 0 .. Span, floor \in 0 .. Span
<1> QED  BY ONLY <1>2, <1>4, <1>6, <1>8 DEF e

\* Speeding up ends at or below the demand, whatever the 16-bit sum wraps to.
LEMMA AccelerateTyped ==
  ASSUME SpeedAssumption, cv \in CVs, DdaFits, NEW h \in Inputs,
         NEW current \in 0 .. Span, Accelerate(h, current)
  PROVE  sim' \in 0 .. Span /\ DdaFits' /\ extra' = 0
<1> DEFINE a == AccelTicks(h)
           sum == (current + Delta(a)) % Word
<1>1. Span \in Nat /\ Word \in Nat \ {0} /\ Target(h) \in 0 .. Span  BY SpanTyped, TargetInSpan
<1>2. a \in Nat  BY RatesTyped
<1>3. extra' = 0 /\ dda' = NextDda(a) /\ sim' = IF sum > Target(h) THEN Target(h) ELSE sum
  BY Zenon DEF Accelerate
<1> HIDE DEF a
<1>4. Delta(a) \in Nat /\ DdaFits'  BY <1>2, <1>3, DeltaTyped, DdaStays
<1>5. sum \in Nat  BY ONLY <1>1, <1>4, current \in 0 .. Span
<1> HIDE DEF sum
<1> QED  BY ONLY <1>1, <1>3, <1>4, <1>5

\* The second half of a tick slows only a moving train, and only with a brake on or above the
\* demand.
LEMMA DriveTyped ==
  ASSUME SpeedAssumption, cv \in CVs, DdaFits, extra \in Nat, NEW h \in Inputs,
         NEW current \in 0 .. Span, Braking(h) => current > 0, Drive(h, current)
  PROVE  /\ sim' \in 0 .. Span /\ DdaFits' /\ extra' \in Nat
         /\ \/ extra' = 0
            \/ /\ Braking(h) \/ current > Target(h)
               /\ extra' = Correction(h, current)
<1>1. Target(h) \in 0 .. Span /\ Span \in Nat  BY TargetInSpan, SpanTyped
<1>2. CASE Braking(h)
  <2>1. Slow(h, current, 0)  BY ONLY <1>2, Drive(h, current) DEF Drive
  <2>2. current > 0 /\ 0 \in 0 .. Span  BY <1>1, <1>2
  <2>3. sim' \in 0 .. Span /\ DdaFits' /\ extra' \in Nat /\ extra' = Correction(h, current)
    BY <2>1, <2>2, SlowTyped
  <2> QED  BY ONLY <1>2, <2>3
<1>3. CASE ~Braking(h) /\ current = Target(h)
  <2>1. extra' = 0 /\ sim' = current /\ dda' = dda
    BY ONLY <1>3, Drive(h, current) DEF Drive
  <2> QED  BY <2>1 DEF DdaFits
<1>4. CASE ~Braking(h) /\ current < Target(h)
  <2>1. Accelerate(h, current)
    BY ONLY <1>1, <1>4, current \in 0 .. Span, Drive(h, current) DEF Drive
  <2> QED  BY <2>1, AccelerateTyped
<1>5. CASE ~Braking(h) /\ current > Target(h)
  <2>1. Slow(h, current, Target(h))
    BY ONLY <1>1, <1>5, current \in 0 .. Span, Drive(h, current) DEF Drive
  <2>2. current > 0  BY ONLY <1>1, <1>5, current \in 0 .. Span
  <2>3. sim' \in 0 .. Span /\ DdaFits' /\ extra' \in Nat /\ extra' = Correction(h, current)
    BY <1>1, <2>1, <2>2, SlowTyped
  <2> QED  BY ONLY <1>5, <2>3
<1> QED  BY ONLY <1>1, <1>2, <1>3, <1>4, <1>5, current \in 0 .. Span

\* A tick on a climb never slows the train: a climb stays below the demand.
LEMMA RampsTyped ==
  ASSUME SpeedAssumption, cv \in CVs, DdaFits, extra \in Nat, NEW h \in Inputs, ~Braking(h),
         NEW r, Climb(r), r.T > 0, NEW tick \in Nat, Ramps(r, tick, h)
  PROVE  /\ sim' \in 0 .. Span /\ DdaFits' /\ extra' \in Nat
         /\ rampTick' = tick /\ ramping' \in BOOLEAN
         /\ extra' = 0 \/ extra' = ExtraKept(h)
<1> DEFINE v == RampSpeed(r, tick, h)
<1>1. v \in 0 .. Span /\ v <= Target(h)  BY ClimbSpeed
<1>2. Target(h) \in 0 .. Span /\ Span \in Nat  BY TargetInSpan, SpanTyped
<1>3. rampTick' = tick  BY DEF Ramps
<1>4. CASE RampGoesOn(r, tick, h)
  <2>1. ramping' = TRUE /\ sim' = v /\ extra' = ExtraKept(h) /\ dda' = dda
    BY ONLY <1>4, Ramps(r, tick, h) DEF Ramps
  <2>2. ExtraKept(h) \in Nat  BY ONLY extra \in Nat DEF ExtraKept
  <2>3. DdaFits'  BY ONLY <2>1, DdaFits DEF DdaFits
  <2> HIDE DEF v
  <2> QED  BY ONLY <1>1, <1>3, <2>1, <2>2, <2>3
<1>5. CASE ~RampGoesOn(r, tick, h)
  <2>1. ramping' = FALSE /\ Drive(h, v)  BY ONLY <1>5, Ramps(r, tick, h) DEF Ramps
  <2> HIDE DEF v
  <2>2. sim' \in 0 .. Span /\ DdaFits' /\ extra' \in Nat /\ (extra' = 0 \/ v > Target(h))
    BY <1>1, <2>1, DriveTyped
  <2>3. ~(v > Target(h))  BY ONLY <1>1, <1>2
  <2>4. ramping' \in BOOLEAN  BY ONLY <2>1
  <2> QED  BY ONLY <1>3, <2>2, <2>3, <2>4, Zenon
<1> QED  BY ONLY <1>4, <1>5

\* What every tick that is not held or stopped does to a correction and to the motion.
Runs(h) ==
  /\ sim' \in 0 .. Span /\ DdaFits' /\ extra' \in Nat
  /\ armed' \in BOOLEAN /\ ramping' \in BOOLEAN
  /\ delayMs' \in Nat /\ delayMs' < 250 * 255
  /\ ClimbFits'
  /\ \/ extra' = 0
     \/ extra' = ExtraKept(h)
     \/ /\ sim > 0 /\ ~ramping' /\ (Braking(h) \/ sim > Target(h))
        /\ extra' = Correction(h, sim)

\* A climb in progress.
LEMMA ContinueRampRuns ==
  ASSUME SpeedAssumption, SpeedFits, NEW h \in Inputs, ContinueRamp(h)
  PROVE  Runs(h)
<1>1. cv \in CVs /\ extra \in Nat /\ DdaFits  BY DEF SpeedFits, SettingsFit, BrakesFit
<1>2. sim \in 0 .. Span /\ delayMs \in Nat /\ delayMs < 250 * 255  BY DEF SpeedFits, MotionFits
<1>3. rampTick \in Nat /\ Climb(ramp) /\ ramp.T > 0  BY DEF SpeedFits, ClimbFits, ContinueRamp
<1>4. ramping /\ ~Braking(h) /\ armed' = FALSE /\ delayMs' = delayMs /\ ramp' = ramp
  BY DEF ContinueRamp
<1>5. Span \in Nat /\ Target(h) \in 0 .. Span  BY SpanTyped, TargetInSpan
<1>6. CASE sim >= Live(ramp, h) \/ rampTick >= ramp.T
  <2>1. ramping' = FALSE /\ Drive(h, sim) /\ rampTick' = rampTick
    BY ONLY <1>6, ContinueRamp(h) DEF ContinueRamp
  <2>2. /\ sim' \in 0 .. Span /\ DdaFits' /\ extra' \in Nat
        /\ extra' = 0 \/ (sim > Target(h) /\ extra' = Correction(h, sim))
    BY <1>1, <1>2, <1>4, <2>1, DriveTyped
  <2>3. sim > Target(h) => sim > 0  BY ONLY <1>2, <1>5
  <2>4. ClimbFits'  BY ONLY <1>3, <1>4, <2>1 DEF ClimbFits, Climb
  <2> QED  BY ONLY <1>2, <1>4, <2>1, <2>2, <2>3, <2>4 DEF Runs
<1>7. CASE ~(sim >= Live(ramp, h) \/ rampTick >= ramp.T)
  <2>1. Ramps(ramp, rampTick + 1, h)  BY ONLY <1>7, ContinueRamp(h) DEF ContinueRamp
  <2>2. rampTick + 1 \in Nat  BY ONLY <1>3
  <2>3. /\ sim' \in 0 .. Span /\ DdaFits' /\ extra' \in Nat
        /\ rampTick' = rampTick + 1 /\ ramping' \in BOOLEAN
        /\ extra' = 0 \/ extra' = ExtraKept(h)
    BY <1>1, <1>3, <1>4, <2>1, <2>2, RampsTyped
  <2>4. ClimbFits'  BY ONLY <1>3, <1>4, <2>2, <2>3 DEF ClimbFits, Climb
  <2> QED  BY ONLY <1>2, <1>4, <2>3, <2>4 DEF Runs
<1> QED  BY ONLY <1>6, <1>7

\* A train that waits with a brake on or no demand.
LEMMA StandRuns ==
  ASSUME SpeedAssumption, SpeedFits, NEW h \in Inputs, Stand(h)
  PROVE  Runs(h)
<1>1. sim' = sim /\ armed' = TRUE /\ delayMs' = 0 /\ ramping' = FALSE /\ extra' = ExtraKept(h)
      /\ rampTick' = rampTick /\ ramp' = ramp /\ dda' = dda
  BY DEF Stand
<1>2. sim \in 0 .. Span /\ ClimbFits /\ DdaFits /\ extra \in Nat
  BY DEF SpeedFits, MotionFits, BrakesFit
<1>3. ClimbFits'  BY ONLY <1>1, <1>2 DEF ClimbFits, Climb
<1>4. DdaFits'  BY ONLY <1>1, <1>2 DEF DdaFits
<1>5. ExtraKept(h) \in Nat  BY ONLY <1>2 DEF ExtraKept
<1>6. 0 < 250 * 255  OBVIOUS
<1> QED  BY ONLY <1>1, <1>2, <1>3, <1>4, <1>5, <1>6 DEF Runs

\* The delay that is left, or that is about to begin.
LEMMA DelayTyped ==
  ASSUME SpeedFits
  PROVE  DelayNow \in Nat /\ DelayNow <= 250 * 255
<1>1. cv.delay \in 0 .. 255  BY CVTyped DEF SpeedFits, SettingsFit
<1>2. delayMs \in Nat /\ delayMs < 250 * 255  BY DEF SpeedFits, MotionFits
<1> QED  BY ONLY <1>1, <1>2 DEF DelayNow

\* A tick of the Start Delay.
LEMMA DelayRuns ==
  ASSUME SpeedAssumption, SpeedFits, NEW h \in Inputs, Delay(h)
  PROVE  Runs(h)
<1>1. /\ DelayNow > 100 /\ delayMs' = DelayNow - 100 /\ extra' = ExtraKept(h)
      /\ sim' = sim /\ armed' = armed /\ ramping' = ramping
      /\ rampTick' = rampTick /\ ramp' = ramp /\ dda' = dda
  BY DEF Delay
<1>2. sim \in 0 .. Span /\ ClimbFits /\ DdaFits /\ extra \in Nat
      /\ armed \in BOOLEAN /\ ramping \in BOOLEAN
  BY DEF SpeedFits, MotionFits, BrakesFit
<1>3. ClimbFits'  BY ONLY <1>1, <1>2 DEF ClimbFits, Climb
<1>4. DdaFits'  BY ONLY <1>1, <1>2 DEF DdaFits
<1>5. ExtraKept(h) \in Nat  BY ONLY <1>2 DEF ExtraKept
<1>6. delayMs' \in Nat /\ delayMs' < 250 * 255
  <2> DEFINE d == DelayNow
  <2>1. d \in Nat /\ d <= 250 * 255 /\ d > 100 /\ delayMs' = d - 100  BY <1>1, DelayTyped
  <2> HIDE DEF d
  <2> QED  BY ONLY <2>1
<1> QED  BY ONLY <1>1, <1>2, <1>3, <1>4, <1>5, <1>6 DEF Runs

\* The tick that ends the delay and begins the climb.
LEMMA BeginRampRuns ==
  ASSUME SpeedAssumption, SpeedFits, NEW h \in Inputs, BeginRamp(h)
  PROVE  Runs(h)
<1>1. cv \in CVs /\ extra \in Nat /\ DdaFits  BY DEF SpeedFits, SettingsFit, BrakesFit
<1>2. ~Braking(h) /\ delayMs' = 0 /\ armed' = FALSE /\ ramp' = NewRamp(h)
      /\ Ramps(NewRamp(h), 1, h)
  BY DEF BeginRamp, Departs
<1>3. Climb(NewRamp(h)) /\ NewRamp(h).T > 0  BY <1>1, NewClimb
<1>4. /\ sim' \in 0 .. Span /\ DdaFits' /\ extra' \in Nat
      /\ rampTick' = 1 /\ ramping' \in BOOLEAN
      /\ extra' = 0 \/ extra' = ExtraKept(h)
  BY <1>1, <1>2, <1>3, RampsTyped
<1>5. ClimbFits'  BY ONLY <1>2, <1>3, <1>4 DEF ClimbFits, Climb
<1>6. 0 < 250 * 255  OBVIOUS
<1> QED  BY ONLY <1>2, <1>4, <1>5, <1>6 DEF Runs

\* A departure with no delay to serve.
LEMMA DepartUnarmedRuns ==
  ASSUME SpeedAssumption, SpeedFits, NEW h \in Inputs, DepartUnarmed(h)
  PROVE  Runs(h)
<1>1. cv \in CVs /\ extra \in Nat /\ DdaFits /\ ClimbFits
  BY DEF SpeedFits, SettingsFit, BrakesFit
<1>2. delayMs \in Nat /\ delayMs < 250 * 255 /\ armed \in BOOLEAN /\ ramping \in BOOLEAN
  BY DEF SpeedFits, MotionFits
<1>3. /\ ~Braking(h) /\ Drive(h, 0) /\ delayMs' = delayMs /\ armed' = armed
      /\ ramping' = ramping /\ rampTick' = rampTick /\ ramp' = ramp
  BY DEF DepartUnarmed, Departs
<1>4. Span \in Nat /\ Target(h) \in 0 .. Span  BY SpanTyped, TargetInSpan
<1>5. /\ sim' \in 0 .. Span /\ DdaFits' /\ extra' \in Nat
      /\ extra' = 0 \/ 0 > Target(h)
  BY <1>1, <1>3, <1>4, DriveTyped
<1>6. extra' = 0  BY ONLY <1>4, <1>5
<1>7. ClimbFits'  BY ONLY <1>1, <1>3 DEF ClimbFits, Climb
<1> QED  BY ONLY <1>2, <1>3, <1>5, <1>6, <1>7 DEF Runs

\* A tick of a moving train.
LEMMA MoveRuns ==
  ASSUME SpeedAssumption, SpeedFits, NEW h \in Inputs, Move(h)
  PROVE  Runs(h)
<1>1. cv \in CVs /\ extra \in Nat /\ DdaFits /\ ClimbFits
  BY DEF SpeedFits, SettingsFit, BrakesFit
<1>2. delayMs \in Nat /\ delayMs < 250 * 255 /\ sim \in 0 .. Span  BY DEF SpeedFits, MotionFits
<1>3. /\ sim > 0 /\ armed' = FALSE /\ ramping' = FALSE /\ Drive(h, sim)
      /\ delayMs' = delayMs /\ rampTick' = rampTick /\ ramp' = ramp
  BY DEF Move
<1>4. /\ sim' \in 0 .. Span /\ DdaFits' /\ extra' \in Nat
      /\ \/ extra' = 0
         \/ (Braking(h) \/ sim > Target(h)) /\ extra' = Correction(h, sim)
  BY <1>1, <1>2, <1>3, DriveTyped
<1>5. ClimbFits'  BY ONLY <1>1, <1>3 DEF ClimbFits, Climb
<1> QED  BY ONLY <1>2, <1>3, <1>4, <1>5 DEF Runs

\* A held tick does nothing; a stop clears the delay and the climb; any other tick runs.
LEMMA TickCases ==
  ASSUME SpeedAssumption, SpeedFits, NEW h \in Inputs, Tick(h)
  PROVE  /\ cv' = cv
         /\ \/ Snaps(h) /\ SnapToStop /\ UNCHANGED <<ramp, extra, brakeWas, dda>>
            \/ Frozen(h) /\ UNCHANGED <<sim, delayMs, armed, ramping, rampTick, ramp, extra,
                                        brakeWas, dda>>
            \/ /\ ~Snaps(h) /\ ~Frozen(h) /\ Runs(h)
               /\ brakeWas' = [on |-> Braking(h),
                               sum |-> IF Braking(h) THEN BrakeSum(h) ELSE brakeWas.sum]
               /\ \/ ContinueRamp(h)
                  \/ Stand(h)
                  \/ Delay(h)
                  \/ BeginRamp(h)
                  \/ DepartUnarmed(h)
                  \/ Move(h)
<1>1. ContinueRamp(h) => Runs(h)  BY ContinueRampRuns
<1>2. Stand(h) => Runs(h)  BY StandRuns
<1>3. Delay(h) => Runs(h)  BY DelayRuns
<1>4. BeginRamp(h) => Runs(h)  BY BeginRampRuns
<1>5. DepartUnarmed(h) => Runs(h)  BY DepartUnarmedRuns
<1>6. Move(h) => Runs(h)  BY MoveRuns
<1> QED  BY ONLY <1>1, <1>2, <1>3, <1>4, <1>5, <1>6, Tick(h), Zenon DEF Tick

\* A tick keeps every part of the state in its type.
LEMMA TickFits ==
  ASSUME SpeedAssumption, SpeedFits, NEW h \in Inputs, Tick(h)
  PROVE  SettingsFit' /\ MotionFits' /\ ClimbFits' /\ DdaFits' /\ BrakesFit'
<1>1. SettingsFit /\ MotionFits /\ ClimbFits /\ DdaFits /\ BrakesFit  BY DEF SpeedFits
<1>2. SettingsFit'  BY <1>1, TickCases DEF SettingsFit
<1>3. CASE Snaps(h) /\ SnapToStop /\ UNCHANGED <<ramp, extra, brakeWas, dda>>
  <2>1. sim' = 0 /\ delayMs' = 0 /\ armed' = TRUE /\ ramping' = FALSE /\ rampTick' = 0
        /\ ramp' = ramp /\ extra' = extra /\ brakeWas' = brakeWas /\ dda' = dda
    BY ONLY <1>3 DEF SnapToStop
  <2>2. Span \in Nat  BY SpanTyped
  <2>3. MotionFits'
    <3>1. 0 \in 0 .. Span /\ 0 \in Nat /\ 0 < 250 * 255  BY ONLY <2>2
    <3>2. sim' \in 0 .. Span /\ delayMs' \in Nat /\ delayMs' < 250 * 255  BY ONLY <2>1, <3>1
    <3>3. armed' \in BOOLEAN /\ ramping' \in BOOLEAN  BY ONLY <2>1
    <3> QED  BY ONLY <3>2, <3>3 DEF MotionFits
  <2>4. ClimbFits'  BY ONLY <1>1, <2>1 DEF ClimbFits, Climb
  <2>5. DdaFits' /\ BrakesFit'  BY ONLY <1>1, <2>1 DEF DdaFits, BrakesFit
  <2> QED  BY ONLY <1>2, <2>3, <2>4, <2>5
<1>4. CASE UNCHANGED <<sim, delayMs, armed, ramping, rampTick, ramp, extra, brakeWas, dda>>
  <2>1. MotionFits'  BY ONLY <1>1, <1>4 DEF MotionFits
  <2>2. ClimbFits'  BY ONLY <1>1, <1>4 DEF ClimbFits, Climb
  <2>3. DdaFits' /\ BrakesFit'  BY ONLY <1>1, <1>4 DEF DdaFits, BrakesFit
  <2> QED  BY ONLY <1>2, <2>1, <2>2, <2>3
<1>5. CASE /\ Runs(h)
           /\ brakeWas' = [on |-> Braking(h),
                           sum |-> IF Braking(h) THEN BrakeSum(h) ELSE brakeWas.sum]
  <2>1. MotionFits' /\ ClimbFits' /\ DdaFits' /\ extra' \in Nat
    BY ONLY <1>5 DEF Runs, MotionFits
  <2>2. BrakeSum(h) \in 0 .. 255 /\ brakeWas.sum \in 0 .. 255
    BY <1>1, BrakeSumTyped DEF SettingsFit, BrakesFit
  <2>3. Braking(h) \in BOOLEAN  BY DEF Braking
  <2>4. brakeWas' \in [on : BOOLEAN, sum : 0 .. 255]
    BY ONLY <1>5, <2>2, <2>3
  <2> QED  BY ONLY <1>2, <2>1, <2>4 DEF BrakesFit
<1> QED  BY ONLY <1>3, <1>4, <1>5, TickCases, SpeedAssumption, SpeedFits, h \in Inputs, Tick(h)

-----------------------------------------------------------------------------
(* The standing start, tick by tick.                                        *)

\* The bounds of an instance, which cap no delay that is served.
LEMMA BoundTyped ==
  ASSUME SpeedHistoryAssumption
  PROVE  SpeedAssumption /\ MaxStood \in Nat /\ \A d \in Delays : d \in 0 .. 255 /\ 3 * d <= MaxStood
<1>1. MaxDelay \in 0 .. 255 /\ Delays \subseteq 0 .. MaxDelay  BY DEF SpeedHistoryAssumption, Bytes
<1>2. SpeedAssumption  BY DEF SpeedHistoryAssumption
<1>3. MaxStood \in Nat  BY ONLY <1>1 DEF MaxStood
<1>4. ASSUME NEW d \in Delays  PROVE d \in 0 .. 255 /\ 3 * d <= MaxStood
  BY ONLY <1>1 DEF MaxStood
<1> QED  BY ONLY <1>2, <1>3, <1>4

\* One tick of the time stood, as a history step makes it.
StoodOn(h) ==
  stood' = IF Halts(h) \/ sim' > 0 THEN 0
           ELSE IF Frozen(h) THEN stood ELSE Lesser(stood + 1, MaxStood)

\* The time stood stays within its bound, and only a halt or a start takes it back.
LEMMA StoodTyped ==
  ASSUME SpeedHistoryAssumption, SpeedFits, NEW h, StoodOn(h)
  PROVE  stood' \in 0 .. MaxStood /\ (~Halts(h) /\ ~(sim' > 0) => stood' >= stood)
<1>1. MaxStood \in Nat /\ stood \in 0 .. MaxStood  BY BoundTyped DEF SpeedFits, StopsFit
<1> DEFINE x == Halts(h)
           y == sim' > 0
           z == Frozen(h)
<1>2. stood' = IF x \/ y THEN 0 ELSE IF z THEN stood ELSE Lesser(stood + 1, MaxStood)
  BY ONLY StoodOn(h), Zenon DEF StoodOn
<1> HIDE DEF x, y, z
<1>3. stood' \in 0 .. MaxStood /\ (~x /\ ~y => stood' >= stood)
  BY ONLY <1>1, <1>2 DEF Lesser
<1> QED  BY ONLY <1>3, Zenon DEF x, y, z

\* A halt is a snapped stop or a tick spent at a stand: either way the delay is to be served
\* again from its beginning.
LEMMA HaltRearms ==
  ASSUME SpeedAssumption, SpeedFits, NEW h \in Inputs, Tick(h), Halts(h)
  PROVE  sim' = 0 /\ armed' /\ ~ramping' /\ delayMs' = 0
<1>1. CASE Snaps(h)
  <2>1. ~Frozen(h)  BY ONLY <1>1 DEF Snaps, Frozen
  <2>2. SnapToStop  BY ONLY <1>1, <2>1, Tick(h) DEF Tick
  <2> QED  BY ONLY <2>2 DEF SnapToStop
<1>2. CASE ~Snaps(h)
  <2>1. ~Frozen(h) /\ sim = 0 /\ (Braking(h) \/ (h.demand = 0 /\ ~ramping))
    BY ONLY <1>2, Halts(h) DEF Halts
  <2>2. ~ContinueRamp(h) /\ ~Departs(h) /\ ~Move(h)
    <3>1. ~(sim > 0)  BY ONLY <2>1
    <3>2. ~(h.demand > 0) \/ Braking(h)  BY ONLY <2>1
    <3> QED  BY ONLY <2>1, <3>1, <3>2, Zenon DEF ContinueRamp, Departs, Move
  <2>3. Stand(h)
    BY ONLY <1>2, <2>1, <2>2, Tick(h), Zenon DEF Tick, Delay, BeginRamp, DepartUnarmed
  <2> QED  BY ONLY <2>1, <2>3 DEF Stand
<1> QED  BY ONLY <1>1, <1>2

\* A train at rest that is not halted anew is held, ends its wait, or waits on.
LEMMA WaitsInStep ==
  ASSUME SpeedHistoryAssumption, SpeedInv, NEW h \in Inputs, Tick(h), StoodOn(h),
         ~Halts(h), halted
  PROVE  \/ sim' > 0 /\ Served
         \/ sim' = 0 /\ \/ Served /\ stood' >= stood
                        \/ /\ armed' /\ ~ramping'
                           /\ delayMs' = 0 \/ delayMs' + 100 * stood' >= 250 * cv.delay
<1>1. SpeedAssumption /\ SpeedFits  BY BoundTyped DEF SpeedInv
<1>2. sim = 0 /\ \/ armed /\ ~ramping /\ (delayMs = 0 \/ delayMs + 100 * stood >= 250 * cv.delay)
                 \/ Served
  BY DEF SpeedInv, DelayInStep
<1>3. /\ MaxStood \in Nat /\ cv.delay \in 0 .. 255 /\ 3 * cv.delay <= MaxStood
      /\ stood \in 0 .. MaxStood /\ delayMs \in Nat
  BY <1>1, BoundTyped DEF SpeedFits, SettingsFit, StopsFit, MotionFits
<1>4. sim' \in Nat /\ (~(sim' > 0) => stood' >= stood)
  <2>1. sim' \in 0 .. Span  BY <1>1, TickFits DEF MotionFits
  <2>2. Span \in Nat  BY <1>1, SpanTyped
  <2> QED  BY <1>1, <2>1, <2>2, StoodTyped
<1>5. ~Snaps(h)  BY ONLY ~Halts(h) DEF Halts
<1>6. CASE Served  BY ONLY <1>4, <1>6
<1>7. CASE ~Served /\ armed /\ ~ramping /\ (delayMs = 0 \/ delayMs + 100 * stood >= 250 * cv.delay)
  <2>1. CASE Frozen(h)
    <3>1. sim' = sim /\ delayMs' = delayMs /\ armed' = armed /\ ramping' = ramping
      BY ONLY <1>5, <2>1, Tick(h) DEF Tick
    <3>2. stood' = stood  BY ONLY <1>2, <2>1, <3>1, ~Halts(h), StoodOn(h) DEF StoodOn
    <3> QED  BY ONLY <1>2, <1>7, <3>1, <3>2
  <2>2. CASE ~Frozen(h)
    <3>1. ~Braking(h) /\ h.demand # 0  BY ONLY <1>2, <1>7, <2>2, ~Halts(h) DEF Halts
    <3>2. ~ContinueRamp(h) /\ ~Stand(h) /\ ~DepartUnarmed(h)
      BY ONLY <1>7, <3>1, Zenon DEF ContinueRamp, Stand, DepartUnarmed
    <3>3. ~Move(h)  BY ONLY <1>2 DEF Move
    <3>4. Delay(h) \/ BeginRamp(h)
      BY ONLY <1>5, <2>2, <3>2, <3>3, Tick(h), Zenon DEF Tick
    <3>5. DelayNow = IF delayMs = 0 THEN cv.delay * 250 ELSE delayMs  BY DEF DelayNow
    <3>6. CASE Delay(h)
      <4>1. DelayNow > 100 /\ delayMs' = DelayNow - 100 /\ sim' = 0 /\ armed' = armed
            /\ ramping' = ramping
        BY ONLY <1>2, <3>6 DEF Delay
      <4>2. stood' = Lesser(stood + 1, MaxStood)
        BY ONLY <2>2, <4>1, ~Halts(h), StoodOn(h) DEF StoodOn
      <4>3. 100 * (stood + 1) < 250 * cv.delay  BY ONLY <1>3, <1>7 DEF Served
      <4>4. stood' = stood + 1  BY ONLY <1>3, <4>2, <4>3 DEF Lesser
      <4>5. delayMs' + 100 * stood' >= 250 * cv.delay
        BY ONLY <1>3, <1>7, <3>5, <4>1, <4>4
      <4> QED  BY ONLY <1>7, <4>1, <4>5
    <3>7. CASE BeginRamp(h)
      <4>1. DelayNow <= 100  BY ONLY <3>7 DEF BeginRamp
      <4>2. Served  BY ONLY <1>3, <1>7, <3>5, <4>1 DEF Served
      <4> QED  BY ONLY <1>7, <4>2
    <3> QED  BY ONLY <3>4, <3>6, <3>7
  <2> QED  BY ONLY <2>1, <2>2
<1> QED  BY ONLY <1>2, <1>6, <1>7

\* The delay stays in step with the time stood.
LEMMA TickKeepsDelay ==
  ASSUME SpeedHistoryAssumption, SpeedInv, NEW h \in Inputs, Tick(h), StoodOn(h),
         halted' = (Halts(h) \/ (halted /\ sim' = 0))
  PROVE  DelayInStep'
<1>1. SpeedAssumption /\ SpeedFits  BY BoundTyped DEF SpeedInv
<1>2. SUFFICES ASSUME halted'
               PROVE  /\ sim' = 0
                      /\ \/ /\ armed' /\ ~ramping'
                            /\ delayMs' = 0 \/ delayMs' + 100 * stood' >= 250 * cv'.delay
                         \/ Served'
  BY DEF DelayInStep
<1>3. CASE Halts(h)
  BY <1>1, <1>3, HaltRearms
<1>4. CASE ~Halts(h)
  <2>1. halted /\ sim' = 0 /\ cv' = cv
    BY ONLY <1>2, <1>4, Tick(h), halted' = (Halts(h) \/ (halted /\ sim' = 0)) DEF Tick
  <2>2. \/ Served /\ stood' >= stood
        \/ armed' /\ ~ramping' /\ (delayMs' = 0 \/ delayMs' + 100 * stood' >= 250 * cv.delay)
    BY <1>4, <2>1, WaitsInStep
  <2>3. CASE Served /\ stood' >= stood
    <3>1. stood \in Nat /\ stood' \in Nat /\ cv.delay \in Nat
      <4>1. cv.delay \in 0 .. 255 /\ MaxStood \in Nat
        BY <1>1, CVTyped, BoundTyped DEF SpeedFits, SettingsFit
      <4>2. stood \in 0 .. MaxStood /\ stood' \in 0 .. MaxStood
        BY <1>1, StoodTyped DEF SpeedFits, StopsFit
      <4> QED  BY ONLY <4>1, <4>2
    <3>2. Served'  BY ONLY <2>1, <2>3, <3>1 DEF Served
    <3> QED  BY ONLY <2>1, <3>2
  <2>4. CASE armed' /\ ~ramping' /\ (delayMs' = 0 \/ delayMs' + 100 * stood' >= 250 * cv.delay)
    BY ONLY <2>1, <2>4
  <2> QED  BY ONLY <2>2, <2>3, <2>4
<1> QED  BY ONLY <1>3, <1>4

\* A train that leaves the stand leaves it with its delay served.
LEMMA TickStartsServed ==
  ASSUME SpeedHistoryAssumption, SpeedInv, NEW h \in Inputs, Tick(h), StoodOn(h),
         halted, sim' > 0
  PROVE  (stood + 1) * 100 >= cv.delay * 250
<1>1. SpeedAssumption /\ SpeedFits  BY BoundTyped DEF SpeedInv
<1>2. ~Halts(h)
  <2>1. Halts(h) => sim' = 0  BY <1>1, HaltRearms
  <2> QED  BY ONLY <2>1, sim' > 0
<1>3. Served  BY <1>2, WaitsInStep
<1>4. stood \in Nat /\ cv.delay \in Nat
  <2>1. cv.delay \in 0 .. 255 /\ MaxStood \in Nat /\ stood \in 0 .. MaxStood
    BY <1>1, CVTyped, BoundTyped DEF SpeedFits, SettingsFit, StopsFit
  <2> QED  BY ONLY <2>1
<1> QED  BY ONLY <1>3, <1>4 DEF Served

-----------------------------------------------------------------------------
(* The correction of a deceleration, tick by tick.                          *)

\* A correction is kept from before, under brakes that have not changed, or captured now.
LEMMA CorrectionKept ==
  ASSUME SpeedAssumption, SpeedFits, NEW h \in Inputs, Tick(h), ~Snaps(h), ~Frozen(h), extra' # 0
  PROVE  (Slows(h) /\ Captures(h)) \/ (extra # 0 /\ ~RegimeChanged(h))
<1>1. Runs(h)  BY TickCases
<1>2. ExtraKept(h) # 0 => extra # 0 /\ ~RegimeChanged(h)  BY ONLY Zenon DEF ExtraKept
<1>3. CASE ExtraKept(h) # 0  BY ONLY <1>2, <1>3
<1>4. CASE ExtraKept(h) = 0
  <2>1. sim > 0 /\ ~ramping' /\ (Braking(h) \/ sim > Target(h))
    BY ONLY <1>1, <1>4, extra' # 0, Zenon DEF Runs
  <2>2. Slows(h)  BY ONLY <2>1, ~Snaps(h), ~Frozen(h), Zenon DEF Slows
  <2>3. Captures(h)  BY ONLY <1>4 DEF Captures
  <2> QED  BY ONLY <2>2, <2>3
<1> QED  BY ONLY <1>3, <1>4

\* A correction stays with the brakes it was captured under.
LEMMA TickKeepsCapture ==
  ASSUME SpeedAssumption, SpeedInv, NEW h \in Inputs, Tick(h),
         regime' = IF Slows(h) /\ Captures(h) THEN Regime(h)
                   ELSE IF extra' = 0 THEN <<FALSE, 0>> ELSE regime
  PROVE  CaptureInStep'
<1>1. SpeedFits /\ CaptureInStep  BY DEF SpeedInv
<1>2. SUFFICES ASSUME extra' # 0
               PROVE  regime' = <<brakeWas'.on, IF brakeWas'.on THEN brakeWas'.sum ELSE 0>>
  BY DEF CaptureInStep
<1>3. CASE Snaps(h) \/ Frozen(h)
  <2>1. ~Slows(h)  BY ONLY <1>3, Zenon DEF Slows
  <2>2. extra' = extra /\ brakeWas' = brakeWas  BY ONLY <1>3, Tick(h), Zenon DEF Tick
  <2>3. regime' = regime
    BY ONLY <1>2, <2>1, regime' = IF Slows(h) /\ Captures(h) THEN Regime(h)
                                  ELSE IF extra' = 0 THEN <<FALSE, 0>> ELSE regime
  <2> QED  BY ONLY <1>1, <1>2, <2>2, <2>3 DEF CaptureInStep
<1>4. CASE ~Snaps(h) /\ ~Frozen(h)
  <2>1. brakeWas' = [on |-> Braking(h),
                     sum |-> IF Braking(h) THEN BrakeSum(h) ELSE brakeWas.sum]
    BY ONLY <1>4, Tick(h) DEF Tick
  <2>2. <<brakeWas'.on, IF brakeWas'.on THEN brakeWas'.sum ELSE 0>> = Regime(h)
    BY ONLY <2>1 DEF Regime
  <2>3. regime' = Regime(h)
    <3>1. CASE Slows(h) /\ Captures(h)
      BY ONLY <3>1, regime' = IF Slows(h) /\ Captures(h) THEN Regime(h)
                              ELSE IF extra' = 0 THEN <<FALSE, 0>> ELSE regime
    <3>2. CASE ~(Slows(h) /\ Captures(h))
      <4>1. extra # 0 /\ ~RegimeChanged(h)  BY <1>1, <1>2, <1>4, <3>2, CorrectionKept
      <4>2. regime' = regime
        BY ONLY <1>2, <3>2, regime' = IF Slows(h) /\ Captures(h) THEN Regime(h)
                                      ELSE IF extra' = 0 THEN <<FALSE, 0>> ELSE regime
      <4>3. regime = <<brakeWas.on, IF brakeWas.on THEN brakeWas.sum ELSE 0>>
        BY ONLY <1>1, <4>1 DEF CaptureInStep
      <4>4. brakeWas.on = Braking(h) /\ (Braking(h) => brakeWas.sum = BrakeSum(h))
        BY ONLY <4>1, Zenon DEF RegimeChanged
      <4> QED  BY ONLY <4>2, <4>3, <4>4, Zenon DEF Regime
    <3> QED  BY ONLY <3>1, <3>2
  <2> QED  BY ONLY <2>2, <2>3
<1> QED  BY ONLY <1>3, <1>4

-----------------------------------------------------------------------------
(* The invariant of the speed simulation.                                   *)

\* resetSpeed() establishes the invariant.
LEMMA InitSpeedInv == SpeedHistoryAssumption /\ SHInit => SpeedInv
<1> SUFFICES ASSUME SpeedHistoryAssumption, SHInit  PROVE SpeedInv
  OBVIOUS
<1>1. /\ cv \in SpeedConfigs /\ sim = 0 /\ delayMs = 0 /\ armed = TRUE /\ ramping = FALSE
      /\ rampTick = 0 /\ ramp = NoRamp /\ extra = 0 /\ brakeWas = [on |-> FALSE, sum |-> 0]
      /\ dda = [ticks |-> 0, rest |-> 0] /\ halted = TRUE /\ stood = 0 /\ steady = FALSE
  BY DEF SHInit, SpeedInit
<1>2. SpeedAssumption /\ MaxStood \in Nat  BY BoundTyped
<1>3. SettingsFit  BY <1>1, <1>2 DEF SettingsFit, CVs, SpeedAssumption, Delays
<1>4. MotionFits
  <2>1. 0 \in 0 .. Span /\ 0 < 250 * 255  BY <1>2, SpanTyped
  <2>2. sim \in 0 .. Span /\ delayMs \in Nat /\ delayMs < 250 * 255  BY ONLY <1>1, <2>1
  <2> QED  BY ONLY <1>1, <2>2 DEF MotionFits
<1>5. ClimbFits  BY ONLY <1>1 DEF ClimbFits, Climb, NoRamp
<1>6. DdaFits  BY ONLY <1>1 DEF DdaFits
<1>7. BrakesFit  BY ONLY <1>1 DEF BrakesFit
<1>8. StopsFit
  <2>1. stood \in 0 .. MaxStood  BY ONLY <1>1, <1>2
  <2> QED  BY ONLY <1>1, <2>1 DEF StopsFit
<1>9. DelayInStep  BY ONLY <1>1 DEF DelayInStep
<1>10. CaptureInStep  BY ONLY <1>1 DEF CaptureInStep
<1> QED
  BY ONLY <1>3, <1>4, <1>5, <1>6, <1>7, <1>8, <1>9, <1>10, SpeedHistoryAssumption
     DEF SpeedInv, SpeedFits

\* speedSet() keeps the settings in their types.
LEMMA SetFits ==
  ASSUME SpeedAssumption, cv \in CVs, cv.delay \in Delays, NEW e \in SpeedEdits,
         cv' = [cv EXCEPT ![e.item] = e.value]
  PROVE  cv' \in CVs /\ cv'.delay \in Delays
<1> DEFINE Bs == {"accel", "accelAdj", "decel", "decelAdj", "delay", "maxMph", "opload",
                  "prload", "accPct", "accTarget", "decPct", "decThr"}
<1>1. \/ e.item \in Bs /\ e.value \in Bytes
      \/ e.item = "brake" /\ e.value \in [1 .. 3 -> Bytes]
  BY DEF SpeedAssumption
<1>2. e.item = "delay" => e.value \in Delays  BY DEF Delays
<1>3. CASE e.item \in Bs /\ e.value \in Bytes
  BY ONLY <1>2, <1>3, cv \in CVs, cv.delay \in Delays, cv' = [cv EXCEPT ![e.item] = e.value] DEF CVs
<1>4. CASE e.item = "brake" /\ e.value \in [1 .. 3 -> Bytes]
  BY ONLY <1>4, cv \in CVs, cv.delay \in Delays, cv' = [cv EXCEPT ![e.item] = e.value] DEF CVs
<1> QED  BY ONLY <1>1, <1>3, <1>4

\* Every step keeps the invariant.
LEMMA NextSpeedInv == SpeedInv /\ [SHNext]_speedall => SpeedInv'
<1> SUFFICES ASSUME SpeedInv, [SHNext]_speedall  PROVE SpeedInv'
  OBVIOUS
<1> SpeedHistoryAssumption  BY DEF SpeedInv
<1>1. SpeedAssumption /\ SpeedFits /\ DelayInStep /\ CaptureInStep  BY BoundTyped DEF SpeedInv
<1>2. CASE SHTick
  <2>1. PICK h \in Inputs :
          /\ steady' = (Goal(h) = goal)
          /\ Tick(h)
          /\ halted' = (Halts(h) \/ (halted /\ sim' = 0))
          /\ StoodOn(h)
          /\ regime' = IF Slows(h) /\ Captures(h) THEN Regime(h)
                       ELSE IF extra' = 0 THEN <<FALSE, 0>> ELSE regime
    BY ONLY <1>2, Zenon DEF SHTick, StoodOn
  <2>2. SettingsFit' /\ MotionFits' /\ ClimbFits' /\ DdaFits' /\ BrakesFit'
    BY <1>1, <2>1, TickFits
  <2>3. StopsFit'
    <3>1. stood' \in 0 .. MaxStood  BY <1>1, <2>1, StoodTyped
    <3>2. halted' \in BOOLEAN /\ steady' \in BOOLEAN  BY ONLY <2>1
    <3> QED  BY ONLY <3>1, <3>2 DEF StopsFit, MaxStood
  <2>4. DelayInStep'  BY <2>1, TickKeepsDelay
  <2>5. CaptureInStep'  BY <1>1, <2>1, TickKeepsCapture
  <2> QED  BY ONLY <2>2, <2>3, <2>4, <2>5, SpeedHistoryAssumption DEF SpeedInv, SpeedFits
<1>3. CASE SHSet
  <2>1. PICK e \in SpeedEdits : SpeedSet(e)  BY ONLY <1>3 DEF SHSet
  <2>2. /\ halted' = FALSE /\ steady' = FALSE /\ stood' = stood /\ regime' = regime
        /\ sim' = sim /\ delayMs' = delayMs /\ armed' = armed /\ ramping' = ramping
        /\ rampTick' = rampTick /\ ramp' = ramp /\ extra' = extra /\ brakeWas' = brakeWas
        /\ dda' = dda
    BY ONLY <1>3, <2>1 DEF SHSet, SpeedSet
  <2>3. SettingsFit'
    <3>1. cv' = [cv EXCEPT ![e.item] = e.value]  BY ONLY <2>1 DEF SpeedSet
    <3> QED  BY <1>1, <3>1, SetFits DEF SpeedFits, SettingsFit
  <2>4. MotionFits'  BY ONLY <1>1, <2>2 DEF SpeedFits, MotionFits
  <2>5. ClimbFits'  BY ONLY <1>1, <2>2 DEF SpeedFits, ClimbFits, Climb
  <2>6. DdaFits' /\ BrakesFit'  BY ONLY <1>1, <2>2 DEF SpeedFits, DdaFits, BrakesFit
  <2>7. StopsFit'
    <3>1. stood' \in 0 .. MaxStood  BY ONLY <1>1, <2>2 DEF SpeedFits, StopsFit
    <3> QED  BY ONLY <2>2, <3>1 DEF StopsFit
  <2>8. DelayInStep'  BY ONLY <2>2 DEF DelayInStep
  <2>9. CaptureInStep'  BY ONLY <1>1, <2>2 DEF CaptureInStep
  <2> QED
    BY ONLY <2>3, <2>4, <2>5, <2>6, <2>7, <2>8, <2>9, SpeedHistoryAssumption
       DEF SpeedInv, SpeedFits
<1>4. CASE UNCHANGED speedall
  BY ONLY <1>1, <1>4, SpeedHistoryAssumption
     DEF speedall, speedvars, speedhist, SpeedInv, SpeedFits, SettingsFit, MotionFits, ClimbFits,
         Climb, DdaFits, BrakesFit, StopsFit, DelayInStep, Served, CaptureInStep
<1> QED  BY ONLY <1>2, <1>3, <1>4, [SHNext]_speedall DEF SHNext

\* The invariant holds always.
LEMMA AlwaysSpeedInv == SpeedHistoryAssumption => (SHSpec => []SpeedInv)
<1> QED  BY InitSpeedInv, NextSpeedInv, PTL DEF SHSpec

\* The speed, the delay, the climb and the history stay within their types, whatever is edited
\* under a running simulation.
THEOREM SpeedTypes == SpeedHistoryAssumption => (SHSpec => []SpeedTypeOK)
<1>1. SpeedInv => SpeedTypeOK
  <2> SUFFICES ASSUME SpeedInv  PROVE SpeedTypeOK
    OBVIOUS
  <2>1. SettingsFit /\ MotionFits /\ ClimbFits /\ DdaFits /\ BrakesFit /\ StopsFit
    BY DEF SpeedInv, SpeedFits
  <2>2. cv.maxMph \in Bytes /\ cv.delay \in Delays  BY ONLY <2>1 DEF SettingsFit, CVs
  <2>3. sim \in 0 .. Span /\ {delayMs, rampTick, extra} \subseteq Nat /\ delayMs < 250 * 255
    BY ONLY <2>1 DEF MotionFits, ClimbFits, BrakesFit
  <2>4. {armed, ramping} \subseteq BOOLEAN /\ {halted, steady} \subseteq BOOLEAN
        /\ stood \in 0 .. MaxStood
    BY ONLY <2>1 DEF MotionFits, StopsFit
  <2>5. brakeWas \in [on : BOOLEAN, sum : 0 .. 255] /\ (dda.rest = 0 \/ dda.rest < dda.ticks)
    BY ONLY <2>1 DEF BrakesFit, DdaFits
  <2> QED  BY ONLY <2>2, <2>3, <2>4, <2>5 DEF SpeedTypeOK
<1> QED  BY <1>1, AlwaysSpeedInv, PTL

\* updateSpeed10Hz()'s Start Delay: after a genuine stop no train moves off before the demand
\* has stood, unbraked, for the whole delay.
THEOREM StartsServed == SpeedHistoryAssumption => (SHSpec => NoEarlyStart)
<1>1. SpeedInv /\ [SHNext]_speedall =>
        [halted /\ sim = 0 /\ sim' > 0 => (stood + 1) * 100 >= cv.delay * 250]_speedall
  <2> SUFFICES ASSUME SpeedInv, SHNext, halted, sim = 0, sim' > 0
               PROVE  (stood + 1) * 100 >= cv.delay * 250
    OBVIOUS
  <2> SpeedHistoryAssumption  BY DEF SpeedInv
  <2>1. CASE SHTick
    <3>1. PICK h \in Inputs : Tick(h) /\ StoodOn(h)  BY ONLY <2>1, Zenon DEF SHTick, StoodOn
    <3> QED  BY <3>1, TickStartsServed
  <2>2. CASE SHSet
    <3>1. sim' = sim  BY ONLY <2>2 DEF SHSet, SpeedSet
    <3> QED  BY ONLY <3>1, sim = 0, sim' > 0
  <2> QED  BY ONLY <2>1, <2>2, SHNext DEF SHNext
<1> QED  BY <1>1, AlwaysSpeedInv, PTL DEF SHSpec, NoEarlyStart

\* The steady-state correction: a deceleration is corrected only by what was captured under the
\* brakes that are on now.
THEOREM CorrectionsMatch == SpeedHistoryAssumption => (SHSpec => CorrectionMatchesRegime)
<1>1. SpeedInv /\ [SHNext]_speedall /\ SpeedInv' =>
        [extra' > 0 => \A h \in Inputs : Tick(h) /\ Slows(h) => regime' = Regime(h)]_speedall
  <2> SUFFICES ASSUME SpeedInv', extra' > 0, NEW h \in Inputs, Tick(h), Slows(h)
               PROVE  regime' = Regime(h)
    OBVIOUS
  <2>1. extra' # 0  BY ONLY extra' > 0
  <2>2. regime' = <<brakeWas'.on, IF brakeWas'.on THEN brakeWas'.sum ELSE 0>>
    BY ONLY <2>1, SpeedInv' DEF SpeedInv, CaptureInStep
  <2>3. ~Snaps(h) /\ ~Frozen(h)  BY ONLY Slows(h) DEF Slows
  <2>4. brakeWas' = [on |-> Braking(h),
                     sum |-> IF Braking(h) THEN BrakeSum(h) ELSE brakeWas.sum]
    BY ONLY <2>3, Tick(h) DEF Tick
  <2> QED  BY ONLY <2>2, <2>4 DEF Regime
<1> QED  BY <1>1, AlwaysSpeedInv, PTL DEF SHSpec, CorrectionMatchesRegime
=============================================================================
