----------------------------- MODULE CabProofs -----------------------------
(***************************************************************************)
(* What the analog controls guarantee for every calibration, assignment of *)
(* functions, debounce, lag and number of conversions, and for any sleep:  *)
(* every reading is a byte, and no light flickers.                         *)
(***************************************************************************)
EXTENDS CabHistory, TLAPS

-----------------------------------------------------------------------------
(* Integer division, which the provers know only for numerals.              *)
LEMMA DivMod ==
  ASSUME NEW a \in Nat, NEW n \in Nat \ {0}
  PROVE  /\ a \div n \in Int /\ a % n \in Int
         /\ a = n * (a \div n) + (a % n)
         /\ a % n >= 0 /\ a % n < n
  OBVIOUS

LEMMA ProductsRise ==
  ASSUME NEW n \in Nat \ {0}, NEW q \in Int, NEW m \in Int, q >= m + 1
  PROVE  n * q >= n * m + n
  OBVIOUS

LEMMA DivBounds ==
  ASSUME NEW a \in Nat, NEW n \in Nat \ {0}, NEW m \in Nat, a < n * (m + 1)
  PROVE  a \div n \in 0 .. m
<1> DEFINE q == a \div n  r == a % n
<1>1. q \in Int /\ r \in Int /\ a = n * q + r /\ r >= 0 /\ r < n  BY DivMod
<1> HIDE DEF q, r
<1>2. q <= m
  <2>1. SUFFICES ASSUME q >= m + 1 PROVE FALSE  BY <1>1
  <2>2. n * q >= n * m + n  BY <2>1, <1>1, ProductsRise
  <2> QED  BY <2>2, <1>1
<1>3. q >= 0
  <2>1. SUFFICES ASSUME q <= -1 PROVE FALSE  BY <1>1
  <2>2. n * (-1) >= n * q + n
    BY ONLY <2>1, <1>1, ProductsRise, n \in Nat \ {0}, -1 \in Int
  <2> QED  BY <2>2, <1>1
<1> QED  BY <1>1, <1>2, <1>3 DEF q

LEMMA Part ==
  ASSUME NEW x \in Nat, NEW c \in Nat \ {0}
  PROVE  x \div c \in 0 .. x
<1>1. x < c * (x + 1)  OBVIOUS
<1> QED  BY <1>1, DivBounds

(* The sum of n ten-bit values fits a byte and the battery's range.         *)
LEMMA SumsFit ==
  ASSUME NEW a \in Nat, NEW n \in Nat \ {0}, a <= 1023 * n
  PROVE  /\ a \div (4 * n) \in 0 .. 255
         /\ ((a \div n) * 5) \div 31 \in 0 .. 255
<1>1. 4 * n \in Nat \ {0} /\ a < (4 * n) * (255 + 1)  OBVIOUS
<1>2. a \div (4 * n) \in 0 .. 255  BY <1>1, DivBounds, 255 \in Nat
<1>3. a < n * (1023 + 1)  OBVIOUS
<1>4. a \div n \in 0 .. 1023  BY <1>3, DivBounds, 1023 \in Nat
<1> QED  BY <1>2, <1>4

(* The filter stays between the old value and the new one.                  *)
LEMMA FilterFits ==
  ASSUME CabAssumption, NEW m \in Nat, NEW f \in 0 .. m, NEW v \in 0 .. m
  PROVE  Filtered(f, v) \in 0 .. m
<1>1. BATTERY_FILTER_COEF \in Nat \ {0}  BY DEF CabAssumption
<1>2. CASE f = 0  BY <1>2 DEF Filtered
<1>3. CASE f # 0 /\ v > f
  <2>1. (v - f) \div BATTERY_FILTER_COEF \in 0 .. (v - f)  BY <1>1, <1>3, Part, v - f \in Nat
  <2> QED  BY <2>1, <1>3 DEF Filtered
<1>4. CASE f # 0 /\ ~(v > f)
  <2>1. (f - v) \div BATTERY_FILTER_COEF \in 0 .. (f - v)  BY <1>1, <1>4, Part, f - v \in Nat
  <2> QED  BY <2>1, <1>4 DEF Filtered
<1> QED  BY <1>2, <1>3, <1>4

-----------------------------------------------------------------------------
(* The types.                                                               *)
ConstantsFit ==
  /\ Samples \in Nat \ {0} /\ BatteryUnit \in Nat \ {0}
  /\ LIGHT_LAG_HOLD_DECISECS \in Nat \ {0} /\ LIGHT_DEBOUNCE_THRESHOLD \in Nat
  /\ Len(Channels) \in Nat /\ ADC_STATE_LAST \in Nat /\ ADC_STATE_LAST = 2 * Len(Channels)
  /\ ReadingsNeeded = LIGHT_DEBOUNCE_THRESHOLD + 2
  /\ ADC_MAX \in Nat

LEMMA Constants ==
  ASSUME CabAssumption
  PROVE  ConstantsFit
BY DEF ConstantsFit, CabAssumption, ADC_STATE_LAST, ReadingsNeeded, ADC_MAX

LEMMA MaskFits ==
  ASSUME CabAssumption, NEW s \in Sides, NEW p \in Positions
  PROVE  Mask(s, p) \subseteq FNumbers
<1> DEFINE fn == LightFunctions[s]
<1>1. fn \in [DIM1 : SUBSET FNumbers, DIM2 : SUBSET FNumbers,
              HEADLIGHT : SUBSET FNumbers, DITCH : SUBSET FNumbers]
  BY DEF CabAssumption
<1> HIDE DEF fn
<1>2. /\ fn["DIM1"] \subseteq FNumbers /\ fn["DIM2"] \subseteq FNumbers
      /\ fn["HEADLIGHT"] \subseteq FNumbers /\ fn["DITCH"] \subseteq FNumbers
  BY <1>1
<1> QED  BY <1>2 DEF Mask, Positions, fn

LEMMA ChannelExists ==
  ASSUME CabAssumption, ScanFits, adcState % 2 = 1
  PROVE  Channel \in DOMAIN Start
<1>1. /\ Len(Channels) \in Nat /\ ADC_STATE_LAST = 2 * Len(Channels)
      /\ adcState \in 0 .. ADC_STATE_LAST
  BY Constants, Zenon DEF ConstantsFit, ScanFits
<1>2. (adcState \div 2) + 1 \in 1 .. Len(Channels)
  BY ONLY <1>1, adcState % 2 = 1
<1>3. Channels \in Seq(DOMAIN Start)  BY Zenon DEF CabAssumption
<1> QED  BY ONLY <1>2, <1>3 DEF Channel

LEMMA AverageFits ==
  ASSUME CabAssumption, ScanFits
  PROVE  Average \in 0 .. 255 /\ ((adcAccumulator \div Samples) * 5) \div 31 \in 0 .. 255
<1>1. Samples \in Nat \ {0}  BY Constants DEF ConstantsFit
<1>2. adcCount \in 0 .. Samples /\ adcAccumulator \in 0 .. ADC_MAX * adcCount  BY DEF ScanFits
<1>3. adcAccumulator \in Nat /\ adcAccumulator <= 1023 * Samples  BY <1>1, <1>2 DEF ADC_MAX
<1> QED  BY <1>1, <1>3, SumsFit DEF Average

LEMMA TypedInit == ASSUME CabAssumption, KHInit PROVE CabTypeOK
<1>c. ConstantsFit  BY Constants
<1> USE <1>c DEF KHInit, CabInit, ConstantsFit
<1>1. ScanFits
  <2>1. knob \in [DOMAIN Start -> 0 .. ADC_MAX]  BY DEF CabAssumption
  <2>2. adcState = 0 /\ adcCount = 0 /\ adcAccumulator = 0 /\ adcRunning = FALSE  OBVIOUS
  <2>3. /\ adcState \in 0 .. ADC_STATE_LAST /\ adcCount \in 0 .. Samples
        /\ adcAccumulator \in 0 .. ADC_MAX * adcCount
    BY ONLY <2>2, <1>c DEF ConstantsFit
  <2>4. adcRunning \in BOOLEAN /\ (adcRunning => adcState % 2 = 1 /\ adcCount < Samples)
    BY ONLY <2>2, Zenon
  <2> QED  BY ONLY <2>1, <2>3, <2>4, Zenon DEF ScanFits
<1>2. InputsFit  BY DEF InputsFit, Positions
<1>3. LagsFit  BY DEF LagsFit, Positions
<1>4. PastFits  BY DEF PastFits, Positions
<1> QED  BY <1>1, <1>2, <1>3, <1>4 DEF CabTypeOK

LEMMA ScanStep == ASSUME CabAssumption, CabTypeOK, CabNext PROVE ScanFits'
<1>c. ConstantsFit  BY Constants
<1>t. ScanFits  BY Zenon DEF CabTypeOK
<1>k. /\ Samples \in Nat \ {0} /\ ADC_STATE_LAST \in Nat
      /\ ADC_STATE_LAST = 2 * Len(Channels) /\ Len(Channels) \in Nat /\ ADC_MAX \in Nat
  BY ONLY <1>c DEF ConstantsFit
<1>f. /\ knob \in [DOMAIN Start -> 0 .. ADC_MAX] /\ adcState \in 0 .. ADC_STATE_LAST
      /\ adcCount \in 0 .. Samples /\ adcAccumulator \in 0 .. ADC_MAX * adcCount
  BY ONLY <1>t, Zenon DEF ScanFits
<1>r. adcRunning \in BOOLEAN /\ (adcRunning => adcState % 2 = 1 /\ adcCount < Samples)
  BY ONLY <1>t, Zenon DEF ScanFits
<1>1. CASE ProcessADC
  <2>k. knob' = knob  BY <1>1, Zenon DEF ProcessADC, StartADC, Read, NextLoop, scanVars
  <2>1. CASE UNCHANGED scanVars  BY ONLY <1>t, <2>1, <2>k DEF ScanFits, scanVars
  <2>2. CASE ~adcRunning /\ StartADC
    <3>1. /\ adcState % 2 = 0 /\ adcState # ADC_STATE_LAST /\ adcRunning' = TRUE
          /\ adcAccumulator' = 0 /\ adcCount' = 0 /\ adcState' = adcState + 1
      BY ONLY <2>2, Zenon DEF StartADC
    <3>2. adcState + 1 \in 0 .. ADC_STATE_LAST /\ (adcState + 1) % 2 = 1
      BY ONLY <1>k, <1>f, <3>1
    <3>3. 0 \in 0 .. Samples /\ 0 \in 0 .. ADC_MAX * 0 /\ 0 < Samples  BY ONLY <1>k
    <3> QED  BY ONLY <1>f, <2>k, <3>1, <3>2, <3>3, Zenon DEF ScanFits
  <2>3. CASE ~adcRunning /\ Read
    <3>1. /\ adcState % 2 = 1 /\ adcState' = adcState + 1
          /\ adcRunning' = adcRunning /\ adcCount' = adcCount /\ adcAccumulator' = adcAccumulator
      BY ONLY <2>3, Zenon DEF Read
    <3>2. adcState + 1 \in 0 .. ADC_STATE_LAST  BY ONLY <1>k, <1>f, <3>1
    <3> QED  BY ONLY <1>f, <1>r, <2>3, <2>k, <3>1, <3>2, Zenon DEF ScanFits
  <2>4. CASE ~adcRunning /\ NextLoop
    <3>1. 0 \in 0 .. ADC_STATE_LAST  BY ONLY <1>k
    <3>2. /\ adcState' = 0 /\ adcRunning' = adcRunning /\ adcCount' = adcCount
          /\ adcAccumulator' = adcAccumulator
      BY ONLY <2>4, Zenon DEF NextLoop
    <3> QED  BY ONLY <1>f, <1>r, <2>4, <2>k, <3>1, <3>2, Zenon DEF ScanFits
  <2> QED  BY ONLY <1>1, <2>1, <2>2, <2>3, <2>4, Zenon DEF ProcessADC
<1>2. CASE Convert
  <2>1. /\ adcRunning /\ adcCount' = adcCount + 1 /\ adcState' = adcState
        /\ adcAccumulator' = adcAccumulator + knob[Channel]
        /\ adcRunning' = (adcCount' < Samples) /\ knob' = knob
    BY ONLY <1>2, Zenon DEF Convert
  <2>2. adcState % 2 = 1 /\ adcCount < Samples  BY ONLY <1>r, <2>1, Zenon
  <2>3. Channel \in DOMAIN Start  BY <1>t, <2>2, ChannelExists, Zenon
  <2>4. knob[Channel] \in 0 .. ADC_MAX  BY ONLY <1>f, <2>3, Zenon
  <2>5. adcCount' \in 0 .. Samples /\ adcAccumulator' \in 0 .. ADC_MAX * adcCount'
    <3> DEFINE x == knob[Channel]  n == adcCount  a == adcAccumulator
    <3>1. /\ x \in 0 .. ADC_MAX /\ n \in 0 .. Samples /\ a \in 0 .. ADC_MAX * n /\ n < Samples
          /\ Samples \in Nat /\ ADC_MAX \in Nat
      BY ONLY <1>k, <1>f, <2>2, <2>4
    <3> HIDE DEF x, n, a
    <3>2. n + 1 \in 0 .. Samples /\ a + x \in 0 .. ADC_MAX * (n + 1)  BY ONLY <3>1
    <3> QED  BY ONLY <2>1, <3>2, Zenon DEF x, n, a
  <2>6. adcRunning' \in BOOLEAN
    <3>1. (adcCount' < Samples) \in BOOLEAN  BY ONLY SMT
    <3> QED  BY ONLY <2>1, <3>1, Zenon
  <2>7. adcRunning' => adcState' % 2 = 1 /\ adcCount' < Samples  BY ONLY <2>1, <2>2, Zenon
  <2> QED  BY ONLY <1>f, <2>1, <2>5, <2>6, <2>7, Zenon DEF ScanFits
<1>3. CASE Sleep
  <2>1. /\ adcRunning' = FALSE /\ adcState' = adcState /\ adcCount' = adcCount
        /\ adcAccumulator' = adcAccumulator /\ knob' = knob
    BY ONLY <1>3, Zenon DEF Sleep
  <2> QED  BY ONLY <1>f, <2>1, Zenon DEF ScanFits
<1>4. CASE Turn
  <2> DEFINE Values == 0 .. ADC_MAX
  <2>1. PICK c \in DOMAIN Voltages : \E v \in Voltages[c] : knob' = [knob EXCEPT ![c] = v]
    BY ONLY <1>4, Zenon DEF Turn
  <2>2. PICK v \in Voltages[c] : knob' = [knob EXCEPT ![c] = v]  BY ONLY <2>1, Zenon
  <2>3. Voltages \in [DOMAIN Start -> SUBSET Values]  BY Zenon DEF CabAssumption
  <2>4. knob \in [DOMAIN Start -> Values]  BY ONLY <1>f, Zenon
  <2> HIDE DEF Values
  <2>5. c \in DOMAIN Start  BY ONLY <2>3, <2>1, Zenon
  <2>6. Voltages[c] \subseteq Values  BY ONLY <2>3, <2>5, Zenon
  <2>7. v \in Values  BY ONLY <2>6, <2>2, Zenon
  <2>8. knob' \in [DOMAIN Start -> Values]  BY ONLY <2>2, <2>4, <2>5, <2>7, Zenon
  <2>9. UNCHANGED scanVars  BY ONLY <1>4, Zenon DEF Turn
  <2> QED  BY ONLY <1>t, <2>8, <2>9 DEF ScanFits, scanVars, Values
<1>5. CASE UNCHANGED <<knob, scanVars>>  BY ONLY <1>t, <1>5 DEF ScanFits, scanVars
<1> QED
  BY <1>1, <1>2, <1>3, <1>4, <1>5, Zenon
  DEF CabNext, Pass, CriticalBattery, Horn, CaptureLag, AssertLights, Wake, Tick

LEMMA LightAtFits == \A v : LightAt(v) \in Positions
BY DEF LightAt, Positions

LEMMA ReadingsFit ==
  ASSUME CabTypeOK, ReadHandle, Average \in 0 .. 255
  PROVE  InputsFit'
<1> DEFINE Readings == [VREV : {"REVERSE", "NEUTRAL", "FORWARD"}, VBRAKE : 0 .. 255, VHORN : 0 .. 255]
<1>1. readings \in Readings  BY DEF CabTypeOK, InputsFit
<1>2. ReverserAt(Average) \in {"REVERSE", "NEUTRAL", "FORWARD"}  BY DEF ReverserAt
<1>3. 255 - Average \in 0 .. 255  OBVIOUS
<1>4. readings' \in Readings
  <2>1. CASE Channel = "VREV"
    <3>1. readings' = [readings EXCEPT !["VREV"] = ReverserAt(Average)]  BY <2>1 DEF ReadHandle
    <3> QED  BY <1>1, <1>2, <3>1
  <2>2. CASE Channel = "VBRAKE"
    <3>1. readings' = [readings EXCEPT !["VBRAKE"] = Average]  BY <2>2 DEF ReadHandle
    <3> QED  BY <1>1, <3>1
  <2>3. CASE Channel = "VHORN"
    <3>1. readings' = [readings EXCEPT !["VHORN"] = 255 - Average]  BY <2>3 DEF ReadHandle
    <3> QED  BY <1>1, <1>3, <3>1
  <2> QED  BY <2>1, <2>2, <2>3 DEF ReadHandle
<1>5. UNCHANGED <<light, battery>>  BY DEF ReadHandle
<1> HIDE DEF Readings
<1>6. InputsFit  BY DEF CabTypeOK
<1> QED  BY <1>4, <1>5, <1>6 DEF InputsFit, Readings

LEMMA DebouncedFits ==
  ASSUME CabAssumption, NEW new \in Positions,
         NEW l \in [position : Positions, candidate : Positions,
                    count : 0 .. LIGHT_DEBOUNCE_THRESHOLD]
  PROVE  Debounced(l, new) \in [position : Positions, candidate : Positions,
                                count : 0 .. LIGHT_DEBOUNCE_THRESHOLD]
<1>1. LIGHT_DEBOUNCE_THRESHOLD \in Nat  BY Constants DEF ConstantsFit
<1>2. CASE new # l.candidate  BY <1>1, <1>2 DEF Debounced
<1>3. CASE new = l.candidate /\ l.count < LIGHT_DEBOUNCE_THRESHOLD
  <2>1. l.count + 1 \in 0 .. LIGHT_DEBOUNCE_THRESHOLD  BY <1>1, <1>3
  <2> QED  BY <1>3, <2>1 DEF Debounced
<1>4. CASE new = l.candidate /\ ~(l.count < LIGHT_DEBOUNCE_THRESHOLD)
  BY <1>4 DEF Debounced
<1> QED  BY <1>2, <1>3, <1>4

LEMMA ReadFits ==
  ASSUME CabAssumption, CabTypeOK, Read
  PROVE  InputsFit'
<1>c. ConstantsFit  BY Constants
<1> USE <1>c DEF CabTypeOK, ConstantsFit
<1>1. Average \in 0 .. 255 /\ ((adcAccumulator \div Samples) * 5) \div 31 \in 0 .. 255
  BY AverageFits
<1>2. CASE ReadHandle
  BY <1>1, <1>2, ReadingsFit DEF InputsFit
<1>3. CASE ReadLight
  <2> DEFINE new == LightAt(Average)
  <2>1. new \in Positions  BY LightAtFits
  <2> HIDE DEF new
  <2>2. Channel \in Sides /\ light[Channel] \in [position : Positions, candidate : Positions,
                                                count : 0 .. LIGHT_DEBOUNCE_THRESHOLD]
    BY <1>3 DEF ReadLight, InputsFit
  <2>3. Debounced(light[Channel], new) \in [position : Positions, candidate : Positions,
                                           count : 0 .. LIGHT_DEBOUNCE_THRESHOLD]
    BY <2>1, <2>2, DebouncedFits
  <2>4. light' = [light EXCEPT ![Channel] = Debounced(light[Channel], new)]
    BY <1>3 DEF ReadLight, new
  <2> QED  BY <1>3, <2>2, <2>3, <2>4 DEF ReadLight, InputsFit
<1>4. CASE ReadBattery
  <2> DEFINE v == ((adcAccumulator \div Samples) * 5) \div 31
             f == Filtered(battery.filter, v * BatteryUnit)
             m == 255 * BatteryUnit
  <2>1. v \in 0 .. 255  BY <1>1
  <2> HIDE DEF v
  <2>2. m \in Nat /\ v * BatteryUnit \in 0 .. m  BY <2>1
  <2>3. battery.filter \in 0 .. m  BY DEF InputsFit
  <2>4. f \in 0 .. m  BY <2>2, <2>3, FilterFits
  <2>5. battery' = [filter |-> f, state |-> BatteryState(f \div BatteryUnit, battery.state)]
    BY <1>4 DEF ReadBattery, SetBatteryVoltage, v
  <2> HIDE DEF f
  <2>6. BatteryState(f \div BatteryUnit, battery.state) \in {"FULL", "HALF", "EMPTY", "CRITICAL"}
    BY DEF BatteryState
  <2> QED  BY <1>4, <2>4, <2>5, <2>6 DEF ReadBattery, InputsFit
<1> QED  BY <1>2, <1>3, <1>4 DEF Read

LEMMA InputStep == ASSUME CabAssumption, CabTypeOK, CabNext PROVE InputsFit'
<1>1. CASE UNCHANGED inputVars  BY <1>1 DEF CabTypeOK, InputsFit, inputVars
<1>2. CASE Read  BY <1>2, ReadFits
<1> QED
  BY <1>1, <1>2
  DEF CabNext, Pass, ProcessADC, StartADC, NextLoop, Convert, CriticalBattery, Horn, CaptureLag,
      AssertLights, Sleep, Wake, Tick, Turn

\* What an entry of lag is.
Lag == [previous : Positions, asserted : SUBSET FNumbers, mask : SUBSET FNumbers,
        timeout : 0 .. LIGHT_LAG_HOLD_DECISECS]

LEMMA LagStep == ASSUME CabAssumption, CabTypeOK, CabNext PROVE LagsFit'
<1>c. ConstantsFit  BY Constants
<1> USE <1>c DEF CabTypeOK, ConstantsFit
<1>0. \A s \in Sides : lag[s] \in Lag /\ light[s].position \in Positions
  BY DEF LagsFit, InputsFit, Lag
<1>1. ASSUME NEW s \in Sides, CaptureLag(s)
      PROVE  LagsFit'
  <2> DEFINE t == IF Dropped(s) # {} THEN LIGHT_LAG_HOLD_DECISECS ELSE 0
             new == [previous |-> light[s].position, asserted |-> lag[s].asserted,
                     mask |-> Dropped(s), timeout |-> t]
  <2>1. lag[s] \in Lag /\ light[s].position \in Positions  BY <1>0
  <2>2. Dropped(s) \subseteq lag[s].asserted  BY DEF Dropped
  <2>3. t \in 0 .. LIGHT_LAG_HOLD_DECISECS  OBVIOUS
  <2>6. new \in Lag /\ new.mask \subseteq new.asserted  BY <2>1, <2>2, <2>3 DEF Lag
  <2>7. lag' = [lag EXCEPT ![s] = new]  BY <1>1 DEF CaptureLag
  <2> HIDE DEF new
  <2>8. horns' = horns  BY <1>1 DEF CaptureLag
  <2> QED  BY <2>6, <2>7, <2>8 DEF LagsFit, Lag
<1>2. ASSUME NEW s \in Sides, AssertLights(s)
      PROVE  LagsFit'
  <2> DEFINE held == IF lag[s].timeout > 0 THEN lag[s].mask ELSE {}
             new == [previous |-> lag[s].previous, asserted |-> NewMask(s) \cup held,
                     mask |-> held, timeout |-> lag[s].timeout]
  <2>1. lag[s] \in Lag  BY <1>0
  <2>2. NewMask(s) \subseteq FNumbers  BY <1>0, MaskFits DEF NewMask
  <2>3. held \subseteq FNumbers  BY <2>1 DEF Lag
  <2>6. new \in Lag /\ new.mask \subseteq new.asserted  BY <2>1, <2>2, <2>3 DEF Lag
  <2>7. lag' = [lag EXCEPT ![s] = new]  BY <1>2 DEF AssertLights
  <2> HIDE DEF new
  <2>8. horns' = horns  BY <1>2 DEF AssertLights
  <2> QED  BY <2>6, <2>7, <2>8 DEF LagsFit, Lag
<1>3. CASE Tick
  <2> DEFINE new(s) == [lag[s] EXCEPT !.timeout = IF @ > 0 THEN @ - 1 ELSE 0]
  <2>1. \A s \in Sides : new(s) \in Lag /\ new(s).mask \subseteq new(s).asserted
    BY <1>0 DEF LagsFit, Lag
  <2>2. lag' = [s \in Sides |-> new(s)]  BY <1>3 DEF Tick
  <2> HIDE DEF new
  <2> QED  BY <1>3, <2>1, <2>2 DEF Tick, LagsFit, Lag
<1>4. CASE Horn
  <2>1. horns' \subseteq {"HORN", "HORN2"}  BY <1>4 DEF Horn, Stage, Stage2
  <2> QED  BY <1>4, <2>1 DEF Horn, LagsFit
<1>5. CASE UNCHANGED <<horns, lag>>  BY <1>5 DEF LagsFit
<1> QED
  BY <1>1, <1>2, <1>3, <1>4, <1>5
  DEF CabNext, Pass, ProcessADC, Convert, CriticalBattery, Sleep, Wake, Turn

LEMMA PastStep == ASSUME CabAssumption, CabTypeOK, Remember PROVE PastFits'
<1>c. ConstantsFit  BY Constants
<1> USE <1>c DEF CabTypeOK, ConstantsFit
<1>1. \A s \in Sides : Seen(alike[s], LightAt(Average)) \in [position : Positions, times : 1 .. ReadingsNeeded]
  <2> TAKE s \in Sides
  <2> DEFINE new == LightAt(Average)
  <2>1. new \in Positions  BY LightAtFits
  <2> HIDE DEF new
  <2>2. alike[s] \in [position : Positions, times : 1 .. ReadingsNeeded]  BY DEF PastFits
  <2>3. Seen(alike[s], new) \in [position : Positions, times : 1 .. ReadingsNeeded]
    BY <2>1, <2>2 DEF Seen
  <2> QED  BY <2>3 DEF new
<1>2. alike' \in [Sides -> [position : Positions, times : 1 .. ReadingsNeeded]]
  BY <1>1 DEF Remember, PastFits
<1>3. struck' \in [Sides -> 0 .. LIGHT_LAG_HOLD_DECISECS]
  <2> DEFINE n(s) == IF lag'[s].previous # lag[s].previous THEN 0
                     ELSE IF Tick /\ struck[s] < LIGHT_LAG_HOLD_DECISECS THEN struck[s] + 1
                     ELSE struck[s]
  <2>1. \A s \in Sides : n(s) \in 0 .. LIGHT_LAG_HOLD_DECISECS  BY DEF PastFits
  <2>2. struck' = [s \in Sides |-> n(s)]  BY DEF Remember
  <2> HIDE DEF n
  <2> QED  BY <2>1, <2>2
<1> QED  BY <1>2, <1>3 DEF PastFits

LEMMA TypedStep == ASSUME CabAssumption, CabTypeOK, [KHNext]_caball PROVE CabTypeOK'
<1>1. CASE KHNext
  <2>1. at' \in {"adc", "horn", "VLIGHT_F", "LAG_F", "VLIGHT_R", "LAG_R", "asleep"}
    BY <1>1
    DEF CabTypeOK, KHNext, CabNext, Pass, ProcessADC, Convert, CriticalBattery, Horn, CaptureLag,
        Lagging, AssertLights, Sleep, Wake, Tick, Turn, Sides
  <2> QED  BY <1>1, <2>1, ScanStep, InputStep, LagStep, PastStep DEF KHNext, CabTypeOK
<1>2. CASE UNCHANGED caball
  BY <1>2 DEF caball, cabvars, scanVars, inputVars, CabTypeOK, ScanFits, InputsFit, LagsFit, PastFits
<1> QED  BY <1>1, <1>2

(* Whatever sleep cuts short, each reading is a byte, the battery stays     *)
(* within its filter, and a function that lags is one that is asserted.     *)
THEOREM ControlTypes == ASSUME CabAssumption PROVE KHSpec => []CabTypeOK
<1>1. KHInit => CabTypeOK  BY TypedInit
<1>2. CabTypeOK /\ [KHNext]_caball => CabTypeOK'  BY TypedStep
<1> QED  BY <1>1, <1>2, PTL DEF KHSpec

-----------------------------------------------------------------------------
(* The debouncing.  The last position read is the candidate, and it has been*)
(* read in a row at least once more than it was counted.                    *)
DebounceInv ==
  \A s \in Sides : /\ alike[s].position = light[s].candidate
                   /\ alike[s].times >= light[s].count + 1

\* What the property says of one step.
LightsHold ==
  \A s \in Sides : light'[s].position # light[s].position =>
    alike'[s] = [position |-> light'[s].position, times |-> ReadingsNeeded]

LEMMA OnlyReadsMove ==
  ASSUME CabAssumption, CabTypeOK, KHNext, ~(Read /\ ReadLight)
  PROVE  light' = light /\ alike' = alike
<1> USE DEF KHNext
<1>1. light' = light
  BY DEF CabNext, Pass, ProcessADC, StartADC, Read, ReadHandle, ReadBattery, NextLoop, Convert,
         CriticalBattery, Horn, CaptureLag, AssertLights, Sleep, Wake, Tick, Turn, inputVars
<1>2. ASSUME NEW s \in Sides  PROVE ~(adcState % 2 = 1 /\ adcState' # adcState /\ Channel = s)
  <2>1. CASE adcState' = adcState  BY <2>1
  <2>2. CASE Read  BY <2>2 DEF Read, ReadHandle, ReadBattery, Sides
  <2>3. CASE StartADC  BY <2>3 DEF StartADC
  <2>4. CASE NextLoop
    <3>1. adcState = 2 * Len(Channels) /\ Len(Channels) \in Nat
      BY <2>4, Constants DEF NextLoop, ConstantsFit
    <3>2. adcState % 2 # 1  BY ONLY <3>1
    <3> QED  BY <3>2
  <2> QED
    BY <2>1, <2>2, <2>3, <2>4
    DEF CabNext, Pass, ProcessADC, Convert, CriticalBattery, Horn, CaptureLag, AssertLights, Sleep,
        Wake, Tick, Turn, scanVars
<1>3. alike \in [Sides -> [position : Positions, times : 1 .. ReadingsNeeded]]
  BY DEF CabTypeOK, PastFits
<1>4. alike' = [s \in Sides |-> alike[s]]  BY <1>2 DEF Remember
<1> QED  BY <1>1, <1>3, <1>4

LEMMA DebounceStep ==
  ASSUME CabAssumption, CabTypeOK, DebounceInv, KHNext
  PROVE  DebounceInv' /\ LightsHold
<1>c. ConstantsFit  BY Constants
<1>1. CASE ~(Read /\ ReadLight)  BY <1>1, OnlyReadsMove DEF DebounceInv, LightsHold
<1>2. CASE Read /\ ReadLight
  <2> DEFINE new == LightAt(Average)
             Light == [position : Positions, candidate : Positions,
                       count : 0 .. LIGHT_DEBOUNCE_THRESHOLD]
             Run == [position : Positions, times : 1 .. ReadingsNeeded]
  <2>1. /\ Channel \in Sides /\ light' = [light EXCEPT ![Channel] = Debounced(light[Channel], new)]
        /\ adcState % 2 = 1 /\ adcState' # adcState
    <3>1. adcState \in Int  BY DEF CabTypeOK, ScanFits
    <3> QED  BY <1>2, <3>1 DEF Read, ReadLight
  <2>2. alike' = [s \in Sides |-> IF Channel = s THEN Seen(alike[s], new) ELSE alike[s]]
    BY <2>1 DEF KHNext, Remember
  <2> HIDE DEF new
  <2>3. ASSUME NEW s \in Sides, s # Channel
        PROVE  light'[s] = light[s] /\ alike'[s] = alike[s]
    BY <2>1, <2>2, <2>3 DEF CabTypeOK, InputsFit
  <2> DEFINE l == light[Channel]  a == alike[Channel]
  <2>4. light'[Channel] = Debounced(l, new) /\ alike'[Channel] = Seen(a, new)
    BY <2>1, <2>2 DEF CabTypeOK, InputsFit
  <2>5. l \in Light /\ a \in Run  BY <2>1 DEF CabTypeOK, InputsFit, PastFits
  <2>6. a.position = l.candidate /\ a.times >= l.count + 1  BY <2>1 DEF DebounceInv
  <2> HIDE DEF l, a
  <2>7. /\ Seen(a, new).position = Debounced(l, new).candidate
        /\ Seen(a, new).times >= Debounced(l, new).count + 1
        /\ Debounced(l, new).position # l.position =>
             Seen(a, new) = [position |-> Debounced(l, new).position, times |-> ReadingsNeeded]
    <3>1. CASE new # l.candidate
      BY <3>1, <2>5, <2>6 DEF Seen, Debounced
    <3>2. CASE new = l.candidate /\ l.count < LIGHT_DEBOUNCE_THRESHOLD
      BY <3>2, <2>5, <2>6, <1>c DEF Seen, Debounced, ConstantsFit
    <3>3. CASE new = l.candidate /\ ~(l.count < LIGHT_DEBOUNCE_THRESHOLD)
      <4>1. l.count = LIGHT_DEBOUNCE_THRESHOLD /\ a.times >= LIGHT_DEBOUNCE_THRESHOLD + 1
        BY <3>3, <2>5, <2>6, <1>c DEF ConstantsFit
      <4>2. Debounced(l, new) = [l EXCEPT !.position = new]  BY <3>3 DEF Debounced
      <4>3. /\ Debounced(l, new).position = new /\ Debounced(l, new).candidate = l.candidate
            /\ Debounced(l, new).count = l.count
        BY <4>2, <2>5
      <4>4. Seen(a, new) = [position |-> new, times |-> ReadingsNeeded]
        BY <4>1, <3>3, <2>5, <2>6, <1>c DEF Seen, ConstantsFit
      <4> QED  BY <4>1, <4>3, <4>4, <3>3, <1>c DEF ConstantsFit
    <3> QED  BY <3>1, <3>2, <3>3
  <2>8. LightsHold
    <3> SUFFICES ASSUME NEW s \in Sides, light'[s].position # light[s].position
                 PROVE  alike'[s] = [position |-> light'[s].position, times |-> ReadingsNeeded]
      BY DEF LightsHold
    <3>1. s = Channel  BY <2>3
    <3> QED  BY <3>1, <2>4, <2>7 DEF l
  <2>9. DebounceInv'
    <3> SUFFICES ASSUME NEW s \in Sides
                 PROVE  alike'[s].position = light'[s].candidate /\ alike'[s].times >= light'[s].count + 1
      BY DEF DebounceInv
    <3>1. CASE s = Channel  BY <3>1, <2>4, <2>7
    <3>2. CASE s # Channel  BY <3>2, <2>3 DEF DebounceInv
    <3> QED  BY <3>1, <3>2
  <2> QED  BY <2>8, <2>9
<1> QED  BY <1>1, <1>2

-----------------------------------------------------------------------------
(* The lag.  What a side asserts is what its last noticed position asks for *)
(* and what lags; in the step between capturing the lag and looking at it,  *)
(* all that is about to drop lags; and a lag lasts until the timer has      *)
(* struck often enough.                                                     *)
LagInv ==
  \A s \in Sides :
    /\ at = Lagging(s) => ~Moved(s) /\ lag[s].asserted \subseteq NewMask(s) \cup lag[s].mask
    /\ at # Lagging(s) => lag[s].asserted \subseteq Mask(s, lag[s].previous) \cup lag[s].mask
    /\ lag[s].mask = {} \/ lag[s].timeout + struck[s] >= LIGHT_LAG_HOLD_DECISECS

\* What the property says of one step.
LightsOverlap ==
  \A s \in Sides : lag[s].asserted \subseteq lag'[s].asserted \/ struck[s] = LIGHT_LAG_HOLD_DECISECS

LEMMA StruckMoves ==
  ASSUME CabAssumption, CabTypeOK, KHNext, NEW s \in Sides, lag'[s].previous = lag[s].previous
  PROVE  /\ struck'[s] >= struck[s]
         /\ Tick => struck'[s] = IF struck[s] < LIGHT_LAG_HOLD_DECISECS THEN struck[s] + 1
                                 ELSE LIGHT_LAG_HOLD_DECISECS
<1>1. struck[s] \in 0 .. LIGHT_LAG_HOLD_DECISECS /\ LIGHT_LAG_HOLD_DECISECS \in Nat
  BY Constants DEF CabTypeOK, PastFits, ConstantsFit
<1>2. struck'[s] = IF Tick /\ struck[s] < LIGHT_LAG_HOLD_DECISECS THEN struck[s] + 1 ELSE struck[s]
  BY DEF KHNext, Remember
<1> QED  BY ONLY <1>1, <1>2

LEMMA CaptureKeeps ==
  ASSUME CabAssumption, CabTypeOK, LagInv, KHNext, NEW r \in Sides, CaptureLag(r)
  PROVE  LagInv' /\ LightsOverlap
<1>c. ConstantsFit  BY Constants
<1>1. light' = light /\ at = r /\ at' = Lagging(r)  BY DEF CaptureLag, inputVars
<1>2. lag \in [Sides -> Lag]  BY DEF CabTypeOK, LagsFit, Lag
<1>3. /\ lag'[r].previous = light[r].position /\ lag'[r].mask = Dropped(r)
      /\ lag'[r].asserted = lag[r].asserted
      /\ lag'[r].timeout = IF Dropped(r) # {} THEN LIGHT_LAG_HOLD_DECISECS ELSE 0
  BY <1>2 DEF CaptureLag
<1>4. \A s \in Sides : s # r => lag'[s] = lag[s]  BY <1>2 DEF CaptureLag
<1>5. lag[r].previous # light[r].position  BY DEF CaptureLag, Moved
<1>6. struck'[r] = 0  BY <1>3, <1>5 DEF KHNext, Remember
<1>7. \A s \in Sides : s # r => at # Lagging(s) /\ at' # Lagging(s)
  BY <1>1 DEF Lagging, Sides
<1>8. LightsOverlap  BY <1>3, <1>4 DEF LightsOverlap
<1>9. ASSUME NEW s \in Sides
      PROVE  /\ at' = Lagging(s) => ~Moved(s)' /\ lag'[s].asserted \subseteq NewMask(s)' \cup lag'[s].mask
             /\ at' # Lagging(s) => lag'[s].asserted \subseteq Mask(s, lag'[s].previous) \cup lag'[s].mask
             /\ lag'[s].mask = {} \/ lag'[s].timeout + struck'[s] >= LIGHT_LAG_HOLD_DECISECS
  <2>1. CASE s = r
    <3>1. ~Moved(s)'  BY <2>1, <1>1, <1>3 DEF Moved
    <3>2. NewMask(s)' = NewMask(s)  BY <1>1 DEF NewMask, Mask
    <3>3. lag'[s].asserted \subseteq NewMask(s)' \cup lag'[s].mask  BY <2>1, <3>2, <1>3 DEF Dropped
    <3>4. lag'[s].mask = {} \/ lag'[s].timeout + struck'[s] >= LIGHT_LAG_HOLD_DECISECS
      BY <2>1, <1>3, <1>6, <1>c DEF ConstantsFit
    <3> QED  BY <3>1, <3>3, <3>4, <1>1, <2>1
  <2>2. CASE s # r
    <3>1. lag'[s] = lag[s] /\ at # Lagging(s) /\ at' # Lagging(s)  BY <2>2, <1>4, <1>7
    <3>2. struck'[s] >= struck[s]  BY <3>1, StruckMoves
    <3>3. struck'[s] \in Int /\ struck[s] \in Int /\ lag[s].timeout \in Int
      <4>1. PastFits'  BY PastStep DEF KHNext
      <4> QED  BY <4>1, <1>2 DEF PastFits, CabTypeOK, Lag
    <3>4. lag[s].mask = {} \/ lag[s].timeout + struck[s] >= LIGHT_LAG_HOLD_DECISECS  BY DEF LagInv
    <3>5. lag[s].asserted \subseteq Mask(s, lag[s].previous) \cup lag[s].mask  BY <3>1 DEF LagInv
    <3>6. lag[s].mask = {} \/ lag[s].timeout + struck'[s] >= LIGHT_LAG_HOLD_DECISECS
      BY <3>2, <3>3, <3>4, <1>c DEF ConstantsFit
    <3> QED  BY <3>1, <3>5, <3>6
  <2> QED  BY <2>1, <2>2
<1> QED  BY <1>8, <1>9 DEF LagInv

LEMMA Numbers ==
  ASSUME CabAssumption, CabTypeOK, KHNext, NEW s \in Sides
  PROVE  /\ struck[s] \in 0 .. LIGHT_LAG_HOLD_DECISECS /\ struck'[s] \in Int
         /\ lag[s].timeout \in Nat /\ LIGHT_LAG_HOLD_DECISECS \in Nat \ {0}
<1>1. PastFits'  BY PastStep DEF KHNext
<1>2. LIGHT_LAG_HOLD_DECISECS \in Nat \ {0}  BY Constants DEF ConstantsFit
<1> QED  BY <1>1, <1>2 DEF PastFits, CabTypeOK, LagsFit

LEMMA AssertKeeps ==
  ASSUME CabAssumption, CabTypeOK, LagInv, KHNext, NEW r \in Sides, AssertLights(r)
  PROVE  LagInv' /\ LightsOverlap
<1> DEFINE held == IF lag[r].timeout > 0 THEN lag[r].mask ELSE {}
<1>1. light' = light /\ (at = Lagging(r) \/ (at = r /\ ~Moved(r)))  BY DEF AssertLights, inputVars
<1>2. lag \in [Sides -> Lag]  BY DEF CabTypeOK, LagsFit, Lag
<1>3. /\ lag'[r].previous = lag[r].previous /\ lag'[r].mask = held
      /\ lag'[r].asserted = NewMask(r) \cup held /\ lag'[r].timeout = lag[r].timeout
  BY <1>2 DEF AssertLights
<1>4. \A s \in Sides : s # r => lag'[s] = lag[s]  BY <1>2 DEF AssertLights
<1>5. \A s \in Sides : at' # Lagging(s)  BY DEF AssertLights, Lagging, Sides
<1>6. \A s \in Sides : s # r => at # Lagging(s)  BY <1>1 DEF Lagging, Sides
<1>7. lag[r].previous = light[r].position  BY <1>1 DEF LagInv, Moved
<1>8. NewMask(r) = Mask(r, lag[r].previous)  BY <1>7 DEF NewMask
<1>9. lag[r].asserted \subseteq NewMask(r) \cup lag[r].mask
  <2>1. at = Lagging(r) => lag[r].asserted \subseteq NewMask(r) \cup lag[r].mask  BY DEF LagInv
  <2>2. at # Lagging(r) => lag[r].asserted \subseteq Mask(r, lag[r].previous) \cup lag[r].mask
    BY DEF LagInv
  <2> QED  BY <2>1, <2>2, <1>8
<1> HIDE DEF held
<1>10. LightsOverlap
  <2> SUFFICES ASSUME NEW s \in Sides, struck[s] # LIGHT_LAG_HOLD_DECISECS
               PROVE  lag[s].asserted \subseteq lag'[s].asserted
    BY DEF LightsOverlap
  <2>1. CASE s = r
    <3>1. lag[r].mask = {} \/ lag[r].timeout + struck[r] >= LIGHT_LAG_HOLD_DECISECS  BY DEF LagInv
    <3>2. lag[r].mask = {} \/ lag[r].timeout > 0  BY <2>1, <3>1, Numbers
    <3>3. held = lag[r].mask  BY <3>2 DEF held
    <3> QED  BY <2>1, <3>3, <1>3, <1>9
  <2> QED  BY <2>1, <1>4
<1>11. ASSUME NEW s \in Sides
       PROVE  /\ lag'[s].asserted \subseteq Mask(s, lag'[s].previous) \cup lag'[s].mask
              /\ lag'[s].mask = {} \/ lag'[s].timeout + struck'[s] >= LIGHT_LAG_HOLD_DECISECS
  <2>1. lag'[s].previous = lag[s].previous /\ lag'[s].timeout = lag[s].timeout
    BY <1>3, <1>4
  <2>2. struck'[s] >= struck[s]  BY <2>1, StruckMoves
  <2>3. lag[s].mask = {} \/ lag[s].timeout + struck[s] >= LIGHT_LAG_HOLD_DECISECS  BY DEF LagInv
  <2>4. lag[s].mask = {} \/ lag'[s].timeout + struck'[s] >= LIGHT_LAG_HOLD_DECISECS
    BY <2>1, <2>2, <2>3, Numbers
  <2>5. CASE s = r
    <3>1. lag'[s].mask = {} \/ lag'[s].mask = lag[s].mask  BY <2>5, <1>3 DEF held
    <3>2. lag'[s].asserted = Mask(s, lag'[s].previous) \cup lag'[s].mask
      BY <2>5, <1>3, <1>8
    <3> QED  BY <2>4, <3>1, <3>2
  <2>6. CASE s # r
    <3>1. lag'[s] = lag[s] /\ at # Lagging(s)  BY <2>6, <1>4, <1>6
    <3>2. lag[s].asserted \subseteq Mask(s, lag[s].previous) \cup lag[s].mask
      BY <3>1 DEF LagInv
    <3> QED  BY <2>4, <3>1, <3>2
  <2> QED  BY <2>5, <2>6
<1> QED  BY <1>5, <1>10, <1>11 DEF LagInv

LEMMA TickKeeps ==
  ASSUME CabAssumption, CabTypeOK, LagInv, KHNext, Tick
  PROVE  LagInv' /\ LightsOverlap
<1>1. light' = light /\ at' = at  BY DEF Tick, inputVars
<1>2. lag \in [Sides -> Lag]  BY DEF CabTypeOK, LagsFit, Lag
<1>3. ASSUME NEW s \in Sides
      PROVE  /\ lag'[s].previous = lag[s].previous /\ lag'[s].mask = lag[s].mask
             /\ lag'[s].asserted = lag[s].asserted
             /\ lag'[s].timeout = IF lag[s].timeout > 0 THEN lag[s].timeout - 1 ELSE 0
  <2>1. lag'[s] = [lag[s] EXCEPT !.timeout = IF lag[s].timeout > 0 THEN lag[s].timeout - 1 ELSE 0]
    BY DEF Tick
  <2>2. lag[s] \in Lag  BY <1>2
  <2> QED  BY <2>1, <2>2 DEF Lag
<1>4. LightsOverlap  BY <1>3 DEF LightsOverlap
<1>5. ASSUME NEW s \in Sides
      PROVE  /\ at' = Lagging(s) => ~Moved(s)' /\ lag'[s].asserted \subseteq NewMask(s)' \cup lag'[s].mask
             /\ at' # Lagging(s) => lag'[s].asserted \subseteq Mask(s, lag'[s].previous) \cup lag'[s].mask
             /\ lag'[s].mask = {} \/ lag'[s].timeout + struck'[s] >= LIGHT_LAG_HOLD_DECISECS
  <2>1. NewMask(s)' = NewMask(s) /\ (Moved(s)' <=> Moved(s))
    BY <1>1, <1>3 DEF NewMask, Moved, Mask
  <2>2. lag'[s].mask = {} \/ lag'[s].timeout + struck'[s] >= LIGHT_LAG_HOLD_DECISECS
    <3>1. struck'[s] = IF struck[s] < LIGHT_LAG_HOLD_DECISECS THEN struck[s] + 1
                       ELSE LIGHT_LAG_HOLD_DECISECS
      BY <1>3, StruckMoves
    <3>2. lag[s].mask = {} \/ lag[s].timeout + struck[s] >= LIGHT_LAG_HOLD_DECISECS  BY DEF LagInv
    <3>3. /\ struck[s] \in 0 .. LIGHT_LAG_HOLD_DECISECS /\ lag[s].timeout \in Nat
          /\ LIGHT_LAG_HOLD_DECISECS \in Nat \ {0}
      BY Numbers
    <3>4. lag'[s].timeout = (IF lag[s].timeout > 0 THEN lag[s].timeout - 1 ELSE 0)
          /\ lag'[s].mask = lag[s].mask
      BY <1>3
    <3> QED  BY ONLY <3>1, <3>2, <3>3, <3>4
  <2>3. at = Lagging(s) => ~Moved(s) /\ lag[s].asserted \subseteq NewMask(s) \cup lag[s].mask
    BY DEF LagInv
  <2>4. at # Lagging(s) => lag[s].asserted \subseteq Mask(s, lag[s].previous) \cup lag[s].mask
    BY DEF LagInv
  <2>5. lag'[s].previous = lag[s].previous /\ lag'[s].mask = lag[s].mask /\ lag'[s].asserted = lag[s].asserted
    BY <1>3
  <2>6. at' = Lagging(s) => ~Moved(s)' /\ lag'[s].asserted \subseteq NewMask(s)' \cup lag'[s].mask
    BY <1>1, <2>1, <2>3, <2>5
  <2>7. at' # Lagging(s) => lag'[s].asserted \subseteq Mask(s, lag'[s].previous) \cup lag'[s].mask
    BY <1>1, <2>4, <2>5
  <2> QED  BY <2>2, <2>6, <2>7
<1> QED  BY <1>4, <1>5 DEF LagInv

\* The rest of a pass, the converter, the crew and sleep move neither.
Elsewhere == \/ ProcessADC \/ CriticalBattery \/ Horn \/ Convert \/ Sleep \/ Wake \/ Turn

LEMMA ElsewhereKeeps ==
  ASSUME CabAssumption, CabTypeOK, LagInv, KHNext, Elsewhere
  PROVE  LagInv' /\ LightsOverlap
<1>1. lag' = lag
  BY DEF Elsewhere, ProcessADC, CriticalBattery, Horn, Convert, Sleep, Wake, Turn
<1>2. \/ light' = light /\ at' = at
      \/ \A s \in Sides : at # Lagging(s) /\ at' # Lagging(s)
  BY DEF Elsewhere, ProcessADC, CriticalBattery, Horn, Convert, Sleep, Wake, Turn, Lagging, Sides,
         inputVars
<1>3. LightsOverlap  BY <1>1 DEF LightsOverlap
<1>4. ASSUME NEW s \in Sides
      PROVE  /\ at' = Lagging(s) => ~Moved(s)' /\ lag'[s].asserted \subseteq NewMask(s)' \cup lag'[s].mask
             /\ at' # Lagging(s) => lag'[s].asserted \subseteq Mask(s, lag'[s].previous) \cup lag'[s].mask
             /\ lag'[s].mask = {} \/ lag'[s].timeout + struck'[s] >= LIGHT_LAG_HOLD_DECISECS
  <2>1. lag'[s].mask = {} \/ lag'[s].timeout + struck'[s] >= LIGHT_LAG_HOLD_DECISECS
    <3>1. lag'[s].timeout = lag[s].timeout /\ lag'[s].mask = lag[s].mask  BY <1>1
    <3>2. struck'[s] >= struck[s]  BY <1>1, StruckMoves
    <3>3. lag[s].mask = {} \/ lag[s].timeout + struck[s] >= LIGHT_LAG_HOLD_DECISECS  BY DEF LagInv
    <3>4. struck[s] \in Int /\ struck'[s] \in Int /\ lag[s].timeout \in Int
          /\ LIGHT_LAG_HOLD_DECISECS \in Int
      BY Numbers
    <3> QED  BY ONLY <3>1, <3>2, <3>3, <3>4
  <2>2. CASE light' = light /\ at' = at
    <3>1. NewMask(s)' = NewMask(s) /\ (Moved(s)' <=> Moved(s))
      BY <2>2, <1>1 DEF NewMask, Moved, Mask
    <3>2. at = Lagging(s) => ~Moved(s) /\ lag[s].asserted \subseteq NewMask(s) \cup lag[s].mask
      BY DEF LagInv
    <3>3. at # Lagging(s) => lag[s].asserted \subseteq Mask(s, lag[s].previous) \cup lag[s].mask
      BY DEF LagInv
    <3> QED  BY <2>1, <2>2, <1>1, <3>1, <3>2, <3>3
  <2>3. CASE at # Lagging(s) /\ at' # Lagging(s)
    <3>1. lag[s].asserted \subseteq Mask(s, lag[s].previous) \cup lag[s].mask
      BY <2>3 DEF LagInv
    <3> QED  BY <2>1, <2>3, <1>1, <3>1
  <2> QED  BY <1>2, <2>2, <2>3
<1> QED  BY <1>3, <1>4 DEF LagInv

-----------------------------------------------------------------------------
CabInv == CabTypeOK /\ DebounceInv /\ LagInv

LEMMA CabInvInit == ASSUME CabAssumption, KHInit PROVE CabInv
<1>1. CabTypeOK  BY TypedInit
<1>2. DebounceInv  BY DEF KHInit, CabInit, DebounceInv
<1>3. LagInv  BY DEF KHInit, CabInit, LagInv, Lagging, Sides
<1> QED  BY <1>1, <1>2, <1>3 DEF CabInv

LEMMA CabInvStep ==
  ASSUME CabAssumption, CabInv, [KHNext]_caball
  PROVE  CabInv' /\ ((LightsHold /\ LightsOverlap) \/ UNCHANGED caball)
<1>0. CabTypeOK'  BY TypedStep DEF CabInv
<1>1. CASE KHNext
  <2>1. DebounceInv' /\ LightsHold  BY <1>1, DebounceStep DEF CabInv
  <2>2. LagInv' /\ LightsOverlap
    <3>1. \/ \E r \in Sides : CaptureLag(r) \/ AssertLights(r)
          \/ Tick \/ Elsewhere
      BY <1>1 DEF KHNext, CabNext, Pass, Elsewhere
    <3> QED  BY <3>1, <1>1, CaptureKeeps, AssertKeeps, TickKeeps, ElsewhereKeeps DEF CabInv
  <2> QED  BY <1>0, <2>1, <2>2 DEF CabInv
<1>2. CASE UNCHANGED caball
  <2>1. light' = light /\ lag' = lag /\ at' = at /\ alike' = alike /\ struck' = struck
    BY <1>2 DEF caball, cabvars, inputVars
  <2>2. DebounceInv'  BY <2>1 DEF CabInv, DebounceInv
  <2>3. LagInv'  BY <2>1 DEF CabInv, LagInv, Moved, NewMask, Mask
  <2> QED  BY <1>0, <1>2, <2>2, <2>3 DEF CabInv
<1> QED  BY <1>1, <1>2

(* For any debounce, lag and assignment of functions: a light moves only    *)
(* after as many readings in a row as the debouncing takes, whatever knobs  *)
(* do and sleep cuts short, and no function of a light drops before the     *)
(* timer has struck since the last change was noticed.                      *)
THEOREM NeverFlickers == ASSUME CabAssumption PROVE KHSpec => NoFlicker
<1>1. KHInit => CabInv  BY CabInvInit
<1>2. CabInv /\ [KHNext]_caball => CabInv'  BY CabInvStep
<1>3. CabInv /\ [KHNext]_caball => [LightsHold]_caball /\ [LightsOverlap]_caball
  BY CabInvStep
<1> QED
  BY <1>1, <1>2, <1>3, PTL
  DEF KHSpec, NoFlicker, LightsDebounced, CrossfadesOverlap, LightsHold, LightsOverlap
=============================================================================
