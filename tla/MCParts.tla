------------------------------ MODULE MCParts ------------------------------
(***************************************************************************)
(* Small instances of the parts of the cab that work apart from each other,*)
(* checked in one run: `part' says which of them moves, the others stay    *)
(* where they began.  The state space is the sum of theirs and each        *)
(* property speaks of one part.                                            *)
(***************************************************************************)
EXTENDS SpeedScreen, AirBrakeHistory, SpeedHistory, LocoEditor, ConfigHistory, FiniteSets

CONSTANTS l1, l2, l3                  \* locomotives

VARIABLES
    part,       \* which part moves
    beat,       \* flips with every 100 ms tick of the two simulations
    \* BrakeHistory
    brakePosition, brakeState, controls, currentStackBand, brakeCommitted,
    brakeCounter, atRest, loopAt, leverSteady, ran, bandMoved, ratchet, kept,
    \* CabHistory
    knob, adcState, adcRunning, adcAccumulator, adcCount, readings, light, battery, horns,
    lag, cabAt, alike, struck

brakeAll  == <<brakePosition, brakeState, controls, currentStackBand, brakeCommitted,
               brakeCounter, atRest, loopAt, leverSteady, ran, bandMoved, ratchet, kept>>
cabAll    == <<knob, adcState, adcRunning, adcAccumulator, adcCount, readings, light,
               battery, horns, lag, cabAt, alike, struck>>
allParts  == <<part, beat, brakeAll, airall, speedall, engineall, editorvars, sVars,
               cabAll, chVars>>

-----------------------------------------------------------------------------
(* The lever of MCBrakeHistory.  BRK TYPE stays; a PULSE of another width   *)
(* may come in.                                                             *)
MCLever == {0, 30, 37, 42, 47, 62, 101, 121}
Make(t, five, c, w) == [type |-> t, fiveStep |-> five, combos |-> c, width |-> w]
Combos(n) == [b \in 0..5 |-> CASE b = 1 -> {"BRAKE"} [] b = 2 -> {"BK2"}
                                [] b = 3 -> {"BRAKE", "BK2", "BK3"}
                                [] b \in 4..n -> {"BK3"} [] OTHER -> {}]
MCSettings ==
    {Make(t, FALSE, Combos(0), 2) : t \in {"STANDARD", "STEP", "PULSE"}}
    \union {Make("PULSE", FALSE, Combos(0), 3),
            Make("STACK", TRUE, Combos(5), 2)}

Brake == INSTANCE BrakeHistory WITH Lever <- MCLever, Settings <- MCSettings,
            brakeLowThreshold <- 20, brakeThreshold <- 60, brakeHighThreshold <- 120,
            committed <- brakeCommitted, at <- loopAt, steady <- leverSteady

(* A brake pipe of 5 PSI in halves: a pump that keeps up exactly with the   *)
(* leak, and a governor whose cut-out lies below its cut-in.                *)
Handle(p, r) == [pcnt |-> p, rest |-> r]
MCAirs ==
    {[charged |-> 5, mrIn |-> 3, mrOut |-> 4, charge |-> 600, leak |-> 300, pump |-> 300,
      load |-> 60, estop |-> TRUE],
     [charged |-> 5, mrIn |-> 5, mrOut |-> 4, charge |-> 300, leak |-> 300, pump |-> 900,
      load |-> 40, estop |-> FALSE]}

MCHandles == {Handle(0, TRUE), Handle(15, FALSE), Handle(92, FALSE), Handle(100, FALSE)}

(* Two speed steps of six units: a locomotive with a ramp, corrections and*)
(* a start delay, and one so slow that a tick is less than a unit.          *)
Lively == [accel |-> 8, accelAdj |-> 132, decel |-> 8, decelAdj |-> 1,
           brake |-> <<60, 80, 120>>, delay |-> 1, maxMph |-> 30,
           opload |-> 128, prload |-> 255, accPct |-> 10, accTarget |-> 1,
           decPct |-> 100, decThr |-> 0]
Heavy  == [Lively EXCEPT !.accel = 16, !.accelAdj = 0, !.decel = 4, !.decelAdj = 0,
                         !.delay = 0, !.decPct = 0, !.maxMph = 20]
MCSpeeds == {Lively, Heavy}
MCEdits  == {[item |-> "delay", value |-> 0]}
Asked(d, b) == [demand |-> d, brakes |-> b, emergency |-> FALSE, stopFn |-> FALSE,
                hold |-> FALSE, load |-> "none"]
MCInputs == {Asked(0, {}), Asked(1, {}), Asked(2, {}), Asked(2, {1}), Asked(2, {1, 2}),
             [Asked(2, {}) EXCEPT !.emergency = TRUE],
             [Asked(2, {}) EXCEPT !.stopFn = TRUE],
             [Asked(0, {}) EXCEPT !.hold = TRUE]}

MCLocos == {l1, l2, l3, NoLoco}

(* SPEED CFG: one item per way of being edited and read.                    *)
MCSamples == [BRAKE2 |-> {0, 255}, OPLOAD_FN |-> {5, 255}, HOLD_FN |-> {9, 255}]
BaseProfile == [i \in Items |-> IF i \in DOMAIN Healed THEN Healed[i] ELSE ItemDefault(i)]
MCProfiles == {BaseProfile, [BaseProfile EXCEPT !["TYPE"] = V4, !["HOLD_FN"] = 9,
                                !["OPLOAD_FN"] = 5, !["ACCEL_PCT"] = 255]}

(* One stored profile and the working one; the bytes that moved since       *)
(* layout 2 vary apart from those that stayed.                              *)
Slot(moved, stayed) == [c \in Cells |-> IF c \in {"x2C", "x3D"} THEN moved ELSE stayed]
MCImages == {Slot("U", "E"), Slot("E", "U")}

(* The controls of the cab, of which one moves at a time.  The front light  *)
(* has readings of two conversions, so that one cut short gives another     *)
(* position; the lever of the two-stage horn and the battery one.           *)
MCStart == [VREV |-> 320, VBRAKE |-> 0, VHORN |-> 1020, VLIGHT_F |-> 1000, VLIGHT_R |-> 1000,
            VBATT |-> 131]
Moves == [c \in DOMAIN MCStart |->
            CASE c = "VHORN" -> {1020, 500, 0} [] c = "VLIGHT_F" -> {1000, 250}
              [] c = "VBATT" -> {50, 131} [] OTHER -> {MCStart[c]}]
MovingChannel == CASE part = "light" -> "VLIGHT_F" [] part = "horn" -> "VHORN" [] OTHER -> "VBATT"
Functions == [s \in {"VLIGHT_F", "VLIGHT_R"} |->
                [DIM1 |-> {1}, DIM2 |-> {}, HEADLIGHT |-> {0}, DITCH |-> {2}]]

Lights == INSTANCE CabHistory WITH Channels <- <<"VLIGHT_F">>, Samples <- 2,
            LIGHT_DEBOUNCE_THRESHOLD <- 1, LIGHT_LAG_HOLD_DECISECS <- 1,
            HORN_HYSTERESIS <- 5, hornThreshold <- 100, hornThreshold2 <- 200,
            exclusiveHorn <- TRUE, exclusiveDitch <- FALSE, LightFunctions <- Functions,
            BATTERY_FILTER_COEF <- 2, BatteryUnit <- 1,
            batteryOkay <- 3, batteryWarn <- 2, batteryCritical <- 1,
            Voltages <- Moves, Start <- MCStart, at <- cabAt
Levers == INSTANCE CabHistory WITH Channels <- <<"VHORN", "VBATT">>, Samples <- 1,
            LIGHT_DEBOUNCE_THRESHOLD <- 1, LIGHT_LAG_HOLD_DECISECS <- 1,
            HORN_HYSTERESIS <- 5, hornThreshold <- 100, hornThreshold2 <- 200,
            exclusiveHorn <- TRUE, exclusiveDitch <- TRUE, LightFunctions <- Functions,
            BATTERY_FILTER_COEF <- 2, BatteryUnit <- 1,
            batteryOkay <- 3, batteryWarn <- 2, batteryCritical <- 1,
            Voltages <- Moves, Start <- MCStart, at <- cabAt

ASSUME PartsAssumption ==
    /\ AirAssumption /\ SpeedHistoryAssumption /\ EngineAssumption
    /\ Lights!CabAssumption /\ Levers!CabAssumption /\ ConfigAssumption

-----------------------------------------------------------------------------
Parts == {"brake", "air", "speed", "engine", "editor", "screen", "store",
          "light", "horn", "battery"}
Ticking == {"air", "speed"}

(* A part that does not move begins in one chosen initial state.            *)
Pinned(p, state) == part # p => state

PInit ==
    /\ part \in Parts /\ beat = FALSE
    /\ Brake!HInit
    /\ Pinned("brake", brakeCommitted = Make("STANDARD", FALSE, Combos(0), 2))
    /\ AHInit
    /\ Pinned("air", air.estop /\ bp = 10 /\ mr = 6)
    /\ SHInit
    /\ Pinned("speed", cv = Lively)
    /\ LHInit
    /\ Pinned("engine", loco = l1 /\ levels)
    /\ EditorInit
    /\ SInit
    /\ Pinned("screen", ee = BaseProfile /\ display /\ advFunc)
    /\ Lights!KHInit
    /\ part # "store" => version = BLANK
    /\ CHInit

BrakeMoves ==
    /\ part = "brake" /\ Brake!HNextFixedType
    /\ UNCHANGED <<part, beat, airall, speedall, engineall, editorvars, sVars, cabAll, chVars>>
AirMoves ==
    /\ part = "air"
    /\ \/ AHTick /\ beat' = ~beat
       \/ AHSettings /\ UNCHANGED beat
    /\ UNCHANGED <<part, brakeAll, speedall, engineall, editorvars, sVars, cabAll, chVars>>
SpeedMoves ==
    /\ part = "speed"
    /\ \/ SHTick /\ beat' = ~beat
       \/ SHSet /\ UNCHANGED beat
    /\ UNCHANGED <<part, brakeAll, airall, engineall, editorvars, sVars, cabAll, chVars>>
EngineMoves ==
    /\ part = "engine" /\ LHNext
    /\ UNCHANGED <<part, beat, brakeAll, airall, speedall, editorvars, sVars, cabAll, chVars>>
EditorMoves ==
    /\ part = "editor" /\ EditorNext
    /\ UNCHANGED <<part, beat, brakeAll, airall, speedall, engineall, sVars, cabAll, chVars>>
ScreenMoves ==
    /\ part = "screen" /\ SNext
    /\ UNCHANGED <<part, beat, brakeAll, airall, speedall, engineall, editorvars, cabAll, chVars>>
StoreMoves ==
    /\ part = "store" /\ HStep
    /\ UNCHANGED <<part, beat, brakeAll, airall, speedall, engineall, editorvars, sVars, cabAll>>
\* Of the cab's controls one moves: those of the other channels stay.
CabMoves ==
    /\ \/ part = "light" /\ Lights!KHNext
       \/ part \in {"horn", "battery"} /\ Levers!KHNext
    /\ \A c \in DOMAIN knob : c # MovingChannel => knob'[c] = knob[c]
    /\ UNCHANGED <<part, beat, brakeAll, airall, speedall, engineall, editorvars, sVars, chVars>>

PNext == BrakeMoves \/ AirMoves \/ SpeedMoves \/ EngineMoves \/ EditorMoves
         \/ ScreenMoves \/ StoreMoves \/ CabMoves

(* The 100 ms tick comes again and again: every tick flips `beat'.  For the *)
(* lever the passes of the loop flip loopAt and the ticks move brakeCounter.  *)
Fairness ==
    /\ WF_beat(part \in Ticking /\ beat' = ~beat)
    /\ WF_loopAt(part = "brake" /\ loopAt' \in {"lever", "mask"})
    /\ WF_brakeCounter(part = "brake" /\ brakeCounter' \in 0..11)
    /\ WF_cabAt((part = "light" /\ Lights!Pass)
                \/ (part \in {"horn", "battery"} /\ Levers!Pass))
    /\ WF_adcCount((part = "light" /\ Lights!Convert)
                   \/ (part \in {"horn", "battery"} /\ Levers!Convert))
    /\ WF_lag(part = "light" /\ Lights!Tick)

PSpec == PInit /\ [][PNext]_allParts /\ Fairness

-----------------------------------------------------------------------------
(* Every part's variables stay in their types.                              *)
PartsTypeOK ==
    /\ part \in Parts /\ beat \in BOOLEAN
    /\ part = "air" => AirTypeOK
    /\ part = "speed" => SpeedTypeOK
    /\ part = "engine" => EngineTypeOK
    /\ part = "screen" => STypeOK
    /\ part = "store" => CTypeOK
    /\ part = "light" => Lights!CabTypeOK
    /\ part \in {"horn", "battery"} => Levers!CabTypeOK

(* The properties of the parts follow under names of their own.  A part     *)
(* that does not move keeps them, as its initial state does.                *)

(* BrakeHistory: with the settings left alone a lever left at rest ends     *)
(* released for good, and one left hard over ends applied for good.         *)
LeverSettles == Brake!RestReleases /\ Brake!FullApplies

(* AirBrakeHistory, SpeedHistory: left alone the pipe is charged, the       *)
(* governor cycles and the speed arrives at the demand.                     *)
SimulationsSettle == RechargeCompletes /\ GovernorCycles /\ Arrives

(* CabHistory: no light flickers when its knob is turned or a reading is    *)
(* cut short by sleep ...                                                   *)
NoFlicker == Lights!NoFlicker

(* ... and the lights, the horn and the battery end with what the controls  *)
(* left alone say.                                                          *)
KnobsSettle == Lights!LightSettles /\ Levers!HornSettles /\ Levers!BatteryRecovers
=============================================================================
