------------------------------ MODULE MenuNav -------------------------------
(***************************************************************************)
(* The screens of mrbw-cst.c and the four softkeys that drive them.        *)
(*                                                                         *)
(* One pass of the main loop reads the keys, runs the handler of the       *)
(* current screen, runs the global MENU handling after it, remembers the   *)
(* key as previousButton, and may go to sleep.  A key means different      *)
(* things when it is pressed, while it is held and when it is released,    *)
(* and five one-shot flags carry a press over the passes in between; a     *)
(* sleep, or a spell of critical battery, can fall into any of them.       *)
(***************************************************************************)
EXTENDS Integers, FiniteSetsExt

CONSTANTS
  Settings,       \* the settings a throttle may hold at power-up or be given
  Disturbances    \* which of these happen: a key pressed before the last is let
                  \* go, a spell of critical battery, a reset
ASSUME DisturbancesAssumption == Disturbances \subseteq {"rollover", "critical", "reset"}

Keys == {"MENU", "SELECT", "UP", "DOWN"}
Buttons == Keys \cup {"NO"}

(* Screens, in the order of the enum; below MAIN_SCREEN the byte wraps. *)
MAIN_SCREEN == 0
ENGINE_SCREEN == 1
AIRBRAKE_SCREEN == 2
LOAD_CONFIG_SCREEN == 3
SAVE_CONFIG_SCREEN == 4
LOCO_SCREEN == 5
FORCE_FUNC_SCREEN == 6
CONFIG_FUNC_SCREEN == 7
NOTCH_CONFIG_SCREEN == 8
SPEED_CONFIG_SCREEN == 9
AIRBRAKE_CONFIG_SCREEN == 10
OPTION_SCREEN == 11
SYSTEM_SCREEN == 12
COMM_SCREEN == 13
PREFS_SCREEN == 14
THRESHOLD_CAL_SCREEN == 15
DIAG_SCREEN == 16
OPS_MODE_SCREEN == 17
LAST_SCREEN == 18
Screens == (0 .. 18) \cup {255}
BeforeSigned(s) == s - 1                          \* mutant: the enum is not a byte
Before(s) == (s + 255) % 256                      \* screenState--
After(s) == (s + 1) % 256                         \* screenState++

ConfigScreens == LOCO_SCREEN .. DIAG_SCREEN       \* one shape: SELECT in, SELECT out
Hideable == {FORCE_FUNC_SCREEN, CONFIG_FUNC_SCREEN, NOTCH_CONFIG_SCREEN,
             SPEED_CONFIG_SCREEN, AIRBRAKE_CONFIG_SCREEN, OPTION_SCREEN,
             COMM_SCREEN, PREFS_SCREEN, DIAG_SCREEN}

(* What a key's function is: LATCHING is F..LAT or FN_EMRG; MOMENTARY is    *)
(* every value the key merely holds on (F..MOM, OFF, CLOCK, LOAD while not  *)
(* eligible); AIRBRAKE opens that screen; LOAD cycles its three modes.      *)
FnKinds == {"MOMENTARY", "LATCHING", "AIRBRAKE", "LOAD"}

(* The settings that steer the menus: three configBits, menuVisBits (by the *)
(* screens they hide), the calibration, the keys' functions; and systemBits,*)
(* which is not kept in EEPROM.                                             *)
Setting == [opsMode : BOOLEAN, airbrake : BOOLEAN, speed : BOOLEAN,
            hidden : SUBSET Hideable, calibrated : BOOLEAN,
            fn : [Keys -> FnKinds], system : SUBSET {"MENU_LOCK", "ADV_FUNC"}]

ASSUME SettingsAssumption == Settings \subseteq Setting

(* ticks_autoincrement and opsModeMenuHoldTicks in units of 500 ms. *)
LONG == 1
OPS_MODE_LONG == 2

Flags == {"menuAdvancePending", "opsMenuIgnoreUntilRelease",
          "airbrakeMenuExitThrough", "airbrakeReturnToOps",
          "airbrakeReturnToMain", "selectShortPressArmed"}

VARIABLES
  at,                  \* where the pass is: keys, screen, menu, rest; or asleep
  screenState,
  subscreenState,      \* 0 outside, 1.. inside; a config screen's items are all 1
  button, previousButton,
  ticks_autoincrement, opsModeMenuHoldTicks,
  optionButtonState,   \* the keys whose function is on
  loadMode,            \* loadModeUp .. loadModeSel: 0 OFF, 1 OPLOAD, 2 PRLOAD
  flags,               \* the one-shot flags that are set
  backlight,
  engineScreenTimer,   \* running
  settings,            \* live, with the edits of the screen on view
  saved,               \* what EEPROM holds
  systemBitsSnapshot,
  powerDown            \* THROTTLE_STATUS_SLEEP

vars == <<at, screenState, subscreenState, button, previousButton,
          ticks_autoincrement, opsModeMenuHoldTicks, optionButtonState, loadMode,
          flags, backlight, engineScreenTimer, settings, saved,
          systemBitsSnapshot, powerDown>>

keyVars == <<button, previousButton, ticks_autoincrement, opsModeMenuHoldTicks>>
fnVars == <<optionButtonState, loadMode>>
setVars == <<settings, saved, systemBitsSnapshot>>

-----------------------------------------------------------------------------
Pressed(k) == button = k /\ previousButton # k           \* the press edge
Released(k) == button = "NO" /\ previousButton = k
LongHeld == ticks_autoincrement >= LONG

Latching(k) == settings.fn[k] = "LATCHING"
Opens(k) == settings.fn[k] = "AIRBRAKE"
Momentary == {k \in Keys : ~Latching(k)}

(* A press of key k on a running screen: LOAD advances its mode, any other  *)
(* function toggles or goes on.                                             *)
PressFn(k, bits) ==
  IF settings.fn[k] = "LOAD" THEN bits
  ELSE IF Latching(k) THEN (bits \ {k}) \cup ({k} \ bits)
  ELSE bits \cup {k}
PressLoad(k) ==
  loadMode' = [loadMode EXCEPT ![k] = IF settings.fn[k] = "LOAD" THEN (@ + 1) % 3 ELSE @]

Show(s, sub) == screenState' = s /\ subscreenState' = sub
Stay == UNCHANGED <<screenState, subscreenState>>
Returning == flags \cap {"airbrakeReturnToOps", "airbrakeReturnToMain"} # {}

(* The settings each screen edits live, and saves on SELECT; the others edit *)
(* nothing that steers the menus.                                           *)
Edited(s, old, new) ==
  CASE s = PREFS_SCREEN -> [old EXCEPT !.opsMode = new.opsMode, !.speed = new.speed,
                                       !.airbrake = new.airbrake]
    [] s = SYSTEM_SCREEN -> [old EXCEPT !.hidden = new.hidden, !.system = new.system]
    [] s = CONFIG_FUNC_SCREEN -> [old EXCEPT !.fn = new.fn]
    [] s = THRESHOLD_CAL_SCREEN -> [old EXCEPT !.calibrated = new.calibrated]
    [] OTHER -> old
Eeprom(s) == [s EXCEPT !.system = {}]

(* readConfig() reloads all that EEPROM holds, which is not systemBits. *)
readConfig(stored, live) == [stored EXCEPT !.system = live.system]

clearLoadFunctions(s) ==
  [s EXCEPT !.fn = [k \in Keys |-> IF s.fn[k] = "LOAD" THEN "MOMENTARY" ELSE s.fn[k]]]

-----------------------------------------------------------------------------
(* Keys.  processButtons() resolves several pressed keys by priority, so    *)
(* any key, or none, may follow any other; a change resets both counters.   *)
ReadKeys(b) ==
  /\ at = "keys"
  /\ "NO" \in {b, previousButton} \/ b = previousButton \/ "rollover" \in Disturbances
  /\ button' = b
  /\ IF b = previousButton /\ b # "NO"
     THEN UNCHANGED <<ticks_autoincrement, opsModeMenuHoldTicks>>
     ELSE ticks_autoincrement' = 0 /\ opsModeMenuHoldTicks' = 0
  /\ at' = "screen"
  /\ UNCHANGED <<screenState, subscreenState, previousButton, fnVars, flags, backlight,
                 engineScreenTimer, setVars, powerDown>>

(* The timer interrupt, while a key stays down. *)
Hold ==
  /\ at = "keys" /\ button # "NO"
  /\ ticks_autoincrement' = IF LongHeld THEN LONG ELSE ticks_autoincrement + 1
  /\ opsModeMenuHoldTicks' = IF opsModeMenuHoldTicks >= OPS_MODE_LONG THEN OPS_MODE_LONG
                             ELSE opsModeMenuHoldTicks + 1
  /\ UNCHANGED <<at, screenState, subscreenState, button, previousButton, fnVars, flags,
                 backlight, engineScreenTimer, setVars, powerDown>>

(* After a sleep, and after a spell of critical battery, the keys are read  *)
(* afresh and previousButton is set to the key found down.                  *)
Reinit(b) ==
  /\ button' = b
  /\ previousButton' = b
  /\ IF b = previousButton /\ b # "NO"
     THEN UNCHANGED <<ticks_autoincrement, opsModeMenuHoldTicks>>
     ELSE ticks_autoincrement' = 0 /\ opsModeMenuHoldTicks' = 0
  /\ UNCHANGED <<screenState, subscreenState, fnVars, flags, backlight,
                 engineScreenTimer, setVars>>

CriticalBattery(b) ==
  "critical" \in Disturbances /\ at = "keys" /\ Reinit(b) /\ at' = "screen" /\ UNCHANGED powerDown

-----------------------------------------------------------------------------
(* The screen handlers: at = "screen", then "menu". *)
Screen(s) == at = "screen" /\ screenState = s /\ at' = "menu"

MainKeys ==
  /\ Screen(MAIN_SCREEN) /\ subscreenState = 0
  /\ button \in {"UP", "DOWN"}
  /\ LET on == IF Pressed(button) THEN PressFn(button, optionButtonState)
               ELSE optionButtonState
         opened == {k \in on \cap {"UP", "DOWN"} : Opens(k)}
     IN  /\ optionButtonState' = on \ opened
         /\ IF opened = {} THEN Stay /\ UNCHANGED flags
            ELSE Show(AIRBRAKE_SCREEN, 0) /\ flags' = flags \cup {"airbrakeReturnToMain"}
  /\ IF Pressed(button) THEN PressLoad(button) ELSE UNCHANGED loadMode
  /\ UNCHANGED <<keyVars, backlight, engineScreenTimer, setVars, powerDown>>

ShortSelect == Released("SELECT") /\ "selectShortPressArmed" \in flags

(* SELECT, MENU and no key fall through to the same clean-up. *)
MainOther ==
  /\ Screen(MAIN_SCREEN) /\ subscreenState = 0
  /\ button \notin {"UP", "DOWN"}
  /\ LET long == button = "SELECT" /\ ~Pressed("SELECT") /\ LongHeld
         short == ShortSelect
     IN  /\ ticks_autoincrement' = IF Pressed("SELECT") THEN 0 ELSE ticks_autoincrement
         /\ flags' = IF Pressed("SELECT") THEN flags \cup {"selectShortPressArmed"}
                     ELSE IF long \/ short THEN flags \ {"selectShortPressArmed"} ELSE flags
         /\ subscreenState' = IF long THEN 1 ELSE 0
         /\ backlight' = IF short THEN ~backlight ELSE backlight
  /\ optionButtonState' = optionButtonState \ ({"UP", "DOWN"} \cap Momentary)
  /\ UNCHANGED <<screenState, button, previousButton, opsModeMenuHoldTicks, loadMode,
                 engineScreenTimer, setVars, powerDown>>

(* The power-down screen: DOWN, let go, sleeps; MENU escapes. *)
MainPower ==
  /\ Screen(MAIN_SCREEN) /\ subscreenState # 0
  /\ powerDown' = (powerDown \/ Released("DOWN"))
  /\ IF Released("DOWN") THEN Show(LAST_SCREEN, 0)
     ELSE IF button = "MENU" THEN Show(Before(screenState), 0) ELSE Stay
  /\ backlight' = (backlight /\ button # "MENU")
  /\ UNCHANGED <<keyVars, fnVars, flags, engineScreenTimer, setVars>>

(* OPS MODE, where MENU and SELECT are function keys too. *)
Ignored == {"opsMenuIgnoreUntilRelease", "airbrakeMenuExitThrough"}
MenuIgnored == "opsMenuIgnoreUntilRelease" \in flags
OpsFresh == {k \in Keys : Pressed(k) /\ ~(k = "MENU" /\ MenuIgnored)}
OpsExit == /\ button = "MENU" /\ "MENU" \notin OpsFresh
           /\ ~MenuIgnored \/ "airbrakeMenuExitThrough" \in flags
           /\ opsModeMenuHoldTicks >= OPS_MODE_LONG
OpsTap == Released("MENU") /\ ~MenuIgnored /\ Opens("MENU")

(* What a press turns on, but for a MENU that may still become the exit; what *)
(* the exit takes back; and what is let go because its key is not down.       *)
OpsOn ==
  IF OpsFresh \ {k \in {"MENU"} : Opens(k)} = {} THEN optionButtonState
  ELSE PressFn(button, optionButtonState)
OpsUndone ==
  IF ~OpsExit \/ MenuIgnored THEN OpsOn
  ELSE IF Latching("MENU") THEN (OpsOn \ {"MENU"}) \cup ({"MENU"} \ OpsOn)
  ELSE OpsOn \ {"MENU"}
OpsHeldAsMain == OpsUndone \ (({"UP", "DOWN"} \cap Momentary) \ {button})    \* mutant
OpsHeld == OpsUndone \ (Momentary \ {button})
OpsOpened == IF OpsExit \/ OpsTap THEN {} ELSE {k \in OpsHeld \ {"MENU"} : Opens(k)}

OpsMode ==
  /\ Screen(OPS_MODE_SCREEN)
  /\ optionButtonState' = OpsHeld \ OpsOpened
  /\ IF OpsFresh = {} THEN UNCHANGED loadMode ELSE PressLoad(button)
  /\ IF "MENU" \in OpsFresh THEN ticks_autoincrement' = 0 /\ opsModeMenuHoldTicks' = 0
     ELSE UNCHANGED <<ticks_autoincrement, opsModeMenuHoldTicks>>
  /\ LET kept == IF button = "MENU" THEN flags ELSE flags \ Ignored
     IN  IF OpsExit
         THEN /\ Show(LAST_SCREEN, subscreenState)
              /\ flags' = flags \ (Ignored \cup {"menuAdvancePending"})
         ELSE IF OpsTap \/ OpsOpened # {}
         THEN Show(AIRBRAKE_SCREEN, 0) /\ flags' = kept \cup {"airbrakeReturnToOps"}
         ELSE Stay /\ flags' = kept
  /\ UNCHANGED <<button, previousButton, backlight, engineScreenTimer, setVars, powerDown>>

(* The engine screen; what UP and DOWN do to the engine is not modelled here. *)
Engine(expired) ==
  /\ Screen(ENGINE_SCREEN)
  /\ expired => engineScreenTimer
  /\ LET leave == button \in {"SELECT", "MENU"} \/ expired
     IN  /\ engineScreenTimer' = (~leave /\ (engineScreenTimer \/ button \in {"UP", "DOWN"}))
         /\ IF leave /\ button # "MENU" THEN Show(LAST_SCREEN, subscreenState) ELSE Stay
  /\ UNCHANGED <<keyVars, fnVars, flags, backlight, setVars, powerDown>>

(* Where the screen returns to is forgotten, and a MENU that went back to     *)
(* OPS MODE is ignored there.  The mutants leave one of these out.            *)
DismissKeepsReturn(toOps, toMain) ==
  IF ~toOps THEN flags
  ELSE (flags \ ({"airbrakeReturnToOps"} \cup Ignored)) \cup (IF button = "MENU" THEN Ignored ELSE {})
Dismiss(toOps, toMain) ==
  IF toOps
  THEN (flags \ ({"airbrakeReturnToOps"} \cup Ignored)) \cup (IF button = "MENU" THEN Ignored ELSE {})
  ELSE IF toMain THEN flags \ {"airbrakeReturnToMain"} ELSE flags

Synced(dismissed) == IF dismissed THEN button ELSE previousButton

(* The air-brake screen, opened from OPS MODE, from the main screen, or by MENU. *)
AirBrake ==
  /\ Screen(AIRBRAKE_SCREEN)
  /\ LET fresh == button # "NO" /\ button # previousButton
         toOps == "airbrakeReturnToOps" \in flags
         toMain == ~toOps /\ "airbrakeReturnToMain" \in flags
         dismissed == IF toOps \/ toMain THEN fresh ELSE Pressed("SELECT")
     IN  /\ IF dismissed
            THEN Show(IF toOps THEN OPS_MODE_SCREEN ELSE LAST_SCREEN, subscreenState)
            ELSE Stay
         /\ flags' = IF dismissed THEN Dismiss(toOps, toMain) ELSE flags
         /\ previousButton' = Synced(toMain /\ fresh)
  /\ UNCHANGED <<button, ticks_autoincrement, opsModeMenuHoldTicks, fnVars, backlight,
                 engineScreenTimer, setVars, powerDown>>

(* Entering a screen with an inside: SELECT on its landing page. *)
Enter ==
  /\ at = "screen" /\ at' = "menu"
  /\ screenState \in {LOAD_CONFIG_SCREEN, SAVE_CONFIG_SCREEN} \cup ConfigScreens
  /\ subscreenState = 0
  /\ Show(screenState, IF Pressed("SELECT") THEN 1 ELSE 0)
  /\ UNCHANGED <<keyVars, fnVars, flags, backlight, engineScreenTimer, setVars, powerDown>>

(* LOAD CNF and SAVE CNF: DOWN confirms, MENU backs out one screen, which the *)
(* MENU handling makes up for.  Saving to a shared slot asks twice more when  *)
(* it would upgrade the table (outcome "upgrade"), and gives up when it       *)
(* cannot tell; loading brings in another profile's functions, or fails.      *)
Confirm(outcome, new) ==
  /\ at = "screen" /\ at' = "menu"
  /\ screenState \in {LOAD_CONFIG_SCREEN, SAVE_CONFIG_SCREEN} /\ subscreenState # 0
  /\ outcome = "upgrade" => screenState = SAVE_CONFIG_SCREEN
  /\ IF button = "MENU" THEN Show(Before(screenState), 0)
     ELSE IF ~Pressed("DOWN") THEN Stay
     ELSE IF subscreenState = 2 THEN Show(screenState, 3)
     ELSE IF subscreenState = 1 /\ outcome = "upgrade" THEN Show(screenState, 2)
     ELSE Show(LAST_SCREEN, 0)
  /\ IF screenState = LOAD_CONFIG_SCREEN /\ Pressed("DOWN") /\ outcome = "done"
     THEN /\ saved' = [saved EXCEPT !.fn = new.fn]
          /\ settings' = readConfig(saved', settings)
          /\ UNCHANGED systemBitsSnapshot
     ELSE UNCHANGED setVars
  /\ UNCHANGED <<keyVars, fnVars, flags, backlight, engineScreenTimer, powerDown>>

(* Inside a configuration screen: UP and DOWN edit what is shown, once or,   *)
(* held, again and again.                                                   *)
Edit(new) ==
  /\ at = "screen" /\ at' = "menu"
  /\ screenState \in ConfigScreens /\ subscreenState # 0
  /\ button \in {"UP", "DOWN"}
  /\ Pressed(button) \/ (LongHeld /\ screenState # THRESHOLD_CAL_SCREEN)
  /\ settings' = Edited(screenState, settings, new)
  /\ ticks_autoincrement' \in {0, ticks_autoincrement}   \* numbers restart it, bits do not
  /\ UNCHANGED <<screenState, subscreenState, button, previousButton, opsModeMenuHoldTicks,
                 fnVars, flags, backlight, engineScreenTimer, saved, systemBitsSnapshot, powerDown>>

(* SELECT saves and leaves.  Saving a DISPLAY that does not show the speed, or *)
(* a speed TYPE that has no load (noLoad), takes LOAD away from the keys.      *)
Save(noLoad) ==
  /\ at = "screen" /\ at' = "menu"
  /\ screenState \in ConfigScreens \ {DIAG_SCREEN} /\ subscreenState # 0
  /\ Pressed("SELECT")
  /\ noLoad => screenState \in {PREFS_SCREEN, SPEED_CONFIG_SCREEN}
  /\ screenState = PREFS_SCREEN => noLoad = ~settings.speed
  /\ LET written == Eeprom(Edited(screenState, saved, settings))
     IN  saved' = IF noLoad THEN clearLoadFunctions(written) ELSE written
  /\ settings' = readConfig(saved', settings)
  /\ Show(screenState, 0)
  /\ UNCHANGED <<keyVars, fnVars, flags, backlight, engineScreenTimer, systemBitsSnapshot,
                 powerDown>>

(* The diagnostics pages save nothing, and SELECT leaves them. *)
LeaveDiag ==
  /\ Screen(DIAG_SCREEN) /\ subscreenState # 0 /\ Pressed("SELECT")
  /\ Show(screenState, 0)
  /\ UNCHANGED <<keyVars, fnVars, flags, backlight, engineScreenTimer, setVars, powerDown>>

(* Nothing to do inside: no edge, MENU (which only pages through the items),  *)
(* a calibration that is refused because HIGH is not above LOW.               *)
Inside ==
  /\ at = "screen" /\ at' = "menu"
  /\ screenState \in ConfigScreens /\ subscreenState # 0
  /\ Pressed("SELECT") => screenState = THRESHOLD_CAL_SCREEN
  /\ UNCHANGED <<screenState, subscreenState, keyVars, fnVars, flags, backlight,
                 engineScreenTimer, setVars, powerDown>>

(* LAST_SCREEN puts the main screen back.  A byte below MAIN_SCREEN matches   *)
(* no case of the switch.                                                     *)
LastScreen ==
  /\ at = "screen" /\ at' = "menu"
  /\ screenState \in {LAST_SCREEN, 255}
  /\ screenState' = IF screenState = LAST_SCREEN THEN MAIN_SCREEN ELSE screenState
  /\ UNCHANGED <<subscreenState, keyVars, fnVars, flags, backlight, engineScreenTimer,
                 setVars, powerDown>>

-----------------------------------------------------------------------------
(* The MENU handling that closes the pass: at = "menu", then "keys", or       *)
(* "asleep" when told to, or when nobody has touched a key for long enough.   *)
EndOfPass ==
  /\ previousButton' = button
  /\ at' \in (IF powerDown THEN {} ELSE {"keys"})
           \cup (IF powerDown \/ button = "NO" THEN {"asleep"} ELSE {})
  /\ UNCHANGED <<button, fnVars, backlight, engineScreenTimer, saved, powerDown>>

Skips(s) ==
  \/ s \in settings.hidden
  \/ s = SPEED_CONFIG_SCREEN /\ ~settings.speed
  \/ s \in {AIRBRAKE_SCREEN, AIRBRAKE_CONFIG_SCREEN} /\ ~settings.airbrake
  \/ s = THRESHOLD_CAL_SCREEN /\ "ADV_FUNC" \notin settings.system /\ settings.calibrated
  \/ s = OPS_MODE_SCREEN
Unlocked == {ENGINE_SCREEN, AIRBRAKE_SCREEN, LOAD_CONFIG_SCREEN, LOCO_SCREEN,
             FORCE_FUNC_SCREEN, SYSTEM_SCREEN, LAST_SCREEN}
(* One `if' per screen that may be skipped, in this order; the mutant has the *)
(* calibration first, where it once was.                                      *)
Past(k, s) == IF s = k /\ Skips(k) THEN After(s) ELSE s
PastFunctions(s) == Past(NOTCH_CONFIG_SCREEN, Past(CONFIG_FUNC_SCREEN, Past(FORCE_FUNC_SCREEN, s)))
PastSimulation(s) ==
  Past(AIRBRAKE_CONFIG_SCREEN, Past(AIRBRAKE_SCREEN, Past(SPEED_CONFIG_SCREEN, s)))
PastCalibrationFirst(s) ==
  Past(OPS_MODE_SCREEN, Past(DIAG_SCREEN, Past(PREFS_SCREEN, Past(COMM_SCREEN,
    Past(OPTION_SCREEN, Past(THRESHOLD_CAL_SCREEN, s))))))
PastSystem(s) ==
  Past(OPS_MODE_SCREEN, Past(DIAG_SCREEN, Past(THRESHOLD_CAL_SCREEN, Past(PREFS_SCREEN,
    Past(COMM_SCREEN, Past(OPTION_SCREEN, s))))))
Landing(s) ==
  LET shown == PastSystem(PastSimulation(PastFunctions(After(s))))
  IN  IF "MENU_LOCK" \in settings.system THEN Min({t \in Unlocked : t >= shown}) ELSE shown
Advance ==
  /\ screenState' = Landing(screenState) /\ subscreenState' = 0
  /\ ticks_autoincrement' = 0
  /\ systemBitsSnapshot' = IF screenState' = SYSTEM_SCREEN THEN settings.system
                           ELSE systemBitsSnapshot
  /\ UNCHANGED settings

Outside == ~(screenState = OPS_MODE_SCREEN \/ Returning) /\ subscreenState = 0

DefersAnywhere == settings.opsMode                \* mutant: not on the main screen alone
Defers == screenState = MAIN_SCREEN /\ settings.opsMode

(* A press is deferred on the main screen when OPS MODE may still come of it. *)
MenuPress ==
  /\ at = "menu" /\ Outside /\ Pressed("MENU")
  /\ opsModeMenuHoldTicks' = 0
  /\ IF Defers
     THEN /\ flags' = flags \cup {"menuAdvancePending"}
          /\ ticks_autoincrement' = 0
          /\ UNCHANGED <<screenState, subscreenState, settings, systemBitsSnapshot>>
     ELSE flags' = flags \ {"menuAdvancePending"} /\ Advance
  /\ EndOfPass

EnterOpsBare == flags \ {"menuAdvancePending"}    \* mutant: the entry hold is not ignored
EnterOps == (flags \ {"menuAdvancePending"}) \cup {"opsMenuIgnoreUntilRelease"}
MenuEnterOps ==
  /\ at = "menu" /\ Outside /\ button = "MENU" /\ ~Pressed("MENU")
  /\ "menuAdvancePending" \in flags /\ opsModeMenuHoldTicks >= OPS_MODE_LONG
  /\ flags' = EnterOps
  /\ Show(OPS_MODE_SCREEN, 0)
  /\ UNCHANGED <<ticks_autoincrement, opsModeMenuHoldTicks, settings, systemBitsSnapshot>>
  /\ EndOfPass

MenuReset ==
  /\ at = "menu" /\ Outside /\ button = "MENU" /\ ~Pressed("MENU")
  /\ "menuAdvancePending" \notin flags /\ screenState # MAIN_SCREEN /\ LongHeld
  /\ Show(LAST_SCREEN, 0)
  /\ UNCHANGED <<ticks_autoincrement, opsModeMenuHoldTicks, flags, settings, systemBitsSnapshot>>
  /\ EndOfPass

MenuRelease ==
  /\ at = "menu" /\ Outside /\ Released("MENU") /\ "menuAdvancePending" \in flags
  /\ flags' = flags \ {"menuAdvancePending"}
  /\ Advance
  /\ UNCHANGED opsModeMenuHoldTicks
  /\ EndOfPass

CancelledInRam == settings                        \* mutant: no readConfig()
CancelledButSystem == readConfig(saved, settings) \* mutant: nothing but readConfig()
Cancelled == [readConfig(saved, settings) EXCEPT
               !.system = IF screenState = SYSTEM_SCREEN THEN systemBitsSnapshot ELSE @]

(* Held inside a screen: everything unsaved goes, back to the main screen. *)
MenuCancel ==
  /\ at = "menu" /\ ~(screenState = OPS_MODE_SCREEN \/ Returning) /\ subscreenState # 0
  /\ button = "MENU" /\ LongHeld
  /\ settings' = Cancelled
  /\ Show(LAST_SCREEN, 0)
  /\ UNCHANGED <<ticks_autoincrement, opsModeMenuHoldTicks, flags, systemBitsSnapshot>>
  /\ EndOfPass

MenuNothing ==
  /\ at = "menu"
  /\ \/ screenState = OPS_MODE_SCREEN \/ Returning
     \/ subscreenState # 0 /\ ~(button = "MENU" /\ LongHeld)
     \/ /\ Outside /\ ~Pressed("MENU")
        /\ button = "MENU" => IF "menuAdvancePending" \in flags
                              THEN opsModeMenuHoldTicks < OPS_MODE_LONG
                              ELSE screenState = MAIN_SCREEN \/ ~LongHeld
        /\ Released("MENU") => "menuAdvancePending" \notin flags
  /\ UNCHANGED <<screenState, subscreenState, ticks_autoincrement, opsModeMenuHoldTicks,
                 flags, settings, systemBitsSnapshot>>
  /\ EndOfPass

-----------------------------------------------------------------------------
Wake(b) ==
  /\ at = "asleep" /\ b # "NO"
  /\ at' = "keys" /\ powerDown' = FALSE
  /\ Reinit(b)

(* A battery change or a watchdog reset: every variable starts again and      *)
(* EEPROM is read.  FACTORY RESET, a page of DIAGS, writes the defaults first, *)
(* all but the calibration of this throttle.                                  *)
Boot(stored) ==
  /\ at' = "keys" /\ screenState' = LAST_SCREEN /\ subscreenState' = 0
  /\ button' = "NO" /\ previousButton' = "NO"
  /\ ticks_autoincrement' = 0 /\ opsModeMenuHoldTicks' = 0
  /\ optionButtonState' = {} /\ loadMode' = [k \in Keys |-> 0]
  /\ flags' = {} /\ backlight' = FALSE /\ engineScreenTimer' = FALSE
  /\ saved' = stored /\ settings' = stored
  /\ systemBitsSnapshot' = {} /\ powerDown' = FALSE

FactoryDefault == [opsMode |-> FALSE, airbrake |-> FALSE, speed |-> FALSE, hidden |-> {},
                   calibrated |-> saved.calibrated, fn |-> [k \in Keys |-> "MOMENTARY"],
                   system |-> {}]
PowerCycle == "reset" \in Disturbances /\ Boot(saved)
FactoryReset ==
  /\ "reset" \in Disturbances
  /\ at = "screen" /\ screenState = DIAG_SCREEN /\ subscreenState # 0
  /\ Boot(FactoryDefault)

Init ==
  /\ at = "keys" /\ screenState = LAST_SCREEN /\ subscreenState = 0
  /\ button = "NO" /\ previousButton = "NO"
  /\ ticks_autoincrement = 0 /\ opsModeMenuHoldTicks = 0
  /\ optionButtonState = {} /\ loadMode = [k \in Keys |-> 0]
  /\ flags = {} /\ backlight = FALSE /\ engineScreenTimer = FALSE
  /\ saved \in {Eeprom(s) : s \in Settings} /\ settings = saved
  /\ systemBitsSnapshot = {} /\ powerDown = FALSE

TypeOK ==
  /\ at \in {"keys", "screen", "menu", "asleep"}
  /\ screenState \in Screens /\ subscreenState \in 0 .. 3
  /\ button \in Buttons /\ previousButton \in Buttons
  /\ ticks_autoincrement \in 0 .. LONG /\ opsModeMenuHoldTicks \in 0 .. OPS_MODE_LONG
  /\ optionButtonState \subseteq Keys /\ loadMode \in [Keys -> 0 .. 2]
  /\ flags \subseteq Flags
  /\ backlight \in BOOLEAN /\ engineScreenTimer \in BOOLEAN /\ powerDown \in BOOLEAN
  /\ settings \in Setting /\ saved \in Setting
  /\ systemBitsSnapshot \subseteq {"MENU_LOCK", "ADV_FUNC"}

(* The flags that say where AIRBRAKE returns to are set only while that      *)
(* screen is up, one at a time, and an ignored MENU only in OPS MODE: were    *)
(* one to outlive its screen, MENU would stop working everywhere.            *)
FlagsFitScreen ==
  /\ Returning => screenState = AIRBRAKE_SCREEN /\ subscreenState = 0
  /\ ~({"airbrakeReturnToOps", "airbrakeReturnToMain"} \subseteq flags)
  /\ "opsMenuIgnoreUntilRelease" \in flags => screenState = OPS_MODE_SCREEN
  /\ "airbrakeMenuExitThrough" \in flags => "opsMenuIgnoreUntilRelease" \in flags

(* LAST_SCREEN is never what MENU advances from, although several handlers go *)
(* there in the pass in which a key is pressed or let go; the byte would run  *)
(* on through values that are no screen at all.                               *)
NeverPastLast ==
  at = "menu" /\ screenState = LAST_SCREEN
    => ~Pressed("MENU") /\ ~(Released("MENU") /\ "menuAdvancePending" \in flags)

-----------------------------------------------------------------------------
ReadAny == \E b \in Buttons : ReadKeys(b)
CriticalAny == \E b \in Buttons : CriticalBattery(b)
WakeAny == \E b \in Buttons : Wake(b)
EngineAny == \E expired \in BOOLEAN : Engine(expired)
ConfirmAny == \E outcome \in {"done", "failed", "upgrade"}, new \in Settings : Confirm(outcome, new)
EditAny == \E new \in Settings : Edit(new)
SaveAny == \E noLoad \in BOOLEAN : Save(noLoad)

Handler == \/ MainKeys \/ MainOther \/ MainPower \/ OpsMode \/ EngineAny \/ AirBrake
           \/ Enter \/ ConfirmAny \/ EditAny \/ SaveAny \/ LeaveDiag \/ Inside \/ LastScreen
MenuKey == \/ MenuPress \/ MenuEnterOps \/ MenuReset \/ MenuRelease \/ MenuCancel
           \/ MenuNothing
Next == \/ ReadAny \/ Hold \/ CriticalAny \/ Handler \/ MenuKey \/ WakeAny
        \/ PowerCycle \/ FactoryReset
Spec == Init /\ [][Next]_vars

(* SYSTEM is on the way from any screen before it, whatever is hidden or      *)
(* locked: it is where hiding and locking are undone.                         *)
SystemNeverSkipped ==
  [][(MenuPress \/ MenuRelease) /\ screenState < SYSTEM_SCREEN => screenState' <= SYSTEM_SCREEN]_vars
=============================================================================
