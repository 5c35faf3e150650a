--------------------------- MODULE MenuNavProofs ----------------------------
(***************************************************************************)
(* What the screens and softkeys guarantee for every set of settings and   *)
(* every disturbance.                                                      *)
(***************************************************************************)
EXTENDS MenuHistory, TLAPS

(* A deferred press waits only where it can still be resolved. *)
PendingFits ==
  "menuAdvancePending" \in flags =>
    \/ screenState \in {MAIN_SCREEN, LAST_SCREEN, 255}
    \/ screenState = AIRBRAKE_SCREEN /\ "airbrakeReturnToMain" \in flags

(* A MENU that is ignored in OPS MODE is still the key that is down. *)
IgnoreFits ==
  "opsMenuIgnoreUntilRelease" \in flags =>
    /\ at # "asleep"
    /\ at = "keys" => previousButton = "MENU"
    /\ at = "screen" => previousButton \in {"MENU", button}
    /\ at = "menu" => button = "MENU"

(* Told to sleep, the throttle sleeps at the end of the pass. *)
PowerFits == powerDown => at = "asleep" \/ (at = "menu" /\ button = "NO")

IInv == TypeOK /\ FlagsFitScreen /\ NeverPastLast /\ PendingFits /\ IgnoreFits /\ PowerFits

USE DEF MAIN_SCREEN, ENGINE_SCREEN, AIRBRAKE_SCREEN, LOAD_CONFIG_SCREEN, SAVE_CONFIG_SCREEN,
        LOCO_SCREEN, FORCE_FUNC_SCREEN, CONFIG_FUNC_SCREEN, NOTCH_CONFIG_SCREEN,
        SPEED_CONFIG_SCREEN, AIRBRAKE_CONFIG_SCREEN, OPTION_SCREEN, SYSTEM_SCREEN,
        COMM_SCREEN, PREFS_SCREEN, THRESHOLD_CAL_SCREEN, DIAG_SCREEN, OPS_MODE_SCREEN,
        LAST_SCREEN

-----------------------------------------------------------------------------
(* One `if' of the skip chain moves on by one screen at most, and stays put   *)
(* on every screen but its own.                                               *)
LEMMA PastFits ==
  ASSUME NEW k \in 2 .. 17, NEW s \in 0 .. 18
  PROVE  Past(k, s) \in 0 .. 18
BY DEF Past, After

(* The skip chain, from any screen but LAST_SCREEN, ends on a screen.         *)
LEMMA LandingFits ==
  ASSUME NEW s \in (0 .. 17) \cup {255}
  PROVE  Landing(s) \in 0 .. 18
<1> DEFINE shown == PastSystem(PastSimulation(PastFunctions(After(s))))
<1>1. After(s) \in 0 .. 18  BY DEF After
<1>2. PastFunctions(After(s)) \in 0 .. 18
  BY <1>1, PastFits DEF PastFunctions
<1>3. PastSimulation(PastFunctions(After(s))) \in 0 .. 18
  BY <1>2, PastFits DEF PastSimulation
<1>4. shown \in 0 .. 18
  BY <1>3, PastFits DEF PastSystem
<1> HIDE DEF shown
<1>5. Min({t \in Unlocked : t >= shown}) \in 0 .. 18
  <2> DEFINE S == {t \in Unlocked : t >= shown}
  <2>1. \E x \in S : \A y \in S : x =< y
    <3> DEFINE x0 == IF shown <= 1 THEN 1 ELSE IF shown = 2 THEN 2 ELSE IF shown = 3 THEN 3
                     ELSE IF shown <= 5 THEN 5 ELSE IF shown = 6 THEN 6
                     ELSE IF shown <= 12 THEN 12 ELSE 18
    <3>1. x0 \in S  BY <1>4 DEF Unlocked
    <3>2. \A y \in S : x0 =< y  BY <1>4 DEF Unlocked
    <3> QED  BY <3>1, <3>2
  <2>2. Min(S) \in S  BY <2>1 DEF Min
  <2>3. S \subseteq 0 .. 18  BY DEF Unlocked
  <2> QED  BY <2>2, <2>3
<1> QED  BY <1>4, <1>5 DEF Landing, shown

(* Only SYSTEM's own `if' could step over SYSTEM, and it has none.            *)
LEMMA PastBeforeSystem ==
  ASSUME NEW k \in (2 .. 11) \cup (13 .. 17), NEW s \in 0 .. 12
  PROVE  Past(k, s) \in 0 .. 12
BY DEF Past, After

(* From a screen before SYSTEM the skip chain does not go beyond it.          *)
LEMMA LandingBeforeSystem ==
  ASSUME NEW s \in 0 .. 11
  PROVE  Landing(s) \in 0 .. 12
<1> DEFINE shown == PastSystem(PastSimulation(PastFunctions(After(s))))
<1>1. After(s) \in 0 .. 12  BY DEF After
<1>2. PastFunctions(After(s)) \in 0 .. 12  BY <1>1, PastBeforeSystem DEF PastFunctions
<1>3. PastSimulation(PastFunctions(After(s))) \in 0 .. 12
  BY <1>2, PastBeforeSystem DEF PastSimulation
<1>4. shown \in 0 .. 12  BY <1>3, PastBeforeSystem DEF PastSystem
<1> HIDE DEF shown
<1>5. Min({t \in Unlocked : t >= shown}) \in 0 .. 12
  <2> DEFINE S == {t \in Unlocked : t >= shown}
  <2>1. \E x \in S : \A y \in S : x =< y
    <3> DEFINE x0 == IF shown <= 1 THEN 1 ELSE IF shown = 2 THEN 2 ELSE IF shown = 3 THEN 3
                     ELSE IF shown <= 5 THEN 5 ELSE IF shown = 6 THEN 6 ELSE 12
    <3>1. x0 \in S  BY <1>4 DEF Unlocked
    <3>2. \A y \in S : x0 =< y  BY <1>4 DEF Unlocked
    <3> QED  BY <3>1, <3>2
  <2>2. Min(S) \in S /\ \A y \in S : Min(S) =< y  BY <2>1 DEF Min
  <2>3. 12 \in S  BY <1>4 DEF Unlocked
  <2>4. S \subseteq 0 .. 18  BY DEF Unlocked
  <2> QED  BY <2>2, <2>3, <2>4
<1> QED  BY <1>4, <1>5 DEF Landing, shown

-----------------------------------------------------------------------------
(* A press of a function key keeps the bits and the load modes of their kind. *)
LEMMA PressFits ==
  ASSUME TypeOK, NEW k \in Keys, NEW bits \in SUBSET Keys
  PROVE  /\ PressFn(k, bits) \subseteq Keys
         /\ PressLoad(k) => loadMode' \in [Keys -> 0 .. 2]
BY DEF PressFn, PressLoad, TypeOK, Keys

(* Editing, saving, reloading and losing LOAD keep a setting a setting.       *)
LEMMA SettingsFit ==
  ASSUME NEW a \in Setting, NEW b \in Setting, NEW s \in Screens
  PROVE  /\ Edited(s, a, b) \in Setting
         /\ Eeprom(a) \in Setting
         /\ readConfig(a, b) \in Setting
         /\ clearLoadFunctions(a) \in Setting
         /\ [a EXCEPT !.fn = b.fn] \in Setting
<1>1. Edited(s, a, b) \in Setting
  <2>1. CASE s = PREFS_SCREEN
    <3>1. Edited(s, a, b) = [[[a EXCEPT !.opsMode = b.opsMode] EXCEPT !.speed = b.speed]
                                EXCEPT !.airbrake = b.airbrake]
      BY ONLY <2>1, a \in Setting DEF Edited, Setting
    <3>2. /\ b.opsMode \in BOOLEAN /\ b.speed \in BOOLEAN /\ b.airbrake \in BOOLEAN
      BY ONLY b \in Setting DEF Setting
    <3>3. [a EXCEPT !.opsMode = b.opsMode] \in Setting
      BY ONLY <3>2, a \in Setting DEF Setting
    <3>4. [[a EXCEPT !.opsMode = b.opsMode] EXCEPT !.speed = b.speed] \in Setting
      BY ONLY <3>2, <3>3 DEF Setting
    <3>5. [[[a EXCEPT !.opsMode = b.opsMode] EXCEPT !.speed = b.speed]
             EXCEPT !.airbrake = b.airbrake] \in Setting
      BY ONLY <3>2, <3>4 DEF Setting
    <3> QED  BY ONLY <3>1, <3>5
  <2>2. CASE s = SYSTEM_SCREEN
    <3>1. Edited(s, a, b) = [[a EXCEPT !.hidden = b.hidden] EXCEPT !.system = b.system]
      BY ONLY <2>2, a \in Setting DEF Edited, Setting, PREFS_SCREEN, SYSTEM_SCREEN
    <3>2. [a EXCEPT !.hidden = b.hidden] \in Setting
      BY ONLY a \in Setting, b \in Setting DEF Setting
    <3>3. [[a EXCEPT !.hidden = b.hidden] EXCEPT !.system = b.system] \in Setting
      BY ONLY <3>2, b \in Setting DEF Setting
    <3> QED  BY ONLY <3>1, <3>3
  <2>3. CASE s = CONFIG_FUNC_SCREEN  BY <2>3 DEF Edited, Setting
  <2>4. CASE s = THRESHOLD_CAL_SCREEN  BY ONLY <2>4, a \in Setting, b \in Setting DEF Edited, Setting
  <2>5. CASE s \notin {PREFS_SCREEN, SYSTEM_SCREEN, CONFIG_FUNC_SCREEN, THRESHOLD_CAL_SCREEN}
    BY <2>5 DEF Edited
  <2> QED  BY <2>1, <2>2, <2>3, <2>4, <2>5
<1>2. Eeprom(a) \in Setting  BY DEF Eeprom, Setting
<1>3. readConfig(a, b) \in Setting  BY DEF readConfig, Setting
<1>4. clearLoadFunctions(a) \in Setting
  <2>1. [k \in Keys |-> IF a.fn[k] = "LOAD" THEN "MOMENTARY" ELSE a.fn[k]] \in [Keys -> FnKinds]
    BY DEF Setting, FnKinds
  <2> QED  BY <2>1 DEF clearLoadFunctions, Setting
<1>5. [a EXCEPT !.fn = b.fn] \in Setting  BY DEF Setting
<1> QED  BY <1>1, <1>2, <1>3, <1>4, <1>5

-----------------------------------------------------------------------------
(* Every pass of the loop, and every disturbance, keeps the invariant.        *)
LEMMA Inductive ==
  ASSUME SettingsAssumption, IInv, [Next]_vars
  PROVE  IInv'
<1> USE DEF keyVars, fnVars, setVars, Returning, Pressed, Released, LongHeld, Keys, Buttons,
        Screens, Flags, ConfigScreens, LONG, OPS_MODE_LONG
<1>1. CASE ReadAny
  BY <1>1 DEF ReadAny, ReadKeys, IInv, TypeOK, FlagsFitScreen, NeverPastLast, PendingFits,
         IgnoreFits, PowerFits
<1>2. CASE Hold
  BY <1>2 DEF Hold, LongHeld, IInv, TypeOK, FlagsFitScreen, NeverPastLast, PendingFits,
         IgnoreFits, PowerFits
<1>3. CASE CriticalAny
  BY <1>3 DEF CriticalAny, CriticalBattery, Reinit, IInv, TypeOK, FlagsFitScreen, NeverPastLast,
         PendingFits, IgnoreFits, PowerFits
<1>4. CASE MainKeys
  <2>1. TypeOK'
    <3>1. button \in Keys  BY <1>4 DEF MainKeys
    <3>2. loadMode' \in [Keys -> 0 .. 2]
      BY <1>4, <3>1, PressFits DEF MainKeys, IInv, TypeOK
    <3>3. optionButtonState' \subseteq Keys
      BY <1>4, <3>1, PressFits DEF MainKeys, IInv, TypeOK
    <3>4. \/ UNCHANGED <<screenState, subscreenState, flags>>
          \/ /\ screenState' = AIRBRAKE_SCREEN /\ subscreenState' = 0
             /\ flags' = flags \cup {"airbrakeReturnToMain"}
      BY <1>4 DEF MainKeys, Show, Stay
    <3>5. flags' \subseteq Flags  BY <3>4 DEF IInv, TypeOK
    <3>6. screenState' \in Screens /\ subscreenState' \in 0 .. 3  BY <3>4 DEF IInv, TypeOK
    <3> QED  BY <1>4, <3>2, <3>3, <3>5, <3>6 DEF MainKeys, Screen, IInv, TypeOK
  <2>2. FlagsFitScreen' /\ NeverPastLast' /\ PendingFits' /\ IgnoreFits' /\ PowerFits'
    BY <1>4 DEF MainKeys, Screen, Show, Stay, PressFn, PressLoad, Pressed, IInv, TypeOK,
           FlagsFitScreen, NeverPastLast, PendingFits, IgnoreFits, PowerFits
  <2> QED  BY <2>1, <2>2 DEF IInv
<1>5. CASE MainOther
  <2>1. TypeOK'
    <3>1. flags' \subseteq Flags  BY <1>5 DEF MainOther, IInv, TypeOK
    <3>2. optionButtonState' \subseteq Keys  BY <1>5 DEF MainOther, IInv, TypeOK
    <3>3. ticks_autoincrement' \in 0 .. LONG /\ subscreenState' \in 0 .. 3
      BY <1>5 DEF MainOther, IInv, TypeOK
    <3>4. backlight' \in BOOLEAN
      <4>1. backlight' = IF ShortSelect THEN ~backlight ELSE backlight  BY <1>5 DEF MainOther
      <4> QED  BY <4>1, Zenon DEF IInv, TypeOK
    <3> QED  BY <1>5, <3>1, <3>2, <3>3, <3>4 DEF MainOther, Screen, IInv, TypeOK
  <2>2. FlagsFitScreen' /\ NeverPastLast' /\ PendingFits' /\ IgnoreFits' /\ PowerFits'
    BY <1>5 DEF MainOther, Screen, ShortSelect, Pressed, Released, LongHeld, IInv, TypeOK,
           FlagsFitScreen, NeverPastLast, PendingFits, IgnoreFits, PowerFits
  <2> QED  BY <2>1, <2>2 DEF IInv
<1>6. CASE MainPower
  BY <1>6 DEF MainPower, Screen, Released, Show, Stay, Before, Pressed, IInv, TypeOK,
         FlagsFitScreen, NeverPastLast, PendingFits, IgnoreFits, PowerFits
<1>7. CASE OpsMode
  <2>1. \A k \in Keys : Opens(k) => k \in Momentary  BY DEF Opens, Momentary, Latching
  <2>0. OpsHeld \subseteq Keys
    <3>1. button \in Keys => PressFn(button, optionButtonState) \subseteq Keys
      BY PressFits DEF IInv, TypeOK
    <3>2. OpsOn \subseteq Keys  BY <3>1 DEF OpsOn, OpsFresh, IInv, TypeOK
    <3> QED  BY <3>2 DEF OpsHeld, OpsUndone
  <2>2. \/ /\ OpsExit /\ button = "MENU" /\ screenState' = LAST_SCREEN
           /\ UNCHANGED subscreenState
           /\ flags' = flags \ (Ignored \cup {"menuAdvancePending"})
        \/ /\ button # "MENU" /\ screenState' = AIRBRAKE_SCREEN /\ subscreenState' = 0
           /\ flags' = (flags \ Ignored) \cup {"airbrakeReturnToOps"}
        \/ /\ UNCHANGED <<screenState, subscreenState>>
           /\ flags' = IF button = "MENU" THEN flags ELSE flags \ Ignored
    <3>1. OpsOpened # {} => button # "MENU"
      <4> SUFFICES ASSUME NEW k \in OpsOpened, button = "MENU" PROVE FALSE
        OBVIOUS
      <4>1. k \in OpsHeld /\ k # "MENU" /\ Opens(k)  BY DEF OpsOpened
      <4>2. k \in Momentary  BY <2>0, <2>1, <4>1
      <4>3. k \notin Momentary \ {button}  BY <4>1 DEF OpsHeld
      <4> QED  BY <4>1, <4>2, <4>3
    <3>2. OpsTap => button # "MENU"  BY DEF OpsTap
    <3>3. OpsExit => button = "MENU"  BY DEF OpsExit
    <3> QED  BY <1>7, <3>1, <3>2, <3>3 DEF OpsMode, Show, Stay
  <2>3. TypeOK'
    <3>1. flags' \subseteq Flags  BY <2>2 DEF IInv, TypeOK
    <3>2. screenState' \in Screens /\ subscreenState' \in 0 .. 3  BY <2>2 DEF IInv, TypeOK
    <3>3. optionButtonState' \subseteq Keys  BY <1>7, <2>0 DEF OpsMode
    <3>4. loadMode' \in [Keys -> 0 .. 2]
      <4>1. CASE OpsFresh = {}
        <5>1. UNCHANGED loadMode  BY <1>7, <4>1 DEF OpsMode
        <5> QED  BY <5>1 DEF IInv, TypeOK
      <4>2. CASE OpsFresh # {}
        <5>1. PressLoad(button)  BY <1>7, <4>2 DEF OpsMode
        <5>2. button \in Keys  BY <4>2 DEF OpsFresh
        <5>3. TypeOK /\ optionButtonState \in SUBSET Keys  BY DEF IInv, TypeOK
        <5> HIDE DEF Keys
        <5> QED  BY <5>1, <5>2, <5>3, PressFits
      <4> QED  BY <4>1, <4>2
    <3>5. ticks_autoincrement' \in 0 .. LONG /\ opsModeMenuHoldTicks' \in 0 .. OPS_MODE_LONG
      BY <1>7 DEF OpsMode, IInv, TypeOK
    <3> QED
      BY <1>7, <3>1, <3>2, <3>3, <3>4, <3>5 DEF OpsMode, Screen, IInv, TypeOK
  <2>4. FlagsFitScreen'
    BY <1>7, <2>2 DEF OpsMode, Screen, Ignored, IInv, TypeOK, FlagsFitScreen
  <2>5. NeverPastLast'
    <3>1. UNCHANGED <<button, previousButton>>  BY <1>7 DEF OpsMode
    <3>2. CASE OpsExit
      <4>1. ~Pressed("MENU") \/ MenuIgnored  BY <3>2 DEF OpsExit, OpsFresh
      <4>2. ~Pressed("MENU")  BY <1>7, <4>1 DEF MenuIgnored, OpsMode, Screen, IInv, IgnoreFits
      <4>3. button = "MENU"  BY <3>2 DEF OpsExit
      <4> QED  BY <3>1, <4>2, <4>3 DEF NeverPastLast
    <3>3. CASE ~OpsExit
      <4>1. screenState' \in {OPS_MODE_SCREEN, AIRBRAKE_SCREEN}
        BY <1>7, <3>3 DEF OpsMode, Screen, Show, Stay
      <4> QED  BY <4>1 DEF NeverPastLast
    <3> QED  BY <3>2, <3>3
  <2>6. PendingFits'
    BY <1>7, <2>2 DEF OpsMode, Screen, IInv, PendingFits, Ignored
  <2>7. IgnoreFits' /\ PowerFits'
    BY <1>7, <2>2 DEF OpsMode, Screen, IInv, IgnoreFits, PowerFits, Ignored
  <2> QED  BY <2>3, <2>4, <2>5, <2>6, <2>7 DEF IInv
<1>8. CASE EngineAny
  BY <1>8 DEF EngineAny, Engine, Screen, Show, Stay, IInv, TypeOK, FlagsFitScreen, NeverPastLast,
         PendingFits, IgnoreFits, PowerFits
<1>9. CASE AirBrake
  <2>1. TypeOK'
    BY <1>9 DEF AirBrake, Screen, Show, Stay, Dismiss, Ignored, Synced, IInv, TypeOK
  <2>2. FlagsFitScreen' /\ NeverPastLast' /\ PendingFits' /\ IgnoreFits' /\ PowerFits'
    BY <1>9 DEF AirBrake, Screen, Show, Stay, Dismiss, Ignored, Synced, Pressed, IInv, TypeOK,
           FlagsFitScreen, NeverPastLast, PendingFits, IgnoreFits, PowerFits
  <2> QED  BY <2>1, <2>2 DEF IInv
<1>10. CASE Enter
  BY <1>10 DEF Enter, Show, Pressed, IInv, TypeOK, FlagsFitScreen, NeverPastLast, PendingFits,
         IgnoreFits, PowerFits
<1>11. CASE ConfirmAny
  <2>1. TypeOK'
    <3>1. PICK outcome \in {"done", "failed", "upgrade"}, new \in Settings : Confirm(outcome, new)
      BY <1>11 DEF ConfirmAny
    <3>2. screenState' \in Screens /\ subscreenState' \in 0 .. 3
      BY <3>1 DEF Confirm, Show, Stay, Before, IInv, TypeOK
    <3>3. saved' \in Setting /\ settings' \in Setting /\ UNCHANGED systemBitsSnapshot
      <4>1. new \in Setting  BY SettingsAssumption DEF SettingsAssumption
      <4>2. [saved EXCEPT !.fn = new.fn] \in Setting  BY <4>1, SettingsFit DEF IInv, TypeOK
      <4>3. readConfig([saved EXCEPT !.fn = new.fn], settings) \in Setting
        BY <4>2, SettingsFit DEF IInv, TypeOK
      <4> QED  BY <3>1, <4>2, <4>3 DEF Confirm, IInv, TypeOK
    <3> QED  BY <3>1, <3>2, <3>3 DEF Confirm, IInv, TypeOK
  <2>2. FlagsFitScreen' /\ NeverPastLast' /\ PendingFits' /\ IgnoreFits' /\ PowerFits'
    BY <1>11 DEF ConfirmAny, Confirm, Show, Stay, Before, Pressed, readConfig, IInv, TypeOK,
           FlagsFitScreen, NeverPastLast, PendingFits, IgnoreFits, PowerFits
  <2> QED  BY <2>1, <2>2 DEF IInv
<1>12. CASE EditAny
  <2>1. TypeOK'
    <3>1. PICK new \in Settings : Edit(new)  BY <1>12 DEF EditAny
    <3>2. settings' \in Setting
      BY <3>1, SettingsFit, SettingsAssumption DEF Edit, IInv, TypeOK, SettingsAssumption
    <3> QED  BY <3>1, <3>2 DEF Edit, IInv, TypeOK
  <2>2. FlagsFitScreen' /\ NeverPastLast' /\ PendingFits' /\ IgnoreFits' /\ PowerFits'
    BY <1>12 DEF EditAny, Edit, Edited, IInv, TypeOK, FlagsFitScreen, NeverPastLast, PendingFits,
           IgnoreFits, PowerFits
  <2> QED  BY <2>1, <2>2 DEF IInv
<1>13. CASE SaveAny
  <2>1. TypeOK'
    <3>t. saved \in Setting /\ settings \in Setting /\ screenState \in Screens
      BY Zenon DEF IInv, TypeOK
    <3>1. PICK noLoad \in BOOLEAN : Save(noLoad)  BY ONLY <1>13, Zenon DEF SaveAny
    <3>2. Edited(screenState, saved, settings) \in Setting  BY ONLY <3>t, SettingsFit
    <3> DEFINE written == Eeprom(Edited(screenState, saved, settings))
    <3>3. written \in Setting  BY ONLY <3>t, <3>2, SettingsFit
    <3> HIDE DEF written
    <3>4. clearLoadFunctions(written) \in Setting  BY ONLY <3>t, <3>3, SettingsFit
    <3>5. saved' = IF noLoad THEN clearLoadFunctions(written) ELSE written
      BY <3>1 DEF Save, written
    <3>6. saved' \in Setting  BY <3>3, <3>4, <3>5
    <3>7. readConfig(saved', settings) \in Setting  BY ONLY <3>t, <3>6, SettingsFit
    <3>8. settings' \in Setting  BY ONLY <3>1, <3>7, Zenon DEF Save
    <3> QED  BY <3>1, <3>6, <3>8 DEF Save, Show, IInv, TypeOK
  <2>2. FlagsFitScreen' /\ NeverPastLast' /\ PendingFits' /\ IgnoreFits' /\ PowerFits'
    BY <1>13 DEF SaveAny, Save, Show, IInv, FlagsFitScreen, NeverPastLast, PendingFits, IgnoreFits,
                 PowerFits
  <2> QED  BY <2>1, <2>2 DEF IInv
<1>14. CASE LeaveDiag
  BY <1>14 DEF LeaveDiag, Screen, Show, IInv, TypeOK, FlagsFitScreen, NeverPastLast, PendingFits,
         IgnoreFits, PowerFits
<1>15. CASE Inside
  BY <1>15 DEF Inside, IInv, TypeOK, FlagsFitScreen, NeverPastLast, PendingFits, IgnoreFits,
         PowerFits
<1>16. CASE LastScreen
  BY <1>16 DEF LastScreen, IInv, TypeOK, FlagsFitScreen, NeverPastLast, PendingFits, IgnoreFits,
         PowerFits
<1>17. CASE MenuPress
  <2>1. TypeOK'
    <3>1. screenState \in (0 .. 17) \cup {255}
      BY <1>17 DEF MenuPress, IInv, TypeOK, NeverPastLast
    <3>2. Landing(screenState) \in Screens  BY <3>1, LandingFits
    <3>3. screenState' \in Screens /\ subscreenState' \in 0 .. 3
      BY <1>17, <3>2 DEF MenuPress, Advance, IInv, TypeOK
    <3>4. systemBitsSnapshot' \subseteq {"MENU_LOCK", "ADV_FUNC"} /\ settings' \in Setting
      <4>1. systemBitsSnapshot' \in {settings.system, systemBitsSnapshot} /\ settings' = settings
        BY <1>17 DEF MenuPress, Advance
      <4>2. settings.system \subseteq {"MENU_LOCK", "ADV_FUNC"}  BY DEF Setting, IInv, TypeOK
      <4> QED  BY <4>1, <4>2 DEF IInv, TypeOK
    <3>5. flags' \subseteq Flags  BY <1>17 DEF MenuPress, IInv, TypeOK
    <3>6. ticks_autoincrement' \in 0 .. LONG /\ opsModeMenuHoldTicks' \in 0 .. OPS_MODE_LONG
      BY <1>17 DEF MenuPress, Advance, IInv, TypeOK
    <3>7. at' \in {"keys", "asleep"} /\ previousButton' \in Buttons
      BY <1>17 DEF MenuPress, EndOfPass, IInv, TypeOK
    <3> QED
      BY <1>17, <3>3, <3>4, <3>5, <3>6, <3>7 DEF MenuPress, EndOfPass, IInv, TypeOK
  <2>2. FlagsFitScreen' /\ NeverPastLast' /\ PendingFits' /\ IgnoreFits' /\ PowerFits'
    BY <1>17 DEF MenuPress, Outside, EndOfPass, Defers, Advance, IInv, TypeOK, FlagsFitScreen,
           NeverPastLast, PendingFits, IgnoreFits, PowerFits
  <2> QED  BY <2>1, <2>2 DEF IInv
<1>18. CASE MenuEnterOps
  BY <1>18 DEF MenuEnterOps, Outside, EndOfPass, EnterOps, Show, IInv, TypeOK, FlagsFitScreen,
         NeverPastLast, PendingFits, IgnoreFits, PowerFits
<1>19. CASE MenuReset
  BY <1>19 DEF MenuReset, Outside, EndOfPass, Show, IInv, TypeOK, FlagsFitScreen, NeverPastLast,
         PendingFits, IgnoreFits, PowerFits
<1>20. CASE MenuRelease
  <2>1. TypeOK'
    <3>1. screenState \in (0 .. 17) \cup {255}
      BY <1>20 DEF MenuRelease, IInv, TypeOK, NeverPastLast
    <3>2. Landing(screenState) \in Screens  BY <3>1, LandingFits
    <3>3. screenState' \in Screens /\ subscreenState' \in 0 .. 3
      BY <1>20, <3>2 DEF MenuRelease, Advance, IInv, TypeOK
    <3>4. systemBitsSnapshot' \subseteq {"MENU_LOCK", "ADV_FUNC"} /\ settings' \in Setting
      <4>1. systemBitsSnapshot' \in {settings.system, systemBitsSnapshot} /\ settings' = settings
        BY <1>20 DEF MenuRelease, Advance
      <4>2. settings.system \subseteq {"MENU_LOCK", "ADV_FUNC"}  BY DEF Setting, IInv, TypeOK
      <4> QED  BY <4>1, <4>2 DEF IInv, TypeOK
    <3>5. flags' \subseteq Flags  BY <1>20 DEF MenuRelease, IInv, TypeOK
    <3>6. ticks_autoincrement' \in 0 .. LONG /\ opsModeMenuHoldTicks' \in 0 .. OPS_MODE_LONG
      BY <1>20 DEF MenuRelease, Advance, IInv, TypeOK
    <3>7. at' \in {"keys", "asleep"} /\ previousButton' \in Buttons
      BY <1>20 DEF MenuRelease, EndOfPass, IInv, TypeOK
    <3> QED
      BY <1>20, <3>3, <3>4, <3>5, <3>6, <3>7 DEF MenuRelease, EndOfPass, IInv, TypeOK
  <2>2. FlagsFitScreen' /\ NeverPastLast' /\ PendingFits' /\ IgnoreFits' /\ PowerFits'
    BY <1>20 DEF MenuRelease, Outside, EndOfPass, Advance, IInv, TypeOK, FlagsFitScreen,
           NeverPastLast, PendingFits, IgnoreFits, PowerFits
  <2> QED  BY <2>1, <2>2 DEF IInv
<1>21. CASE MenuCancel
  <2>1. TypeOK'
    <3>1. readConfig(saved, settings) \in Setting  BY SettingsFit DEF IInv, TypeOK
    <3>2. Cancelled \in Setting  BY <3>1 DEF Cancelled, Setting, IInv, TypeOK
    <3> QED  BY <1>21, <3>2 DEF MenuCancel, EndOfPass, Show, IInv, TypeOK
  <2>2. FlagsFitScreen' /\ NeverPastLast' /\ PendingFits' /\ IgnoreFits' /\ PowerFits'
    BY <1>21 DEF MenuCancel, EndOfPass, Show, Cancelled, readConfig, IInv, TypeOK, FlagsFitScreen,
           NeverPastLast, PendingFits, IgnoreFits, PowerFits
  <2> QED  BY <2>1, <2>2 DEF IInv
<1>22. CASE MenuNothing
  BY <1>22 DEF MenuNothing, EndOfPass, Outside, IInv, TypeOK, FlagsFitScreen, NeverPastLast,
         PendingFits, IgnoreFits, PowerFits
<1>23. CASE WakeAny
  <2>1. TypeOK'
    <3>1. PICK b \in Buttons : Wake(b)  BY <1>23 DEF WakeAny
    <3>2. /\ button' \in Buttons /\ previousButton' \in Buttons
          /\ ticks_autoincrement' \in 0 .. LONG /\ opsModeMenuHoldTicks' \in 0 .. OPS_MODE_LONG
      BY <3>1 DEF Wake, Reinit, IInv, TypeOK
    <3>3. /\ at' = "keys" /\ powerDown' = FALSE
          /\ UNCHANGED <<screenState, subscreenState, fnVars, flags, backlight,
                         engineScreenTimer, setVars>>
      BY <3>1 DEF Wake, Reinit
    <3> QED  BY <3>2, <3>3 DEF IInv, TypeOK
  <2>2. FlagsFitScreen' /\ NeverPastLast' /\ PendingFits' /\ IgnoreFits' /\ PowerFits'
    BY <1>23 DEF WakeAny, Wake, Reinit, IInv, TypeOK, FlagsFitScreen, NeverPastLast, PendingFits,
           IgnoreFits, PowerFits
  <2> QED  BY <2>1, <2>2 DEF IInv
<1>24. CASE PowerCycle
  <2>1. TypeOK'
    <3>1. saved \in Setting  BY DEF IInv, TypeOK
    <3>2. [k \in Keys |-> 0] \in [Keys -> 0 .. 2]  OBVIOUS
    <3>3. saved' \in Setting /\ settings' \in Setting  BY <1>24, <3>1 DEF PowerCycle, Boot
    <3>4. /\ at' = "keys" /\ screenState' = LAST_SCREEN /\ subscreenState' = 0
          /\ button' = "NO" /\ previousButton' = "NO"
          /\ ticks_autoincrement' = 0 /\ opsModeMenuHoldTicks' = 0
          /\ optionButtonState' = {} /\ loadMode' = [k \in Keys |-> 0]
          /\ flags' = {} /\ systemBitsSnapshot' = {}
      BY <1>24 DEF PowerCycle, Boot
    <3>5. backlight' = FALSE /\ engineScreenTimer' = FALSE /\ powerDown' = FALSE
      BY <1>24 DEF PowerCycle, Boot
    <3>6. backlight' \in BOOLEAN /\ engineScreenTimer' \in BOOLEAN /\ powerDown' \in BOOLEAN
      BY <3>5
    <3>7. loadMode' \in [Keys -> 0 .. 2]  BY <3>2, <3>4
    <3>8. /\ at' \in {"keys", "screen", "menu", "asleep"}
          /\ screenState' \in Screens /\ subscreenState' \in 0 .. 3
          /\ button' \in Buttons /\ previousButton' \in Buttons
          /\ ticks_autoincrement' \in 0 .. LONG /\ opsModeMenuHoldTicks' \in 0 .. OPS_MODE_LONG
          /\ optionButtonState' \subseteq Keys /\ flags' \subseteq Flags
          /\ systemBitsSnapshot' \subseteq {"MENU_LOCK", "ADV_FUNC"}
      BY <3>4
    <3> QED  BY <3>3, <3>6, <3>7, <3>8 DEF TypeOK
  <2>2. FlagsFitScreen' /\ NeverPastLast' /\ PendingFits' /\ IgnoreFits' /\ PowerFits'
    BY <1>24 DEF PowerCycle, Boot, FlagsFitScreen, NeverPastLast, PendingFits, IgnoreFits, PowerFits
  <2> QED  BY <2>1, <2>2 DEF IInv
<1>25. CASE FactoryReset
  <2>1. TypeOK'
    <3>1. FactoryDefault \in Setting  BY DEF FactoryDefault, Setting, FnKinds, IInv, TypeOK
    <3>2. [k \in Keys |-> 0] \in [Keys -> 0 .. 2]  OBVIOUS
    <3>3. saved' \in Setting /\ settings' \in Setting  BY <1>25, <3>1 DEF FactoryReset, Boot
    <3>4. /\ at' = "keys" /\ screenState' = LAST_SCREEN /\ subscreenState' = 0
          /\ button' = "NO" /\ previousButton' = "NO"
          /\ ticks_autoincrement' = 0 /\ opsModeMenuHoldTicks' = 0
          /\ optionButtonState' = {} /\ loadMode' = [k \in Keys |-> 0]
          /\ flags' = {} /\ systemBitsSnapshot' = {}
      BY <1>25 DEF FactoryReset, Boot
    <3>5. backlight' = FALSE /\ engineScreenTimer' = FALSE /\ powerDown' = FALSE
      BY <1>25 DEF FactoryReset, Boot
    <3>6. backlight' \in BOOLEAN /\ engineScreenTimer' \in BOOLEAN /\ powerDown' \in BOOLEAN
      BY <3>5
    <3>7. loadMode' \in [Keys -> 0 .. 2]  BY <3>2, <3>4
    <3>8. /\ at' \in {"keys", "screen", "menu", "asleep"}
          /\ screenState' \in Screens /\ subscreenState' \in 0 .. 3
          /\ button' \in Buttons /\ previousButton' \in Buttons
          /\ ticks_autoincrement' \in 0 .. LONG /\ opsModeMenuHoldTicks' \in 0 .. OPS_MODE_LONG
          /\ optionButtonState' \subseteq Keys /\ flags' \subseteq Flags
          /\ systemBitsSnapshot' \subseteq {"MENU_LOCK", "ADV_FUNC"}
      BY <3>4
    <3> QED  BY <3>3, <3>6, <3>7, <3>8 DEF TypeOK
  <2>2. FlagsFitScreen' /\ NeverPastLast' /\ PendingFits' /\ IgnoreFits' /\ PowerFits'
    BY <1>25 DEF FactoryReset, Boot, FlagsFitScreen, NeverPastLast, PendingFits, IgnoreFits, PowerFits
  <2> QED  BY <2>1, <2>2 DEF IInv
<1>26. CASE UNCHANGED vars
  BY <1>26 DEF vars, IInv, TypeOK, FlagsFitScreen, NeverPastLast, PendingFits, IgnoreFits, PowerFits
<1> QED
  BY <1>1, <1>2, <1>3, <1>4, <1>5, <1>6, <1>7, <1>8, <1>9, <1>10, <1>11, <1>12, <1>13,
     <1>14, <1>15, <1>16, <1>17, <1>18, <1>19, <1>20, <1>21, <1>22, <1>23, <1>24, <1>25,
     <1>26, Zenon
     DEF Next, Handler, MenuKey
-----------------------------------------------------------------------------

(* A throttle that has just been powered up satisfies the invariant.           *)
LEMMA Initially == ASSUME SettingsAssumption, Init  PROVE IInv
<1>1. saved \in Setting /\ settings \in Setting
  <2>1. PICK s \in Settings : saved = Eeprom(s)  BY DEF Init
  <2>2. s \in Setting  BY ONLY <2>1, SettingsAssumption, Zenon DEF SettingsAssumption
  <2>3. MAIN_SCREEN \in Screens  BY DEF Screens
  <2>4. saved \in Setting  BY ONLY <2>1, <2>2, <2>3, SettingsFit
  <2> QED  BY <2>4, Zenon DEF Init
<1>2. backlight \in BOOLEAN /\ engineScreenTimer \in BOOLEAN /\ powerDown \in BOOLEAN
  BY DEF Init
<1>3. loadMode \in [Keys -> 0 .. 2]  BY DEF Init
<1>4. TypeOK
  BY <1>1, <1>2, <1>3 DEF Init, TypeOK, Screens, Buttons, Keys, Flags, LONG, OPS_MODE_LONG
<1>5. FlagsFitScreen /\ NeverPastLast /\ PendingFits /\ IgnoreFits /\ PowerFits
  BY DEF Init, FlagsFitScreen, NeverPastLast, PendingFits, IgnoreFits, PowerFits, Returning
<1> QED  BY <1>4, <1>5 DEF IInv

(* The inductive invariant holds throughout: what the flags, the screen and    *)
(* the keys of MENU handling promise each other.                               *)
THEOREM Invariant == Spec => []IInv
<1>1. Init => IInv  BY Initially, SettingsAssumption
<1>2. IInv /\ [Next]_vars => IInv'  BY Inductive, SettingsAssumption
<1> QED  BY <1>1, <1>2, PTL DEF Spec

-----------------------------------------------------------------------------
(* The menus keep their types: above all, the screen byte is always a screen, *)
(* or the one value below MAIN_SCREEN.                                        *)
THEOREM TypeCorrect == Spec => []TypeOK
<1>1. IInv => TypeOK  BY DEF IInv
<1> QED  BY <1>1, Invariant, PTL

(* No flag that redirects MENU outlives the screen it was set for.            *)
THEOREM FlagsNeverStranded == Spec => []FlagsFitScreen
<1>1. IInv => FlagsFitScreen  BY DEF IInv
<1> QED  BY <1>1, Invariant, PTL

(* MENU never steps past LAST_SCREEN.                                         *)
THEOREM NeverSteppedPastLast == Spec => []NeverPastLast
<1>1. IInv => NeverPastLast  BY DEF IInv
<1> QED  BY <1>1, Invariant, PTL

(* No press of MENU steps over SYSTEM, however much is hidden or locked.      *)
THEOREM SystemOnTheWay == Spec => SystemNeverSkipped
<1>1. IInv /\ [Next]_vars =>
        [(MenuPress \/ MenuRelease) /\ screenState < SYSTEM_SCREEN
           => screenState' <= SYSTEM_SCREEN]_vars
  <2> SUFFICES ASSUME IInv, MenuPress \/ MenuRelease, screenState < SYSTEM_SCREEN
               PROVE  screenState' <= SYSTEM_SCREEN
    OBVIOUS
  <2>1. screenState \in 0 .. 11  BY DEF IInv, TypeOK, Screens
  <2>2. Landing(screenState) \in 0 .. 12  BY <2>1, LandingBeforeSystem
  <2>3. screenState' \in {screenState, Landing(screenState)}
    BY DEF MenuPress, MenuRelease, Advance
  <2> QED  BY <2>1, <2>2, <2>3
<1> QED  BY <1>1, Invariant, PTL DEF Spec, SystemNeverSkipped
-----------------------------------------------------------------------------
(* The menus with what an observer remembers.                                 *)

(* The observer only watches.                                                 *)
LEMMA Watches == [HNext]_hvars => [Next]_vars
BY DEF HNext, Next, Handler, MenuKey, hvars, vars, ReadAny, CriticalAny, WakeAny

LEMMA Observed == HSpec => []IInv
<1>1. HInit => IInv  BY Initially, SettingsAssumption DEF HInit
<1>2. IInv /\ [HNext]_hvars => IInv'  BY Watches, Inductive, SettingsAssumption
<1> QED  BY <1>1, <1>2, PTL DEF HSpec

(* The types of the menus and of what is remembered.                          *)
THEOREM HistoryTypes == HSpec => []HTypeOK
<1> USE DEF Screens, NONE
<1>1. HInit => HTypeOK  BY Initially, SettingsAssumption DEF HInit, HTypeOK, IInv
<1>2. ASSUME IInv, IInv', HTypeOK, [HNext]_hvars  PROVE HTypeOK'
  <2>1. TypeOK'  BY <1>2 DEF IInv
  <2>2. edge' \in Screens \cup {NONE}
    BY <1>2 DEF HNext, hvars, HTypeOK, TypeOK
  <2>3. overlapped' \in BOOLEAN
    <3>1. CASE ReadAny /\ overlapped' = (overlapped \/ ("NO" \notin {button', previousButton} /\ button' # previousButton))
      BY <3>1, Zenon
    <3>2. CASE overlapped' \in {overlapped, TRUE, FALSE}  BY <1>2, <3>2 DEF HTypeOK
    <3> QED  BY <1>2, <3>1, <3>2 DEF HNext, hvars
  <2>4. relatched' \in BOOLEAN
    <3>1. CASE relatched' = (On' # {} /\ (relatched \/ Loosens))  BY <3>1, Zenon
    <3>2. CASE UNCHANGED hvars  BY <1>2, <3>2 DEF hvars, HTypeOK
    <3> QED  BY <1>2, <3>1, <3>2 DEF HNext
  <2>5. agreed' \in {agreed, arrived, settings.system, {}} /\ arrived' \in {agreed, arrived, {}}
    BY <1>2 DEF HNext, hvars, AgreesBySelect, AgreesByMenu
  <2>6. settings.system \subseteq {"MENU_LOCK", "ADV_FUNC"}  BY <1>2 DEF IInv, TypeOK, Setting
  <2>7. agreed' \subseteq {"MENU_LOCK", "ADV_FUNC"} /\ arrived' \subseteq {"MENU_LOCK", "ADV_FUNC"}
    BY <1>2, <2>5, <2>6 DEF HTypeOK
  <2> QED  BY <2>1, <2>2, <2>3, <2>4, <2>7 DEF HTypeOK
<1> QED  BY <1>1, <1>2, Observed, PTL DEF HSpec

-----------------------------------------------------------------------------
(* Edits are made only inside a screen that saves them; elsewhere EEPROM      *)
(* holds what is live.                                                        *)
SavesInside == subscreenState # 0 /\ screenState \in ConfigScreens \ {DIAG_SCREEN}
SavedFits == saved.system = {} /\ (SavesInside \/ Eeprom(settings) = saved)

(* Between two passes previousButton is the key that is down.                 *)
KeysFit == at = "keys" => button = previousButton

LEMMA SavedStep ==
  ASSUME SettingsAssumption, IInv, SavedFits, [Next]_vars
  PROVE  SavedFits'
<1> USE DEF SavedFits, SavesInside, keyVars, fnVars, setVars
<1>1. saved \in Setting /\ settings \in Setting  BY DEF IInv, TypeOK
<1>2. ASSUME UNCHANGED <<settings, saved>>,
             SavesInside => SavesInside'
      PROVE  SavedFits'
  <2>1. Eeprom(settings)' = Eeprom(settings)  BY <1>2
  <2> QED  BY <1>2, <2>1
<1>3. ASSUME UNCHANGED <<settings, saved, screenState, subscreenState>>
      PROVE  SavedFits'
  BY <1>2, <1>3
<1>4. ASSUME settings' = readConfig(saved', settings), saved'.system = {}, saved' \in Setting
      PROVE  SavedFits'
  <2>1. Eeprom(settings') = saved'  BY <1>1, <1>4 DEF Eeprom, readConfig, Setting
  <2> QED  BY <1>4, <2>1
<1>5. CASE ReadAny \/ Hold \/ CriticalAny \/ WakeAny \/ MainOther \/ Inside \/ MenuNothing
  <2>1. UNCHANGED <<settings, saved>>
    BY <1>5 DEF ReadAny, ReadKeys, Hold, CriticalAny, CriticalBattery, Reinit, WakeAny, Wake,
                MainOther, Inside, MenuNothing, EndOfPass
  <2>2. SavesInside => SavesInside'
    BY <1>5 DEF ReadAny, ReadKeys, Hold, CriticalAny, CriticalBattery, Reinit, WakeAny, Wake,
                MainOther, Screen, Inside, MenuNothing, EndOfPass, ConfigScreens
  <2> QED  BY <1>2, <2>1, <2>2
<1>6. CASE MainKeys \/ MainPower \/ OpsMode \/ EngineAny \/ AirBrake \/ Enter \/ LeaveDiag \/ LastScreen
  <2>1. UNCHANGED <<settings, saved>>
    BY <1>6 DEF MainKeys, MainPower, OpsMode, EngineAny, Engine, AirBrake, Enter, LeaveDiag, LastScreen
  <2>2. ~SavesInside
    BY <1>6 DEF MainKeys, MainPower, OpsMode, EngineAny, Engine, AirBrake, Enter, LeaveDiag, LastScreen,
                Screen, ConfigScreens
  <2> QED  BY <1>2, <2>1, <2>2
<1>7. CASE MenuPress \/ MenuEnterOps \/ MenuReset \/ MenuRelease
  <2>1. UNCHANGED <<settings, saved>>
    BY <1>7 DEF MenuPress, MenuEnterOps, MenuReset, MenuRelease, Advance, EndOfPass
  <2>2. ~SavesInside
    BY <1>7 DEF MenuPress, MenuEnterOps, MenuReset, MenuRelease, Outside
  <2> QED  BY <1>2, <2>1, <2>2
<1>8. CASE ConfirmAny
  <2>1. PICK outcome \in {"done", "failed", "upgrade"}, new \in Settings : Confirm(outcome, new)
    BY <1>8 DEF ConfirmAny
  <2>2. new \in Setting  BY SettingsAssumption DEF SettingsAssumption
  <2>3. CASE UNCHANGED setVars
    BY <1>2, <2>1, <2>3 DEF Confirm, ConfigScreens
  <2>4. CASE saved' = [saved EXCEPT !.fn = new.fn] /\ settings' = readConfig(saved', settings)
    <3>1. saved'.system = {} /\ saved' \in Setting  BY <1>1, <2>2, <2>4 DEF Setting
    <3> QED  BY <1>4, <2>4, <3>1
  <2> QED  BY <2>1, <2>3, <2>4 DEF Confirm
<1>9. CASE EditAny
  <2>1. PICK new \in Settings : Edit(new)  BY <1>9 DEF EditAny
  <2>2. CASE screenState = DIAG_SCREEN
    <3>1. settings' = settings  BY <2>1, <2>2 DEF Edit, Edited
    <3> QED  BY <1>2, <2>1, <2>2, <3>1 DEF Edit
  <2>3. CASE screenState # DIAG_SCREEN
    BY <2>1, <2>3 DEF Edit
  <2> QED  BY <2>2, <2>3
<1>10. CASE SaveAny
  <2>1. PICK noLoad \in BOOLEAN : Save(noLoad)  BY <1>10 DEF SaveAny
  <2> DEFINE written == Eeprom(Edited(screenState, saved, settings))
  <2>2. Edited(screenState, saved, settings) \in Setting  BY SettingsFit DEF IInv, TypeOK
  <2>3. written \in Setting /\ written.system = {}
    BY <2>2, SettingsFit DEF Eeprom, Setting, IInv, TypeOK
  <2> HIDE DEF written
  <2>4. clearLoadFunctions(written) \in Setting
    BY <2>3, SettingsFit DEF IInv, TypeOK
  <2>5. clearLoadFunctions(written).system = {}
    BY <2>3 DEF clearLoadFunctions, Setting
  <2>6. saved' \in Setting /\ saved'.system = {} /\ settings' = readConfig(saved', settings)
    BY <2>1, <2>3, <2>4, <2>5 DEF Save, written
  <2> QED  BY <1>4, <2>6
<1>11. CASE MenuCancel
  <2>1. settings' = Cancelled /\ saved' = saved  BY <1>11 DEF MenuCancel, EndOfPass
  <2>2. Eeprom(Cancelled) = saved  BY <1>1 DEF Cancelled, readConfig, Eeprom, Setting
  <2> QED  BY <2>1, <2>2
<1>12. CASE PowerCycle \/ FactoryReset
  <2>1. settings' = saved' /\ saved' \in {saved, FactoryDefault}
    BY <1>12 DEF PowerCycle, FactoryReset, Boot
  <2>2. Eeprom(saved) = saved  BY <1>1 DEF Eeprom, Setting
  <2>3. FactoryDefault \in Setting /\ FactoryDefault.system = {}
    BY <1>1 DEF FactoryDefault, Setting, FnKinds
  <2>4. Eeprom(FactoryDefault) = FactoryDefault  BY <2>3 DEF Eeprom, Setting
  <2> QED  BY <2>1, <2>2, <2>3, <2>4
<1>13. CASE UNCHANGED vars
  BY <1>3, <1>13 DEF vars
<1> QED
  BY <1>5, <1>6, <1>7, <1>8, <1>9, <1>10, <1>11, <1>12, <1>13 DEF Next, Handler, MenuKey

-----------------------------------------------------------------------------
(* Where the chain has got to: every screen it passed is skipped, and, of the *)
(* screens it has asked about, it is not on one that is.                      *)
Passed(a, s, asked) ==
  /\ s \in a .. 18
  /\ \A u \in a .. s - 1 : Skips(u)
  /\ s \in asked => ~Skips(s)

(* One `if', provided the next screen has not been asked about yet.           *)
LEMMA PastPasses ==
  ASSUME NEW a \in 0 .. 18, NEW k \in 2 .. 17, NEW s, NEW asked, Passed(a, s, asked),
         k + 1 \notin asked
  PROVE  Passed(a, Past(k, s), asked \cup {k})
<1>1. CASE s = k /\ Skips(k)
  <2>1. Past(k, s) = k + 1 /\ s = k  BY <1>1 DEF Past, After
  <2>2. k + 1 \notin asked \cup {k}  OBVIOUS
  <2>3. \A u \in a .. k : Skips(u)  BY <1>1 DEF Passed
  <2> QED  BY <1>1, <2>1, <2>2, <2>3 DEF Passed
<1>2. CASE ~(s = k /\ Skips(k))
  <2>1. Past(k, s) = s  BY <1>2 DEF Past
  <2> QED  BY <1>2, <2>1 DEF Passed
<1> QED  BY <1>1, <1>2

(* Which screens may be skipped at all.                                       *)
Skippable == {2} \cup (6 .. 11) \cup (13 .. 17)

LEMMA ChainPasses ==
  ASSUME NEW s \in (0 .. 17) \cup {255}
  PROVE  Passed(After(s), PastSystem(PastSimulation(PastFunctions(After(s)))), Skippable)
<1> DEFINE a == After(s)
<1>1. a \in 0 .. 18  BY DEF After
<1> HIDE DEF a
<1>2. Passed(a, a, {})  BY <1>1 DEF Passed
<1>3. Passed(a, PastFunctions(a), {6, 7, 8})
  <2>1. Passed(a, Past(6, a), {} \cup {6})  BY <1>1, <1>2, PastPasses
  <2>2. Passed(a, Past(7, Past(6, a)), ({} \cup {6}) \cup {7})  BY <1>1, <2>1, PastPasses
  <2>3. Passed(a, Past(8, Past(7, Past(6, a))), (({} \cup {6}) \cup {7}) \cup {8})
    BY <1>1, <2>2, PastPasses
  <2>4. (({} \cup {6}) \cup {7}) \cup {8} = {6, 7, 8}  OBVIOUS
  <2> QED  BY <2>3, <2>4 DEF PastFunctions
<1> DEFINE f == PastFunctions(a)
<1>4. Passed(a, PastSimulation(f), {2} \cup (6 .. 10))
  <2>0. Passed(a, f, {6, 7, 8})  BY <1>3
  <2> HIDE DEF f
  <2>1. Passed(a, Past(9, f), {6, 7, 8} \cup {9})  BY <1>1, <2>0, PastPasses
  <2>2. Passed(a, Past(2, Past(9, f)), ({6, 7, 8} \cup {9}) \cup {2})  BY <1>1, <2>1, PastPasses
  <2>3. Passed(a, Past(10, Past(2, Past(9, f))), (({6, 7, 8} \cup {9}) \cup {2}) \cup {10})
    BY <1>1, <2>2, PastPasses
  <2>4. (({6, 7, 8} \cup {9}) \cup {2}) \cup {10} = {2} \cup (6 .. 10)  OBVIOUS
  <2> QED  BY <2>3, <2>4 DEF PastSimulation
<1> DEFINE g == PastSimulation(f)
<1>5. Passed(a, PastSystem(g), Skippable)
  <2>0. Passed(a, g, {2} \cup (6 .. 10))  BY <1>4
  <2> HIDE DEF g
  <2> DEFINE A1 == ({2} \cup (6 .. 10)) \cup {11}
             A2 == A1 \cup {13}
             A3 == A2 \cup {14}
             A4 == A3 \cup {15}
             A5 == A4 \cup {16}
             A6 == A5 \cup {17}
  <2>1. Passed(a, Past(11, g), A1)  BY <1>1, <2>0, PastPasses
  <2>2. Passed(a, Past(13, Past(11, g)), A2)
    <3>1. 13 + 1 \notin A1  OBVIOUS
    <3> HIDE DEF A1
    <3> QED  BY <1>1, <2>1, <3>1, PastPasses
  <2>3. Passed(a, Past(14, Past(13, Past(11, g))), A3)
    <3>1. 14 + 1 \notin A2  OBVIOUS
    <3> HIDE DEF A2
    <3> QED  BY <1>1, <2>2, <3>1, PastPasses
  <2>4. Passed(a, Past(15, Past(14, Past(13, Past(11, g)))), A4)
    <3>1. 15 + 1 \notin A3  OBVIOUS
    <3> HIDE DEF A3
    <3> QED  BY <1>1, <2>3, <3>1, PastPasses
  <2>5. Passed(a, Past(16, Past(15, Past(14, Past(13, Past(11, g))))), A5)
    <3>1. 16 + 1 \notin A4  OBVIOUS
    <3> HIDE DEF A4
    <3> QED  BY <1>1, <2>4, <3>1, PastPasses
  <2>6. Passed(a, Past(17, Past(16, Past(15, Past(14, Past(13, Past(11, g)))))), A6)
    <3>1. 17 + 1 \notin A5  OBVIOUS
    <3> HIDE DEF A5
    <3> QED  BY <1>1, <2>5, <3>1, PastPasses
  <2>7. A6 = Skippable  BY DEF Skippable
  <2> QED  BY <2>6, <2>7 DEF PastSystem
<1> QED  BY <1>5 DEF a

(* Wherever MENU is pressed, the chain and the lock together find the next    *)
(* screen that is shown.                                                      *)
LEMMA LandingIsNext ==
  ASSUME TypeOK, NEW s \in (0 .. 17) \cup {255}
  PROVE  /\ Landing(s) = NextShown(s)
         /\ Landing(s) \in After(s) .. 18 /\ ~Skips(Landing(s))
<1> DEFINE a == After(s)
           r == PastSystem(PastSimulation(PastFunctions(After(s))))
           l == Landing(s)
<1>1. a \in 0 .. 18  BY DEF After
<1>2. /\ r \in a .. 18 /\ \A u \in a .. r - 1 : Skips(u)
      /\ r \in Skippable => ~Skips(r)
  BY ChainPasses DEF Passed
<1>3. \A u \in Int : Skips(u) => u \in Skippable
  BY DEF Skips, Skippable, Hideable, TypeOK, Setting
<1>4. ~Skips(r)  BY <1>1, <1>2, <1>3
<1> HIDE DEF a, r
<1>5. l = IF "MENU_LOCK" \in settings.system THEN Min({t \in Unlocked : t >= r}) ELSE r
  BY DEF Landing, r
<1>6. /\ l \in a .. 18 /\ Shown(l)
      /\ \A u \in a .. l - 1 : ~Shown(u)
  <2>1. CASE "MENU_LOCK" \notin settings.system
    BY <1>1, <1>2, <1>4, <1>5, <2>1 DEF Shown
  <2>2. CASE "MENU_LOCK" \in settings.system
    <3> DEFINE x0 == IF r <= 1 THEN 1 ELSE IF r = 2 THEN 2 ELSE IF r = 3 THEN 3
                     ELSE IF r <= 5 THEN 5 ELSE IF r = 6 THEN 6
                     ELSE IF r <= 12 THEN 12 ELSE 18
               S == {t \in Unlocked : t >= r}
    <3>1. r \in 0 .. 18  BY <1>1, <1>2
    <3>2. x0 \in S /\ \A y \in S : x0 =< y  BY <3>1 DEF Unlocked
    <3>3. Min(S) = x0
      <4>1. S \subseteq Int  BY DEF Unlocked
      <4>2. Min(S) \in S /\ \A y \in S : Min(S) =< y  BY <3>2 DEF Min
      <4>3. x0 =< Min(S) /\ Min(S) =< x0 /\ x0 \in Int /\ Min(S) \in Int
        <5> HIDE DEF x0, S
        <5> QED  BY <3>2, <4>1, <4>2
      <4> HIDE DEF x0, S
      <4> QED  BY <4>3
    <3>4. l = x0  BY <1>5, <2>2, <3>3
    <3>5. x0 \in Unlocked /\ x0 >= r /\ x0 \in 0 .. 18  BY <3>1 DEF Unlocked
    <3>6. x0 \in Skippable => x0 = r  BY <3>1 DEF Skippable
    <3>7. ~Skips(x0)  BY <1>3, <1>4, <3>5, <3>6
    <3>8. \A u \in r .. x0 - 1 : u \notin Unlocked
      <4> HIDE DEF x0
      <4> QED  BY <3>1, <3>2, <3>5
    <3>9. Shown(x0)  BY <3>5, <3>7 DEF Shown
    <3>10. \A u \in a .. x0 - 1 : ~Shown(u)
      <4> HIDE DEF x0
      <4> SUFFICES ASSUME NEW u \in a .. x0 - 1 PROVE ~Shown(u)
        OBVIOUS
      <4>1. u \in a .. r - 1 \/ u \in r .. x0 - 1  BY <1>1, <3>1, <3>5
      <4> QED  BY <1>2, <2>2, <3>8, <4>1 DEF Shown
    <3>11. x0 \in a .. 18  BY <1>1, <1>2, <3>5
    <3> QED  BY <3>4, <3>9, <3>10, <3>11
  <2> QED  BY <2>1, <2>2
<1> HIDE DEF l
<1> DEFINE P(t) == Shown(t) /\ \A u \in a .. t - 1 : ~Shown(u)
<1>7. \A t \in a .. 18 : P(t) => t = l
  <2> SUFFICES ASSUME NEW t \in a .. 18, P(t) PROVE t = l
    OBVIOUS
  <2>1. ~(t < l)
    <3>1. t < l => t \in a .. l - 1  BY <1>1, <1>6
    <3> QED  BY <1>6, <3>1
  <2>2. ~(l < t)
    <3>1. l < t => l \in a .. t - 1  BY <1>1, <1>6
    <3> QED  BY <1>6, <3>1
  <2> QED  BY <1>1, <1>6, <2>1, <2>2
<1>8. NextShown(s) = CHOOSE t \in a .. 18 : P(t)  BY DEF NextShown, a
<1>9. P(l) /\ l \in a .. 18  BY <1>6
<1> HIDE DEF P
<1>10. (CHOOSE t \in a .. 18 : P(t)) = l  BY <1>7, <1>9
<1>11. l \in a .. 18 /\ ~Skips(l)  BY <1>6 DEF Shown
<1> QED  BY <1>8, <1>10, <1>11 DEF l, a

(* MENU lands on the next screen shown, whatever is hidden and locked.        *)
THEOREM AlwaysLandsOnNextShown == HSpec => LandsOnNextShown
<1>1. ASSUME IInv, MenuPress \/ MenuRelease
      PROVE  \/ screenState' = NextShown(screenState)
             \/ screenState = MAIN_SCREEN /\ screenState' = MAIN_SCREEN /\ settings.opsMode
  <2>1. screenState \in (0 .. 17) \cup {255}
    <3>1. screenState \in Screens /\ screenState # LAST_SCREEN
      BY <1>1 DEF MenuPress, MenuRelease, IInv, TypeOK, NeverPastLast, Pressed, Released
    <3> QED  BY <3>1 DEF Screens
  <2>2. Landing(screenState) = NextShown(screenState)  BY <1>1, <2>1, LandingIsNext DEF IInv
  <2>3. CASE Advance  BY <2>2, <2>3 DEF Advance
  <2> QED  BY <1>1, <2>3 DEF MenuPress, MenuRelease, Defers
<1>2. IInv /\ [HNext]_hvars =>
        [MenuPress \/ MenuRelease =>
           \/ screenState' = NextShown(screenState)
           \/ screenState = MAIN_SCREEN /\ screenState' = MAIN_SCREEN /\ settings.opsMode]_hvars
  BY <1>1
<1> QED  BY <1>2, Observed, PTL DEF HSpec, LandsOnNextShown

-----------------------------------------------------------------------------
(* Outside SYSTEM the system bits are those agreed to; on SYSTEM the snapshot *)
(* that a cancel restores is of what was agreed when MENU came there.         *)
AgreedFits ==
  /\ InsideSystem \/ settings.system = agreed
  /\ screenState = SYSTEM_SCREEN => systemBitsSnapshot = arrived

LEMMA AgreedStep ==
  ASSUME SettingsAssumption, IInv, SavedFits, AgreedFits, [HNext]_hvars
  PROVE  AgreedFits'
<1> USE DEF InsideSystem
<1>1. saved \in Setting /\ settings \in Setting  BY DEF IInv, TypeOK
<1>2. ASSUME settings'.system = settings.system, UNCHANGED <<systemBitsSnapshot, arrived>>,
             screenState' = SYSTEM_SCREEN => screenState = SYSTEM_SCREEN,
             InsideSystem => InsideSystem' \/ agreed' = settings.system,
             ~InsideSystem => agreed' = agreed
      PROVE  AgreedFits'
  BY <1>2 DEF AgreedFits
<1>3. CASE (ReadAny \/ Hold \/ CriticalAny \/ WakeAny) /\ UNCHANGED <<agreed, arrived>>
  BY <1>2, <1>3 DEF ReadAny, ReadKeys, Hold, CriticalAny, CriticalBattery, Reinit, WakeAny, Wake, setVars
<1>4. CASE (PowerCycle \/ FactoryReset) /\ agreed' = {} /\ arrived' = {}
  <2>1. settings' = saved' /\ saved' \in {saved, FactoryDefault} /\ screenState' = LAST_SCREEN
    BY <1>4 DEF PowerCycle, FactoryReset, Boot
  <2>2. saved.system = {} /\ FactoryDefault.system = {}  BY DEF SavedFits, FactoryDefault
  <2> QED  BY <1>4, <2>1, <2>2 DEF AgreedFits
<1>5. CASE Handler /\ AgreesBySelect
  <2> USE DEF Screen, Show, Stay, setVars, AgreesBySelect
  <2>1. CASE MainKeys \/ MainOther \/ MainPower \/ OpsMode \/ EngineAny \/ AirBrake \/ LeaveDiag \/ LastScreen
    <3>1. screenState # SYSTEM_SCREEN /\ screenState' # SYSTEM_SCREEN
      BY <2>1 DEF MainKeys, MainOther, MainPower, OpsMode, EngineAny, Engine, AirBrake, LeaveDiag,
                  LastScreen, Before
    <3>2. UNCHANGED <<settings, systemBitsSnapshot>>
      BY <2>1 DEF MainKeys, MainOther, MainPower, OpsMode, EngineAny, Engine, AirBrake, LeaveDiag,
                  LastScreen
    <3> QED  BY <1>2, <1>5, <3>1, <3>2
  <2>2. CASE Enter \/ Inside
    BY <1>2, <1>5, <2>2 DEF Enter, Inside
  <2>3. CASE ConfirmAny
    <3>1. PICK outcome \in {"done", "failed", "upgrade"}, new \in Settings : Confirm(outcome, new)
      BY <2>3 DEF ConfirmAny
    <3>2. screenState # SYSTEM_SCREEN /\ screenState' # SYSTEM_SCREEN
      BY <3>1 DEF Confirm, Before
    <3>3. CASE UNCHANGED setVars  BY <1>2, <1>5, <3>2, <3>3
    <3>4. CASE /\ saved' = [saved EXCEPT !.fn = new.fn] /\ settings' = readConfig(saved', settings)
               /\ UNCHANGED systemBitsSnapshot
      <4>1. settings'.system = settings.system  BY <1>1, <3>4 DEF readConfig, Setting
      <4> QED  BY <1>2, <1>5, <3>2, <3>4, <4>1
    <3> QED  BY <3>1, <3>3, <3>4 DEF Confirm
  <2>4. CASE EditAny
    <3>1. PICK new \in Settings : Edit(new)  BY <2>4 DEF EditAny
    <3>2. UNCHANGED <<screenState, subscreenState, systemBitsSnapshot>>  BY <3>1 DEF Edit
    <3>3. CASE InsideSystem  BY <1>5, <3>2, <3>3 DEF AgreedFits
    <3>4. CASE ~InsideSystem
      <4>1. screenState # SYSTEM_SCREEN  BY <3>1, <3>4 DEF Edit
      <4>2. settings'.system = settings.system  BY <1>1, <3>1, <4>1 DEF Edit, Edited, Setting
      <4> QED  BY <1>2, <1>5, <3>2, <3>4, <4>2
    <3> QED  BY <3>3, <3>4
  <2>5. CASE SaveAny
    <3>1. PICK noLoad \in BOOLEAN : Save(noLoad)  BY <2>5 DEF SaveAny
    <3> DEFINE written == Eeprom(Edited(screenState, saved, settings))
    <3>2. written \in Setting /\ clearLoadFunctions(written) \in Setting
      <4>1. Edited(screenState, saved, settings) \in Setting  BY SettingsFit DEF IInv, TypeOK
      <4>2. written \in Setting  BY <4>1, SettingsFit DEF IInv, TypeOK
      <4> HIDE DEF written
      <4> QED  BY <4>2, SettingsFit DEF IInv, TypeOK
    <3>3. saved' \in {written, clearLoadFunctions(written)}  BY <3>1 DEF Save
    <3>4. saved' \in Setting  BY <3>2, <3>3
    <3>5. settings'.system = settings.system  BY <3>1, <3>4 DEF Save, readConfig, Setting
    <3>6. Pressed("SELECT") /\ UNCHANGED <<screenState, systemBitsSnapshot>>  BY <3>1 DEF Save
    <3> QED  BY <1>2, <1>5, <3>5, <3>6
  <2> QED  BY <1>5, <2>1, <2>2, <2>3, <2>4, <2>5 DEF Handler
<1>6. CASE MenuKey /\ AgreesByMenu
  <2> USE DEF AgreesByMenu, Show
  <2>1. CASE MenuPress \/ MenuRelease
    <3>1. subscreenState = 0 /\ screenState # OPS_MODE_SCREEN  BY <2>1 DEF MenuPress, MenuRelease, Outside
    <3>2. settings' = settings /\ agreed' = agreed
      BY <1>6, <2>1, <3>1 DEF MenuPress, MenuRelease, Advance
    <3>3. settings.system = agreed  BY <3>1 DEF AgreedFits
    <3>4. screenState \in (0 .. 17) \cup {255}
      <4>1. screenState \in Screens /\ screenState # LAST_SCREEN
        BY <2>1 DEF MenuPress, MenuRelease, IInv, TypeOK, NeverPastLast, Pressed, Released
      <4> QED  BY <4>1 DEF Screens
    <3>5. CASE Advance
      <4>1. screenState' = Landing(screenState)  BY <3>5 DEF Advance
      <4>2. Landing(screenState) \in After(screenState) .. 18  BY <3>4, LandingIsNext DEF IInv
      <4>3. screenState = SYSTEM_SCREEN => screenState' # SYSTEM_SCREEN  BY <4>1, <4>2 DEF After
      <4>4. screenState' = SYSTEM_SCREEN => systemBitsSnapshot' = settings.system
        BY <3>5 DEF Advance
      <4> QED  BY <1>6, <3>2, <3>3, <4>3, <4>4 DEF AgreedFits
    <3>6. CASE UNCHANGED <<screenState, systemBitsSnapshot>>
      BY <1>6, <3>2, <3>3, <3>6 DEF AgreedFits
    <3> QED  BY <2>1, <3>5, <3>6 DEF MenuPress, MenuRelease
  <2>2. CASE MenuEnterOps \/ MenuReset
    <3>1. subscreenState = 0 /\ UNCHANGED <<settings, systemBitsSnapshot>>
          /\ screenState' \in {OPS_MODE_SCREEN, LAST_SCREEN}
      BY <2>2 DEF MenuEnterOps, MenuReset, Outside
    <3> QED  BY <1>6, <3>1 DEF AgreedFits
  <2>3. CASE MenuCancel
    <3>1. subscreenState # 0 /\ settings' = Cancelled /\ screenState' = LAST_SCREEN /\ subscreenState' = 0
      BY <2>3 DEF MenuCancel
    <3>2. Cancelled.system = IF screenState = SYSTEM_SCREEN THEN systemBitsSnapshot ELSE settings.system
      BY <1>1 DEF Cancelled, readConfig, Setting
    <3> QED  BY <1>6, <3>1, <3>2 DEF AgreedFits
  <2>4. CASE MenuNothing
    BY <1>6, <2>4 DEF MenuNothing, AgreedFits
  <2> QED  BY <1>6, <2>1, <2>2, <2>3, <2>4 DEF MenuKey
<1>7. CASE UNCHANGED hvars  BY <1>7 DEF hvars, vars, AgreedFits
<1> QED  BY <1>3, <1>4, <1>5, <1>6, <1>7 DEF HNext

(* Nothing edited survives outside its screen unless it has been saved.       *)
THEOREM NothingEscapes == HSpec => []NothingUncommittedOutside
<1>1. HInit => SavedFits /\ AgreedFits
  <2> SUFFICES ASSUME HInit PROVE SavedFits /\ AgreedFits
    OBVIOUS
  <2>1. PICK s \in Settings : saved = Eeprom(s)  BY DEF HInit, Init
  <2>2. s \in Setting  BY SettingsAssumption DEF SettingsAssumption
  <2> QED  BY <2>1, <2>2 DEF HInit, Init, SavedFits, SavesInside, AgreedFits, Eeprom, Setting
<1>2. IInv /\ SavedFits /\ [HNext]_hvars => SavedFits'
  BY Watches, SavedStep, SettingsAssumption
<1>3. IInv /\ SavedFits /\ AgreedFits /\ [HNext]_hvars => AgreedFits'
  BY AgreedStep, SettingsAssumption
<1>4. SavedFits /\ AgreedFits => NothingUncommittedOutside
  BY DEF SavedFits, SavesInside, AgreedFits, InsideSystem, NothingUncommittedOutside
<1> QED  BY <1>1, <1>2, <1>3, <1>4, Observed, PTL DEF HSpec

-----------------------------------------------------------------------------
(* In OPS MODE the hold that entered it is ignored until it is let go, and    *)
(* seen to be let go before MENU can be down again.                           *)
EntryFits ==
  screenState = OPS_MODE_SCREEN /\ edge = MAIN_SCREEN =>
    \/ "opsMenuIgnoreUntilRelease" \in flags /\ "airbrakeMenuExitThrough" \notin flags
    \/ at = "keys" /\ previousButton # "MENU"
    \/ at = "screen" /\ (button # "MENU" \/ previousButton # "MENU")
    \/ at = "menu" /\ button # "MENU"
    \/ at = "asleep"

(* Keys one at a time: a deferred press is a MENU made on the main screen and *)
(* not yet let go.                                                            *)
PendingSeen ==
  /\ at = "menu" /\ screenState = MAIN_SCREEN /\ Pressed("MENU") => edge = MAIN_SCREEN
  /\ ~overlapped /\ "menuAdvancePending" \in flags =>
       /\ edge = MAIN_SCREEN /\ screenState = MAIN_SCREEN /\ subscreenState = 0
       /\ at # "asleep" /\ previousButton = "MENU" /\ button \in {"MENU", "NO"}

(* Keys one at a time: where UP and DOWN, or all four, have been let go.      *)
Free(ks) == optionButtonState \cap Momentary \cap ks = {}
UpDownFree ==
  \/ screenState \in {ENGINE_SCREEN, 255}
  \/ screenState = MAIN_SCREEN /\ subscreenState # 0
  \/ /\ screenState = MAIN_SCREEN /\ at = "menu"
     /\ \/ button \in {"NO", "MENU"} /\ previousButton = "NO"
        \/ "menuAdvancePending" \in flags
  \/ screenState = LAST_SCREEN /\ at \in {"menu", "keys"} /\ button = "NO"
  \/ screenState = LAST_SCREEN /\ at = "screen" /\ previousButton = "NO"
AllFree ==
  \/ "airbrakeReturnToOps" \in flags
  \/ screenState = OPS_MODE_SCREEN /\ at = "keys" /\ button = "NO"
  \/ screenState = OPS_MODE_SCREEN /\ at = "menu" /\ button = "NO"
FreeFits == ~overlapped => (UpDownFree => Free({"UP", "DOWN"})) /\ (AllFree => Free(Keys))

LEMMA KeysStep == KeysFit /\ [HNext]_hvars => KeysFit'
<1> SUFFICES ASSUME KeysFit, [Next]_vars PROVE KeysFit'
  BY Watches
<1>1. CASE at' # "keys"  BY <1>1 DEF KeysFit
<1>2. CASE ReadAny \/ Hold \/ CriticalAny \/ WakeAny
  BY <1>2 DEF ReadAny, ReadKeys, Hold, CriticalAny, CriticalBattery, Reinit, WakeAny, Wake, KeysFit
<1>3. CASE Handler
  BY <1>3 DEF Handler, MainKeys, MainOther, MainPower, OpsMode, EngineAny, Engine, AirBrake, Enter,
              ConfirmAny, Confirm, EditAny, Edit, SaveAny, Save, LeaveDiag, Inside, LastScreen,
              Screen, KeysFit
<1>4. CASE MenuKey
  BY <1>4 DEF MenuKey, MenuPress, MenuEnterOps, MenuReset, MenuRelease, MenuCancel, MenuNothing,
              EndOfPass, KeysFit
<1>5. CASE PowerCycle \/ FactoryReset
  BY <1>5 DEF PowerCycle, FactoryReset, Boot, KeysFit
<1>6. CASE UNCHANGED vars  BY <1>6 DEF vars, KeysFit
<1> QED  BY <1>2, <1>3, <1>4, <1>5, <1>6 DEF Next

(* How a handler moves on; which screen it was is what the press remembers.   *)
LEMMA HandlerMoves ==
  ASSUME TypeOK, Handler
  PROVE  /\ at = "screen" /\ at' = "menu" /\ button' = button
         /\ screenState' = MAIN_SCREEN => screenState \in {MAIN_SCREEN, LAST_SCREEN}
         /\ screenState' = OPS_MODE_SCREEN =>
              \/ screenState = OPS_MODE_SCREEN
              \/ screenState = AIRBRAKE_SCREEN /\ button # "NO" /\ button # previousButton
         /\ screenState' \in {MAIN_SCREEN, OPS_MODE_SCREEN} /\ screenState # AIRBRAKE_SCREEN
              => previousButton' = previousButton
<1> USE DEF keyVars, Screen, Show, Stay
<1>1. CASE MainKeys \/ MainOther \/ MainPower
  BY <1>1 DEF MainKeys, MainOther, MainPower, Before, TypeOK
<1>2. CASE OpsMode
  BY <1>2 DEF OpsMode
<1>3. CASE EngineAny \/ Enter \/ ConfirmAny
  BY <1>3 DEF EngineAny, Engine, Enter, ConfirmAny, Confirm, ConfigScreens, Before
<1>4. CASE AirBrake
  BY <1>4 DEF AirBrake, Synced
<1>5. CASE EditAny \/ SaveAny \/ LeaveDiag \/ Inside \/ LastScreen
  BY <1>5 DEF EditAny, Edit, SaveAny, Save, LeaveDiag, Inside, LastScreen, ConfigScreens
<1> QED  BY <1>1, <1>2, <1>3, <1>4, <1>5 DEF Handler

LEMMA EntryStep ==
  ASSUME IInv, KeysFit, EntryFits, [HNext]_hvars
  PROVE  EntryFits'
<1>1. CASE ReadAny /\ UNCHANGED edge
  BY <1>1 DEF ReadAny, ReadKeys, EntryFits, KeysFit
<1>2. CASE Hold /\ UNCHANGED edge
  BY <1>2 DEF Hold, EntryFits
<1>3. CASE edge' = NONE  BY <1>3 DEF NONE, EntryFits
<1>4. CASE Handler /\ edge' = IF \A k \in Keys : ~Pressed(k) THEN edge
                              ELSE IF screenState = LAST_SCREEN THEN MAIN_SCREEN ELSE screenState
  <2> SUFFICES ASSUME screenState' = OPS_MODE_SCREEN, edge' = MAIN_SCREEN
               PROVE  EntryFits'
    BY DEF EntryFits
  <2>1. TypeOK  BY DEF IInv
  <2>2. /\ at = "screen" /\ at' = "menu" /\ button' = button
        /\ \/ screenState = OPS_MODE_SCREEN
           \/ screenState = AIRBRAKE_SCREEN /\ button # "NO" /\ button # previousButton
    BY <1>4, <2>1, HandlerMoves
  <2>3. \A k \in Keys : ~Pressed(k)
    BY <1>4, <2>2
  <2>4. edge = MAIN_SCREEN  BY <1>4, <2>3
  <2>5. screenState = OPS_MODE_SCREEN
    BY <2>1, <2>2, <2>3 DEF Pressed, TypeOK, Buttons, Keys
  <2>6. OpsMode
    BY <1>4, <2>5 DEF Handler, MainKeys, MainOther, MainPower, EngineAny, Engine, AirBrake, Enter,
              ConfirmAny, Confirm, EditAny, Edit, SaveAny, Save, LeaveDiag, Inside, LastScreen,
              Screen, ConfigScreens
  <2>7. CASE button # "MENU"  BY <2>2, <2>7 DEF EntryFits
  <2>8. CASE button = "MENU"
    <3>1. previousButton = "MENU"  BY <2>3, <2>8 DEF Pressed, Keys
    <3>2. "opsMenuIgnoreUntilRelease" \in flags /\ "airbrakeMenuExitThrough" \notin flags
      BY <2>2, <2>4, <2>5, <2>8, <3>1 DEF EntryFits
    <3>3. ~OpsExit /\ ~OpsTap
      BY <2>8, <3>2 DEF OpsExit, OpsTap, MenuIgnored
    <3>4. flags' \in {flags, flags \cup {"airbrakeReturnToOps"}}
      BY <2>6, <2>8, <3>3 DEF OpsMode
    <3> QED  BY <3>2, <3>4 DEF EntryFits
  <2> QED  BY <2>7, <2>8
<1>5. CASE MenuKey /\ UNCHANGED edge
  <2> SUFFICES ASSUME screenState' = OPS_MODE_SCREEN, edge' = MAIN_SCREEN
               PROVE  EntryFits'
    BY DEF EntryFits
  <2>1. TypeOK  BY DEF IInv
  <2>2. CASE MenuEnterOps
    BY <2>2 DEF MenuEnterOps, EnterOps, Outside, Returning, IInv, FlagsFitScreen, EntryFits
  <2>3. CASE MenuNothing
    BY <1>5, <2>3 DEF MenuNothing, EndOfPass, EntryFits
  <2>4. CASE MenuReset \/ MenuCancel
    BY <2>4 DEF MenuReset, MenuCancel, Show
  <2>5. CASE MenuPress \/ MenuRelease
    <3>1. screenState # OPS_MODE_SCREEN  BY <2>5 DEF MenuPress, MenuRelease, Outside
    <3>2. screenState' = Landing(screenState)
      BY <2>5, <3>1 DEF MenuPress, MenuRelease, Advance
    <3>3. screenState \in (0 .. 17) \cup {255}
      <4>1. screenState \in Screens /\ screenState # LAST_SCREEN
        BY <2>5 DEF MenuPress, MenuRelease, IInv, TypeOK, NeverPastLast, Pressed, Released
      <4> QED  BY <4>1 DEF Screens
    <3>4. ~Skips(screenState')  BY <2>1, <3>2, <3>3, LandingIsNext
    <3> QED  BY <3>4 DEF Skips
  <2> QED  BY <1>5, <2>2, <2>3, <2>4, <2>5 DEF MenuKey
<1>6. CASE UNCHANGED hvars  BY <1>6 DEF hvars, vars, EntryFits
<1> QED  BY <1>1, <1>2, <1>3, <1>4, <1>5, <1>6 DEF HNext

(* The hold that entered OPS MODE never leaves it.                            *)
THEOREM EntryHoldAlwaysStays == HSpec => EntryHoldStays
<1>1. HInit => KeysFit /\ EntryFits
  BY DEF HInit, Init, KeysFit, EntryFits
<1>2. ASSUME IInv, KeysFit, EntryFits, [HNext]_hvars,
             screenState = OPS_MODE_SCREEN, screenState' = LAST_SCREEN
      PROVE  edge' # MAIN_SCREEN
  <2>1. TypeOK  BY <1>2 DEF IInv
  <2>2. CASE edge' = NONE  BY <2>2 DEF NONE
  <2>3. CASE Handler /\ edge' = IF \A k \in Keys : ~Pressed(k) THEN edge
                                ELSE IF screenState = LAST_SCREEN THEN MAIN_SCREEN ELSE screenState
    <3>1. OpsMode
      BY <1>2, <2>3 DEF Handler, MainKeys, MainOther, MainPower, EngineAny, Engine, AirBrake,
                Enter, ConfirmAny, Confirm, EditAny, Edit, SaveAny, Save, LeaveDiag, Inside,
                LastScreen, Screen, ConfigScreens
    <3>2. OpsExit  BY <1>2, <3>1 DEF OpsMode, Show, Stay
    <3>3. CASE \A k \in Keys : ~Pressed(k)
      <4>1. button = "MENU" /\ previousButton = "MENU"
        BY <3>2, <3>3 DEF OpsExit, Pressed, Keys
      <4>2. "opsMenuIgnoreUntilRelease" \notin flags \/ "airbrakeMenuExitThrough" \in flags
        BY <3>2 DEF OpsExit, MenuIgnored
      <4>3. at = "screen"  BY <3>1 DEF OpsMode, Screen
      <4>4. edge # MAIN_SCREEN  BY <1>2, <4>1, <4>2, <4>3 DEF EntryFits
      <4> QED  BY <2>3, <3>3, <4>4
    <3>4. CASE ~\A k \in Keys : ~Pressed(k)
      BY <1>2, <2>3, <3>4
    <3> QED  BY <3>3, <3>4
  <2>4. CASE MenuKey \/ ReadAny \/ Hold
    <3>1. FALSE
      BY <1>2, <2>4 DEF MenuKey, MenuPress, MenuEnterOps, MenuReset, MenuRelease, MenuCancel,
                 MenuNothing, Outside, ReadAny, ReadKeys, Hold
    <3> QED  BY <3>1
  <2>5. CASE UNCHANGED hvars  BY <1>2, <2>5 DEF hvars, vars
  <2> QED  BY <1>2, <2>2, <2>3, <2>4, <2>5 DEF HNext
<1>3. IInv /\ KeysFit /\ EntryFits /\ [HNext]_hvars
        => [screenState = OPS_MODE_SCREEN /\ screenState' = LAST_SCREEN => edge' # MAIN_SCREEN]_hvars
  BY <1>2
<1>4. IInv /\ KeysFit /\ EntryFits /\ [HNext]_hvars => KeysFit' /\ EntryFits'
  BY KeysStep, EntryStep
<1> QED  BY <1>1, <1>3, <1>4, Observed, PTL DEF HSpec, EntryHoldStays

LEMMA PendingStep ==
  ASSUME IInv, KeysFit, PendingSeen, [HNext]_hvars
  PROVE  PendingSeen'
<1> DEFINE Seen == at = "menu" /\ screenState = MAIN_SCREEN /\ Pressed("MENU") => edge = MAIN_SCREEN
           Kept == ~overlapped /\ "menuAdvancePending" \in flags =>
                     /\ edge = MAIN_SCREEN /\ screenState = MAIN_SCREEN /\ subscreenState = 0
                     /\ at # "asleep" /\ previousButton = "MENU" /\ button \in {"MENU", "NO"}
<1>1. CASE /\ ReadAny
           /\ overlapped' = (overlapped \/ ("NO" \notin {button', previousButton} /\ button' # previousButton))
           /\ UNCHANGED edge
  <2>1. Seen'  BY <1>1 DEF ReadAny, ReadKeys
  <2>2. ASSUME ~overlapped', "menuAdvancePending" \in flags'
        PROVE  Kept'
    <3>1. ~overlapped /\ ("NO" \in {button', previousButton} \/ button' = previousButton)
      BY <1>1, <2>2
    <3>2. "menuAdvancePending" \in flags  BY <1>1, <2>2 DEF ReadAny, ReadKeys
    <3>3. previousButton = "MENU" /\ edge = MAIN_SCREEN /\ screenState = MAIN_SCREEN /\ subscreenState = 0
      BY <3>1, <3>2 DEF PendingSeen
    <3>4. button' \in {"MENU", "NO"}  BY <3>1, <3>3
    <3> QED  BY <1>1, <3>3, <3>4 DEF ReadAny, ReadKeys
  <2> QED  BY <2>1, <2>2 DEF PendingSeen
<1>2. CASE Hold /\ UNCHANGED <<edge, overlapped>>
  BY <1>2 DEF Hold, PendingSeen, Pressed
<1>3. CASE CriticalAny /\ overlapped' = TRUE
  BY <1>3 DEF CriticalAny, CriticalBattery, PendingSeen
<1>4. CASE WakeAny /\ UNCHANGED overlapped
  <2>1. at = "asleep" /\ at' = "keys" /\ flags' = flags
    BY <1>4 DEF WakeAny, Wake, Reinit
  <2> QED  BY <1>4, <2>1 DEF PendingSeen
<1>5. CASE PowerCycle \/ FactoryReset
  BY <1>5 DEF PowerCycle, FactoryReset, Boot, PendingSeen
<1>6. CASE /\ Handler /\ UNCHANGED overlapped
           /\ edge' = IF \A k \in Keys : ~Pressed(k) THEN edge
                      ELSE IF screenState = LAST_SCREEN THEN MAIN_SCREEN ELSE screenState
  <2>1. TypeOK  BY DEF IInv
  <2>2. /\ at = "screen" /\ at' = "menu" /\ button' = button
        /\ screenState' = MAIN_SCREEN => screenState \in {MAIN_SCREEN, LAST_SCREEN}
        /\ screenState' = MAIN_SCREEN /\ screenState # AIRBRAKE_SCREEN
             => previousButton' = previousButton
    BY <1>6, <2>1, HandlerMoves
  <2>3. Seen'
    <3> SUFFICES ASSUME screenState' = MAIN_SCREEN, Pressed("MENU")' PROVE edge' = MAIN_SCREEN
      OBVIOUS
    <3>1. screenState \in {MAIN_SCREEN, LAST_SCREEN} /\ Pressed("MENU")
      BY <2>2 DEF Pressed
    <3> QED  BY <1>6, <3>1 DEF Keys
  <2>4. ASSUME ~overlapped', "menuAdvancePending" \in flags'
        PROVE  Kept'
    <3>1. "menuAdvancePending" \in flags
      BY <1>6, <2>4 DEF Handler, MainKeys, MainOther, MainPower, OpsMode, EngineAny, Engine,
                AirBrake, Dismiss, Ignored, Enter, ConfirmAny, Confirm, EditAny, Edit, SaveAny,
                Save, LeaveDiag, Inside, LastScreen
    <3>2. /\ edge = MAIN_SCREEN /\ screenState = MAIN_SCREEN /\ subscreenState = 0
          /\ previousButton = "MENU" /\ button \in {"MENU", "NO"}
      BY <1>6, <2>4, <3>1 DEF PendingSeen
    <3>3. MainOther
      BY <1>6, <3>2 DEF Handler, MainKeys, MainOther, MainPower, OpsMode, EngineAny, Engine,
                AirBrake, Enter, ConfirmAny, Confirm, EditAny, Edit, SaveAny,
                Save, LeaveDiag, Inside, LastScreen, Screen, ConfigScreens
    <3>4. \A k \in Keys : ~Pressed(k)  BY <3>2 DEF Pressed, Keys
    <3>5. edge' = MAIN_SCREEN  BY <1>6, <3>2, <3>4
    <3>6. UNCHANGED <<screenState, button, previousButton>> /\ subscreenState' = 0
      BY <3>2, <3>3 DEF MainOther
    <3> QED  BY <2>2, <3>2, <3>5, <3>6
  <2> QED  BY <2>3, <2>4 DEF PendingSeen
<1>7. CASE MenuKey /\ UNCHANGED <<edge, overlapped>>
  <2>1. TypeOK  BY DEF IInv
  <2>2. at = "menu" /\ at' # "menu" /\ previousButton' = button /\ button' = button
    BY <1>7 DEF MenuKey, MenuPress, MenuEnterOps, MenuReset, MenuRelease, MenuCancel, MenuNothing,
                EndOfPass
  <2>3. ASSUME ~overlapped', "menuAdvancePending" \in flags'
        PROVE  Kept'
    <3>1. CASE MenuPress
      <4>1. Defers /\ UNCHANGED <<screenState, subscreenState>>  BY <2>3, <3>1 DEF MenuPress
      <4>2. Pressed("MENU") /\ subscreenState = 0  BY <3>1 DEF MenuPress, Outside
      <4>3. screenState = MAIN_SCREEN /\ button = "MENU"  BY <4>1, <4>2 DEF Defers, Pressed
      <4>4. edge = MAIN_SCREEN  BY <2>2, <4>2, <4>3 DEF PendingSeen
      <4>5. ~powerDown  BY <2>2, <4>3 DEF IInv, PowerFits
      <4>6. at' # "asleep"  BY <3>1, <4>3, <4>5 DEF MenuPress, EndOfPass
      <4> QED  BY <1>7, <2>2, <4>1, <4>2, <4>3, <4>4, <4>6
    <3>2. CASE ~MenuPress
      <4>1. "menuAdvancePending" \in flags
        BY <1>7, <2>3, <3>2 DEF MenuKey, MenuEnterOps, EnterOps, MenuReset, MenuRelease,
                   MenuCancel, MenuNothing
      <4>2. /\ edge = MAIN_SCREEN /\ screenState = MAIN_SCREEN /\ subscreenState = 0
            /\ previousButton = "MENU" /\ button \in {"MENU", "NO"}
        BY <1>7, <2>3, <4>1 DEF PendingSeen
      <4>3. MenuNothing
        BY <1>7, <2>3, <3>2, <4>1, <4>2 DEF MenuKey, MenuEnterOps, EnterOps, MenuReset, MenuRelease,
                   MenuCancel
      <4>4. ~Returning  BY <4>2 DEF IInv, FlagsFitScreen
      <4>5. button = "MENU"
        BY <4>1, <4>2, <4>3, <4>4 DEF MenuNothing, Outside, Released
      <4>6. ~powerDown  BY <2>2, <4>5 DEF IInv, PowerFits
      <4>7. at' # "asleep" /\ UNCHANGED <<screenState, subscreenState>>
        BY <4>3, <4>5, <4>6 DEF MenuNothing, EndOfPass
      <4> QED  BY <1>7, <2>2, <4>2, <4>5, <4>7
    <3> QED  BY <3>1, <3>2
  <2> QED  BY <2>2, <2>3 DEF PendingSeen
<1>8. CASE UNCHANGED hvars  BY <1>8 DEF hvars, vars, PendingSeen, Pressed
<1> QED  BY <1>1, <1>2, <1>3, <1>4, <1>5, <1>6, <1>7, <1>8 DEF HNext

(* A deferred press that moves the menu on was made on the main screen.       *)
THEOREM AdvanceAlwaysHasPress == HSpec => AdvanceHasPress
<1>1. HInit => KeysFit /\ PendingSeen
  BY DEF HInit, Init, KeysFit, PendingSeen, Pressed
<1>2. ASSUME PendingSeen, ~overlapped, MenuRelease \/ MenuEnterOps
      PROVE  edge = MAIN_SCREEN
  BY <1>2 DEF PendingSeen, MenuRelease, MenuEnterOps
<1>3. IInv /\ KeysFit /\ PendingSeen /\ [HNext]_hvars
        => [~overlapped /\ (MenuRelease \/ MenuEnterOps) => edge = MAIN_SCREEN]_hvars
  BY <1>2
<1>4. IInv /\ KeysFit /\ PendingSeen /\ [HNext]_hvars => KeysFit' /\ PendingSeen'
  BY KeysStep, PendingStep
<1> QED  BY <1>1, <1>3, <1>4, Observed, PTL DEF HSpec, AdvanceHasPress

(* Only the main screen, LOAD CNF, SAVE CNF and the configuration screens     *)
(* have an inside; keys one at a time, a key follows no key.                  *)
InsideFits ==
  /\ subscreenState # 0 =>
       screenState \in {MAIN_SCREEN, LOAD_CONFIG_SCREEN, SAVE_CONFIG_SCREEN} \cup ConfigScreens
  /\ ~overlapped /\ at \in {"screen", "menu"} =>
       "NO" \in {button, previousButton} \/ button = previousButton

LEMMA InsideStep ==
  ASSUME IInv, KeysFit, InsideFits, [HNext]_hvars
  PROVE  InsideFits'
<1> USE DEF keyVars, ConfigScreens
<1>1. CASE /\ ReadAny
           /\ overlapped' = (overlapped \/ ("NO" \notin {button', previousButton} /\ button' # previousButton))
  <2>1. ~overlapped' => "NO" \in {button', previousButton'} \/ button' = previousButton'
    BY <1>1 DEF ReadAny, ReadKeys
  <2>2. UNCHANGED <<screenState, subscreenState>>  BY <1>1 DEF ReadAny, ReadKeys
  <2> QED  BY <2>1, <2>2 DEF InsideFits
<1>2. CASE Hold \/ WakeAny
  BY <1>2 DEF Hold, WakeAny, Wake, Reinit, InsideFits
<1>3. CASE CriticalAny /\ overlapped' = TRUE
  BY <1>3 DEF CriticalAny, CriticalBattery, Reinit, InsideFits
<1>4. CASE PowerCycle \/ FactoryReset
  BY <1>4 DEF PowerCycle, FactoryReset, Boot, InsideFits
<1>5. CASE Handler /\ UNCHANGED overlapped
  <2>1. CASE MainKeys \/ MainOther \/ MainPower \/ OpsMode \/ EngineAny
    BY <1>5, <2>1 DEF MainKeys, MainOther, MainPower, OpsMode, EngineAny, Engine, Screen, Show, Stay,
              InsideFits
  <2>2. CASE AirBrake
    BY <1>5, <2>2 DEF AirBrake, Screen, Show, Stay, Synced, InsideFits
  <2>3. CASE Enter \/ ConfirmAny \/ EditAny \/ SaveAny \/ LeaveDiag \/ Inside \/ LastScreen
    BY <1>5, <2>3 DEF Enter, ConfirmAny, Confirm, EditAny, Edit, SaveAny, Save, LeaveDiag, Inside,
              LastScreen, Screen, Show, Stay, InsideFits
  <2> QED  BY <1>5, <2>1, <2>2, <2>3 DEF Handler
<1>6. CASE MenuKey
  BY <1>6 DEF MenuKey, MenuPress, MenuEnterOps, MenuReset, MenuRelease, MenuCancel, MenuNothing,
              Advance, Outside, Show, EndOfPass, InsideFits
<1>7. CASE UNCHANGED hvars  BY <1>7 DEF hvars, vars, InsideFits
<1> QED  BY <1>1, <1>2, <1>3, <1>4, <1>5, <1>6, <1>7 DEF HNext

(* In OPS MODE nothing momentary stays on but the key that is down, and not   *)
(* that one when it opens AIRBRAKE.                                           *)
LEMMA OpsLetsGo ==
  ASSUME IInv, OpsMode
  PROVE  /\ button = "NO" \/ screenState' = AIRBRAKE_SCREEN => Free(Keys)'
         /\ "airbrakeReturnToOps" \in flags' => screenState' = AIRBRAKE_SCREEN
         /\ screenState' \in {OPS_MODE_SCREEN, AIRBRAKE_SCREEN} \/ button = "MENU"
<1> USE DEF Show, Stay, setVars
<1>1. Momentary' = Momentary  BY DEF OpsMode, Momentary, Latching
<1>2. optionButtonState' = OpsHeld \ OpsOpened  BY DEF OpsMode
<1>3. OpsHeld \cap Momentary \subseteq {button}  BY DEF OpsHeld
<1>4. "NO" \notin Momentary  BY DEF Momentary, Keys
<1>5. screenState = OPS_MODE_SCREEN  BY DEF OpsMode, Screen
<1>6. screenState' = AIRBRAKE_SCREEN => OpsTap \/ OpsOpened # {}
  BY <1>5 DEF OpsMode
<1>7. OpsTap => button = "NO"  BY DEF OpsTap, Released
<1>8. OpsOpened # {} => button \in OpsOpened
  <2> SUFFICES ASSUME NEW k \in OpsOpened PROVE button \in OpsOpened
    OBVIOUS
  <2>1. k \in OpsHeld /\ Opens(k)  BY DEF OpsOpened
  <2>2. OpsHeld \subseteq Keys
    <3>1. optionButtonState \in SUBSET Keys /\ TypeOK /\ button \in Buttons
      BY DEF IInv, TypeOK
    <3>2. button \in Keys => PressFn(button, optionButtonState) \subseteq Keys
      BY <3>1, PressFits
    <3>3. OpsOn \subseteq Keys
      BY <3>1, <3>2 DEF OpsOn, OpsFresh, Pressed
    <3> QED  BY <3>3 DEF OpsHeld, OpsUndone, Keys
  <2>3. k \in Momentary  BY <2>1, <2>2 DEF Opens, Momentary, Latching
  <2> QED  BY <1>3, <2>1, <2>3
<1>9. button = "NO" \/ screenState' = AIRBRAKE_SCREEN => Free(Keys)'
  <2>1. ASSUME button = "NO" \/ button \in OpsOpened PROVE optionButtonState' \cap Momentary = {}
    BY <1>2, <1>3, <1>4, <2>1
  <2> QED  BY <1>1, <1>6, <1>7, <1>8, <2>1 DEF Free
<1>10. "airbrakeReturnToOps" \in flags' => screenState' = AIRBRAKE_SCREEN
  <2>1. "airbrakeReturnToOps" \notin flags
    BY <1>5 DEF IInv, FlagsFitScreen, Returning
  <2> QED  BY <2>1 DEF OpsMode
<1>11. screenState' \in {OPS_MODE_SCREEN, AIRBRAKE_SCREEN} \/ button = "MENU"
  BY <1>5 DEF OpsMode, OpsExit
<1> QED  BY <1>9, <1>10, <1>11

LEMMA FreeStep ==
  ASSUME IInv, KeysFit, InsideFits, PendingSeen, FreeFits, [HNext]_hvars
  PROVE  FreeFits'
<1> DEFINE Keep == UNCHANGED <<optionButtonState, settings>>
<1>1. Keep => (Free({"UP", "DOWN"})' = Free({"UP", "DOWN"})) /\ (Free(Keys)' = Free(Keys))
  BY DEF Free, Momentary, Latching
<1>2. screenState # AIRBRAKE_SCREEN => "airbrakeReturnToOps" \notin flags
  BY DEF IInv, FlagsFitScreen, Returning
<1>3. TypeOK  BY DEF IInv
<1>4. ASSUME Keep, ~overlapped' => ~overlapped /\ (UpDownFree' => UpDownFree) /\ (AllFree' => AllFree)
      PROVE  FreeFits'
  BY <1>1, <1>4 DEF FreeFits
<1>5. CASE ReadAny /\ (~overlapped' => ~overlapped)
  <2>1. Keep  BY <1>5 DEF ReadAny, ReadKeys, fnVars, setVars
  <2>2. (UpDownFree' => UpDownFree) /\ (AllFree' => AllFree)
    BY <1>5 DEF ReadAny, ReadKeys, UpDownFree, AllFree, KeysFit
  <2> QED  BY <1>4, <1>5, <2>1, <2>2
<1>6. CASE Hold /\ UNCHANGED overlapped
  <2>1. Keep  BY <1>6 DEF Hold, fnVars, setVars
  <2>2. (UpDownFree' => UpDownFree) /\ (AllFree' => AllFree)
    BY <1>6 DEF Hold, UpDownFree, AllFree
  <2> QED  BY <1>4, <1>6, <2>1, <2>2
<1>7. CASE CriticalAny /\ overlapped' = TRUE
  BY <1>7 DEF FreeFits
<1>8. CASE WakeAny /\ UNCHANGED overlapped
  <2>1. Keep  BY <1>8 DEF WakeAny, Wake, Reinit, fnVars, setVars
  <2>2. (UpDownFree' => UpDownFree) /\ (AllFree' => AllFree)
    BY <1>8 DEF WakeAny, Wake, Reinit, UpDownFree, AllFree
  <2> QED  BY <1>4, <1>8, <2>1, <2>2
<1>9. CASE PowerCycle \/ FactoryReset
  <2>1. optionButtonState' = {}  BY <1>9 DEF PowerCycle, FactoryReset, Boot
  <2> QED  BY <2>1 DEF FreeFits, Free
<1>10. CASE Handler /\ UNCHANGED overlapped
  <2> USE DEF Screen, Show, Stay, fnVars, setVars
  <2>1. CASE MainKeys
    <3>1. ~UpDownFree'  \/ overlapped
      BY <2>1 DEF MainKeys, UpDownFree, PendingSeen, Before, keyVars
    <3>2. ~AllFree'  BY <1>2, <2>1 DEF MainKeys, AllFree
    <3> QED  BY <1>10, <3>1, <3>2 DEF FreeFits
  <2>2. CASE MainOther
    <3>1. Free({"UP", "DOWN"})'  BY <2>2 DEF MainOther, Free, Momentary, Latching
    <3>2. ~AllFree'  BY <1>2, <2>2 DEF MainOther, AllFree
    <3> QED  BY <3>1, <3>2 DEF FreeFits
  <2>3. CASE MainPower
    <3>1. Keep /\ UpDownFree  BY <2>3 DEF MainPower, UpDownFree
    <3>2. ~AllFree'  BY <1>2, <2>3 DEF MainPower, AllFree, Before
    <3> QED  BY <1>4, <1>10, <3>1, <3>2
  <2>4. CASE OpsMode
    <3>1. ~UpDownFree'  BY <2>4, OpsLetsGo DEF UpDownFree, OpsMode
    <3>2. AllFree' => Free(Keys)'
      <4>1. button' = button  BY <2>4 DEF OpsMode
      <4> QED  BY <2>4, <4>1, OpsLetsGo DEF AllFree
    <3> QED  BY <3>1, <3>2 DEF FreeFits
  <2>5. CASE EngineAny
    <3>1. Keep /\ UpDownFree  BY <2>5 DEF EngineAny, Engine, UpDownFree
    <3>2. ~AllFree'  BY <1>2, <2>5 DEF EngineAny, Engine, AllFree
    <3> QED  BY <1>4, <1>10, <3>1, <3>2
  <2>6. CASE AirBrake
    <3>1. Keep  BY <2>6 DEF AirBrake
    <3>2. ~UpDownFree' /\ (AllFree' => AllFree)
      BY <2>6 DEF AirBrake, UpDownFree, AllFree, Dismiss, Ignored, Pressed
    <3> QED  BY <1>4, <1>10, <3>1, <3>2
  <2>7. CASE Enter \/ ConfirmAny \/ EditAny \/ SaveAny \/ LeaveDiag \/ Inside
    <3>1. ~UpDownFree'
      BY <2>7 DEF Enter, ConfirmAny, Confirm, EditAny, Edit, SaveAny, Save, LeaveDiag, Inside,
                UpDownFree, Before, ConfigScreens, Pressed, keyVars
    <3>2. ~AllFree'
      BY <1>2, <2>7 DEF Enter, ConfirmAny, Confirm, EditAny, Edit, SaveAny, Save, LeaveDiag, Inside,
                AllFree, Before, ConfigScreens
    <3> QED  BY <3>1, <3>2 DEF FreeFits
  <2>8. CASE LastScreen
    <3>1. Keep  BY <2>8 DEF LastScreen
    <3>2. subscreenState = 0  BY <2>8 DEF LastScreen, InsideFits, ConfigScreens
    <3>3. ~overlapped => (UpDownFree' => UpDownFree)
      BY <2>8, <3>2 DEF LastScreen, UpDownFree, PendingSeen, keyVars
    <3>4. ~AllFree'  BY <1>2, <2>8 DEF LastScreen, AllFree
    <3> QED  BY <1>4, <1>10, <3>1, <3>3, <3>4
  <2> QED
    BY <1>10, <2>1, <2>2, <2>3, <2>4, <2>5, <2>6, <2>7, <2>8 DEF Handler
<1>11. CASE MenuKey /\ UNCHANGED overlapped
  <2>1. optionButtonState' = optionButtonState /\ button' = button /\ at' \in {"keys", "asleep"} /\ at = "menu"
    BY <1>11 DEF MenuKey, MenuPress, MenuEnterOps, MenuReset, MenuRelease, MenuCancel, MenuNothing,
                 EndOfPass, fnVars
  <2>2. "airbrakeReturnToOps" \in flags' => "airbrakeReturnToOps" \in flags
    BY <1>11 DEF MenuKey, MenuPress, MenuEnterOps, EnterOps, MenuReset, MenuRelease, MenuCancel, MenuNothing
  <2>3. CASE MenuCancel
    <3>1. ~UpDownFree'  BY <2>1, <2>3 DEF MenuCancel, Show, UpDownFree
    <3>2. ~AllFree'  BY <2>2, <2>3 DEF MenuCancel, Show, Returning, AllFree
    <3> QED  BY <3>1, <3>2 DEF FreeFits
  <2>4. CASE MenuNothing
    <3>1. Keep  BY <2>4 DEF MenuNothing, EndOfPass, fnVars
    <3>2. (UpDownFree' => UpDownFree) /\ (AllFree' => AllFree)
      BY <2>1, <2>4 DEF MenuNothing, UpDownFree, AllFree
    <3> QED  BY <1>4, <1>11, <3>1, <3>2
  <2>5. CASE MenuEnterOps \/ MenuReset
    <3>1. ~UpDownFree'  BY <2>1, <2>5 DEF MenuEnterOps, MenuReset, Show, UpDownFree
    <3>2. ~AllFree'
      BY <2>1, <2>2, <2>5 DEF MenuEnterOps, MenuReset, Outside, Show, Returning, AllFree
    <3> QED  BY <3>1, <3>2 DEF FreeFits
  <2>6. CASE MenuPress \/ MenuRelease
    <3>1. Keep  BY <2>6 DEF MenuPress, MenuRelease, Advance, EndOfPass, fnVars
    <3>2. screenState \in (0 .. 17) \cup {255} /\ screenState # OPS_MODE_SCREEN /\ subscreenState = 0
          /\ subscreenState' = 0
      <4>1. screenState \in Screens /\ screenState # LAST_SCREEN
        BY <2>6 DEF MenuPress, MenuRelease, IInv, TypeOK, NeverPastLast, Pressed, Released
      <4> QED  BY <2>6, <4>1 DEF Screens, MenuPress, MenuRelease, Outside, Advance
    <3>3. screenState' = Landing(screenState) \/ (MenuPress /\ screenState' = screenState /\ screenState = MAIN_SCREEN)
      BY <2>6 DEF MenuPress, MenuRelease, Advance, Defers
    <3>4. Landing(screenState) \in After(screenState) .. 18 /\ ~Skips(Landing(screenState))
      BY <1>3, <3>2, LandingIsNext
    <3>5. Landing(screenState) # OPS_MODE_SCREEN /\ Landing(screenState) \in 0 .. 18
          /\ (Landing(screenState) = ENGINE_SCREEN => screenState \in {MAIN_SCREEN, 255})
      BY <3>2, <3>4 DEF Skips, After
    <3>6. ~AllFree'
      BY <1>3, <2>1, <2>2, <2>6, <3>3, <3>5 DEF AllFree, MenuPress, MenuRelease, Outside, Returning
    <3>7. ~overlapped => (UpDownFree' => UpDownFree)
      <4> SUFFICES ASSUME ~overlapped, UpDownFree' PROVE UpDownFree
        OBVIOUS
      <4>1. CASE MenuPress
        <5>1. button = "MENU" /\ previousButton # "MENU"  BY <4>1 DEF MenuPress, Pressed
        <5>2. previousButton = "NO"  BY <2>1, <5>1 DEF InsideFits
        <5>3. screenState' = ENGINE_SCREEN
          BY <2>1, <3>2, <3>3, <3>5, <5>1 DEF UpDownFree
        <5> QED  BY <2>1, <3>3, <3>5, <5>1, <5>2, <5>3 DEF UpDownFree
      <4>2. CASE MenuRelease
        <5>1. "menuAdvancePending" \in flags  BY <4>2 DEF MenuRelease
        <5>2. screenState = MAIN_SCREEN  BY <5>1 DEF PendingSeen
        <5> QED  BY <2>1, <5>1, <5>2 DEF UpDownFree
      <4> QED  BY <2>6, <4>1, <4>2
    <3> QED  BY <1>4, <1>11, <3>1, <3>6, <3>7
  <2> QED  BY <1>11, <2>3, <2>4, <2>5, <2>6 DEF MenuKey
<1>12. CASE UNCHANGED hvars
  <2>1. Keep /\ UNCHANGED overlapped /\ (UpDownFree' => UpDownFree) /\ (AllFree' => AllFree)
    BY <1>12 DEF hvars, vars, UpDownFree, AllFree
  <2> QED  BY <1>4, <2>1
<1>13. HNext => \/ ReadAny /\ (~overlapped' => ~overlapped)
                \/ Hold /\ UNCHANGED overlapped
                \/ CriticalAny /\ overlapped' = TRUE
                \/ WakeAny /\ UNCHANGED overlapped
                \/ PowerCycle \/ FactoryReset
                \/ Handler /\ UNCHANGED overlapped
                \/ MenuKey /\ UNCHANGED overlapped
  BY Zenon DEF HNext
<1> QED  BY <1>5, <1>6, <1>7, <1>8, <1>9, <1>10, <1>11, <1>12, <1>13

(* Keys one at a time, none loosened: a momentary function that is on is that *)
(* of the key last seen down, and only on a screen that lets go of it.        *)
HeldFits ==
  ~overlapped /\ ~relatched =>
    /\ On # {} => \/ screenState = MAIN_SCREEN /\ subscreenState = 0 /\ On \subseteq {"UP", "DOWN"}
                  \/ screenState = OPS_MODE_SCREEN
    /\ "opsMenuIgnoreUntilRelease" \in flags => "MENU" \notin On
    /\ On \subseteq {IF at = "screen" THEN previousButton ELSE button}
    /\ at = "asleep" => On = {}

(* A press of UP or DOWN on the main screen, which may open AIRBRAKE.         *)
LEMMA MainKeysHold ==
  ASSUME IInv, InsideFits, MainKeys, ~overlapped,
         On # {} => On \subseteq {previousButton}
  PROVE  /\ On' \subseteq {button} \cap {"UP", "DOWN"}
         /\ screenState' # MAIN_SCREEN => On' = {}
         /\ screenState' = MAIN_SCREEN => subscreenState' = 0
<1> USE DEF Screen, Show, Stay, setVars
<1>1. Momentary' = Momentary  BY DEF MainKeys, Momentary, Latching
<1>2. at = "screen" /\ button \in {"UP", "DOWN"} /\ screenState = MAIN_SCREEN /\ subscreenState = 0
  BY DEF MainKeys
<1>3. "NO" = previousButton \/ button = previousButton  BY <1>2 DEF InsideFits
<1>4. On \subseteq {button}
  <2>1. "NO" \notin On  BY DEF On, Momentary, Keys
  <2> QED  BY <1>3, <2>1
<1> DEFINE on == IF Pressed(button) THEN PressFn(button, optionButtonState) ELSE optionButtonState
           opened == {k \in on \cap {"UP", "DOWN"} : Opens(k)}
<1>5. on \cap Momentary \subseteq {button}
  <2>1. \A k \in on : k \in optionButtonState \/ k = button  BY DEF PressFn
  <2> QED  BY <1>4, <2>1 DEF On
<1>6. opened \subseteq Momentary  BY DEF Opens, Momentary, Latching, Keys
<1>7. optionButtonState' = on \ opened  BY DEF MainKeys
<1>8. screenState' # MAIN_SCREEN => opened # {}  BY <1>2 DEF MainKeys
<1>9. screenState' = MAIN_SCREEN => subscreenState' = 0  BY <1>2 DEF MainKeys
<1>10. On' = (on \cap Momentary) \ opened  BY <1>1, <1>7 DEF On
<1>11. opened \subseteq on \cap Momentary  BY <1>6
<1> HIDE DEF on, opened
<1> QED  BY <1>2, <1>5, <1>8, <1>9, <1>10, <1>11

(* OPS MODE lets go of what is not down, and of MENU when that is the exit.   *)
LEMMA OpsHold ==
  ASSUME IInv, OpsMode, "opsMenuIgnoreUntilRelease" \in flags => "MENU" \notin On
  PROVE  /\ On' \subseteq {button}
         /\ screenState' # OPS_MODE_SCREEN => On' = {}
         /\ "opsMenuIgnoreUntilRelease" \in flags' => "MENU" \notin On'
<1> USE DEF Show, Stay, setVars
<1>1. Momentary' = Momentary  BY DEF OpsMode, Momentary, Latching
<1>2. optionButtonState' = OpsHeld \ OpsOpened  BY DEF OpsMode
<1>3. On' \subseteq {button}  BY <1>1, <1>2 DEF On, OpsHeld
<1>4. screenState = OPS_MODE_SCREEN  BY DEF OpsMode, Screen
<1>5. screenState' = AIRBRAKE_SCREEN => On' = {}  BY OpsLetsGo DEF Free, On, Keys, Momentary
<1>6. screenState' \in {OPS_MODE_SCREEN, AIRBRAKE_SCREEN} \/ OpsExit  BY <1>4 DEF OpsMode
<1>7. MenuIgnored /\ button = "MENU" => "MENU" \notin On'
  <2> SUFFICES ASSUME MenuIgnored, button = "MENU" PROVE "MENU" \notin On'
    OBVIOUS
  <2>1. OpsFresh = {}  BY DEF OpsFresh, Pressed
  <2>2. OpsUndone = optionButtonState  BY <2>1 DEF OpsUndone, OpsOn
  <2>3. "MENU" \notin On  BY DEF MenuIgnored
  <2> QED  BY <1>1, <1>2, <2>2, <2>3 DEF On, OpsHeld
<1>8. OpsExit => "MENU" \notin On' /\ button = "MENU"
  <2> SUFFICES ASSUME OpsExit, ~MenuIgnored, "MENU" \in Momentary PROVE "MENU" \notin On'
    BY <1>1, <1>7 DEF OpsExit, On
  <2>1. ~Latching("MENU")  BY DEF Momentary
  <2>2. "MENU" \notin OpsUndone  BY <2>1 DEF OpsUndone
  <2> QED  BY <1>2, <2>2 DEF On, OpsHeld
<1>9. screenState' # OPS_MODE_SCREEN => On' = {}  BY <1>3, <1>5, <1>6, <1>8
<1>10. "opsMenuIgnoreUntilRelease" \in flags' => MenuIgnored /\ button = "MENU"
  BY DEF OpsMode, MenuIgnored, Ignored
<1> QED  BY <1>3, <1>7, <1>9, <1>10

(* Every step lets a momentary function stay on only with its key down.       *)
LEMMA HeldStep ==
  ASSUME IInv, KeysFit, InsideFits, HeldFits, [HNext]_hvars
  PROVE  HeldFits'
<1> DEFINE Keep == UNCHANGED <<optionButtonState, settings>>
<1>1. Keep => On' = On  BY DEF On, Momentary, Latching
<1>2. TypeOK  BY DEF IInv
<1>3. "NO" \notin On /\ ("NO" \notin On)'  BY DEF On, Momentary, Keys
<1>4. CASE UNCHANGED hvars
  <2>1. Keep  BY <1>4 DEF hvars, vars
  <2>2. On' = On  BY <1>1, <2>1
  <2> QED  BY <1>4, <2>2 DEF hvars, vars, HeldFits
<1>5. CASE HNext
  <2>1. relatched' = (On' # {} /\ (relatched \/ Loosens))  BY <1>5 DEF HNext
  <2>2. On' = {} => HeldFits'  BY DEF HeldFits
  <2>3. ASSUME UNCHANGED optionButtonState, ~Loosens PROVE On' \subseteq On
    BY <1>2, <2>3 DEF Loosens, On, Momentary, TypeOK
  <2> SUFFICES ASSUME On' # {}, ~overlapped', ~relatched' PROVE HeldFits'
    BY <2>2 DEF HeldFits
  <2>4. ~relatched /\ ~Loosens  BY <2>1
  <2> DEFINE Held == /\ On # {} => \/ /\ screenState = MAIN_SCREEN /\ subscreenState = 0
                                      /\ On \subseteq {"UP", "DOWN"}
                                   \/ screenState = OPS_MODE_SCREEN
                     /\ "opsMenuIgnoreUntilRelease" \in flags => "MENU" \notin On
                     /\ On \subseteq {IF at = "screen" THEN previousButton ELSE button}
                     /\ at = "asleep" => On = {}
  <2>5. ~overlapped => Held  BY <2>4 DEF HeldFits
  <2>6. CASE ReadAny /\ (~overlapped' => ~overlapped)
    <3>1. Keep /\ UNCHANGED <<screenState, subscreenState, flags, previousButton>>
          /\ at = "keys" /\ at' = "screen"
      BY <2>6 DEF ReadAny, ReadKeys, fnVars, setVars
    <3>2. On' = On /\ button = previousButton  BY <1>1, <3>1 DEF KeysFit
    <3> QED  BY <2>5, <2>6, <3>1, <3>2 DEF HeldFits
  <2>7. CASE Hold /\ UNCHANGED overlapped
    <3>1. Keep /\ UNCHANGED <<screenState, subscreenState, flags, previousButton, button, at>>
      BY <2>7 DEF Hold, fnVars, setVars
    <3>2. On' = On  BY <1>1, <3>1
    <3> QED  BY <2>5, <2>7, <3>1, <3>2 DEF HeldFits
  <2>8. CASE WakeAny /\ UNCHANGED overlapped
    <3>1. Keep /\ at = "asleep"  BY <2>8 DEF WakeAny, Wake, Reinit, fnVars, setVars
    <3> QED  BY <1>1, <2>5, <2>8, <3>1
  <2>9. CASE PowerCycle \/ FactoryReset
    <3>1. optionButtonState' = {}  BY <2>9 DEF PowerCycle, FactoryReset, Boot
    <3> QED  BY <3>1 DEF On
  <2>10. CASE Handler /\ UNCHANGED overlapped
    <3> USE DEF Screen, Show, Stay, fnVars, setVars
    <3>1. Held /\ at = "screen" /\ at' = "menu" /\ button' = button
      BY <1>2, <2>5, <2>10, HandlerMoves
    <3>2. CASE MainKeys
      <4>1. /\ On' \subseteq {button} \cap {"UP", "DOWN"}
            /\ screenState' = MAIN_SCREEN /\ subscreenState' = 0
        BY <2>10, <3>1, <3>2, MainKeysHold
      <4>2. "opsMenuIgnoreUntilRelease" \in flags' => screenState = OPS_MODE_SCREEN
        BY <3>2 DEF MainKeys, IInv, FlagsFitScreen
      <4> QED  BY <3>1, <3>2, <4>1, <4>2 DEF HeldFits, MainKeys
    <3>3. CASE MainOther
      <4>1. On' \subseteq On \ {"UP", "DOWN"} /\ screenState = MAIN_SCREEN
        BY <3>3 DEF MainOther, On, Momentary, Latching
      <4> QED  BY <3>1, <4>1
    <3>4. CASE OpsMode
      <4>1. screenState' = OPS_MODE_SCREEN /\ On' \subseteq {button}
            /\ ("opsMenuIgnoreUntilRelease" \in flags' => "MENU" \notin On')
        BY <3>1, <3>4, OpsHold
      <4> QED  BY <3>1, <4>1 DEF HeldFits
    <3>5. CASE MainPower \/ EngineAny \/ AirBrake \/ Enter \/ ConfirmAny \/ EditAny \/ SaveAny
                 \/ LeaveDiag \/ Inside \/ LastScreen
      <4>1. UNCHANGED optionButtonState
        BY <3>5 DEF MainPower, EngineAny, Engine, AirBrake, Enter, ConfirmAny, Confirm, EditAny, Edit,
                    SaveAny, Save, LeaveDiag, Inside, LastScreen
      <4>2. screenState # OPS_MODE_SCREEN /\ (screenState = MAIN_SCREEN => subscreenState # 0)
        BY <3>5 DEF MainPower, EngineAny, Engine, AirBrake, Enter, ConfirmAny, Confirm, EditAny, Edit,
                    SaveAny, Save, LeaveDiag, Inside, LastScreen, ConfigScreens
      <4> QED  BY <2>3, <2>4, <3>1, <4>1, <4>2
    <3> QED  BY <2>10, <3>2, <3>3, <3>4, <3>5 DEF Handler
  <2>11. CASE MenuKey /\ UNCHANGED overlapped
    <3>1. /\ optionButtonState' = optionButtonState /\ button' = button /\ at = "menu"
          /\ at' \in {"keys", "asleep"} /\ (at' = "asleep" => button = "NO" \/ powerDown)
      BY <2>11 DEF MenuKey, MenuPress, MenuEnterOps, MenuReset, MenuRelease, MenuCancel, MenuNothing,
                   EndOfPass, fnVars
    <3>2. On' \subseteq On  BY <2>3, <2>4, <3>1
    <3>3. Held /\ On # {}  BY <2>5, <2>11, <3>2
    <3>4. On = {button} /\ button # "NO"  BY <1>3, <3>1, <3>3
    <3>5. at' # "asleep"  BY <3>1, <3>4 DEF IInv, PowerFits
    <3>6. CASE MenuCancel
      BY <3>3, <3>6 DEF MenuCancel
    <3>7. CASE MenuNothing
      <4>1. UNCHANGED <<screenState, subscreenState, flags>>  BY <3>7 DEF MenuNothing
      <4> QED  BY <3>1, <3>2, <3>3, <3>5, <4>1 DEF HeldFits
    <3>8. CASE MenuPress \/ MenuEnterOps \/ MenuReset
      <4>1. button = "MENU" /\ screenState # OPS_MODE_SCREEN
        BY <3>8 DEF MenuPress, MenuEnterOps, MenuReset, Outside, Pressed
      <4> QED  BY <3>3, <3>4, <4>1
    <3>9. CASE MenuRelease
      BY <3>4, <3>9 DEF MenuRelease, Released
    <3> QED  BY <2>11, <3>6, <3>7, <3>8, <3>9 DEF MenuKey
  <2>12. HNext => \/ ReadAny /\ (~overlapped' => ~overlapped)
                  \/ Hold /\ UNCHANGED overlapped
                  \/ CriticalAny /\ overlapped' = TRUE
                  \/ WakeAny /\ UNCHANGED overlapped
                  \/ PowerCycle \/ FactoryReset
                  \/ Handler /\ UNCHANGED overlapped
                  \/ MenuKey /\ UNCHANGED overlapped
    BY Zenon DEF HNext
  <2> QED  BY <1>5, <2>6, <2>7, <2>8, <2>9, <2>10, <2>11, <2>12
<1> QED  BY <1>4, <1>5

(* A momentary function is on only while its key is down, on every screen,    *)
(* unless a key latched on was given it; OPS MODE and ENGINE let go of that   *)
(* one too.                                                                   *)
THEOREM MomentaryAlwaysReleased == HSpec => []MomentaryReleased
<1> DEFINE J == KeysFit /\ InsideFits /\ PendingSeen /\ FreeFits /\ HeldFits
<1>1. HInit => J
  BY DEF HInit, Init, KeysFit, InsideFits, PendingSeen, Pressed, FreeFits, Free, HeldFits, On
<1>2. IInv /\ J /\ [HNext]_hvars => J'
  BY KeysStep, InsideStep, PendingStep, FreeStep, HeldStep
<1>3. J => MomentaryReleased
  <2> SUFFICES ASSUME J, at = "keys", ~overlapped
               PROVE  /\ ~relatched => On \subseteq {button}
                      /\ button = "NO" =>
                           /\ screenState = ENGINE_SCREEN => On \cap {"UP", "DOWN"} = {}
                           /\ screenState = OPS_MODE_SCREEN \/ "airbrakeReturnToOps" \in flags
                                => On \cap Keys = {}
    BY DEF MomentaryReleased
  <2>1. ~relatched => On \subseteq {button}  BY DEF HeldFits
  <2>2. ASSUME button = "NO"
        PROVE  /\ screenState = ENGINE_SCREEN => Free({"UP", "DOWN"})
               /\ screenState = OPS_MODE_SCREEN \/ "airbrakeReturnToOps" \in flags => Free(Keys)
    BY <2>2 DEF FreeFits, UpDownFree, AllFree
  <2> QED  BY <2>1, <2>2 DEF Free, On
<1> HIDE DEF J
<1> QED  BY <1>1, <1>2, <1>3, Observed, PTL DEF HSpec
=============================================================================
