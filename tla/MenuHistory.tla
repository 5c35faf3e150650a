---------------------------- MODULE MenuHistory -----------------------------
(***************************************************************************)
(* The menus with what an observer remembers of the past: on which screen  *)
(* the key now down was pressed, and whether presses overlapped.           *)
(***************************************************************************)
EXTENDS MenuNav

VARIABLES
  edge,          \* the screen whose handler saw the latest press; NONE after a
                 \* sleep or a critical battery, which swallow it
  overlapped,    \* since power-up a key was pressed before the last was let go, or
                 \* a critical battery hid what the keys did
  relatched,     \* since no momentary function was last on, a key latched on was
                 \* given one
  agreed,        \* the system bits the user last agreed to
  arrived        \* agreed, when MENU last came to SYSTEM

hvars == <<vars, edge, overlapped, relatched, agreed, arrived>>
NONE == 256

(* The system bits are agreed to by SELECT on SYSTEM, and a cancelled visit   *)
(* goes back to what was agreed when it began.                                *)
InsideSystem == screenState = SYSTEM_SCREEN /\ subscreenState # 0
AgreesBySelect ==
  /\ agreed' = IF InsideSystem /\ Pressed("SELECT") THEN settings.system ELSE agreed
  /\ UNCHANGED arrived
AgreesByMenu ==
  /\ agreed' = IF InsideSystem /\ screenState' = LAST_SCREEN THEN arrived ELSE agreed
  /\ arrived' = IF screenState # SYSTEM_SCREEN /\ screenState' = SYSTEM_SCREEN THEN agreed ELSE arrived
On == optionButtonState \cap Momentary
Loosens == \E k \in optionButtonState : Latching(k) /\ ~Latching(k)'

HInit ==
  /\ Init
  /\ edge = NONE /\ overlapped = FALSE /\ relatched = FALSE
  /\ agreed = {} /\ arrived = {}
HNext ==
  /\ \/ /\ ReadAny
        /\ overlapped' = (overlapped \/ ("NO" \notin {button', previousButton} /\ button' # previousButton))
        /\ UNCHANGED <<edge, agreed, arrived>>
     \/ /\ Hold
        /\ UNCHANGED <<edge, overlapped, agreed, arrived>>
     \/ /\ MenuKey
        /\ AgreesByMenu
        /\ UNCHANGED <<edge, overlapped>>
     \/ /\ Handler
        /\ edge' = IF \A k \in Keys : ~Pressed(k) THEN edge
                   ELSE IF screenState = LAST_SCREEN THEN MAIN_SCREEN ELSE screenState
        /\ AgreesBySelect
        /\ UNCHANGED overlapped
     \/ CriticalAny /\ edge' = NONE /\ overlapped' = TRUE /\ UNCHANGED <<agreed, arrived>>
     \/ WakeAny /\ edge' = NONE /\ UNCHANGED <<overlapped, agreed, arrived>>
     \/ /\ PowerCycle \/ FactoryReset
        /\ edge' = NONE /\ overlapped' = FALSE /\ agreed' = {} /\ arrived' = {}
  /\ relatched' = (On' # {} /\ (relatched \/ Loosens))
HSpec == HInit /\ [][HNext]_hvars

HTypeOK ==
  /\ TypeOK
  /\ edge \in Screens \cup {NONE} /\ overlapped \in BOOLEAN /\ relatched \in BOOLEAN
  /\ agreed \subseteq {"MENU_LOCK", "ADV_FUNC"} /\ arrived \subseteq {"MENU_LOCK", "ADV_FUNC"}

-----------------------------------------------------------------------------
(* Nothing edited survives outside the screen that edits it, whichever way    *)
(* the screen was left: what is live is what EEPROM holds, and the system     *)
(* bits, which it does not hold, are those last agreed to.                    *)
NothingUncommittedOutside ==
  subscreenState = 0 => Eeprom(settings) = saved /\ settings.system = agreed

(* MENU goes to the first screen further on that is not skipped and, under    *)
(* MENU LOCK, not locked, however many in a row are.                          *)
Shown(s) == ~Skips(s) /\ ("MENU_LOCK" \in settings.system => s \in Unlocked)
NextShown(s) == CHOOSE t \in After(s) .. LAST_SCREEN :
                  Shown(t) /\ \A u \in After(s) .. (t - 1) : ~Shown(u)
LandsOnNextShown ==
  [][MenuPress \/ MenuRelease =>
       \/ screenState' = NextShown(screenState)
       \/ screenState = MAIN_SCREEN /\ screenState' = MAIN_SCREEN /\ settings.opsMode]_hvars

(* The hold that entered OPS MODE never leaves it.                            *)
EntryHoldStays ==
  [][screenState = OPS_MODE_SCREEN /\ screenState' = LAST_SCREEN => edge' # MAIN_SCREEN]_hvars

(* Keys pressed one at a time: a deferred MENU press ends, as an advance or   *)
(* in OPS MODE, only when it was made on the main screen, which LAST_SCREEN   *)
(* becomes within the pass.  Were it to end otherwise, a press meant for      *)
(* another screen would also move the menu on.                                *)
AdvanceHasPress ==
  [][~overlapped /\ (MenuRelease \/ MenuEnterOps) => edge = MAIN_SCREEN]_hvars

(* Keys pressed one at a time: a momentary function is on only while its key  *)
(* is down, whatever the screen, unless a key latched on was given such a     *)
(* function.  One that is on for that reason is let go too: all four in OPS   *)
(* MODE, and in AIRBRAKE opened from there, UP and DOWN by the time MENU has  *)
(* left the main screen for ENGINE.                                           *)
MomentaryReleased ==
  at = "keys" /\ ~overlapped =>
    /\ ~relatched => On \subseteq {button}
    /\ button = "NO" =>
         On \cap (CASE screenState = ENGINE_SCREEN -> {"UP", "DOWN"}
                    [] screenState = OPS_MODE_SCREEN \/ "airbrakeReturnToOps" \in flags -> Keys
                    [] OTHER -> {}) = {}

-----------------------------------------------------------------------------
(* What the code's comments say, and is not so.                              *)

(* Escaping the power-down screen comes back to the main screen.             *)
NoBlankScreen == at = "keys" => screenState # 255
=============================================================================
