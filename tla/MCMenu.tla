------------------------------- MODULE MCMenu -------------------------------
(* Instances of the menus small enough to check. *)
EXTENDS MenuHistory

Fns(m, s, u, d) == [k \in Keys |-> CASE k = "MENU" -> m [] k = "SELECT" -> s
                                      [] k = "UP" -> u [] OTHER -> d]
Plain == [opsMode |-> TRUE, airbrake |-> TRUE, speed |-> TRUE, hidden |-> {},
          calibrated |-> TRUE, fn |-> Fns("LATCHING", "AIRBRAKE", "AIRBRAKE", "MOMENTARY"),
          system |-> {}]

(* Two profiles: everything shown, or no OPS MODE, AIRBRAKE and SPEED, the    *)
(* menu locked and everything hidden that may be.  A key that latches in one  *)
(* is momentary in the other, so that it can be edited while it is on.        *)
Busy == [Plain EXCEPT !.fn = Fns("AIRBRAKE", "LOAD", "AIRBRAKE", "LATCHING")]
Locked == [Busy EXCEPT !.opsMode = FALSE, !.airbrake = FALSE, !.speed = FALSE,
                       !.hidden = Hideable, !.system = {"MENU_LOCK"},
                       !.fn["SELECT"] = "MOMENTARY", !.fn["DOWN"] = "MOMENTARY"]

MenuSettings == {Busy, Locked}

(* One profile, keys that do nothing but latch on MENU. *)
OneSetting == {[Plain EXCEPT !.fn = Fns("LATCHING", "MOMENTARY", "AIRBRAKE", "MOMENTARY")]}
=============================================================================
