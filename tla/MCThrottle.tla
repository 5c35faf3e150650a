------------------------------ MODULE MCThrottle ------------------------------
(* Small instance of ThrottleHistory. *)
EXTENDS ThrottleHistory

MCFn == [role \in Roles |->
           CASE role = "BRAKE_FN" -> 1 [] role = "ALERTER_FN" -> 2
             [] role = "EMERGENCY_FN" -> 3 [] role = "COMPRESSOR_FN" -> 4
             [] role = "AUX_FN" -> 5 [] role = "THR_UNLOCK_FN" -> 6
             [] OTHER -> FN_OFF]

Make(lock, strict, slam, comp, alert, on, off) ==
    [reverserLock |-> lock, strictSleep |-> strict, estopOnBrake |-> slam,
     reverserSwap |-> FALSE, airbrake |-> comp, alerter |-> alert,
     forceOn |-> on, forceOff |-> off]

\* Driving: locked reverser, strict sleep, brake emergencies and the alerter.
Driving == Make(TRUE, TRUE, TRUE, FALSE, 3, {}, {})
\* No lock, no strict sleep, and the throttle unlocked in neutral by a forced function.
Unlocked == Make(FALSE, FALSE, FALSE, FALSE, 3, {6}, {})
DrivingSettings == {Driving, Unlocked}
\* What the theorem WarningsNeedCrew supposes is so here, and not for MutedSettings.
ASSUME DrivingApart == FunctionsApart(DrivingSettings)

\* The AIRBRAKE compressor with either kind of sleep; no alerter.
RestingSettings == {Make(FALSE, strict, FALSE, TRUE, 0, {}, {}) : strict \in BOOLEAN}
\* What the theorem SleepsQuiet supposes is so here.
ASSUME RestingApart == CompressorApart(RestingSettings)

\* The alerter's own function forced off.
MutedSettings == {Make(TRUE, TRUE, FALSE, FALSE, 3, {}, {2})}

At(r, l, b) == [reverser |-> r, lever |-> l, brake |-> l # "low", aux |-> FALSE, button |-> b]
DrivingInputs == {At("FORWARD", "low", FALSE), At("NEUTRAL", "low", FALSE),
                  At("REVERSE", "low", FALSE), At("FORWARD", "middle", TRUE),
                  At("FORWARD", "high", FALSE)}
RestingInputs == {[At("FORWARD", "low", FALSE) EXCEPT !.aux = TRUE], At("NEUTRAL", "low", FALSE)}
=============================================================================
