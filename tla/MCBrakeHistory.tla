--------------------------- MODULE MCBrakeHistory ---------------------------
(* Small instance of BrakeHistory: a lever calibrated 20 / 60 / 120, so     *)
(* that brakePcnt is the reading less 20, and readings on both sides of     *)
(* every boundary of the four brake types.                                  *)
EXTENDS BrakeHistory

MCLever == {0, 30, 37, 42, 47, 62, 101, 121}

(* Bands assert BRAKE, BK2, both with BK3, ... so that every bit comes and  *)
(* goes as the lever moves. *)
Combos3 == [b \in 0 .. 5 |-> CASE b = 1 -> {"BRAKE"} [] b = 2 -> {"BK2", "BK3"}
                               [] b = 3 -> StackBits [] OTHER -> {}]
Combos5 == [b \in 0 .. 5 |-> CASE b = 1 -> {"BRAKE"} [] b = 2 -> {"BK2"}
                               [] b = 3 -> {"BRAKE", "BK2"} [] b = 4 -> {"BK3"}
                               [] b = 5 -> StackBits [] OTHER -> {}]
NoCombos == [b \in 0 .. 5 |-> {}]

Make(t, five, c, w) == [type |-> t, fiveStep |-> five, combos |-> c, width |-> w]
MCSettings == { Make("STANDARD", FALSE, NoCombos, 2), Make("STEP", FALSE, NoCombos, 2),
                Make("PULSE", FALSE, NoCombos, 2),
                Make("STACK", FALSE, Combos3, 2), Make("STACK", TRUE, Combos5, 2) }
MCPulseOrStack == { Make("PULSE", FALSE, NoCombos, 2), Make("STACK", TRUE, Combos5, 2) }
=============================================================================
