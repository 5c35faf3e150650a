---------------------------- MODULE BrakeHistory ----------------------------
(***************************************************************************)
(* What the brake lever must do over several passes.  Five history         *)
(* variables record what the properties compare: how long the lever and    *)
(* the settings have been steady, where the lever was when the STACK band  *)
(* last moved, the step a decoder that counts BRAKE pulses has reached,    *)
(* and whether BRK TYPE has been left alone so far.                        *)
(***************************************************************************)
EXTENDS BrakeLever

VARIABLES
  steady,      \* dispatches since the lever or the settings last changed, at most 3
  ran,         \* the settings the last dispatch ran with
  bandMoved,   \* [pcnt, up]: the lever when the STACK band last changed under these
               \* settings, and the way it went
  ratchet,     \* BRAKE pulses since BRAKE_REL was last switched on, at most 6
  kept         \* whether BRK TYPE has never been changed

hvars == <<steady, ran, bandMoved, ratchet, kept>>
allvars == <<vars, hvars>>

Unmoved == [pcnt |-> 0, up |-> FALSE]

HInit ==
  /\ Init
  /\ steady = 0
  /\ ran = committed
  /\ bandMoved = Unmoved
  /\ ratchet = 0
  /\ kept = TRUE

Rises(bit) == bit \notin controls /\ bit \in controls'

Observe ==
  /\ steady' = IF brakePosition' # brakePosition \/ ran # committed THEN 0
               ELSE IF steady < 3 THEN steady + 1 ELSE 3
  /\ ran' = committed
  /\ bandMoved' = IF ran # committed THEN Unmoved
                  ELSE IF currentStackBand' # currentStackBand
                  THEN [pcnt |-> Pcnt100(brakePosition'),
                        up |-> currentStackBand' > currentStackBand]
                  ELSE bandMoved
  /\ ratchet' = IF Rises("REL") THEN 0
                ELSE IF Rises("BRAKE") /\ ratchet < 6 THEN ratchet + 1 ELSE ratchet
  /\ UNCHANGED kept

ObservedDispatch == Dispatch /\ Observe
Unobserved(A) == A /\ UNCHANGED hvars

(* Settings come in at the end of a pass: with another BRK TYPE, or with    *)
(* another STACK variant or pulse width only.                               *)
ObservedReadConfig ==
  /\ ReadConfig
  /\ kept' = (kept /\ SameType)
  /\ UNCHANGED <<steady, ran, bandMoved, ratchet>>

HNext ==
  \/ ObservedDispatch
  \/ Unobserved(BuildMask)
  \/ ObservedReadConfig
  \/ Unobserved(Tick)

HSpec == HInit /\ [][HNext]_allvars

(* A throttle whose BRK TYPE is never changed, its loop and its timer       *)
(* running.                                                                 *)
HNextFixedType == HNext /\ SameType
HFairness ==
  WF_allvars(ObservedDispatch) /\ WF_allvars(Unobserved(BuildMask))
  /\ WF_allvars(Unobserved(Tick))

HFairSpec == HSpec /\ HFairness

HTypeOK ==
  /\ TypeOK
  /\ steady \in 0 .. 3
  /\ ran \in Settings
  /\ bandMoved \in [pcnt : 0 .. 100, up : BOOLEAN]
  /\ ratchet \in 0 .. 6
  /\ kept \in BOOLEAN

-----------------------------------------------------------------------------
(* The STACK band never chatters: after it moved one way it moves back only *)
(* if the lever has travelled more than BRAKE_HYSTERESIS since, however     *)
(* the reading jitters, while the settings stay the same.                   *)
NoChatter ==
  [][ (/\ currentStackBand' # currentStackBand
       /\ ran = committed /\ committed.type = "STACK"
       /\ bandMoved # Unmoved
       /\ bandMoved.up # (currentStackBand' > currentStackBand))
      => \/ Pcnt100(brakePosition') > bandMoved.pcnt + BRAKE_HYSTERESIS
         \/ Pcnt100(brakePosition') < bandMoved.pcnt - BRAKE_HYSTERESIS ]_allvars

(* The air-brake model's idea of "lever at rest" is right within three      *)
(* passes of steady lever and settings, whichever types ran before: a lever *)
(* below the low threshold is at rest, one at a quarter of its travel or    *)
(* more is not.                                                             *)
SettledRest ==
  (at = "lever" /\ steady = 3 /\ committed = ran) =>
    /\ brakePosition < brakeLowThreshold => atRest
    /\ Pcnt(brakePosition) >= 25 => ~atRest

(* As long as BRK TYPE is left alone the brake-on and brake-off functions   *)
(* are never asserted together ...                                          *)
KeptApart == kept => NotBothAsserted

(* ... nor does one pass change both of them, except under STACK, whose     *)
(* combos may (mrbw-cst.c:2562-2565).                                       *)
KeptOneChange ==
  [][ kept' /\ committed.type # "STACK" => ~(Changes("BRAKE") /\ Changes("REL")) ]_allvars

(* Step, left in force: a decoder that counts pulses is at the level the    *)
(* throttle thinks it is whenever no pulse is in progress.                  *)
StepRatchet ==
  (kept /\ committed.type = "STEP" /\ brakeState.wait) => ratchet = brakeState.level

(* With the settings left alone, a lever left at rest ends with the brake   *)
(* released for good, and one left hard over ends with it applied for good  *)
(* (Step: with the FULL pulse sent).                                        *)
RestReleases ==
  (<>[](brakePosition < brakeLowThreshold /\ ran = committed)) => <>[]("BRAKE" \notin controls)
FullApplies ==
  (<>[](brakePosition > brakeHighThreshold /\ ran = committed)) =>
    <>[](CASE committed.type = "STEP"  -> brakeState = WAIT(FULL)
           [] committed.type = "STACK" -> currentStackBand = TopBand
           [] OTHER -> "BRAKE" \in controls)
=============================================================================
