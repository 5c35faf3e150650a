------------------------------ MODULE ThrottleTx ------------------------------
(***************************************************************************)
(* From the handles to the radio: the part of the main loop of mrbw-cst.c  *)
(* that turns the reverser, the throttle knob and the controls into status *)
(* packets, and the timers around it, the alerter and the sleep timer.     *)
(*                                                                         *)
(* One pass of the loop is seven steps, in the order of the code: "begin"  *)
(* samples the handles, "throttle" settles the throttle, "screens" stands  *)
(* for the softkeys and the packet handler, "mask" builds the function     *)
(* mask, "timers" compares it with what was last sent, "packet" queues a   *)
(* status packet and "transmit" sends one and decides whether to sleep.    *)
(* The timer and quadrature interrupts run between the steps; Tick and     *)
(* Turn are enabled at the steps whose order with them can be observed.    *)
(*                                                                         *)
(* Speeds are the byte of the packet: 0 idle, 1 e-stop, n + 1 notch n (the *)
(* code sends notchSpeedStep[n - 1] + 1 and keeps the table within 1..126, *)
(* so no notch is taken for an e-stop). The locals of a pass (inputsChanged, *)
(* alerterTimeout_decisecs_tmp) go back to a fixed value when they are dead. *)
(***************************************************************************)
EXTENDS Naturals, Sequences

CONSTANTS
    Notches,        \* the knob counts 0..Notches (8)
    AlerterWarn,    \* decisecs left when the alerter sounds (100)
    SleepReset,     \* sleep_tmr_reset_value
    SleepQuiet,     \* AIRBRAKE_SLEEP_QUIET_DECISECS (3)
    UpdateDecisecs, \* update_decisecs
    TxHoldoff,      \* txHoldoff_centisecs, in ticks
    QueueDepth,     \* MRBUS_TX_BUFFER_DEPTH (16)
    Fn,             \* the function table: what each role asserts
    Settings,       \* the option sets a behaviour may run under
    Inputs,         \* the handle and control readings a pass may sample
    Requests,       \* packet types another node may send: "V", "R"
    BlockingScreens \* whether a pass may take longer than a decisecond

Positions == {"FORWARD", "NEUTRAL", "REVERSE"}
Lever == {"low", "middle", "high"}
Roles == {"AUX_FN", "BRAKE_FN", "THR_UNLOCK_FN", "REV_SWAP_FN", "NEUTRAL_FN",
          "COMPRESSOR_FN", "ALERTER_FN", "EMERGENCY_FN"}
FunctionNumbers == 0..28
FN_OFF == 128
FN_EMRG == 129

Setting == [reverserLock : BOOLEAN, strictSleep : BOOLEAN, estopOnBrake : BOOLEAN,
            reverserSwap : BOOLEAN, airbrake : BOOLEAN, alerter : Nat,
            forceOn : SUBSET FunctionNumbers, forceOff : SUBSET FunctionNumbers]
Input == [reverser : Positions, lever : Lever, brake : BOOLEAN, aux : BOOLEAN,
          button : BOOLEAN]

ASSUME SizesAssumption ==
    /\ Notches \in Nat \ {0}
    /\ AlerterWarn \in Nat /\ SleepQuiet \in Nat \ {0}
    /\ SleepReset \in Nat /\ SleepReset > 1
    /\ UpdateDecisecs \in Nat \ {0} /\ TxHoldoff \in Nat
    /\ QueueDepth \in Nat \ {0}
ASSUME TableAssumption == Fn \in [Roles -> FunctionNumbers \union {FN_OFF, FN_EMRG}]
ASSUME InputsAssumption ==
    /\ Settings \subseteq Setting
    /\ Inputs \subseteq Input
    /\ Requests \subseteq {"V", "R"}
    /\ BlockingScreens \in BOOLEAN

VARIABLES
    pc,             \* the next step of the pass, or "asleep"
    settings,       \* the options in force
    input,          \* the readings of this pass
    knob,           \* throttlePosition, written by the quadrature interrupt
    reverser,       \* activeReverserSetting
    throttle,       \* activeThrottleSetting
    mask,           \* functionMask
    estop,          \* estopStatus, as the set of its bits
    emergency,      \* THROTTLE_STATUS_EMERGENCY
    alerting,       \* THROTTLE_STATUS_ALERTER
    sleepForced,    \* THROTTLE_STATUS_SLEEP
    last,           \* lastActive.. Settings, lastFunctionMask and lastThrottleStatus
    direction,      \* the direction bit kept while the reverser is centred
    compressor,     \* airCompressorOn()
    brakeTick,      \* brake10HzTick
    inputsChanged,
    alerter,        \* alerterTimeout_decisecs
    alerterRead,    \* alerterTimeout_decisecs_tmp
    sleep,          \* sleepTimeout_decisecs
    decisecs,
    holdoff,        \* txHoldoff
    ticked,         \* a decisecond has passed in this pass
    adcReady,       \* adcLoopInitialized()
    queue           \* mrbeeTxQueue

handles == <<input, knob>>
sent == <<last, direction, queue>>
timers == <<alerter, sleep, decisecs, holdoff>>
flags == <<emergency, alerting, sleepForced>>
vars == <<pc, settings, input, knob, reverser, throttle, mask, estop, emergency, alerting,
          sleepForced, last, direction, compressor, brakeTick, inputsChanged, alerter,
          alerterRead, sleep, decisecs, holdoff, ticked, adcReady, queue>>

-----------------------------------------------------------------------------
(* Packets and functions.                                                  *)

Speeds == 0..(Notches + 1)
EStop == 1

Status(s, d, m) == [type |-> "S", speed |-> s, direction |-> d, mask |-> m]
Version == [type |-> "v", speed |-> 0, direction |-> "FORWARD", mask |-> {}]
Packet == [type : {"S", "v"}, speed : Speeds, direction : {"FORWARD", "REVERSE"},
           mask : SUBSET FunctionNumbers]

\* getFunctionMask: the role's function, unless it is OFF or a special value.
Mask(role) == {Fn[role]} \intersect FunctionNumbers
IsEstop(role) == Fn[role] = FN_EMRG

\* Mutant: pushes into a full queue.
PushedAnyway(q, p) == Append(q, p)

Pushed(q, p) == IF Len(q) < QueueDepth THEN Append(q, p) ELSE q

Swapped(p) ==
    IF settings.reverserSwap \/ mask \intersect Mask("REV_SWAP_FN") # {}
    THEN [FORWARD |-> "REVERSE", REVERSE |-> "FORWARD", NEUTRAL |-> "NEUTRAL"][p]
    ELSE p

-----------------------------------------------------------------------------
(* Power-up.                                                               *)

Init ==
    /\ pc = "begin"
    /\ settings \in Settings
    /\ input = [reverser |-> "NEUTRAL", lever |-> "low", brake |-> FALSE,
                aux |-> FALSE, button |-> FALSE]
    /\ knob = 0 /\ reverser = "NEUTRAL" /\ throttle = 0
    /\ mask = {} /\ estop = {}
    /\ emergency = FALSE /\ alerting = FALSE /\ sleepForced = FALSE
    /\ last = [reverser |-> "NEUTRAL", throttle |-> 0, mask |-> {}, emergency |-> FALSE]
    /\ direction = "FORWARD"
    /\ compressor = FALSE /\ brakeTick = FALSE /\ inputsChanged = FALSE
    /\ alerter = settings.alerter /\ alerterRead = 0
    /\ sleep = SleepReset /\ decisecs = 0 /\ holdoff = 0 /\ ticked = FALSE
    /\ adcReady = FALSE
    /\ queue = <<Version>>

-----------------------------------------------------------------------------
(* The interrupts.                                                         *)

\* One detent of the knob, or an illegal quadrature step, which counts as idle.
Turn ==
    /\ pc \in {"begin", "throttle"}
    /\ \/ knob > 0 /\ knob' = knob - 1
       \/ knob < Notches /\ knob' = knob + 1
       \/ knob' = 0
    /\ UNCHANGED <<pc, settings, input, reverser, throttle, mask, estop, flags, sent,
                   compressor, brakeTick, inputsChanged, timers, alerterRead, ticked, adcReady>>

CountDown(t) == IF t > 0 THEN t - 1 ELSE 0

\* A decisecond of the 100 Hz timer. A pass takes far less, but for the screens that wait
\* or ask over the radio: at most one tick falls in a pass, or any number before its mask
\* when such screens are considered. Bound: decisecs stops at UpdateDecisecs.
Tick ==
    /\ pc \in {"begin", "timers", "transmit"}
    /\ ticked => BlockingScreens /\ pc = "begin"
    /\ ticked' = TRUE
    /\ alerter' = CountDown(alerter)
    /\ sleep' = CountDown(sleep)
    /\ holdoff' = CountDown(holdoff)
    /\ decisecs' = IF decisecs < UpdateDecisecs THEN decisecs + 1 ELSE decisecs
    /\ brakeTick' = TRUE
    /\ UNCHANGED <<pc, settings, handles, reverser, throttle, mask, estop, flags, sent,
                   compressor, inputsChanged, alerterRead, adcReady>>

-----------------------------------------------------------------------------
(* The pass.                                                               *)

\* Mutant: the emergency ends as soon as the lever leaves full.
BrakeEstopWhileFull(lever) ==
    IF settings.estopOnBrake /\ lever = "high" THEN estop \union {"BRAKE"} ELSE estop \ {"BRAKE"}

\* A full lever is an emergency until the lever is all the way back.
BrakeEstop(lever) ==
    IF ~settings.estopOnBrake \/ lever = "low" THEN estop \ {"BRAKE"}
    ELSE IF lever = "high" THEN estop \union {"BRAKE"}
    ELSE estop

\* Mutant: the lock looks at the throttle setting, which the penalty and neutral zero.
ReverserForSetting(position) ==
    IF ~settings.reverserLock \/ throttle = 0 THEN Swapped(position) ELSE reverser

\* The reverser takes a new position when it is not locked, or at idle.
ReverserFor(position) ==
    IF ~settings.reverserLock \/ knob = 0 THEN Swapped(position) ELSE reverser

Begin ==
    /\ pc = "begin"
    /\ \E i \in Inputs:
         /\ input' = i
         /\ estop' = BrakeEstop(i.lever)
         /\ reverser' = ReverserFor(i.reverser)
    /\ adcReady' \in {adcReady, TRUE}
    /\ pc' = "throttle"
    /\ UNCHANGED <<settings, knob, throttle, mask, flags, sent, compressor, brakeTick,
                   inputsChanged, timers, alerterRead, ticked>>

\* Neutral forces idle, unless the unlocking function was in the mask of the last pass.
ThrottleNow ==
    IF reverser = "NEUTRAL" /\ mask \intersect Mask("THR_UNLOCK_FN") = {} THEN 0 ELSE knob

SetThrottle ==
    /\ pc = "throttle"
    /\ throttle' = ThrottleNow
    /\ pc' = "screens"
    /\ UNCHANGED <<settings, handles, reverser, mask, estop, flags, sent, compressor,
                   brakeTick, inputsChanged, timers, alerterRead, ticked, adcReady>>

\* What the softkeys and the packet handler can do to this part of the state.
PowerDown ==
    /\ ~input.button
    /\ sleepForced' = TRUE
    /\ UNCHANGED <<sleep, alerter, queue>>

SavePrefs ==
    /\ input.button
    /\ alerter' = settings.alerter
    /\ UNCHANGED <<sleepForced, sleep, queue>>

AnswerVersion ==
    /\ "V" \in Requests
    /\ queue' = Pushed(queue, Version)
    /\ UNCHANGED <<sleepForced, sleep, alerter>>

AnswerRead ==
    /\ "R" \in Requests
    /\ sleep' = SleepReset
    /\ queue' = Pushed(queue, Version)
    /\ UNCHANGED <<sleepForced, alerter>>

NothingElse == UNCHANGED <<sleepForced, sleep, alerter, queue>>

Screens ==
    /\ pc = "screens"
    /\ PowerDown \/ SavePrefs \/ AnswerVersion \/ AnswerRead \/ NothingElse
    /\ pc' = "mask"
    /\ UNCHANGED <<settings, handles, reverser, throttle, mask, estop, emergency, alerting,
                   last, direction, compressor, brakeTick, inputsChanged, decisecs,
                   holdoff, alerterRead, ticked, adcReady>>

\* Mutant: the sounds go on until the throttle is asleep.
SleepForcedOnly == sleepForced

\* A few deciseconds before sleep the compressor and the vent fall silent.
SleepImminent == sleepForced \/ sleep <= SleepQuiet

ControlFunctions(compressorOn) ==
    UNION {IF input.aux THEN Mask("AUX_FN") ELSE {},
           IF input.brake THEN Mask("BRAKE_FN") ELSE {},
           IF settings.airbrake /\ ~SleepImminent /\ compressorOn
             THEN Mask("COMPRESSOR_FN") ELSE {},
           IF reverser = "NEUTRAL" THEN Mask("NEUTRAL_FN") ELSE {}}

Warned == settings.alerter # 0 /\ alerter < AlerterWarn
Expired == settings.alerter # 0 /\ alerter = 0

AlerterFunctions ==
    (IF Warned THEN Mask("ALERTER_FN") ELSE {}) \union (IF Expired THEN Mask("BRAKE_FN") ELSE {})

\* Mutant: the alerter's functions look like activity.
NothingEntered == {}

\* What is entered into lastFunctionMask as if it had been sent, so as not to be activity.
EnteredAsSent == AlerterFunctions

Forced(m) == (m \union settings.forceOn) \ settings.forceOff

EstopNow ==
    (estop \ {"BUTTON", "ALERTER"})
      \union (IF input.aux /\ IsEstop("AUX_FN") THEN {"BUTTON"} ELSE {})
      \union (IF Expired /\ IsEstop("ALERTER_FN") THEN {"ALERTER"} ELSE {})

\* The compressor governor and the pipe run on their own 10 Hz tick.
BuildMask ==
    /\ pc = "mask"
    /\ compressor' \in IF brakeTick THEN BOOLEAN ELSE {compressor}
    /\ brakeTick' = FALSE
    /\ alerterRead' = alerter
    /\ alerting' = Warned
    /\ estop' = EstopNow
    /\ emergency' = (EstopNow # {})
    /\ throttle' = IF Expired THEN 0 ELSE throttle
    /\ mask' = Forced(ControlFunctions(compressor') \union AlerterFunctions)
                 \union (IF EstopNow # {} THEN Mask("EMERGENCY_FN") ELSE {})
    /\ last' = [last EXCEPT !.throttle = IF Expired THEN 0 ELSE @,
                            !.mask = @ \union EnteredAsSent]
    /\ pc' = "timers"
    /\ UNCHANGED <<settings, handles, reverser, sleepForced, direction, queue,
                   inputsChanged, timers, ticked, adcReady>>

HandlesChanged ==
    \/ reverser # last.reverser
    \/ throttle # last.throttle
    \/ emergency # last.emergency

IdleFunctions == IF settings.airbrake THEN Mask("COMPRESSOR_FN") ELSE {}

\* Mutant: the compressor counts as crew activity.
ActivityOfAll == HandlesChanged \/ mask # last.mask

Activity == HandlesChanged \/ mask \ IdleFunctions # last.mask \ IdleFunctions

\* Mutant: any activity resets an expired alerter.
AlerterResetAnytime == input.button \/ Activity \/ reverser = "NEUTRAL"

\* An expired alerter is only reset in neutral.
AlerterReset ==
    /\ input.button \/ Activity \/ reverser = "NEUTRAL"
    /\ alerterRead # 0 \/ reverser = "NEUTRAL"

\* Mutant: strict sleep is not looked at.
SleepResetOnActivity == input.button \/ Activity

SleepResetNow ==
    input.button \/ Activity \/ (settings.strictSleep /\ reverser # "NEUTRAL")

Timers ==
    /\ pc = "timers"
    /\ inputsChanged' = (HandlesChanged \/ mask # last.mask)
    /\ sleep' = IF SleepResetNow THEN SleepReset ELSE sleep
    /\ alerter' = IF AlerterReset THEN settings.alerter ELSE alerter
    /\ alerterRead' = 0
    /\ pc' = "packet"
    /\ UNCHANGED <<settings, handles, reverser, throttle, mask, estop, flags, sent, compressor,
                   brakeTick, decisecs, holdoff, ticked, adcReady>>

\* Neutral keeps the direction of the last packet.
DirectionNow == IF reverser = "NEUTRAL" THEN direction ELSE reverser

SpeedNow == IF emergency THEN EStop ELSE IF throttle = 0 THEN 0 ELSE throttle + 1

PacketDue ==
    /\ adcReady
    /\ inputsChanged \/ decisecs >= UpdateDecisecs
    /\ Len(queue) < QueueDepth

QueuePacket ==
    /\ decisecs' = 0
    /\ last' = [reverser |-> reverser, throttle |-> throttle, mask |-> mask,
                emergency |-> emergency]
    /\ direction' = DirectionNow
    /\ queue' = Append(queue, Status(SpeedNow, DirectionNow, mask))

SendPacket ==
    /\ pc = "packet"
    /\ \/ PacketDue /\ QueuePacket
       \/ ~PacketDue /\ UNCHANGED <<decisecs, last, direction, queue>>
    /\ inputsChanged' = FALSE
    /\ pc' = "transmit"
    /\ UNCHANGED <<settings, handles, reverser, throttle, mask, estop, flags, compressor,
                   brakeTick, alerter, alerterRead, sleep, holdoff, ticked, adcReady>>

\* Mutant: the packet sent stays at the head of the queue.
TransmitKeepsHead ==
    /\ pc = "transmit"
    /\ queue' = queue
    /\ holdoff' = IF queue # <<>> /\ holdoff = 0 THEN TxHoldoff ELSE holdoff
    /\ pc' = IF sleep = 0 \/ sleepForced THEN "asleep" ELSE "begin"
    /\ ticked' = FALSE
    /\ UNCHANGED <<settings, handles, reverser, throttle, mask, estop, flags, last, direction,
                   compressor, brakeTick, inputsChanged, alerter, alerterRead, sleep, decisecs,
                   adcReady>>

\* The head of the queue goes on the air when the holdoff of the previous one is over;
\* then, when the sleep timer has run out or the crew has asked for it, power down.
Transmit ==
    /\ pc = "transmit"
    /\ IF queue # <<>> /\ holdoff = 0
         THEN /\ queue' = Tail(queue)
              /\ holdoff' = TxHoldoff
         ELSE UNCHANGED <<queue, holdoff>>
    /\ pc' = IF sleep = 0 \/ sleepForced THEN "asleep" ELSE "begin"
    /\ ticked' = FALSE
    /\ UNCHANGED <<settings, handles, reverser, throttle, mask, estop, flags, last, direction,
                   compressor, brakeTick, inputsChanged, alerter, alerterRead, sleep, decisecs,
                   adcReady>>

\* A softkey wakes it; the timer interrupt was off and starts again from zero.
Wake ==
    /\ pc = "asleep"
    /\ pc' = "begin"
    /\ sleep' = SleepReset
    /\ alerter' = settings.alerter
    /\ decisecs' = 0
    /\ sleepForced' = FALSE
    /\ UNCHANGED <<settings, handles, reverser, throttle, mask, estop, emergency, alerting,
                   sent, compressor, brakeTick, inputsChanged, alerterRead, holdoff, ticked,
                   adcReady>>

-----------------------------------------------------------------------------
Pass == Begin \/ SetThrottle \/ Screens \/ BuildMask \/ Timers \/ SendPacket \/ Transmit

Next == Pass \/ Wake \/ Turn \/ Tick

Spec == Init /\ [][Next]_vars

\* The loop never waits for anything but sleep, and the timer keeps running.
FairSpec == Spec /\ WF_vars(Pass) /\ SF_vars(Tick)

-----------------------------------------------------------------------------
TypeOK ==
    /\ pc \in {"begin", "throttle", "screens", "mask", "timers", "packet", "transmit", "asleep"}
    /\ settings \in Settings
    /\ input \in Input
    /\ knob \in 0..Notches /\ throttle \in 0..Notches
    /\ reverser \in Positions
    /\ mask \subseteq FunctionNumbers
    /\ estop \subseteq {"BRAKE", "BUTTON", "ALERTER"}
    /\ emergency \in BOOLEAN /\ alerting \in BOOLEAN /\ sleepForced \in BOOLEAN
    /\ last \in [reverser : Positions, throttle : 0..Notches, mask : SUBSET FunctionNumbers,
                 emergency : BOOLEAN]
    /\ direction \in {"FORWARD", "REVERSE"}
    /\ compressor \in BOOLEAN /\ brakeTick \in BOOLEAN /\ inputsChanged \in BOOLEAN
    /\ alerter \in Nat /\ alerterRead \in Nat /\ sleep \in 0..SleepReset
    /\ decisecs \in 0..UpdateDecisecs /\ holdoff \in 0..TxHoldoff /\ ticked \in BOOLEAN
    /\ adcReady \in BOOLEAN
    /\ queue \in Seq(Packet) /\ Len(queue) <= QueueDepth
=============================================================================
