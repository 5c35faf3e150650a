---------------------------- MODULE ThrottleHistory ----------------------------
(***************************************************************************)
(* What the status packets say over time: ThrottleTx with history          *)
(* variables, and the properties of the alerter, of sleep and of the       *)
(* reverser that need them.                                                *)
(***************************************************************************)
EXTENDS ThrottleTx

VARIABLES
    lastQueued,     \* the last status packet queued
    idleSeen,       \* the knob has been at idle since then
    touched,        \* 2 when the crew touches anything, less 1 for every packet queued: a
                    \* move in the middle of a pass can have its effect in the next one
    penalised,      \* the alerter has expired and the reverser has not been centred since
    slammed,        \* the lever has been at full and not yet all the way back
    woke,           \* awake after the sleep timer ran out, the knob not yet at idle
    unlocked,       \* the throttle was settled with the unlocking function in the mask
    hums,           \* the last status packet sent on the air has the compressor on
    hush            \* the quiet before sleep: none yet, or begun in time for the packet
                    \* that says so to go out before the timer runs out, or too late

history == <<lastQueued, idleSeen, touched, penalised, slammed, woke, unlocked, hums, hush>>
hvars == <<vars, history>>

Queues == pc = "packet" /\ queue' # queue
Newest == queue'[Len(queue')]

Loud(p) == p.type = "S" /\ Mask("COMPRESSOR_FN") \intersect p.mask # {}

\* Deciseconds that pass at most before a packet with n others before it is sent: each
\* pass sends one if it may, and has one tick, which comes before that or has been.
WaitBehind(n) ==
    (IF ticked \/ holdoff > 0 THEN holdoff ELSE 1) + n * (IF TxHoldoff > 0 THEN TxHoldoff ELSE 1)

HInit ==
    /\ Init
    /\ lastQueued = Version
    /\ idleSeen = TRUE /\ touched = 2
    /\ penalised = FALSE /\ slammed = FALSE /\ woke = FALSE
    /\ unlocked = FALSE /\ hums = FALSE /\ hush = "none"

Remember ==
    /\ lastQueued' = IF Queues THEN Newest ELSE lastQueued
    /\ idleSeen' = (knob' = 0 \/ (idleSeen /\ ~Queues))
    /\ touched' = IF knob' # knob \/ input' # input \/ input'.button \/ pc = "asleep" THEN 2
                  ELSE IF Queues /\ touched > 0 THEN touched - 1 ELSE touched
    /\ penalised' =
         (/\ penalised \/ (pc = "mask" /\ Expired /\ reverser # "NEUTRAL")
          /\ ~(pc = "begin" /\ pc' = "throttle" /\ reverser' = "NEUTRAL")
          /\ ~(pc = "screens" /\ alerter' # alerter)
          /\ pc # "asleep")
    /\ slammed' = IF pc = "begin" /\ pc' = "throttle" /\ settings.estopOnBrake
                  THEN input'.lever = "high" \/ (slammed /\ input'.lever # "low")
                  ELSE slammed
    /\ woke' = (knob' # 0 /\ (woke \/ (pc = "asleep" /\ ~sleepForced)))
    /\ unlocked' = IF pc = "throttle" /\ pc' = "screens"
                   THEN mask \intersect Mask("THR_UNLOCK_FN") # {} ELSE unlocked
    /\ hums' = IF pc = "transmit" /\ queue' # queue /\ Head(queue).type = "S"
               THEN Loud(Head(queue)) ELSE hums
    /\ hush' = IF pc = "mask"
               THEN IF ~SleepImminent \/ ~settings.airbrake THEN "none"
                    ELSE IF hush # "none" THEN hush
                    ELSE IF WaitBehind(Len(queue)) <= sleep THEN "timely" ELSE "late"
               ELSE IF /\ hush = "timely"
                       /\ \/ ticked /\ Tick
                          \/ pc = "screens" /\ queue' # queue /\ Loud(lastQueued)
               THEN "late" ELSE hush

HNext == Next /\ Remember
HSpec == HInit /\ [][HNext]_hvars
HFairSpec == HSpec /\ WF_hvars(Pass /\ Remember) /\ SF_hvars(Tick /\ Remember)

HTypeOK ==
    /\ TypeOK
    /\ lastQueued \in Packet
    /\ idleSeen \in BOOLEAN /\ touched \in 0..2 /\ penalised \in BOOLEAN
    /\ slammed \in BOOLEAN /\ woke \in BOOLEAN /\ unlocked \in BOOLEAN
    /\ hums \in BOOLEAN /\ hush \in {"none", "timely", "late"}

-----------------------------------------------------------------------------
(* Properties.                                                             *)

Moves(p) == p.speed \notin {0, EStop}

\* An expired alerter takes the throttle to idle and applies the brake (6549-6558), and
\* nothing the crew does but centring the reverser, saving the preferences or waking the
\* throttle from sleep gives the power back.
PenaltyHolds ==
    [][Queues /\ penalised =>
         /\ ~Moves(Newest)
         /\ Mask("BRAKE_FN") \ settings.forceOff \subseteq Newest.mask]_hvars

\* A warning is acknowledged by the crew or by a centred reverser, never by what the
\* alerter, the compressor or the radio changed by themselves (6546, 6629-6637).
WarningNeedsCrew ==
    [][pc = "timers" /\ alerter' > alerter /\ alerterRead < AlerterWarn =>
         reverser = "NEUTRAL" \/ touched > 0]_hvars

\* When WarningNeedsCrew holds: no option forces the alerter's function off, and the
\* function that swaps the reverser is not one that changes without the crew.
FunctionsApart(options) ==
    /\ \A s \in options: Mask("ALERTER_FN") \intersect s.forceOff = {}
    /\ \A role \in {"ALERTER_FN", "BRAKE_FN", "COMPRESSOR_FN", "EMERGENCY_FN", "NEUTRAL_FN"}:
         Mask(role) \intersect Mask("REV_SWAP_FN") = {}

\* When QuietAsleep holds: nothing but the compressor asserts its function.
CompressorApart(options) ==
    /\ \A s \in options: Mask("COMPRESSOR_FN") \intersect s.forceOn = {}
    /\ \A role \in Roles \ {"COMPRESSOR_FN"}: Mask(role) \intersect Mask("COMPRESSOR_FN") = {}

\* With the reverser lock, two status packets in a row differ in direction only if the
\* knob has been at idle between them (2636), though the lock reads the knob, its
\* interrupt can move it straight after, and packets are skipped when the queue is full.
FlipsAtIdle ==
    [][Queues /\ settings.reverserLock /\ Newest.direction # lastQueued.direction
         => lastQueued.type = "v" \/ idleSeen]_hvars

\* A full lever stops the locomotive until the lever is back at rest (2423-2432): every
\* packet queued in between is an emergency stop.
SlamHolds == [][Queues /\ slammed => Newest.speed = EStop]_hvars

\* The comparison of the pass with last.. stands for a comparison with the last packet
\* queued, but for what the alerter enters as sent (6541-6559).
LastIsQueued ==
    lastQueued.type = "S" =>
      /\ last.throttle = 0 \/ last.emergency \/ lastQueued.speed = last.throttle + 1
      /\ last.emergency <=> lastQueued.speed = EStop
      /\ last.reverser \in {"NEUTRAL", lastQueued.direction}
      /\ lastQueued.mask \subseteq last.mask
      /\ last.mask \ lastQueued.mask \subseteq Mask("ALERTER_FN") \union Mask("BRAKE_FN")

\* With the reverser lock and strict sleep, a throttle that went to sleep by itself wakes
\* up in idle and stays there until the knob has been at idle (6645); the exception is a
\* throttle unlocked in neutral when the pass settled it.
WakesIdle ==
    [][Queues /\ woke /\ settings.reverserLock /\ settings.strictSleep /\ ~unlocked
         => ~Moves(Newest)]_hvars

\* When the sleep timer puts the radio to sleep, the last packet it sent has the
\* compressor off, so that its sound does not go on for ever (6364-6367): unless the packets
\* waiting when the quiet began, or pushed or held up by a screen before the quiet was
\* queued, take longer than AIRBRAKE_SLEEP_QUIET_DECISECS to go out.
QuietAsleep ==
    pc = "asleep" /\ ~sleepForced /\ settings.airbrake /\ hush # "late" => ~hums

\* The crew and the radio leave the throttle alone.
LeftAlone ==
    /\ handles' = handles
    /\ pc # "asleep"
    /\ pc = "screens" => UNCHANGED <<queue, sleep, alerter, sleepForced>>

\* Once everything is left alone, the queue drains and the last packet sent becomes what
\* the handles say and stays so, once the ADC has settled and unless the throttle falls asleep.
CatchesUp ==
    <>[][LeftAlone]_hvars /\ <>adcReady =>
      <>[](pc = "begin" =>
             /\ lastQueued.speed = IF emergency THEN EStop
                                   ELSE IF throttle = 0 THEN 0 ELSE throttle + 1
             /\ reverser \in {"NEUTRAL", lastQueued.direction}
             /\ lastQueued.mask \ IdleFunctions = mask \ IdleFunctions)

\* A throttle left alone sleeps, however often the compressor cycles (6629-6637); strict
\* sleep keeps it awake off neutral.
NodsOff ==
    (/\ <>[][LeftAlone \/ pc = "asleep"]_hvars
     /\ <>[](~input.button /\ (settings.strictSleep => reverser = "NEUTRAL"))
     /\ <>adcReady)
      => []<>(pc = "asleep")

=============================================================================
