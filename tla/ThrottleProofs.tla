---------------------------- MODULE ThrottleProofs ----------------------------
(***************************************************************************)
(* Proofs about ThrottleTx: its types, and what the status packets say of  *)
(* the alerter's penalty, a slam, the direction, the handles, the last..   *)
(* variables and, when the throttle falls asleep, the compressor.          *)
(***************************************************************************)
EXTENDS ThrottleHistory, TLAPS

-----------------------------------------------------------------------------
(* Types.                                                                    *)

LEMMA SettingsTyped ==
    ASSUME NEW s \in Settings
    PROVE  /\ s.alerter \in Nat /\ s.forceOn \subseteq FunctionNumbers
           /\ s.estopOnBrake \in BOOLEAN /\ s.reverserLock \in BOOLEAN
  BY InputsAssumption DEF Setting

LEMMA MasksTyped == \A role: Mask(role) \subseteq FunctionNumbers
  BY DEF Mask

LEMMA SwappedTyped ==
    ASSUME NEW p \in Positions
    PROVE  Swapped(p) \in Positions
  BY DEF Swapped, Positions

LEMMA InitTyped == HInit => HTypeOK
  <1> SUFFICES ASSUME HInit PROVE HTypeOK
    OBVIOUS
  <1>1. settings.alerter \in Nat
    BY SettingsTyped DEF HInit, Init
  <1>2. Version \in Packet
    BY SizesAssumption DEF Version, Packet, Speeds
  <1>3. queue \in Seq(Packet) /\ Len(queue) <= QueueDepth
    BY <1>2, SizesAssumption DEF HInit, Init
  <1>4. input \in Input
    BY DEF HInit, Init, Input, Positions, Lever
  <1>5. last \in [reverser : Positions, throttle : 0..Notches, mask : SUBSET FunctionNumbers,
                  emergency : BOOLEAN]
    BY SizesAssumption DEF HInit, Init, Positions
  <1>6. /\ knob \in 0..Notches /\ throttle \in 0..Notches /\ sleep \in 0..SleepReset
        /\ decisecs \in 0..UpdateDecisecs /\ holdoff \in 0..TxHoldoff
        /\ alerterRead \in Nat /\ touched \in 0..2
    BY SizesAssumption DEF HInit, Init
  <1>7. TypeOK
    BY <1>1, <1>3, <1>4, <1>5, <1>6 DEF HInit, Init, TypeOK, Positions
  <1> QED BY <1>2, <1>6, <1>7 DEF HInit, HTypeOK

(* Each action keeps the types of the component's variables. *)
LEMMA BeginTyped ==
    ASSUME TypeOK, Begin
    PROVE  TypeOK'
  <1>1. \E i \in Inputs: input' = i /\ estop' = BrakeEstop(i.lever)
                          /\ reverser' = ReverserFor(i.reverser)
    BY DEF Begin
  <1>2. PICK i \in Inputs: input' = i /\ estop' = BrakeEstop(i.lever)
                           /\ reverser' = ReverserFor(i.reverser)
    BY <1>1
  <1>3. i \in Input /\ i.reverser \in Positions
    BY InputsAssumption DEF Input
  <1>4. reverser' \in Positions
    BY <1>2, <1>3, SwappedTyped DEF ReverserFor, TypeOK
  <1>5. estop' \subseteq {"BRAKE", "BUTTON", "ALERTER"}
    BY <1>2 DEF BrakeEstop, TypeOK
  <1>6. adcReady' \in BOOLEAN
    BY DEF Begin, TypeOK
  <1> QED BY <1>2, <1>3, <1>4, <1>5, <1>6 DEF Begin, TypeOK, flags, sent, timers

LEMMA SetThrottleTyped ==
    ASSUME TypeOK, SetThrottle
    PROVE  TypeOK'
  <1>1. throttle' \in 0..Notches
    BY SizesAssumption DEF SetThrottle, ThrottleNow, TypeOK
  <1> QED BY <1>1 DEF SetThrottle, TypeOK, handles, flags, sent, timers

(* What is pushed into the queue stays within its depth. *)
LEMMA PushedTyped ==
    ASSUME TypeOK, NEW p \in Packet
    PROVE  Pushed(queue, p) \in Seq(Packet) /\ Len(Pushed(queue, p)) <= QueueDepth
  <1>1. queue \in Seq(Packet) /\ Len(queue) <= QueueDepth
    BY DEF TypeOK
  <1>2. Append(queue, p) \in Seq(Packet) /\ Len(Append(queue, p)) = Len(queue) + 1
    BY <1>1
  <1>3. Len(queue) \in Nat
    BY <1>1
  <1> QED BY <1>1, <1>2, <1>3, SizesAssumption DEF Pushed

LEMMA VersionTyped == Version \in Packet
  BY SizesAssumption DEF Version, Packet, Speeds

LEMMA ScreensTyped ==
    ASSUME TypeOK, Screens
    PROVE  TypeOK'
  <1>1. sleepForced' \in BOOLEAN
    BY DEF Screens, PowerDown, SavePrefs, AnswerVersion, AnswerRead, NothingElse, TypeOK
  <1>2. sleep' \in 0..SleepReset
    BY SizesAssumption
       DEF Screens, PowerDown, SavePrefs, AnswerVersion, AnswerRead, NothingElse, TypeOK
  <1>3. alerter' \in Nat
    BY SettingsTyped
       DEF Screens, PowerDown, SavePrefs, AnswerVersion, AnswerRead, NothingElse, TypeOK
  <1>4. queue' \in Seq(Packet) /\ Len(queue') <= QueueDepth
    <2>1. queue' \in {queue, Pushed(queue, Version)}
      BY DEF Screens, PowerDown, SavePrefs, AnswerVersion, AnswerRead, NothingElse
    <2> QED BY <2>1, PushedTyped, VersionTyped DEF TypeOK
  <1> QED BY <1>1, <1>2, <1>3, <1>4 DEF Screens, TypeOK, handles

LEMMA BuildMaskTyped ==
    ASSUME TypeOK, BuildMask
    PROVE  TypeOK'
  <1>1. AlerterFunctions \subseteq FunctionNumbers
    BY MasksTyped DEF AlerterFunctions
  <1>2. ControlFunctions(compressor') \subseteq FunctionNumbers
    BY MasksTyped DEF ControlFunctions
  <1>3. mask' \subseteq FunctionNumbers
    <2>1. settings.forceOn \subseteq FunctionNumbers
      BY SettingsTyped DEF TypeOK
    <2>2. mask' = Forced(ControlFunctions(compressor') \union AlerterFunctions)
                    \union (IF EstopNow # {} THEN Mask("EMERGENCY_FN") ELSE {})
      BY DEF BuildMask
    <2> QED BY <1>1, <1>2, <2>1, <2>2, MasksTyped DEF Forced
  <1>4. estop' \subseteq {"BRAKE", "BUTTON", "ALERTER"}
    BY DEF BuildMask, EstopNow, TypeOK
  <1>5. throttle' \in 0..Notches
    BY SizesAssumption DEF BuildMask, TypeOK
  <1>6. last' \in [reverser : Positions, throttle : 0..Notches, mask : SUBSET FunctionNumbers,
                   emergency : BOOLEAN]
    <2>1. last' = [reverser |-> last.reverser,
                   throttle |-> IF Expired THEN 0 ELSE last.throttle,
                   mask |-> last.mask \union AlerterFunctions, emergency |-> last.emergency]
      BY DEF BuildMask, EnteredAsSent, TypeOK
    <2>2. (IF Expired THEN 0 ELSE last.throttle) \in 0..Notches
      BY SizesAssumption DEF TypeOK
    <2> QED BY <1>1, <2>1, <2>2 DEF TypeOK
  <1>7. compressor' \in BOOLEAN /\ alerting' \in BOOLEAN /\ emergency' \in BOOLEAN
        /\ brakeTick' \in BOOLEAN /\ alerterRead' \in Nat
    BY DEF BuildMask, TypeOK, Warned
  <1> QED BY <1>3, <1>4, <1>5, <1>6, <1>7 DEF BuildMask, TypeOK, handles, timers

LEMMA TimersTyped ==
    ASSUME TypeOK, Timers
    PROVE  TypeOK'
  <1>1. inputsChanged' \in BOOLEAN
    BY DEF Timers, HandlesChanged
  <1>2. sleep' \in 0..SleepReset
    BY SizesAssumption DEF Timers, TypeOK
  <1>3. alerter' \in Nat /\ alerterRead' \in Nat
    BY SettingsTyped DEF Timers, TypeOK
  <1> QED BY <1>1, <1>2, <1>3 DEF Timers, TypeOK, handles, flags, sent

(* The packet of a pass. *)
LEMMA PacketTyped ==
    ASSUME TypeOK
    PROVE  /\ DirectionNow \in {"FORWARD", "REVERSE"} /\ SpeedNow \in Speeds
           /\ Status(SpeedNow, DirectionNow, mask) \in Packet
  <1>1. DirectionNow \in {"FORWARD", "REVERSE"}
    BY DEF DirectionNow, TypeOK, Positions
  <1>2. SpeedNow \in Speeds
    BY SizesAssumption DEF SpeedNow, Speeds, EStop, TypeOK
  <1>3. mask \subseteq FunctionNumbers
    BY DEF TypeOK
  <1> QED BY <1>1, <1>2, <1>3 DEF Status, Packet

LEMMA SendPacketTyped ==
    ASSUME TypeOK, SendPacket
    PROVE  TypeOK'
  <1>1. CASE PacketDue /\ QueuePacket
    <2> DEFINE p == Status(SpeedNow, DirectionNow, mask)
    <2>1. p \in Packet /\ DirectionNow \in {"FORWARD", "REVERSE"}
      BY PacketTyped
    <2>2. queue' = Append(queue, p) /\ direction' = DirectionNow
      BY <1>1 DEF QueuePacket
    <2> HIDE DEF p
    <2>3. queue \in Seq(Packet) /\ Len(queue) < QueueDepth
      BY <1>1 DEF PacketDue, TypeOK
    <2>4. queue' \in Seq(Packet) /\ Len(queue') = Len(queue) + 1 /\ Len(queue) \in Nat
      BY <2>1, <2>2, <2>3
    <2>5. Len(queue') <= QueueDepth
      BY <2>3, <2>4, SizesAssumption
    <2>6. last' \in [reverser : Positions, throttle : 0..Notches,
                     mask : SUBSET FunctionNumbers, emergency : BOOLEAN]
      BY <1>1 DEF QueuePacket, TypeOK
    <2>7. decisecs' \in 0..UpdateDecisecs
      BY <1>1, SizesAssumption DEF QueuePacket
    <2> QED BY <2>1, <2>2, <2>4, <2>5, <2>6, <2>7 DEF SendPacket, TypeOK, handles, flags
  <1>2. CASE UNCHANGED <<decisecs, last, direction, queue>>
    BY <1>2 DEF SendPacket, TypeOK, handles, flags
  <1> QED BY <1>1, <1>2 DEF SendPacket

LEMMA TransmitTyped ==
    ASSUME TypeOK, Transmit
    PROVE  TypeOK'
  <1>1. queue' \in Seq(Packet) /\ Len(queue') <= QueueDepth
    <2>1. CASE queue' = queue
      BY <2>1 DEF TypeOK
    <2>2. CASE queue # <<>> /\ queue' = Tail(queue)
      <3>1. queue \in Seq(Packet) /\ Len(queue) <= QueueDepth
        BY DEF TypeOK
      <3>2. Tail(queue) \in Seq(Packet) /\ Len(Tail(queue)) = Len(queue) - 1
            /\ Len(queue) \in Nat
        BY <2>2, <3>1
      <3> QED BY <2>2, <3>1, <3>2, SizesAssumption
    <2> QED BY <2>1, <2>2 DEF Transmit
  <1>2. holdoff' \in 0..TxHoldoff
    BY SizesAssumption DEF Transmit, TypeOK
  <1> QED BY <1>1, <1>2 DEF Transmit, TypeOK, handles, flags

LEMMA WakeTyped ==
    ASSUME TypeOK, Wake
    PROVE  TypeOK'
  <1>1. sleep' \in 0..SleepReset /\ decisecs' \in 0..UpdateDecisecs
    BY SizesAssumption DEF Wake
  <1>2. alerter' \in Nat
    BY SettingsTyped DEF Wake, TypeOK
  <1> QED BY <1>1, <1>2 DEF Wake, TypeOK, handles, sent

LEMMA TurnTyped ==
    ASSUME TypeOK, Turn
    PROVE  TypeOK'
  <1>1. knob' \in 0..Notches
    BY SizesAssumption DEF Turn, TypeOK
  <1> QED BY <1>1 DEF Turn, TypeOK, flags, sent, timers

LEMMA TickTyped ==
    ASSUME TypeOK, Tick
    PROVE  TypeOK'
  <1>1. alerter' \in Nat
    BY DEF Tick, CountDown, TypeOK
  <1>2. sleep' \in 0..SleepReset /\ holdoff' \in 0..TxHoldoff
    BY SizesAssumption DEF Tick, CountDown, TypeOK
  <1>3. decisecs' \in 0..UpdateDecisecs
    BY SizesAssumption DEF Tick, TypeOK
  <1> QED BY <1>1, <1>2, <1>3 DEF Tick, TypeOK, handles, flags, sent

(* Only a status packet that is queued at the packet step is remembered as the last. *)
LEMMA QueuesPacket ==
    ASSUME TypeOK, Next, Queues
    PROVE  /\ SendPacket /\ PacketDue /\ QueuePacket
           /\ Newest = Status(SpeedNow, DirectionNow, mask) /\ Newest \in Packet
  <1>1. SendPacket
    BY DEF Queues, Next, Pass, Begin, SetThrottle, Screens, BuildMask, Timers, Transmit,
           Wake, Turn, Tick
  <1>2. PacketDue /\ QueuePacket
    BY <1>1 DEF SendPacket, Queues
  <1> DEFINE p == Status(SpeedNow, DirectionNow, mask)
  <1>3. queue' = Append(queue, p) /\ p \in Packet
    BY <1>2, PacketTyped DEF QueuePacket
  <1> HIDE DEF p
  <1>4. queue \in Seq(Packet)
    BY DEF TypeOK
  <1>5. Newest = p
    BY <1>3, <1>4 DEF Newest
  <1> QED BY <1>1, <1>2, <1>3, <1>5 DEF p

LEMMA StepTyped == HTypeOK /\ [HNext]_hvars => HTypeOK'
  <1> SUFFICES ASSUME HTypeOK, [HNext]_hvars PROVE HTypeOK'
    OBVIOUS
  <1> USE DEF HTypeOK
  <1>1. CASE HNext
    <2>1. TypeOK'
      BY <1>1, BeginTyped, SetThrottleTyped, ScreensTyped, BuildMaskTyped, TimersTyped,
         SendPacketTyped, TransmitTyped, WakeTyped, TurnTyped, TickTyped
         DEF HNext, Next, Pass
    <2>2. lastQueued' \in Packet
      BY <1>1, QueuesPacket DEF HNext, Remember
    <2>3. touched' \in 0..2
      BY <1>1 DEF HNext, Remember
    <2>4. idleSeen' \in BOOLEAN /\ penalised' \in BOOLEAN /\ slammed' \in BOOLEAN
          /\ woke' \in BOOLEAN /\ unlocked' \in BOOLEAN
      BY <1>1 DEF HNext, Remember
    <2>5. hums' \in BOOLEAN
      BY <1>1 DEF HNext, Remember, Loud
    <2>6. hush' \in {"none", "timely", "late"}
      BY <1>1 DEF HNext, Remember
    <2> QED BY <2>1, <2>2, <2>3, <2>4, <2>5, <2>6
  <1>2. CASE UNCHANGED hvars
    BY <1>2 DEF hvars, vars, history, TypeOK
  <1> QED BY <1>1, <1>2

(* Every variable of the pass, of the timers and of the queue keeps its type: the queue  *)
(* stays within MRBUS_TX_BUFFER_DEPTH and the counters within their bounds.              *)
THEOREM TypeCorrect == HSpec => []HTypeOK
  BY InitTyped, StepTyped, PTL DEF HSpec

-----------------------------------------------------------------------------
(* The invariants.                                                           *)

(* Under the penalty the alerter stays at zero, and from the mask to the packet the   *)
(* throttle is at idle with the brake applied.                                        *)
Penalty ==
    penalised =>
      /\ settings.alerter # 0 /\ alerter = 0 /\ reverser # "NEUTRAL"
      /\ pc = "timers" => alerterRead = 0
      /\ pc \in {"timers", "packet"} =>
           throttle = 0 /\ Mask("BRAKE_FN") \ settings.forceOff \subseteq mask

(* After a slam the lever's bit is set, and from the mask to the packet the status says so. *)
Slam ==
    slammed =>
      /\ settings.estopOnBrake /\ "BRAKE" \in estop
      /\ pc \in {"timers", "packet"} => emergency

(* Until the knob has been at idle the lock keeps the reverser on the direction sent. *)
Flip ==
    lastQueued.type = "S" =>
      /\ direction = lastQueued.direction
      /\ settings.reverserLock /\ ~idleSeen => reverser \in {"NEUTRAL", direction}

IInv == HTypeOK /\ LastIsQueued /\ Penalty /\ Slam /\ Flip

LEMMA InitLemma == HInit => IInv
  <1> SUFFICES ASSUME HInit PROVE IInv
    OBVIOUS
  <1>1. lastQueued.type = "v" /\ penalised = FALSE /\ slammed = FALSE
    BY DEF HInit, Version
  <1> QED BY <1>1, InitTyped DEF IInv, LastIsQueued, Penalty, Slam, Flip

LEMMA PenaltyKept == HTypeOK /\ Penalty /\ HNext => Penalty'
  <1> SUFFICES ASSUME HTypeOK, Penalty, HNext, penalised' PROVE Penalty'
    BY DEF Penalty
  <1> USE DEF HTypeOK
  <1>0. /\ penalised \/ (pc = "mask" /\ Expired /\ reverser # "NEUTRAL")
        /\ ~(pc = "begin" /\ pc' = "throttle" /\ reverser' = "NEUTRAL")
        /\ ~(pc = "screens" /\ alerter' # alerter) /\ pc # "asleep"
    BY DEF HNext, Remember
  <1>1. CASE Begin
    BY <1>0, <1>1 DEF Begin, Penalty, timers
  <1>2. CASE SetThrottle
    BY <1>0, <1>2 DEF SetThrottle, Penalty, timers
  <1>3. CASE Screens
    BY <1>0, <1>3 DEF Screens, Penalty
  <1>4. CASE BuildMask
    <2>1. Expired /\ settings.alerter # 0 /\ alerter = 0 /\ reverser # "NEUTRAL"
      BY <1>0, <1>4 DEF BuildMask, Penalty, Expired
    <2>2. Mask("BRAKE_FN") \subseteq AlerterFunctions
      BY <2>1 DEF AlerterFunctions
    <2>3. Mask("BRAKE_FN") \ settings.forceOff \subseteq mask'
      BY <1>4, <2>2 DEF BuildMask, Forced
    <2> QED BY <1>4, <2>1, <2>3 DEF BuildMask, Penalty, timers
  <1>5. CASE Timers
    <2>1. ~AlerterReset
      BY <1>0, <1>5 DEF Timers, Penalty, AlerterReset
    <2> QED BY <1>0, <1>5, <2>1 DEF Timers, Penalty
  <1>6. CASE SendPacket
    BY <1>0, <1>6 DEF SendPacket, Penalty
  <1>7. CASE Transmit
    BY <1>0, <1>7 DEF Transmit, Penalty
  <1>8. CASE Wake
    BY <1>0, <1>8 DEF Wake
  <1>9. CASE Turn
    BY <1>0, <1>9 DEF Turn, Penalty, timers
  <1>10. CASE Tick
    BY <1>0, <1>10 DEF Tick, Penalty, CountDown
  <1> QED BY <1>1, <1>2, <1>3, <1>4, <1>5, <1>6, <1>7, <1>8, <1>9, <1>10
          DEF HNext, Next, Pass

LEMMA SlamKept == HTypeOK /\ Slam /\ HNext => Slam'
  <1> SUFFICES ASSUME HTypeOK, Slam, HNext, slammed' PROVE Slam'
    BY DEF Slam
  <1> USE DEF HTypeOK
  <1>0. slammed' = IF pc = "begin" /\ pc' = "throttle" /\ settings.estopOnBrake
                   THEN input'.lever = "high" \/ (slammed /\ input'.lever # "low")
                   ELSE slammed
    BY DEF HNext, Remember
  <1>1. CASE Begin
    <2>1. PICK i \in Inputs: input' = i /\ estop' = BrakeEstop(i.lever)
      BY <1>1 DEF Begin
    <2>2. i.lever = "high" => estop' = estop \union {"BRAKE"} \/ ~settings.estopOnBrake
      BY <2>1 DEF BrakeEstop
    <2>3. i.lever \notin {"low", "high"} => estop' = estop \/ ~settings.estopOnBrake
      BY <2>1 DEF BrakeEstop
    <2> QED BY <1>0, <1>1, <2>1, <2>2, <2>3 DEF Begin, Slam
  <1>2. CASE BuildMask
    <2>1. slammed
      BY <1>0, <1>2 DEF BuildMask
    <2>2. "BRAKE" \in EstopNow
      BY <2>1 DEF Slam, EstopNow
    <2>3. estop' = EstopNow /\ settings' = settings /\ emergency' = (EstopNow # {})
      BY <1>2 DEF BuildMask
    <2>4. emergency'
      BY <2>2, <2>3
    <2> QED BY <2>1, <2>2, <2>3, <2>4 DEF Slam
  <1>3. CASE SetThrottle \/ Screens \/ Timers \/ SendPacket \/ Transmit \/ Wake \/ Turn
    BY <1>0, <1>3 DEF SetThrottle, Screens, Timers, SendPacket, Transmit, Wake, Turn, Slam,
                      flags
  <1>4. CASE Tick
    BY <1>0, <1>4 DEF Tick, Slam, flags
  <1> QED BY <1>1, <1>2, <1>3, <1>4 DEF HNext, Next, Pass

LEMMA FlipKept == HTypeOK /\ Flip /\ HNext => Flip'
  <1> SUFFICES ASSUME HTypeOK, Flip, HNext PROVE Flip'
    OBVIOUS
  <1> USE DEF HTypeOK
  <1>0. /\ lastQueued' = IF Queues THEN Newest ELSE lastQueued
        /\ idleSeen' = (knob' = 0 \/ (idleSeen /\ ~Queues)) /\ Next
    BY DEF HNext, Remember
  <1>1. CASE Queues
    <2>1. Newest = Status(SpeedNow, DirectionNow, mask) /\ SendPacket /\ QueuePacket
      BY <1>0, <1>1, QueuesPacket
    <2>2. /\ direction' = DirectionNow /\ lastQueued'.direction = DirectionNow
          /\ reverser' = reverser
      BY <1>0, <1>1, <2>1 DEF SendPacket, QueuePacket, Status
    <2> QED BY <2>2 DEF Flip, DirectionNow
  <1>2. CASE ~Queues
    <2>1. direction' = direction \/ SendPacket
      BY <1>0 DEF Next, Pass, Begin, SetThrottle, Screens, BuildMask, Timers, Transmit, Wake,
                  Turn, Tick, sent
    <2>2. SendPacket => direction' = direction
      <3>1. ASSUME QueuePacket, SendPacket PROVE queue' # queue
        <4> DEFINE p == Status(SpeedNow, DirectionNow, mask)
        <4>1. queue \in Seq(Packet) /\ queue' = Append(queue, p) /\ p \in Packet
          BY <3>1, PacketTyped DEF QueuePacket, TypeOK
        <4> HIDE DEF p
        <4> QED BY <4>1
      <3> QED BY <1>2, <3>1 DEF SendPacket, Queues
    <2>3. reverser' = reverser \/ Begin
      BY <1>0 DEF Next, Pass, SetThrottle, Screens, BuildMask, Timers, SendPacket, Transmit,
                  Wake, Turn, Tick
    <2>4. settings' = settings
      BY <1>0 DEF Next, Pass, Begin, SetThrottle, Screens, BuildMask, Timers, SendPacket,
                  Transmit, Wake, Turn, Tick
    <2>5. Begin /\ settings.reverserLock /\ ~idleSeen' => reverser' = reverser
      BY <1>0 DEF Begin, ReverserFor
    <2> QED BY <1>0, <1>2, <2>1, <2>2, <2>3, <2>4, <2>5 DEF Flip
  <1> QED BY <1>1, <1>2

LEMMA LastKept == HTypeOK /\ LastIsQueued /\ HNext => LastIsQueued'
  <1> SUFFICES ASSUME HTypeOK, LastIsQueued, HNext PROVE LastIsQueued'
    OBVIOUS
  <1> USE DEF HTypeOK
  <1>0. lastQueued' = (IF Queues THEN Newest ELSE lastQueued) /\ Next
    BY DEF HNext, Remember
  <1>1. CASE Queues
    <2>1. Newest = Status(SpeedNow, DirectionNow, mask) /\ QueuePacket
      BY <1>0, <1>1, QueuesPacket
    <2>2. /\ last'.reverser = reverser /\ last'.throttle = throttle /\ last'.mask = mask
          /\ last'.emergency = emergency
          /\ lastQueued' = Status(SpeedNow, DirectionNow, mask)
      BY <1>0, <1>1, <2>1 DEF QueuePacket
    <2>3. lastQueued'.speed = SpeedNow /\ lastQueued'.direction = DirectionNow
          /\ lastQueued'.mask = mask
      BY <2>2 DEF Status
    <2>4. throttle = 0 \/ emergency \/ SpeedNow = throttle + 1
      BY DEF SpeedNow
    <2>5. emergency <=> SpeedNow = EStop
      <3>1. throttle \in Nat
        BY SizesAssumption DEF TypeOK
      <3> QED BY <3>1 DEF SpeedNow, EStop
    <2>6. reverser \in {"NEUTRAL", DirectionNow}
      BY DEF DirectionNow
    <2> QED BY <2>2, <2>3, <2>4, <2>5, <2>6 DEF LastIsQueued
  <1>2. CASE ~Queues
    <2>1. lastQueued' = lastQueued
      BY <1>0, <1>2
    <2>2. CASE BuildMask
      <3>1. last' = [reverser |-> last.reverser,
                     throttle |-> IF Expired THEN 0 ELSE last.throttle,
                     mask |-> last.mask \union AlerterFunctions, emergency |-> last.emergency]
        BY <2>2 DEF BuildMask, EnteredAsSent, TypeOK
      <3>2. AlerterFunctions \subseteq Mask("ALERTER_FN") \union Mask("BRAKE_FN")
        BY DEF AlerterFunctions
      <3>3. UNCHANGED Mask("ALERTER_FN") /\ UNCHANGED Mask("BRAKE_FN")
        BY DEF Mask
      <3> QED BY <2>1, <3>1, <3>2, <3>3 DEF LastIsQueued
    <2>3. CASE ~BuildMask
      <3>1. last' = last
        <4>1. ASSUME QueuePacket, SendPacket PROVE queue' # queue
          <5> DEFINE p == Status(SpeedNow, DirectionNow, mask)
          <5>1. queue \in Seq(Packet) /\ queue' = Append(queue, p) /\ p \in Packet
            BY <4>1, PacketTyped DEF QueuePacket, TypeOK
          <5> HIDE DEF p
          <5> QED BY <5>1
        <4>2. SendPacket => last' = last
          BY <1>2, <4>1 DEF SendPacket, Queues
        <4> QED BY <1>0, <2>3, <4>2 DEF Next, Pass, Begin, SetThrottle, Screens, Timers,
                                        Transmit, Wake, Turn, Tick, sent
      <3> QED BY <2>1, <3>1 DEF LastIsQueued, Mask
    <2> QED BY <2>2, <2>3
  <1> QED BY <1>1, <1>2

LEMMA StepLemma == IInv /\ [HNext]_hvars => IInv'
  <1>1. IInv /\ HNext => IInv'
    BY StepTyped, PenaltyKept, SlamKept, FlipKept, LastKept DEF IInv
  <1>2. IInv /\ UNCHANGED hvars => IInv'
    <2> SUFFICES ASSUME IInv, UNCHANGED hvars PROVE IInv'
      OBVIOUS
    <2>1. HTypeOK'
      BY StepTyped DEF IInv
    <2>2. LastIsQueued'
      BY DEF IInv, LastIsQueued, hvars, vars, history, Mask
    <2>3. Penalty' /\ Slam' /\ Flip'
      BY DEF IInv, Penalty, Slam, Flip, hvars, vars, history, Mask
    <2> QED BY <2>1, <2>2, <2>3 DEF IInv
  <1> QED BY <1>1, <1>2

-----------------------------------------------------------------------------
(* The theorems.                                                             *)

(* The comparison of a pass with last.. stands for a comparison with the last packet    *)
(* queued, for any functions, any options and any depth of the queue (6541-6559).        *)
THEOREM LastAlwaysQueued == HSpec => []LastIsQueued
  <1>1. IInv => LastIsQueued
    BY DEF IInv
  <1> QED BY <1>1, InitLemma, StepLemma, PTL DEF HSpec

(* While the alerter's penalty is on, no packet moves the locomotive or releases its     *)
(* brake (6549-6558).                                                                    *)
THEOREM PenaltyAlwaysHolds == HSpec => PenaltyHolds
  <1>1. IInv /\ [HNext]_hvars =>
          [Queues /\ penalised =>
             ~Moves(Newest) /\ Mask("BRAKE_FN") \ settings.forceOff \subseteq Newest.mask]_hvars
    <2> SUFFICES ASSUME IInv, HNext, Queues, penalised
                 PROVE  ~Moves(Newest)
                        /\ Mask("BRAKE_FN") \ settings.forceOff \subseteq Newest.mask
      OBVIOUS
    <2>1. Newest = Status(SpeedNow, DirectionNow, mask)
      BY QueuesPacket DEF IInv, HTypeOK, HNext
    <2>2. throttle = 0 /\ Mask("BRAKE_FN") \ settings.forceOff \subseteq mask
      BY DEF IInv, Penalty, Queues
    <2> QED BY <2>1, <2>2 DEF Moves, Status, SpeedNow, EStop
  <1> QED BY <1>1, InitLemma, StepLemma, PTL DEF HSpec, PenaltyHolds

(* From a slam of the lever until it is back at rest every packet is an emergency stop    *)
(* (2423-2432).                                                                          *)
THEOREM SlamAlwaysHolds == HSpec => SlamHolds
  <1>1. IInv /\ [HNext]_hvars => [Queues /\ slammed => Newest.speed = EStop]_hvars
    <2> SUFFICES ASSUME IInv, HNext, Queues, slammed PROVE Newest.speed = EStop
      OBVIOUS
    <2>1. Newest = Status(SpeedNow, DirectionNow, mask)
      BY QueuesPacket DEF IInv, HTypeOK, HNext
    <2>2. emergency
      BY DEF IInv, Slam, Queues
    <2> QED BY <2>1, <2>2 DEF Status, SpeedNow
  <1> QED BY <1>1, InitLemma, StepLemma, PTL DEF HSpec, SlamHolds

(* With the reverser lock the direction on the air changes only if the knob has been at   *)
(* idle since the packet before, whenever its interrupt runs (2636).                      *)
THEOREM DirectionLocked == HSpec => FlipsAtIdle
  <1>1. IInv /\ [HNext]_hvars =>
          [Queues /\ settings.reverserLock /\ Newest.direction # lastQueued.direction
             => lastQueued.type = "v" \/ idleSeen]_hvars
    <2> SUFFICES ASSUME IInv, HNext, Queues, settings.reverserLock, ~idleSeen,
                        lastQueued.type # "v"
                 PROVE  Newest.direction = lastQueued.direction
      OBVIOUS
    <2>1. Newest = Status(SpeedNow, DirectionNow, mask)
      BY QueuesPacket DEF IInv, HTypeOK, HNext
    <2>2. lastQueued.type = "S"
      BY DEF IInv, HTypeOK, Packet
    <2>3. DirectionNow = lastQueued.direction
      BY <2>2 DEF IInv, Flip, DirectionNow
    <2> QED BY <2>1, <2>3 DEF Status
  <1> QED BY <1>1, InitLemma, StepLemma, PTL DEF HSpec, FlipsAtIdle

-----------------------------------------------------------------------------
(* Waking up in idle.                                                        *)

LEMMA SameSettings == Next => settings' = settings
  BY DEF Next, Pass, Begin, SetThrottle, Screens, BuildMask, Timers, SendPacket, Transmit,
         Wake, Turn, Tick

(* Under strict sleep the timer is full at the packet of a pass off neutral, so the one     *)
(* tick that can still fall in the pass does not run it out: a throttle asleep by itself    *)
(* is in neutral, and the lock keeps it there, and its throttle at idle, until the knob is. *)
StrictlyAwake ==
    settings.strictSleep /\ reverser # "NEUTRAL" =>
      /\ pc = "packet" => sleep = SleepReset
      /\ pc = "transmit" => sleep = SleepReset \/ (ticked /\ sleep = SleepReset - 1)
      /\ pc = "asleep" => sleepForced

WokenInNeutral ==
    /\ woke => knob # 0
    /\ woke /\ settings.reverserLock /\ settings.strictSleep =>
         /\ reverser = "NEUTRAL"
         /\ pc \in {"screens", "mask", "timers", "packet"} /\ ~unlocked => throttle = 0

WakeInv == HTypeOK /\ StrictlyAwake /\ WokenInNeutral

LEMMA StrictlyAwakeKept == HTypeOK /\ StrictlyAwake /\ HNext => StrictlyAwake'
  <1> SUFFICES ASSUME HTypeOK, StrictlyAwake, HNext,
                      settings'.strictSleep, reverser' # "NEUTRAL"
               PROVE  /\ pc' = "packet" => sleep' = SleepReset
                      /\ pc' = "transmit" =>
                           sleep' = SleepReset \/ (ticked' /\ sleep' = SleepReset - 1)
                      /\ pc' = "asleep" => sleepForced'
    BY DEF StrictlyAwake
  <1>1. Next /\ settings' = settings
    BY SameSettings DEF HNext
  <1>2. CASE Begin \/ SetThrottle \/ Screens \/ BuildMask \/ Wake \/ Turn
    BY <1>2 DEF Begin, SetThrottle, Screens, BuildMask, Wake, Turn
  <1>3. CASE Timers
    BY <1>1, <1>3 DEF Timers, SleepResetNow
  <1>4. CASE SendPacket
    BY <1>1, <1>4 DEF SendPacket, StrictlyAwake
  <1>5. CASE Transmit
    <2>1. sleep = SleepReset \/ sleep = SleepReset - 1
      BY <1>1, <1>5 DEF Transmit, StrictlyAwake
    <2>2. sleep # 0
      BY <2>1, SizesAssumption
    <2> QED BY <1>5, <2>2 DEF Transmit, flags
  <1>6. CASE Tick
    <2>1. pc' = "transmit" => ~ticked
      BY <1>6 DEF Tick
    <2>2. pc' = "transmit" => sleep = SleepReset
      BY <1>1, <1>6, <2>1 DEF Tick, StrictlyAwake
    <2>3. pc' = "transmit" => ticked' /\ sleep' = SleepReset - 1
      BY <1>6, <2>2, SizesAssumption DEF Tick, CountDown
    <2>4. pc' \in {"begin", "timers", "transmit"}
      BY <1>6 DEF Tick
    <2> QED BY <2>3, <2>4
  <1> QED BY <1>1, <1>2, <1>3, <1>4, <1>5, <1>6 DEF Next, Pass

LEMMA WokenKept == HTypeOK /\ StrictlyAwake /\ WokenInNeutral /\ HNext => WokenInNeutral'
  <1> SUFFICES ASSUME HTypeOK, StrictlyAwake, WokenInNeutral, HNext, woke'
               PROVE  /\ knob' # 0
                      /\ settings'.reverserLock /\ settings'.strictSleep =>
                           /\ reverser' = "NEUTRAL"
                           /\ pc' \in {"screens", "mask", "timers", "packet"} /\ ~unlocked' =>
                                throttle' = 0
    BY DEF WokenInNeutral
  <1>1. knob' # 0 /\ (woke \/ (pc = "asleep" /\ ~sleepForced))
    BY DEF HNext, Remember
  <1>2. Next /\ settings' = settings
    BY SameSettings DEF HNext
  <1>3. unlocked' = IF pc = "throttle" /\ pc' = "screens"
                    THEN mask \intersect Mask("THR_UNLOCK_FN") # {} ELSE unlocked
    BY DEF HNext, Remember
  <1> SUFFICES ASSUME settings.reverserLock, settings.strictSleep
               PROVE  /\ reverser' = "NEUTRAL"
                      /\ pc' \in {"screens", "mask", "timers", "packet"} /\ ~unlocked' =>
                           throttle' = 0
    BY <1>1, <1>2
  <1>4. reverser = "NEUTRAL"
    BY <1>1 DEF WokenInNeutral, StrictlyAwake
  <1>5. CASE Begin
    <2>1. woke /\ knob # 0
      BY <1>1, <1>5 DEF Begin, WokenInNeutral
    <2> QED BY <1>4, <1>5, <2>1 DEF Begin, ReverserFor
  <1>6. CASE SetThrottle
    BY <1>3, <1>4, <1>6 DEF SetThrottle, ThrottleNow
  <1>7. CASE Screens \/ Timers
    BY <1>1, <1>3, <1>4, <1>7 DEF Screens, Timers, WokenInNeutral
  <1>8. CASE BuildMask
    BY <1>1, <1>3, <1>4, <1>8 DEF BuildMask, WokenInNeutral
  <1>9. CASE SendPacket \/ Transmit \/ Wake \/ Turn
    BY <1>4, <1>9 DEF SendPacket, Transmit, Wake, Turn
  <1>10. CASE Tick
    BY <1>1, <1>3, <1>4, <1>10 DEF Tick, WokenInNeutral
  <1> QED BY <1>2, <1>5, <1>6, <1>7, <1>8, <1>9, <1>10 DEF Next, Pass

LEMMA WakeInit == HInit => WakeInv
  BY InitTyped DEF HInit, Init, WakeInv, StrictlyAwake, WokenInNeutral

LEMMA WakeStep == WakeInv /\ [HNext]_hvars => WakeInv'
  <1>1. WakeInv /\ HNext => WakeInv'
    BY StepTyped, StrictlyAwakeKept, WokenKept DEF WakeInv
  <1>2. WakeInv /\ UNCHANGED hvars => WakeInv'
    BY StepTyped DEF WakeInv, StrictlyAwake, WokenInNeutral, hvars, vars, history
  <1> QED BY <1>1, <1>2

(* With the reverser lock and strict sleep, a throttle that fell asleep by itself wakes up  *)
(* in idle and no packet moves the locomotive until the knob has been at idle, wherever it  *)
(* was left (6645), unless the throttle was unlocked in neutral.                            *)
THEOREM WakesInIdle == HSpec => WakesIdle
  <1>1. WakeInv /\ [HNext]_hvars =>
          [Queues /\ woke /\ settings.reverserLock /\ settings.strictSleep /\ ~unlocked
             => ~Moves(Newest)]_hvars
    <2> SUFFICES ASSUME WakeInv, HNext, Queues, woke, settings.reverserLock,
                        settings.strictSleep, ~unlocked
                 PROVE  ~Moves(Newest)
      OBVIOUS
    <2>1. Newest = Status(SpeedNow, DirectionNow, mask)
      BY QueuesPacket DEF WakeInv, HTypeOK, HNext
    <2>2. throttle = 0
      BY DEF WakeInv, WokenInNeutral, Queues
    <2> QED BY <2>1, <2>2 DEF Moves, Status, SpeedNow, EStop
  <1> QED BY <1>1, WakeInit, WakeStep, PTL DEF HSpec, WakesIdle

-----------------------------------------------------------------------------
(* Acknowledging the warning.                                                *)

(* The emergency of the crew's own making, the functions the handles ask for, and what      *)
(* the comparison with last.. is deaf to while the throttle is left alone.                  *)
Alarm == "BRAKE" \in estop \/ (input.aux /\ IsEstop("AUX_FN"))
FromAux == IF input.aux THEN Mask("AUX_FN") ELSE {}
FromBrake == IF input.brake THEN Mask("BRAKE_FN") ELSE {}
Unheard == Mask("ALERTER_FN") \union IdleFunctions
Asked ==
    (Forced(FromAux \union FromBrake) \union (IF Alarm THEN Mask("EMERGENCY_FN") ELSE {}))
      \ Unheard

(* Once the crew has let go for a packet, the swapping function in the mask is what the     *)
(* controls ask for; from the next pass on the reverser is where its handle is, or locked.  *)
SwapSettled ==
    pc \in {"timers", "packet", "transmit"} \/ touched < 2 =>
      mask \intersect Mask("REV_SWAP_FN") = Forced(FromAux) \intersect Mask("REV_SWAP_FN")

ReverserSettled ==
    (\/ touched = 0
     \/ touched < 2 /\ pc \in {"throttle", "screens", "mask", "timers", "packet"}) =>
      (~settings.reverserLock \/ knob = 0 => reverser = Swapped(input.reverser))

(* The e-stop bit of the lever is the one its position gives. *)
LeverBit ==
    /\ ~settings.estopOnBrake \/ input.lever = "low" => "BRAKE" \notin estop
    /\ settings.estopOnBrake /\ input.lever = "high" => "BRAKE" \in estop

(* Off neutral, and but for the penalty, a pass computes what the crew asks for. *)
PassComputes ==
    reverser # "NEUTRAL" =>
      /\ pc \in {"screens", "mask"} => throttle = knob
      /\ pc \in {"timers", "packet"} /\ ~penalised =>
           throttle = knob /\ emergency = Alarm /\ mask \ Unheard = Asked

(* Two packets after the crew has let go, last.. is what it asks for. *)
LastAsked ==
    touched = 0 /\ reverser # "NEUTRAL" /\ ~penalised =>
      /\ last.reverser = reverser /\ last.throttle = knob /\ last.emergency = Alarm
      /\ last.mask \ Unheard = Asked

(* The warning is in the mask and entered as sent. *)
WarningEntered ==
    pc = "timers" /\ settings.alerter # 0 /\ alerterRead < AlerterWarn =>
      Mask("ALERTER_FN") \subseteq mask /\ Mask("ALERTER_FN") \subseteq last.mask

ButtonTouches ==
    /\ input.button => touched = 2
    /\ settings.alerter = 0 => alerter = 0

AckInv ==
    /\ HTypeOK /\ Penalty /\ SwapSettled /\ ReverserSettled /\ LeverBit /\ PassComputes
    /\ LastAsked /\ WarningEntered /\ ButtonTouches

(* A step that is no touch leaves the crew's readings alone. *)
LEMMA LetGo ==
    ASSUME HTypeOK, HNext, touched' < 2
    PROVE  /\ input' = input /\ knob' = knob /\ ~input.button /\ pc # "asleep"
           /\ touched' = touched \/ (Queues /\ touched' = touched - 1)
  BY DEF HNext, Remember, HTypeOK

(* What is in the mask of the controls. *)
LEMMA ControlsAre ==
    \A c, f: f \in ControlFunctions(c) <=>
               \/ f \in FromAux \/ f \in FromBrake
               \/ settings.airbrake /\ ~SleepImminent /\ c /\ f \in Mask("COMPRESSOR_FN")
               \/ reverser = "NEUTRAL" /\ f \in Mask("NEUTRAL_FN")
  BY DEF ControlFunctions, FromAux, FromBrake

(* The mask that a pass builds. *)
LEMMA MaskBuilt ==
    ASSUME HTypeOK, BuildMask
    PROVE  /\ mask' = Forced(ControlFunctions(compressor') \union AlerterFunctions)
                        \union (IF EstopNow # {} THEN Mask("EMERGENCY_FN") ELSE {})
           /\ AlerterFunctions \subseteq Mask("ALERTER_FN") \union Mask("BRAKE_FN")
           /\ ~Expired => AlerterFunctions \subseteq Mask("ALERTER_FN")
           /\ ~Expired => (EstopNow # {} <=> Alarm)
  <1>1. ~Expired => (EstopNow # {} <=> Alarm)
    <2>1. estop \subseteq {"BRAKE", "BUTTON", "ALERTER"}
      BY DEF HTypeOK, TypeOK
    <2> SUFFICES ASSUME ~Expired PROVE EstopNow # {} <=> Alarm
      OBVIOUS
    <2>2. EstopNow = (estop \ {"BUTTON", "ALERTER"})
                       \union (IF input.aux /\ IsEstop("AUX_FN") THEN {"BUTTON"} ELSE {})
      BY DEF EstopNow
    <2>3. CASE Alarm
      BY <2>2, <2>3 DEF Alarm
    <2>4. CASE ~Alarm
      BY <2>1, <2>2, <2>4 DEF Alarm
    <2> QED BY <2>3, <2>4
  <1> QED BY <1>1 DEF BuildMask, AlerterFunctions

LEMMA SwapBuilt ==
    ASSUME FunctionsApart(Settings), HTypeOK, BuildMask
    PROVE  mask' \intersect Mask("REV_SWAP_FN")
             = Forced(FromAux) \intersect Mask("REV_SWAP_FN")
  <1> DEFINE C == ControlFunctions(compressor')
             E == IF EstopNow # {} THEN Mask("EMERGENCY_FN") ELSE {}
  <1>1. mask' = Forced(C \union AlerterFunctions) \union E
    BY MaskBuilt
  <1>2. \A f \in Mask("REV_SWAP_FN"):
          /\ f \notin Mask("ALERTER_FN") /\ f \notin Mask("BRAKE_FN")
          /\ f \notin Mask("COMPRESSOR_FN") /\ f \notin Mask("EMERGENCY_FN")
          /\ f \notin Mask("NEUTRAL_FN")
    BY DEF FunctionsApart
  <1>3. \A f \in Mask("REV_SWAP_FN"): f \notin E /\ f \notin AlerterFunctions
    BY <1>2, MaskBuilt
  <1>4. \A f \in Mask("REV_SWAP_FN"): f \in C <=> f \in FromAux
    BY <1>2, ControlsAre DEF FromBrake
  <1> HIDE DEF C, E
  <1> QED BY <1>1, <1>3, <1>4 DEF Forced

LEMMA AskedBuilt ==
    ASSUME HTypeOK, BuildMask, ~Expired, reverser # "NEUTRAL"
    PROVE  mask' \ Unheard = Asked /\ emergency' = Alarm
  <1> DEFINE C == ControlFunctions(compressor')
             E == IF Alarm THEN Mask("EMERGENCY_FN") ELSE {}
  <1>1. mask' = Forced(C \union AlerterFunctions) \union E
    BY MaskBuilt
  <1>2. \A f: f \notin Unheard =>
          /\ f \notin AlerterFunctions
          /\ f \in C <=> f \in FromAux \union FromBrake
    BY MaskBuilt, ControlsAre DEF Unheard, IdleFunctions
  <1>3. emergency' = Alarm
    BY MaskBuilt DEF BuildMask, Alarm
  <1>4. Asked = (Forced(FromAux \union FromBrake) \union E) \ Unheard
    BY DEF Asked
  <1> HIDE DEF C, E
  <1>5. \A f: f \in mask' \ Unheard <=> f \in Asked
    BY <1>1, <1>2, <1>4 DEF Forced
  <1>6. mask' \ Unheard = Asked
    BY <1>5, <1>4
  <1> QED BY <1>3, <1>6

(* The same controls ask for the same. *)
LEMMA SameAsked ==
    ASSUME settings' = settings, input' = input, "BRAKE" \in estop' <=> "BRAKE" \in estop
    PROVE  Asked' = Asked /\ Alarm' = Alarm /\ Unheard' = Unheard
  <1>1. Alarm' = Alarm
    BY DEF Alarm, IsEstop
  <1>2. Unheard' = Unheard
    BY DEF Unheard, IdleFunctions, Mask
  <1>3. Asked' = Asked
    BY <1>1, <1>2 DEF Asked, Forced, FromAux, FromBrake, Mask
  <1> QED BY <1>1, <1>2, <1>3

LEMMA SwapSettledKept ==
    ASSUME FunctionsApart(Settings), HTypeOK, SwapSettled, HNext
    PROVE  SwapSettled'
  <1> SUFFICES ASSUME pc' \in {"timers", "packet", "transmit"} \/ touched' < 2
               PROVE  mask' \intersect Mask("REV_SWAP_FN")'
                        = Forced(FromAux)' \intersect Mask("REV_SWAP_FN")'
    BY DEF SwapSettled
  <1>1. Next /\ settings' = settings /\ Mask("REV_SWAP_FN")' = Mask("REV_SWAP_FN")
    BY SameSettings DEF HNext, Mask
  <1>2. input' = input => Forced(FromAux)' = Forced(FromAux)
    BY <1>1 DEF Forced, FromAux, Mask
  <1>3. touched' < 2 => (input' = input /\ touched < 2) \/ SendPacket
    <2>1. Queues => SendPacket
      BY QueuesPacket DEF HNext, HTypeOK
    <2> QED BY <2>1, LetGo
  <1>4. CASE BuildMask
    BY <1>1, <1>2, <1>4, SwapBuilt DEF BuildMask, handles
  <1>5. CASE ~BuildMask
    <2>1. mask' = mask
      BY <1>1, <1>5 DEF Next, Pass, Begin, SetThrottle, Screens, Timers, SendPacket, Transmit,
                        Wake, Turn, Tick
    <2>2. /\ pc \in {"timers", "packet", "transmit"} \/ touched < 2
          /\ input' = input
      <3>1. CASE Begin \/ SetThrottle \/ Screens \/ Wake \/ Turn
        <4>1. pc' \notin {"timers", "packet", "transmit"}
          BY <3>1 DEF Begin, SetThrottle, Screens, Wake, Turn
        <4>2. ~SendPacket
          BY <3>1 DEF SendPacket, Begin, SetThrottle, Screens, Wake, Turn
        <4> QED BY <1>3, <4>1, <4>2
      <3>2. CASE Timers \/ SendPacket \/ Transmit
        BY <3>2 DEF Timers, SendPacket, Transmit, handles
      <3>3. CASE Tick
        BY <1>3, <3>3 DEF Tick, SendPacket, handles
      <3> QED BY <1>1, <1>5, <3>1, <3>2, <3>3 DEF Next, Pass
    <2> QED BY <1>1, <1>2, <2>1, <2>2 DEF SwapSettled
  <1> QED BY <1>4, <1>5

(* The reverser's position depends on the mask by the swapping function only. *)
LEMMA SameSwapped ==
    ASSUME settings' = settings, input' = input,
           mask' \intersect Mask("REV_SWAP_FN") = mask \intersect Mask("REV_SWAP_FN")
    PROVE  Swapped(input.reverser)' = Swapped(input.reverser)
  BY DEF Swapped, Mask

LEMMA ReverserSettledKept ==
    ASSUME FunctionsApart(Settings), HTypeOK, SwapSettled, ReverserSettled, HNext
    PROVE  ReverserSettled'
  <1> SUFFICES ASSUME \/ touched' = 0
                      \/ /\ touched' < 2
                         /\ pc' \in {"throttle", "screens", "mask", "timers", "packet"},
                      ~settings'.reverserLock \/ knob' = 0
               PROVE  reverser' = Swapped(input.reverser)'
    BY DEF ReverserSettled
  <1>1. Next /\ settings' = settings
    BY SameSettings DEF HNext
  <1>2. /\ input' = input /\ knob' = knob
        /\ touched' = touched \/ (Queues /\ touched' = touched - 1)
    BY LetGo
  <1>3. touched \in 0..2
    BY DEF HTypeOK
  <1>4. touched' = touched \/ (SendPacket /\ touched' = touched - 1)
    BY <1>2, QueuesPacket DEF HNext, HTypeOK
  <1>5. touched < 2
    <2>1. touched' < 2
      OBVIOUS
    <2>2. CASE touched' = touched
      BY <2>1, <2>2
    <2>3. CASE SendPacket /\ touched' = touched - 1
      <3>1. pc' = "transmit"
        BY <2>3 DEF SendPacket
      <3>2. touched' = 0
        BY <3>1
      <3> QED BY <1>3, <2>3, <3>2
    <2> QED BY <1>4, <2>2, <2>3
  <1>6. mask' \intersect Mask("REV_SWAP_FN") = mask \intersect Mask("REV_SWAP_FN")
    <2>1. CASE BuildMask
      <3>1. mask' \intersect Mask("REV_SWAP_FN") = Forced(FromAux) \intersect Mask("REV_SWAP_FN")
        BY <2>1, SwapBuilt
      <3> QED BY <1>5, <3>1 DEF SwapSettled
    <2>2. CASE ~BuildMask
      BY <1>1, <2>2 DEF Next, Pass, Begin, SetThrottle, Screens, Timers, SendPacket, Transmit,
                        Wake, Turn, Tick
    <2> QED BY <2>1, <2>2
  <1>7. Swapped(input.reverser)' = Swapped(input.reverser)
    BY <1>1, <1>2, <1>6, SameSwapped
  <1>8. CASE Begin
    <2>1. reverser' = ReverserFor(input.reverser)
      BY <1>2, <1>8 DEF Begin
    <2> QED BY <1>1, <1>2, <1>7, <2>1 DEF ReverserFor
  <1>9. CASE ~Begin
    <2>1. reverser' = reverser
      BY <1>1, <1>9 DEF Next, Pass, SetThrottle, Screens, BuildMask, Timers, SendPacket,
                        Transmit, Wake, Turn, Tick
    <2>2. touched = 0 \/ pc \in {"throttle", "screens", "mask", "timers", "packet"}
      <3>1. CASE touched' = touched
        <4>1. touched = 0 \/ pc' \in {"throttle", "screens", "mask", "timers", "packet"}
          BY <3>1
        <4>2. pc' \in {"throttle", "screens", "mask", "timers", "packet"} =>
                pc \in {"throttle", "screens", "mask", "timers", "packet"}
          BY <1>1, <1>9 DEF Next, Pass, SetThrottle, Screens, BuildMask, Timers, SendPacket,
                            Transmit, Wake, Turn, Tick
        <4> QED BY <4>1, <4>2
      <3>2. CASE SendPacket
        BY <3>2 DEF SendPacket
      <3> QED BY <1>4, <3>1, <3>2
    <2>3. reverser = Swapped(input.reverser)
      BY <1>1, <1>2, <1>5, <2>2 DEF ReverserSettled
    <2> QED BY <1>7, <2>1, <2>3
  <1> QED BY <1>8, <1>9

LEMMA LeverBitKept == HTypeOK /\ LeverBit /\ HNext => LeverBit'
  <1> SUFFICES ASSUME HTypeOK, LeverBit, HNext PROVE LeverBit'
    OBVIOUS
  <1>1. Next /\ settings' = settings
    BY SameSettings DEF HNext
  <1>2. CASE Begin
    <2>1. PICK i \in Inputs: input' = i /\ estop' = BrakeEstop(i.lever)
      BY <1>2 DEF Begin
    <2> QED BY <1>1, <2>1 DEF BrakeEstop, LeverBit
  <1>3. CASE BuildMask
    BY <1>1, <1>3 DEF BuildMask, EstopNow, LeverBit, handles
  <1>4. CASE ~Begin /\ ~BuildMask
    <2>1. input' = input /\ estop' = estop
      BY <1>1, <1>4 DEF Next, Pass, SetThrottle, Screens, Timers, SendPacket, Transmit, Wake,
                        Turn, Tick, handles
    <2> QED BY <1>1, <2>1 DEF LeverBit
  <1> QED BY <1>2, <1>3, <1>4

LEMMA PassComputesKept == HTypeOK /\ PassComputes /\ HNext => PassComputes'
  <1> SUFFICES ASSUME HTypeOK, PassComputes, HNext, reverser' # "NEUTRAL"
               PROVE  /\ pc' \in {"screens", "mask"} => throttle' = knob'
                      /\ pc' \in {"timers", "packet"} /\ ~penalised' =>
                           throttle' = knob' /\ emergency' = Alarm'
                             /\ mask' \ Unheard' = Asked'
    BY DEF PassComputes
  <1>1. Next /\ settings' = settings
    BY SameSettings DEF HNext
  <1>2. penalised' =
         (/\ penalised \/ (pc = "mask" /\ Expired /\ reverser # "NEUTRAL")
          /\ ~(pc = "begin" /\ pc' = "throttle" /\ reverser' = "NEUTRAL")
          /\ ~(pc = "screens" /\ alerter' # alerter)
          /\ pc # "asleep")
    BY DEF HNext, Remember
  <1>3. CASE Begin \/ SendPacket \/ Transmit \/ Wake \/ Turn
    BY <1>3 DEF Begin, SendPacket, Transmit, Wake, Turn
  <1>4. CASE SetThrottle
    BY <1>4 DEF SetThrottle, ThrottleNow, handles
  <1>5. CASE Screens
    BY <1>5 DEF Screens, PassComputes, handles
  <1>6. CASE BuildMask
    <2>1. ~penalised' => ~Expired
      BY <1>2, <1>6 DEF BuildMask
    <2>2. reverser # "NEUTRAL" /\ throttle = knob /\ knob' = knob /\ pc' = "timers"
          /\ input' = input
      BY <1>6 DEF BuildMask, PassComputes, handles
    <2>3. "BRAKE" \in estop' <=> "BRAKE" \in estop
      BY <1>6 DEF BuildMask, EstopNow
    <2>4. ~penalised' => throttle' = throttle
      BY <1>6, <2>1 DEF BuildMask
    <2>5. Asked' = Asked /\ Alarm' = Alarm /\ Unheard' = Unheard
      BY <1>1, <2>2, <2>3, SameAsked
    <2>6. ~penalised' => mask' \ Unheard = Asked /\ emergency' = Alarm
      BY <1>6, <2>1, <2>2, AskedBuilt
    <2> QED BY <2>2, <2>4, <2>5, <2>6
  <1>7. CASE Timers \/ Tick
    <2>1. input' = input /\ knob' = knob /\ estop' = estop /\ reverser' = reverser
          /\ throttle' = throttle /\ emergency' = emergency /\ mask' = mask
      BY <1>7 DEF Timers, Tick, handles, flags
    <2>2. pc' \in {"timers", "packet"} => pc \in {"timers", "packet"}
      BY <1>7 DEF Timers, Tick
    <2>3. pc' \notin {"screens", "mask"}
      BY <1>7 DEF Timers, Tick
    <2>4. pc' \in {"timers", "packet"} /\ ~penalised' => ~penalised
      BY <1>2, <2>2
    <2>5. Asked' = Asked /\ Alarm' = Alarm /\ Unheard' = Unheard
      BY <1>1, <2>1, SameAsked
    <2> QED BY <2>1, <2>2, <2>3, <2>4, <2>5 DEF PassComputes
  <1> QED BY <1>1, <1>3, <1>4, <1>5, <1>6, <1>7 DEF Next, Pass

(* A step two packets after the crew has let go, off neutral and without the penalty. *)
LEMMA LeftAloneStep ==
    ASSUME HTypeOK, ReverserSettled, LeverBit, HNext,
           touched' = 0, reverser' # "NEUTRAL", ~penalised'
    PROVE  /\ input' = input /\ knob' = knob /\ ~penalised
           /\ Asked' = Asked /\ Alarm' = Alarm /\ Unheard' = Unheard
           /\ BuildMask => ~Expired
           /\ Queues \/ (touched = 0 /\ reverser' = reverser)
  <1>1. Next /\ settings' = settings
    BY SameSettings DEF HNext
  <1>2. /\ input' = input /\ knob' = knob /\ ~input.button /\ pc # "asleep"
        /\ touched' = touched \/ (Queues /\ touched' = touched - 1)
    BY LetGo
  <1>3. penalised' =
         (/\ penalised \/ (pc = "mask" /\ Expired /\ reverser # "NEUTRAL")
          /\ ~(pc = "begin" /\ pc' = "throttle" /\ reverser' = "NEUTRAL")
          /\ ~(pc = "screens" /\ alerter' # alerter)
          /\ pc # "asleep")
    BY DEF HNext, Remember
  <1>4. ~penalised
    <2>1. pc = "screens" => alerter' = alerter
      BY <1>1, <1>2 DEF Next, Pass, Begin, SetThrottle, Screens, PowerDown, SavePrefs,
                        AnswerVersion, AnswerRead, NothingElse, BuildMask, Timers, SendPacket,
                        Transmit, Wake, Turn, Tick
    <2> QED BY <1>2, <1>3, <2>1
  <1>5. "BRAKE" \in estop' <=> "BRAKE" \in estop
    <2>1. CASE Begin
      <3>1. estop' = BrakeEstop(input.lever)
        BY <1>2, <2>1 DEF Begin
      <3> QED BY <3>1 DEF BrakeEstop, LeverBit
    <2>2. CASE BuildMask
      BY <2>2 DEF BuildMask, EstopNow
    <2>3. CASE ~Begin /\ ~BuildMask
      BY <1>1, <2>3 DEF Next, Pass, SetThrottle, Screens, Timers, SendPacket, Transmit, Wake,
                        Turn, Tick
    <2> QED BY <2>1, <2>2, <2>3
  <1>6. Asked' = Asked /\ Alarm' = Alarm /\ Unheard' = Unheard
    BY <1>1, <1>2, <1>5, SameAsked
  <1>7. BuildMask => ~Expired
    BY <1>3 DEF BuildMask
  <1>8. ASSUME ~Queues PROVE touched = 0 /\ reverser' = reverser
    <2>1. touched = 0
      BY <1>2, <1>8
    <2>2. CASE Begin
      <3>1. reverser' = ReverserFor(input.reverser)
        BY <1>2, <2>2 DEF Begin
      <3> QED BY <2>1, <3>1 DEF ReverserFor, ReverserSettled
    <2>3. CASE ~Begin
      BY <1>1, <2>1, <2>3 DEF Next, Pass, SetThrottle, Screens, BuildMask, Timers, SendPacket,
                              Transmit, Wake, Turn, Tick
    <2> QED BY <2>2, <2>3
  <1> QED BY <1>2, <1>4, <1>6, <1>7, <1>8

LEMMA LastAskedKept ==
    ASSUME HTypeOK, ReverserSettled, LeverBit, PassComputes, LastAsked, HNext
    PROVE  LastAsked'
  <1> SUFFICES ASSUME touched' = 0, reverser' # "NEUTRAL", ~penalised'
               PROVE  /\ last'.reverser = reverser' /\ last'.throttle = knob'
                      /\ last'.emergency = Alarm' /\ last'.mask \ Unheard' = Asked'
    BY DEF LastAsked
  <1>1. /\ input' = input /\ knob' = knob /\ ~penalised
        /\ Asked' = Asked /\ Alarm' = Alarm /\ Unheard' = Unheard
        /\ BuildMask => ~Expired
        /\ Queues \/ (touched = 0 /\ reverser' = reverser)
    BY LeftAloneStep
  <1>2. Next
    BY DEF HNext
  <1>3. CASE SendPacket /\ QueuePacket
    <2>1. pc = "packet" /\ reverser' = reverser
      BY <1>3 DEF SendPacket
    <2>2. throttle = knob /\ emergency = Alarm /\ mask \ Unheard = Asked
      BY <1>1, <2>1 DEF PassComputes
    <2>3. last' = [reverser |-> reverser, throttle |-> throttle, mask |-> mask,
                   emergency |-> emergency]
      BY <1>3 DEF QueuePacket
    <2> QED BY <1>1, <2>1, <2>2, <2>3
  <1>4. CASE ~(SendPacket /\ QueuePacket)
    <2>1. touched = 0 /\ reverser' = reverser
      BY <1>1, <1>2, <1>4, QueuesPacket DEF HTypeOK
    <2>2. /\ last.reverser = reverser /\ last.throttle = knob /\ last.emergency = Alarm
          /\ last.mask \ Unheard = Asked
      BY <1>1, <2>1 DEF LastAsked
    <2>3. CASE BuildMask
      <3>1. ~Expired
        BY <1>1, <2>3
      <3>2. last' = [reverser |-> last.reverser, throttle |-> last.throttle,
                     mask |-> last.mask \union AlerterFunctions, emergency |-> last.emergency]
        BY <2>3, <3>1 DEF BuildMask, EnteredAsSent, HTypeOK, TypeOK
      <3>3. AlerterFunctions \subseteq Unheard
        BY <2>3, <3>1, MaskBuilt DEF Unheard
      <3>4. last'.mask \ Unheard = last.mask \ Unheard
        BY <3>2, <3>3
      <3>5. last'.reverser = last.reverser /\ last'.throttle = last.throttle
            /\ last'.emergency = last.emergency
        BY <3>2
      <3> QED BY <1>1, <2>1, <2>2, <3>4, <3>5
    <2>4. CASE ~BuildMask
      <3>1. last' = last
        BY <1>2, <1>4, <2>4 DEF Next, Pass, Begin, SetThrottle, Screens, Timers, SendPacket,
                                Transmit, Wake, Turn, Tick, sent
      <3> QED BY <1>1, <2>1, <2>2, <3>1
    <2> QED BY <2>3, <2>4
  <1> QED BY <1>3, <1>4

LEMMA WarningEnteredKept ==
    ASSUME FunctionsApart(Settings), HTypeOK, WarningEntered, HNext
    PROVE  WarningEntered'
  <1>1. Next /\ settings' = settings /\ Mask("ALERTER_FN")' = Mask("ALERTER_FN")
    BY SameSettings DEF HNext, Mask
  <1> SUFFICES ASSUME pc' = "timers", settings.alerter # 0, alerterRead' < AlerterWarn
               PROVE  Mask("ALERTER_FN") \subseteq mask' /\ Mask("ALERTER_FN") \subseteq last'.mask
    BY <1>1 DEF WarningEntered
  <1>2. CASE BuildMask
    <2>1. Mask("ALERTER_FN") \subseteq AlerterFunctions
      BY <1>2 DEF BuildMask, AlerterFunctions, Warned
    <2>2. Mask("ALERTER_FN") \intersect settings.forceOff = {}
      BY DEF FunctionsApart, HTypeOK, TypeOK
    <2>3. Mask("ALERTER_FN") \subseteq Forced(ControlFunctions(compressor') \union AlerterFunctions)
      BY <2>1, <2>2 DEF Forced
    <2>4. last'.mask = last.mask \union AlerterFunctions
      BY <1>2 DEF BuildMask, EnteredAsSent, HTypeOK, TypeOK
    <2> QED BY <1>2, <2>1, <2>3, <2>4, MaskBuilt
  <1>3. CASE Tick
    BY <1>3 DEF Tick, WarningEntered, sent
  <1>4. CASE Begin \/ SetThrottle \/ Screens \/ Timers \/ SendPacket \/ Transmit \/ Wake \/ Turn
    BY <1>4 DEF Begin, SetThrottle, Screens, Timers, SendPacket, Transmit, Wake, Turn
  <1> QED BY <1>1, <1>2, <1>3, <1>4 DEF Next, Pass

LEMMA ButtonTouchesKept == HTypeOK /\ ButtonTouches /\ HNext => ButtonTouches'
  <1> SUFFICES ASSUME HTypeOK, ButtonTouches, HNext PROVE ButtonTouches'
    OBVIOUS
  <1>1. Next /\ settings' = settings
    BY SameSettings DEF HNext
  <1>2. input'.button => touched' = 2
    BY DEF HNext, Remember
  <1>3. settings.alerter = 0 => alerter' = 0
    <2>1. CASE Begin \/ SetThrottle \/ BuildMask \/ SendPacket \/ Transmit \/ Turn
      BY <2>1 DEF ButtonTouches, Begin, SetThrottle, BuildMask, SendPacket, Transmit, Turn, timers
    <2>2. CASE Timers \/ Wake
      BY <2>2 DEF ButtonTouches, Timers, Wake
    <2>3. CASE Screens
      BY <2>3 DEF ButtonTouches, Screens, PowerDown, SavePrefs, AnswerVersion, AnswerRead,
                  NothingElse
    <2>4. CASE Tick
      BY <2>4 DEF ButtonTouches, Tick, CountDown
    <2> QED BY <1>1, <2>1, <2>2, <2>3, <2>4 DEF Next, Pass
  <1> QED BY <1>1, <1>2, <1>3 DEF ButtonTouches

LEMMA AckInit == HInit => AckInv
  <1> SUFFICES ASSUME HInit PROVE AckInv
    OBVIOUS
  <1>1. HTypeOK /\ Penalty
    BY InitLemma DEF IInv
  <1>2. /\ pc = "begin" /\ touched = 2 /\ estop = {} /\ input.lever = "low"
        /\ input.button = FALSE /\ reverser = "NEUTRAL" /\ alerter = settings.alerter
    BY DEF HInit, Init
  <1> QED BY <1>1, <1>2 DEF AckInv, SwapSettled, ReverserSettled, LeverBit, PassComputes,
                            LastAsked, WarningEntered, ButtonTouches

LEMMA AckStep ==
    ASSUME FunctionsApart(Settings)
    PROVE  AckInv /\ [HNext]_hvars => AckInv'
  <1>1. AckInv /\ HNext => AckInv'
    BY StepTyped, PenaltyKept, SwapSettledKept, ReverserSettledKept, LeverBitKept,
       PassComputesKept, LastAskedKept, WarningEnteredKept, ButtonTouchesKept DEF AckInv
  <1>2. AckInv /\ UNCHANGED hvars => AckInv'
    <2> SUFFICES ASSUME AckInv, UNCHANGED hvars PROVE AckInv'
      OBVIOUS
    <2>1. HTypeOK'
      BY StepTyped DEF AckInv
    <2>2. UNCHANGED vars /\ UNCHANGED history
      BY DEF hvars
    <2>3. Asked' = Asked /\ Alarm' = Alarm /\ Unheard' = Unheard
      BY <2>2, SameAsked DEF vars
    <2>4. Swapped(input.reverser)' = Swapped(input.reverser)
      BY <2>2, SameSwapped DEF vars
    <2>5. Forced(FromAux)' = Forced(FromAux)
      BY <2>2 DEF vars, Forced, FromAux, Mask
    <2>6. SwapSettled' /\ WarningEntered' /\ Penalty'
      BY <2>2, <2>5 DEF AckInv, SwapSettled, WarningEntered, Penalty, vars, history, Mask
    <2>7. ReverserSettled'
      BY <2>2, <2>4 DEF AckInv, ReverserSettled, vars, history
    <2>8. PassComputes' /\ LastAsked'
      BY <2>2, <2>3 DEF AckInv, PassComputes, LastAsked, vars, history
    <2>9. LeverBit' /\ ButtonTouches'
      BY <2>2 DEF AckInv, LeverBit, ButtonTouches, vars, history
    <2> QED BY <2>1, <2>6, <2>7, <2>8, <2>9 DEF AckInv
  <1> QED BY <1>1, <1>2

(* A pass that finds the throttle left alone and warning finds no activity. *)
LEMMA NoActivity ==
    ASSUME AckInv, pc = "timers", touched = 0, reverser # "NEUTRAL", ~penalised,
           settings.alerter # 0, alerterRead < AlerterWarn
    PROVE  ~Activity
  <1>1. /\ last.reverser = reverser /\ last.throttle = knob /\ last.emergency = Alarm
        /\ last.mask \ Unheard = Asked
    BY DEF AckInv, LastAsked
  <1>2. throttle = knob /\ emergency = Alarm /\ mask \ Unheard = Asked
    BY DEF AckInv, PassComputes
  <1>3. ~HandlesChanged
    BY <1>1, <1>2 DEF HandlesChanged
  <1>4. Mask("ALERTER_FN") \subseteq mask /\ Mask("ALERTER_FN") \subseteq last.mask
    BY DEF AckInv, WarningEntered
  <1>5. mask \ Unheard = last.mask \ Unheard
    BY <1>1, <1>2
  <1>6. mask \ IdleFunctions = last.mask \ IdleFunctions
    BY <1>4, <1>5 DEF Unheard
  <1> QED BY <1>3, <1>6 DEF Activity

(* With the functions apart, a warning of the alerter is acknowledged by the crew or by a   *)
(* centred reverser only, for any table, any options and a queue of any depth, though what  *)
(* the alerter does by itself changes the mask it compares (6546, 6629-6637).               *)
THEOREM WarningsNeedCrew == FunctionsApart(Settings) => (HSpec => WarningNeedsCrew)
  <1> SUFFICES ASSUME FunctionsApart(Settings) PROVE HSpec => WarningNeedsCrew
    OBVIOUS
  <1>1. AckInv /\ [HNext]_hvars =>
          [pc = "timers" /\ alerter' > alerter /\ alerterRead < AlerterWarn
             => reverser = "NEUTRAL" \/ touched > 0]_hvars
    <2> SUFFICES ASSUME AckInv, HNext, pc = "timers", alerter' > alerter,
                        alerterRead < AlerterWarn, reverser # "NEUTRAL", ~(touched > 0)
                 PROVE  FALSE
      OBVIOUS
    <2>1. alerter \in Nat /\ touched = 0
      BY DEF AckInv, HTypeOK, TypeOK
    <2>2. Timers
      <3>1. ~Tick
        BY <2>1 DEF Tick, CountDown
      <3> QED BY <3>1 DEF HNext, Next, Pass, Begin, SetThrottle, Screens, BuildMask, SendPacket,
                          Transmit, Wake, Turn
    <2>3. AlerterReset /\ alerter' = settings.alerter
      BY <2>1, <2>2 DEF Timers
    <2>4. settings.alerter # 0
      BY <2>1, <2>3
    <2>5. ~penalised
      BY <2>3 DEF AlerterReset, AckInv, Penalty
    <2>6. ~Activity
      BY <2>1, <2>4, <2>5, NoActivity
    <2>7. ~input.button
      BY <2>1 DEF AckInv, ButtonTouches
    <2> QED BY <2>3, <2>6, <2>7 DEF AlerterReset
  <1>2. HInit => AckInv
    BY AckInit
  <1>3. AckInv /\ [HNext]_hvars => AckInv'
    BY AckStep
  <1> QED BY <1>1, <1>2, <1>3, PTL DEF HSpec, WarningNeedsCrew
(* Two packets after the crew has let go, off neutral and but for the penalty, the last    *)
(* packet queued says what the handles ask for: a handle moved in the middle of a pass can *)
(* leave a packet with some of the old readings, but not a second one.                      *)
HandlesSent ==
    touched = 0 /\ reverser # "NEUTRAL" /\ ~penalised =>
      /\ lastQueued.type = "S" /\ lastQueued.direction = reverser
      /\ lastQueued.speed = IF Alarm THEN EStop ELSE IF knob = 0 THEN 0 ELSE knob + 1
      /\ lastQueued.mask \ Unheard = Asked

LEMMA HandlesSentKept ==
    ASSUME HTypeOK, ReverserSettled, LeverBit, PassComputes, HandlesSent, HNext
    PROVE  HandlesSent'
  <1> SUFFICES ASSUME touched' = 0, reverser' # "NEUTRAL", ~penalised'
               PROVE  /\ lastQueued'.type = "S" /\ lastQueued'.direction = reverser'
                      /\ lastQueued'.speed = IF Alarm' THEN EStop
                                             ELSE IF knob' = 0 THEN 0 ELSE knob' + 1
                      /\ lastQueued'.mask \ Unheard' = Asked'
    BY DEF HandlesSent, EStop
  <1>1. /\ input' = input /\ knob' = knob /\ ~penalised
        /\ Asked' = Asked /\ Alarm' = Alarm /\ Unheard' = Unheard
        /\ Queues \/ (touched = 0 /\ reverser' = reverser)
    BY LeftAloneStep
  <1>2. lastQueued' = (IF Queues THEN Newest ELSE lastQueued) /\ Next
    BY DEF HNext, Remember
  <1>3. CASE Queues
    <2>1. SendPacket /\ Newest = Status(SpeedNow, DirectionNow, mask)
      BY <1>2, <1>3, QueuesPacket DEF HTypeOK
    <2>2. pc = "packet" /\ reverser' = reverser
      BY <2>1 DEF SendPacket
    <2>3. throttle = knob /\ emergency = Alarm /\ mask \ Unheard = Asked
      BY <1>1, <2>2 DEF PassComputes
    <2>4. DirectionNow = reverser
      BY <2>2 DEF DirectionNow
    <2>5. SpeedNow = IF Alarm THEN EStop ELSE IF knob = 0 THEN 0 ELSE knob + 1
      BY <2>3 DEF SpeedNow
    <2> QED BY <1>1, <1>2, <1>3, <2>1, <2>2, <2>3, <2>4, <2>5 DEF Status
  <1>4. CASE ~Queues
    BY <1>1, <1>2, <1>4 DEF HandlesSent
  <1> QED BY <1>3, <1>4

(* With the functions apart, two packets after the crew has let go the last packet queued  *)
(* is what the handles ask for, off neutral and without the penalty, for any table, any    *)
(* options and any depth of the queue: the part of CatchesUp that needs no fairness        *)
(* (6622-6752).                                                                            *)
THEOREM HandlesAlwaysSent == FunctionsApart(Settings) => (HSpec => []HandlesSent)
  <1> SUFFICES ASSUME FunctionsApart(Settings) PROVE HSpec => []HandlesSent
    OBVIOUS
  <1>1. HInit => AckInv /\ HandlesSent
    BY AckInit DEF HInit, HandlesSent
  <1>2. AckInv /\ HandlesSent /\ [HNext]_hvars => (AckInv /\ HandlesSent)'
    <2>1. AckInv /\ [HNext]_hvars => AckInv'
      BY AckStep
    <2>2. AckInv /\ HandlesSent /\ HNext => HandlesSent'
      BY HandlesSentKept DEF AckInv
    <2>3. HandlesSent /\ UNCHANGED hvars => HandlesSent'
      <3> SUFFICES ASSUME HandlesSent, UNCHANGED hvars PROVE HandlesSent'
        OBVIOUS
      <3>1. UNCHANGED vars /\ UNCHANGED history
        BY DEF hvars
      <3>2. Asked' = Asked /\ Alarm' = Alarm /\ Unheard' = Unheard
        BY <3>1, SameAsked DEF vars
      <3> QED BY <3>1, <3>2 DEF HandlesSent, vars, history, EStop
    <2> QED BY <2>1, <2>2, <2>3
  <1> QED BY <1>1, <1>2, PTL DEF HSpec

-----------------------------------------------------------------------------
(* The quiet before sleep.                                                   *)

(* A place in the queue from which no packet sent turns the compressor on: a status packet, *)
(* or 0 when the last one that went out has it off.                                          *)
Place(j) ==
    /\ IF j = 0 THEN ~hums ELSE j \in 1..Len(queue) /\ queue[j].type = "S"
    /\ \A i \in 1..Len(queue): i >= j => ~Loud(queue[i])

(* The packet there goes out before the sleep timer runs out.                                *)
InTimeAt(j) == Place(j) /\ (j = 0 \/ WaitBehind(j - 1) <= sleep)

(* The last status packet queued is in the queue or has gone out.                            *)
SaysLast ==
    /\ ~adcReady => ~Loud(lastQueued)
    /\ ~Loud(lastQueued) => \E j \in 0..Len(queue): Place(j)

(* In the quiet the mask has no compressor, and a packet that had it is answered.            *)
Hushed ==
    hush # "none" /\ pc \in {"timers", "packet"} =>
      /\ Mask("COMPRESSOR_FN") \intersect mask = {}
      /\ pc = "packet" /\ Loud(lastQueued) => inputsChanged

Ready ==
    IF Loud(lastQueued) THEN WaitBehind(Len(queue)) <= sleep
    ELSE \E j \in 0..Len(queue): InTimeAt(j)

(* A quiet begun in time stays in time, before its packet is queued and after.               *)
InTime ==
    hush = "timely" => Ready /\ (Loud(lastQueued) /\ pc = "transmit" => Len(queue) > 0)

(* A pass that may sound the compressor does not run the sleep timer out.                    *)
LoudAwake ==
    settings.airbrake /\ hush = "none" =>
      /\ pc \in {"timers", "packet", "transmit"} => sleep > 1 \/ (sleep = 1 /\ ticked)
      /\ pc = "asleep" => sleepForced

RunOut == pc = "asleep" => ~ticked /\ (sleepForced \/ sleep = 0)

QuietInv == IInv /\ SaysLast /\ Hushed /\ InTime /\ LoudAwake /\ RunOut

(* A packet more in front is a gap more to wait.                                             *)
LEMMA Gaps ==
    ASSUME NEW g \in Nat, NEW n \in Nat
    PROVE  /\ n * g \in Nat /\ (n + 1) * g = n * g + g
           /\ \A k \in 0..n: k * g <= n * g
  <1>1. n * g \in Nat /\ (n + 1) * g = n * g + g
    OBVIOUS
  <1>2. ASSUME NEW k \in 0..n PROVE k * g <= n * g
    <2>1. PICK d \in Nat: n = k + d
      <3>1. n - k \in Nat /\ n = k + (n - k)
        OBVIOUS
      <3> QED BY <3>1
    <2>2. k \in Nat /\ k * g \in Nat /\ d * g \in Nat
      OBVIOUS
    <2>3. n * g = k * g + d * g
      BY <2>1, <2>2
    <2> QED BY <2>2, <2>3
  <1> QED BY <1>1, <1>2

(* Nothing on the air: the place stays where it is.                                          *)
LEMMA PlaceStays ==
    ASSUME UNCHANGED <<queue, hums>>, NEW j, Place(j)
    PROVE  Place(j)'
  BY DEF Place, Loud, Mask

(* What is pushed behind without the compressor keeps it.                                    *)
LEMMA PlacePushed ==
    ASSUME HTypeOK, NEW p \in Packet, queue' = Append(queue, p), hums' = hums, ~Loud(p)
    PROVE  /\ Len(queue') = Len(queue) + 1 /\ Len(queue) \in Nat
           /\ \A j \in 0..Len(queue): Place(j) => Place(j)'
           /\ p.type = "S" => \A j: j = Len(queue) + 1 => Place(j)'
  <1>1. /\ queue \in Seq(Packet) /\ Len(queue) \in Nat /\ Len(queue') = Len(queue) + 1
        /\ \A i \in 1..Len(queue): queue'[i] = queue[i]
        /\ queue'[Len(queue) + 1] = p
    BY DEF HTypeOK, TypeOK
  <1>2. ASSUME NEW j \in 0..Len(queue), Place(j) PROVE Place(j)'
    <2>1. ASSUME NEW i \in 1..Len(queue'), i >= j PROVE ~Loud(queue'[i])
      <3>1. i \in 1..Len(queue) \/ i = Len(queue) + 1
        BY <1>1
      <3> QED BY <1>1, <1>2, <2>1, <3>1 DEF Place
    <2>2. IF j = 0 THEN ~hums' ELSE j \in 1..Len(queue') /\ queue'[j].type = "S"
      BY <1>1, <1>2 DEF Place
    <2> QED BY <2>1, <2>2 DEF Place, Loud, Mask
  <1>3. ASSUME p.type = "S", NEW j, j = Len(queue) + 1 PROVE Place(j)'
    <2>1. \A i \in 1..Len(queue'): i >= j => ~Loud(queue'[i])
      BY <1>1, <1>3
    <2> QED BY <1>1, <1>3, <2>1 DEF Place, Loud, Mask
  <1> QED BY <1>1, <1>2, <1>3

(* When the head goes out the place moves up by one, and goes out with it.                   *)
LEMMA PlaceMovesUp ==
    ASSUME HTypeOK, queue # <<>>, queue' = Tail(queue),
           hums' = IF Head(queue).type = "S" THEN Loud(Head(queue)) ELSE hums,
           NEW j \in 0..Len(queue), Place(j)
    PROVE  /\ Len(queue') = Len(queue) - 1 /\ Len(queue) \in Nat \ {0}
           /\ j = 0 => Place(0)'
           /\ j # 0 => Place(j - 1)'
  <1>1. /\ queue \in Seq(Packet) /\ Len(queue) \in Nat \ {0} /\ Len(queue') = Len(queue) - 1
        /\ \A i \in 1..Len(queue'): queue'[i] = queue[i + 1] /\ i + 1 \in 1..Len(queue)
        /\ Head(queue) = queue[1] /\ 1 \in 1..Len(queue)
    BY DEF HTypeOK, TypeOK
  <1>2. CASE j = 0
    <2>1. ~hums' /\ \A i \in 1..Len(queue'): ~Loud(queue'[i])
      BY <1>1, <1>2 DEF Place
    <2> QED BY <1>1, <1>2, <2>1 DEF Place, Loud, Mask
  <1>3. CASE j = 1
    <2>1. ~hums' /\ \A i \in 1..Len(queue'): ~Loud(queue'[i])
      BY <1>1, <1>3 DEF Place
    <2> QED BY <1>1, <1>3, <2>1 DEF Place, Loud, Mask
  <1>4. CASE j > 1
    <2>1. j - 1 \in 1..Len(queue') /\ queue'[j - 1] = queue[j] /\ queue[j].type = "S"
      BY <1>1, <1>4 DEF Place
    <2>2. ASSUME NEW i \in 1..Len(queue'), i >= j - 1 PROVE ~Loud(queue'[i])
      BY <1>1, <1>4, <2>2 DEF Place
    <2> QED BY <1>1, <1>4, <2>1, <2>2 DEF Place, Loud, Mask
  <1> QED BY <1>1, <1>2, <1>3, <1>4

(* What a step does to the queue and to what it sends.                                       *)
Untouched == UNCHANGED <<queue, hums, lastQueued>>
VersionPushed ==
    /\ pc = "screens" /\ queue' = Append(queue, Version)
    /\ UNCHANGED <<hums, lastQueued>>
StatusPushed ==
    /\ SendPacket /\ PacketDue /\ QueuePacket
    /\ queue' = Append(queue, lastQueued')
    /\ lastQueued' = Status(SpeedNow, DirectionNow, mask)
    /\ lastQueued' \in Packet /\ hums' = hums
HeadSent ==
    /\ Transmit /\ queue # <<>> /\ holdoff = 0
    /\ queue' = Tail(queue) /\ holdoff' = TxHoldoff
    /\ hums' = IF Head(queue).type = "S" THEN Loud(Head(queue)) ELSE hums
    /\ lastQueued' = lastQueued

LEMMA QueueSteps ==
    ASSUME HTypeOK, HNext
    PROVE  Untouched \/ VersionPushed \/ StatusPushed \/ HeadSent
  <1>1. /\ lastQueued' = IF Queues THEN Newest ELSE lastQueued
        /\ hums' = IF pc = "transmit" /\ queue' # queue /\ Head(queue).type = "S"
                   THEN Loud(Head(queue)) ELSE hums
        /\ Next
    BY DEF HNext, Remember
  <1>2. CASE Screens
    <2>1. pc = "screens" /\ queue' \in {queue, Append(queue, Version)}
      BY <1>2 DEF Screens, PowerDown, SavePrefs, AnswerVersion, AnswerRead, NothingElse, Pushed
    <2> QED BY <1>1, <2>1 DEF Untouched, VersionPushed, Queues
  <1>3. CASE SendPacket
    <2>1. CASE PacketDue /\ QueuePacket
      <3> DEFINE p == Status(SpeedNow, DirectionNow, mask)
      <3>1. queue' = Append(queue, p) /\ p \in Packet
        BY <2>1, PacketTyped DEF QueuePacket, HTypeOK
      <3> HIDE DEF p
      <3>2. Newest = p /\ queue' # queue
        BY <3>1 DEF Newest, HTypeOK, TypeOK
      <3>3. pc = "packet"
        BY <1>3 DEF SendPacket
      <3>4. lastQueued' = p /\ hums' = hums
        BY <1>1, <3>2, <3>3 DEF Queues
      <3> QED BY <1>3, <2>1, <3>1, <3>4 DEF StatusPushed, p
    <2>2. CASE queue' = queue
      BY <1>1, <2>2 DEF Untouched, Queues
    <2> QED BY <1>3, <2>1, <2>2 DEF SendPacket
  <1>4. CASE Transmit
    <2>1. pc = "transmit"
      BY <1>4 DEF Transmit
    <2>2. CASE queue # <<>> /\ holdoff = 0
      <3>1. queue' = Tail(queue) /\ holdoff' = TxHoldoff
        BY <1>4, <2>2 DEF Transmit
      <3>2. queue' # queue
        <4>1. queue \in Seq(Packet)
          BY DEF HTypeOK, TypeOK
        <4>2. Len(Tail(queue)) = Len(queue) - 1 /\ Len(queue) \in Nat
          BY <2>2, <4>1
        <4> QED BY <3>1, <4>2
      <3> QED BY <1>1, <1>4, <2>1, <2>2, <3>1, <3>2 DEF HeadSent, Queues
    <2>3. CASE ~(queue # <<>> /\ holdoff = 0)
      BY <1>1, <1>4, <2>1, <2>3 DEF Transmit, Untouched, Queues
    <2> QED BY <2>2, <2>3
  <1>5. CASE Begin \/ SetThrottle \/ BuildMask \/ Timers \/ Wake \/ Turn \/ Tick
    <2>1. queue' = queue
      BY <1>5 DEF Begin, SetThrottle, BuildMask, Timers, Wake, Turn, Tick, sent
    <2> QED BY <1>1, <2>1 DEF Untouched, Queues
  <1> QED BY <1>1, <1>2, <1>3, <1>4, <1>5 DEF Next, Pass
LEMMA SaysLastKept == HTypeOK /\ SaysLast /\ HNext => SaysLast'
  <1> SUFFICES ASSUME HTypeOK, SaysLast, HNext PROVE SaysLast'
    OBVIOUS
  <1>1. adcReady' \in {adcReady, TRUE}
    BY DEF HNext, Next, Pass, Begin, SetThrottle, Screens, BuildMask, Timers, SendPacket,
           Transmit, Wake, Turn, Tick, HTypeOK, TypeOK
  <1>2. \A p: Loud(p)' = Loud(p)
    BY DEF Loud, Mask
  <1>3. Len(queue) \in Nat
    BY DEF HTypeOK, TypeOK
  <1>4. CASE Untouched
    BY <1>1, <1>2, <1>4, PlaceStays DEF SaysLast, Untouched
  <1>5. CASE VersionPushed
    <2>1. ~Loud(Version) /\ Version \in Packet
      BY VersionTyped DEF Loud, Version
    <2>2. Len(queue') = Len(queue) + 1 /\ \A j \in 0..Len(queue): Place(j) => Place(j)'
      BY <1>5, <2>1, PlacePushed DEF VersionPushed
    <2>3. \A j \in 0..Len(queue): j \in 0..Len(queue')
      BY <1>3, <2>2
    <2> QED BY <1>1, <1>2, <1>5, <2>2, <2>3 DEF SaysLast, VersionPushed
  <1>6. CASE StatusPushed
    <2>1. adcReady' 
      BY <1>1, <1>6 DEF StatusPushed, PacketDue
    <2>2. ASSUME ~Loud(lastQueued') PROVE \E j \in 0..Len(queue'): Place(j)'
      <3>1. lastQueued' \in Packet /\ lastQueued'.type = "S"
        BY <1>6 DEF StatusPushed, Status
      <3>2. Len(queue') = Len(queue) + 1 /\ \A j: j = Len(queue) + 1 => Place(j)'
        BY <1>6, <2>2, <3>1, PlacePushed DEF StatusPushed
      <3> QED BY <1>3, <3>2
    <2> QED BY <1>2, <2>1, <2>2 DEF SaysLast
  <1>7. CASE HeadSent
    <2>1. ASSUME NEW j \in 0..Len(queue), Place(j) PROVE \E k \in 0..Len(queue'): Place(k)'
      <3>1. /\ Len(queue') = Len(queue) - 1 /\ Len(queue) \in Nat \ {0}
            /\ j = 0 => Place(0)'
            /\ j # 0 => Place(j - 1)'
        BY <1>7, <2>1, PlaceMovesUp DEF HeadSent
      <3>2. 0 \in 0..Len(queue') /\ (j # 0 => j - 1 \in 0..Len(queue'))
        BY <3>1
      <3> QED BY <3>1, <3>2
    <2> QED BY <1>1, <1>2, <1>7, <2>1 DEF SaysLast, HeadSent
  <1> QED BY <1>4, <1>5, <1>6, <1>7, QueueSteps

(* What is built in the quiet has no compressor when nothing else asserts it.                *)
LEMMA HushedMask ==
    ASSUME CompressorApart(Settings), HTypeOK, BuildMask, SleepImminent
    PROVE  Mask("COMPRESSOR_FN") \intersect mask' = {}
  <1>1. Mask("COMPRESSOR_FN") \intersect settings.forceOn = {}
    BY DEF CompressorApart, HTypeOK, TypeOK
  <1>2. \A role \in {"AUX_FN", "BRAKE_FN", "NEUTRAL_FN", "ALERTER_FN", "EMERGENCY_FN"}:
          Mask(role) \intersect Mask("COMPRESSOR_FN") = {}
    BY DEF CompressorApart, Roles
  <1>3. Mask("COMPRESSOR_FN") \intersect ControlFunctions(compressor') = {}
    BY <1>2 DEF ControlFunctions
  <1>4. Mask("COMPRESSOR_FN") \intersect AlerterFunctions = {}
    BY <1>2 DEF AlerterFunctions
  <1>5. mask' = Forced(ControlFunctions(compressor') \union AlerterFunctions)
                  \union (IF EstopNow # {} THEN Mask("EMERGENCY_FN") ELSE {})
    BY DEF BuildMask
  <1> QED BY <1>1, <1>2, <1>3, <1>4, <1>5 DEF Forced

LEMMA HushSteps ==
    ASSUME HNext, hush' # "none"
    PROVE  pc # "mask" => hush # "none"
  BY DEF HNext, Remember

LEMMA HushedKept ==
    ASSUME CompressorApart(Settings), IInv, Hushed, HNext
    PROVE  Hushed'
  <1>1. Mask("COMPRESSOR_FN")' = Mask("COMPRESSOR_FN") /\ \A p: Loud(p)' = Loud(p)
    BY DEF Mask, Loud
  <1> SUFFICES ASSUME hush' # "none", pc' \in {"timers", "packet"}
               PROVE  /\ Mask("COMPRESSOR_FN") \intersect mask' = {}
                      /\ pc' = "packet" /\ Loud(lastQueued') => inputsChanged'
    BY <1>1 DEF Hushed
  <1>2. CASE BuildMask
    <2>1. SleepImminent /\ pc' = "timers"
      BY <1>2 DEF HNext, Remember, BuildMask
    <2> QED BY <1>2, <2>1, HushedMask DEF IInv
  <1>3. CASE Timers
    <2>1. Mask("COMPRESSOR_FN") \intersect mask = {} /\ mask' = mask
      BY <1>3, HushSteps DEF Timers, Hushed
    <2>2. lastQueued' = lastQueued
      BY <1>3 DEF Timers, HNext, Remember, Queues
    <2>3. Loud(lastQueued) => mask # last.mask
      BY <2>1 DEF Loud, IInv, LastIsQueued
    <2> QED BY <1>3, <2>1, <2>2, <2>3 DEF Timers
  <1>4. CASE Tick
    <2>1. pc' = pc /\ mask' = mask /\ inputsChanged' = inputsChanged /\ lastQueued' = lastQueued
      BY <1>4 DEF Tick, HNext, Remember, Queues, sent
    <2>2. pc # "mask"
      BY <1>4 DEF Tick
    <2> QED BY <2>1, <2>2, HushSteps DEF Hushed
  <1> QED BY <1>2, <1>3, <1>4 DEF HNext, Next, Pass, Begin, SetThrottle, Screens, SendPacket,
                                  Transmit, Wake, Turn

LEMMA LoudAwakeKept == HTypeOK /\ LoudAwake /\ HNext => LoudAwake'
  <1> SUFFICES ASSUME HTypeOK, LoudAwake, HNext, settings'.airbrake, hush' = "none"
               PROVE  /\ pc' \in {"timers", "packet", "transmit"} =>
                           sleep' > 1 \/ (sleep' = 1 /\ ticked')
                      /\ pc' = "asleep" => sleepForced'
    BY DEF LoudAwake
  <1>1. Next /\ settings' = settings /\ sleep \in Nat
    BY SameSettings DEF HNext, HTypeOK, TypeOK
  <1>2. pc # "mask" => hush = "none"
    BY DEF HNext, Remember
  <1>3. CASE BuildMask
    <2>1. ~SleepImminent /\ pc = "mask" /\ pc' = "timers" /\ sleep' = sleep
      BY <1>1, <1>3 DEF HNext, Remember, BuildMask, timers
    <2> QED BY <1>1, <2>1, SizesAssumption DEF SleepImminent
  <1>4. CASE Timers
    BY <1>1, <1>2, <1>4, SizesAssumption DEF Timers, LoudAwake
  <1>5. CASE SendPacket
    BY <1>1, <1>2, <1>5 DEF SendPacket, LoudAwake, flags
  <1>6. CASE Transmit
    BY <1>1, <1>2, <1>6 DEF Transmit, LoudAwake, flags
  <1>7. CASE Tick
    BY <1>1, <1>2, <1>7 DEF Tick, LoudAwake, CountDown, flags
  <1> QED BY <1>1, <1>3, <1>4, <1>5, <1>6, <1>7
          DEF Next, Pass, Begin, SetThrottle, Screens, Wake, Turn

LEMMA RunOutKept == HTypeOK /\ RunOut /\ HNext => RunOut'
  BY DEF HNext, Next, Pass, Begin, SetThrottle, Screens, BuildMask, Timers, SendPacket,
         Transmit, Wake, Turn, Tick, flags, RunOut, HTypeOK, TypeOK
(* The wait is a number, longer behind more packets.                                         *)
LEMMA Waits ==
    ASSUME HTypeOK, NEW n \in Nat
    PROVE  /\ WaitBehind(n) \in Nat
           /\ \A k \in 0..n: WaitBehind(k) <= WaitBehind(n)
  <1> DEFINE g == IF TxHoldoff > 0 THEN TxHoldoff ELSE 1
             f == IF ticked \/ holdoff > 0 THEN holdoff ELSE 1
  <1>1. g \in Nat /\ f \in Nat
    BY SizesAssumption DEF HTypeOK, TypeOK
  <1>2. \A k: WaitBehind(k) = f + k * g
    BY DEF WaitBehind
  <1> HIDE DEF g, f
  <1>3. n * g \in Nat /\ \A k \in 0..n: k * g <= n * g
    BY <1>1, Gaps
  <1>4. \A k \in 0..n: k * g \in Nat
    BY <1>1
  <1> QED BY <1>1, <1>2, <1>3, <1>4

(* A tick of the timer is one of the wait, and there is one to come in a pass.               *)
LEMMA WaitTicks ==
    ASSUME HTypeOK, Tick, ~ticked, NEW n \in Nat
    PROVE  WaitBehind(n) >= 1 /\ WaitBehind(n)' = WaitBehind(n) - 1
  <1> DEFINE g == IF TxHoldoff > 0 THEN TxHoldoff ELSE 1
  <1>1. g \in Nat /\ holdoff \in Nat
    BY SizesAssumption DEF HTypeOK, TypeOK
  <1>2. WaitBehind(n) = (IF holdoff > 0 THEN holdoff ELSE 1) + n * g
    BY DEF WaitBehind
  <1>3. WaitBehind(n)' = holdoff' + n * g
    BY DEF WaitBehind, Tick
  <1>4. holdoff' = IF holdoff > 0 THEN holdoff - 1 ELSE 0
    BY DEF Tick, CountDown
  <1> HIDE DEF g
  <1>5. n * g \in Nat
    BY <1>1, Gaps
  <1> QED BY <1>1, <1>2, <1>3, <1>4, <1>5

(* When a packet goes out those behind it wait no longer than before.                        *)
LEMMA WaitMovesUp ==
    ASSUME HTypeOK, holdoff = 0, holdoff' = TxHoldoff, ticked' = FALSE, NEW n \in Nat
    PROVE  WaitBehind(n)' <= WaitBehind(n + 1)
  <1> DEFINE g == IF TxHoldoff > 0 THEN TxHoldoff ELSE 1
  <1>1. g \in Nat
    BY SizesAssumption
  <1>2. WaitBehind(n + 1) = (IF ticked THEN 0 ELSE 1) + (n + 1) * g
    BY DEF WaitBehind
  <1>3. WaitBehind(n)' = g + n * g
    BY DEF WaitBehind
  <1> HIDE DEF g
  <1>4. n * g \in Nat /\ (n + 1) * g = n * g + g
    BY <1>1, Gaps
  <1> QED BY <1>1, <1>2, <1>3, <1>4

(* A step that leaves the queue alone and keeps the packets in time keeps the quiet in time. *)
LEMMA ReadyStays ==
    ASSUME HTypeOK, Ready, Untouched,
           \A n \in 0..Len(queue):
             /\ n < Len(queue) \/ Loud(lastQueued)
             /\ WaitBehind(n) <= sleep
             => WaitBehind(n)' <= sleep'
    PROVE  Ready'
  <1>1. Len(queue) \in Nat /\ queue' = queue /\ Len(queue') = Len(queue)
    BY DEF HTypeOK, TypeOK, Untouched
  <1>2. Loud(lastQueued)' = Loud(lastQueued)
    BY DEF Untouched, Loud, Mask
  <1>3. CASE Loud(lastQueued)
    <2>1. PICK n \in 0..Len(queue): n = Len(queue)
      BY <1>1
    <2>2. WaitBehind(n) <= sleep
      BY <1>3, <2>1 DEF Ready
    <2>3. WaitBehind(n)' <= sleep'
      BY <1>3, <2>2
    <2>4. WaitBehind(Len(queue))' = WaitBehind(n)'
      BY <1>1, <2>1 DEF WaitBehind
    <2> QED BY <1>2, <1>3, <2>3, <2>4 DEF Ready
  <1>4. CASE ~Loud(lastQueued)
    <2>1. PICK j \in 0..Len(queue): InTimeAt(j)
      BY <1>4 DEF Ready
    <2>2. Place(j)'
      BY <2>1, PlaceStays DEF InTimeAt, Untouched
    <2>3. j # 0 => WaitBehind(j - 1)' <= sleep'
      <3>1. SUFFICES ASSUME j # 0 PROVE WaitBehind(j - 1)' <= sleep'
        OBVIOUS
      <3>2. j - 1 \in 0..Len(queue) /\ j - 1 < Len(queue)
        BY <1>1, <3>1
      <3>3. WaitBehind(j - 1) <= sleep
        BY <2>1, <3>1 DEF InTimeAt
      <3> QED BY <3>2, <3>3
    <2> QED BY <1>1, <1>2, <1>4, <2>2, <2>3 DEF Ready, InTimeAt
  <1> QED BY <1>3, <1>4
(* A version packet pushed behind the quiet does not delay it.                               *)
LEMMA ReadyPushed ==
    ASSUME HTypeOK, Ready, VersionPushed, ~Loud(lastQueued),
           UNCHANGED <<holdoff, ticked>>, sleep' \in {sleep, SleepReset}
    PROVE  Ready'
  <1>1. Len(queue) \in Nat /\ sleep \in Nat /\ sleep <= sleep' /\ sleep' \in Nat
    BY SizesAssumption DEF HTypeOK, TypeOK
  <1>2. ~Loud(lastQueued)'
    BY DEF VersionPushed, Loud, Mask
  <1>3. PICK j \in 0..Len(queue): InTimeAt(j)
    BY DEF Ready
  <1>4. ~Loud(Version)
    BY DEF Loud, Version
  <1>5. Len(queue') = Len(queue) + 1 /\ Place(j)'
    BY <1>3, <1>4, VersionTyped, PlacePushed DEF VersionPushed, InTimeAt
  <1>6. j # 0 => WaitBehind(j - 1)' <= sleep'
    <2>1. SUFFICES ASSUME j # 0 PROVE WaitBehind(j - 1)' <= sleep'
      OBVIOUS
    <2>2. j - 1 \in Nat /\ WaitBehind(j - 1) <= sleep
      BY <1>3, <2>1 DEF InTimeAt
    <2>3. WaitBehind(j - 1)' = WaitBehind(j - 1)
      BY DEF WaitBehind
    <2>4. WaitBehind(j - 1) \in Nat
      BY <2>2, Waits
    <2> QED BY <1>1, <2>2, <2>3, <2>4
  <1> QED BY <1>1, <1>2, <1>5, <1>6 DEF Ready, InTimeAt

(* The packet of the quiet takes the place behind those in the queue.                        *)
LEMMA ReadyQueued ==
    ASSUME HTypeOK, Ready, StatusPushed, Mask("COMPRESSOR_FN") \intersect mask = {}
    PROVE  Ready' /\ ~Loud(lastQueued')
  <1>1. Len(queue) \in Nat /\ UNCHANGED <<sleep, holdoff, ticked>>
    BY DEF HTypeOK, TypeOK, StatusPushed, SendPacket
  <1>2. ~Loud(lastQueued') /\ lastQueued' \in Packet /\ lastQueued'.type = "S"
    BY DEF StatusPushed, Loud, Status
  <1>3. /\ Len(queue') = Len(queue) + 1
        /\ \A j \in 0..Len(queue): Place(j) => Place(j)'
        /\ \A j: j = Len(queue) + 1 => Place(j)'
    BY <1>2, PlacePushed DEF StatusPushed
  <1>4. \A j: WaitBehind(j)' = WaitBehind(j)
    BY <1>1 DEF WaitBehind
  <1>5. \E j \in 0..Len(queue'): InTimeAt(j)'
    <2>1. CASE Loud(lastQueued)
      <3>1. PICK j \in 0..Len(queue'): j = Len(queue) + 1
        BY <1>1, <1>3
      <3>2. Place(j)' /\ j - 1 = Len(queue)
        BY <1>1, <1>3, <3>1
      <3>3. WaitBehind(j - 1) <= sleep
        BY <2>1, <3>2 DEF Ready
      <3> QED BY <1>1, <1>4, <3>2, <3>3 DEF InTimeAt
    <2>2. CASE ~Loud(lastQueued)
      <3>1. PICK j \in 0..Len(queue): InTimeAt(j)
        BY <2>2 DEF Ready
      <3>2. j \in 0..Len(queue') /\ Place(j)'
        BY <1>1, <1>3, <3>1 DEF InTimeAt
      <3> QED BY <1>1, <1>4, <3>1, <3>2 DEF InTimeAt
    <2> QED BY <2>1, <2>2
  <1>6. Loud(lastQueued)' = Loud(lastQueued')
    BY DEF Loud, Mask
  <1> QED BY <1>2, <1>5, <1>6 DEF Ready

(* A packet that goes out brings the quiet nearer.                                           *)
LEMMA ReadySent ==
    ASSUME HTypeOK, Ready, HeadSent
    PROVE  Ready'
  <1>1. /\ Len(queue) \in Nat \ {0} /\ Len(queue') = Len(queue) - 1
        /\ sleep' = sleep /\ sleep \in Nat /\ holdoff = 0 /\ holdoff' = TxHoldoff
        /\ ticked' = FALSE
    BY DEF HTypeOK, TypeOK, HeadSent, Transmit
  <1>2. ASSUME NEW n \in Nat, WaitBehind(n + 1) <= sleep PROVE WaitBehind(n)' <= sleep'
    <2>1. WaitBehind(n)' <= WaitBehind(n + 1)
      BY <1>1, WaitMovesUp
    <2>2. WaitBehind(n + 1) \in Nat
      <3>1. n + 1 \in Nat
        OBVIOUS
      <3> QED BY <3>1, Waits
    <2>3. WaitBehind(n)' \in Nat
      BY <1>1, SizesAssumption, Gaps DEF WaitBehind
    <2> QED BY <1>1, <1>2, <2>1, <2>2, <2>3
  <1>3. Loud(lastQueued)' = Loud(lastQueued)
    BY DEF HeadSent, Loud, Mask
  <1>4. CASE Loud(lastQueued)
    <2>1. PICK n \in Nat: n = Len(queue) - 1
      BY <1>1
    <2>2. WaitBehind(n + 1) <= sleep
      BY <1>1, <1>4, <2>1 DEF Ready
    <2>3. WaitBehind(n)' <= sleep'
      BY <1>2, <2>2
    <2>4. WaitBehind(Len(queue))' = WaitBehind(n)'
      BY <1>1, <2>1 DEF WaitBehind
    <2> QED BY <1>3, <1>4, <2>3, <2>4 DEF Ready
  <1>5. CASE ~Loud(lastQueued)
    <2>1. PICK j \in 0..Len(queue): InTimeAt(j)
      BY <1>5 DEF Ready
    <2>2. (j = 0 => Place(0)') /\ (j # 0 => Place(j - 1)')
      BY <1>1, <2>1, PlaceMovesUp DEF HeadSent, InTimeAt
    <2>3. CASE j \in {0, 1}
      <3>1. Place(0)' /\ 0 \in 0..Len(queue')
        BY <1>1, <2>2, <2>3
      <3> QED BY <1>3, <1>5, <3>1 DEF Ready, InTimeAt
    <2>4. CASE j > 1
      <3>1. j - 2 \in Nat /\ (j - 2) + 1 = j - 1 /\ j - 1 \in 0..Len(queue') /\ (j - 1) - 1 = j - 2
        BY <1>1, <2>4
      <3>2. WaitBehind((j - 2) + 1) <= sleep
        BY <2>1, <2>4, <3>1 DEF InTimeAt
      <3>3. WaitBehind(j - 2)' <= sleep'
        BY <1>2, <3>1, <3>2
      <3> QED BY <1>3, <1>5, <2>2, <2>4, <3>1, <3>3 DEF Ready, InTimeAt
    <2> QED BY <2>3, <2>4
  <1> QED BY <1>4, <1>5

(* When the quiet begins the packets waiting include the last one queued.                    *)
LEMMA ReadyBegins ==
    ASSUME HTypeOK, SaysLast, WaitBehind(Len(queue)) <= sleep
    PROVE  Ready
  <1>1. Len(queue) \in Nat /\ sleep \in Nat
    BY DEF HTypeOK, TypeOK
  <1>2. CASE Loud(lastQueued)
    BY <1>2 DEF Ready
  <1>3. CASE ~Loud(lastQueued)
    <2>1. PICK j \in 0..Len(queue): Place(j)
      BY <1>3 DEF SaysLast
    <2>2. j # 0 => WaitBehind(j - 1) <= sleep
      <3>1. SUFFICES ASSUME j # 0 PROVE WaitBehind(j - 1) <= sleep
        OBVIOUS
      <3>2. j - 1 \in 0..Len(queue) /\ j - 1 \in Nat
        BY <1>1, <3>1
      <3>3. WaitBehind(j - 1) <= WaitBehind(Len(queue)) /\ WaitBehind(j - 1) \in Nat
            /\ WaitBehind(Len(queue)) \in Nat
        BY <1>1, <3>2, Waits
      <3> QED BY <1>1, <3>3
    <2> QED BY <1>3, <2>1, <2>2 DEF Ready, InTimeAt
  <1> QED BY <1>2, <1>3

LEMMA InTimeKept ==
    ASSUME HTypeOK, SaysLast, Hushed, InTime, HNext
    PROVE  InTime'
  <1> SUFFICES ASSUME hush' = "timely"
               PROVE  Ready' /\ (Loud(lastQueued)' /\ pc' = "transmit" => Len(queue') > 0)
    BY DEF InTime
  <1>1. /\ Len(queue) \in Nat /\ sleep \in Nat /\ sleep <= SleepReset
        /\ \A n \in 0..Len(queue): WaitBehind(n) \in Nat
    <2>1. Len(queue) \in Nat /\ sleep \in Nat /\ sleep <= SleepReset
      BY SizesAssumption DEF HTypeOK, TypeOK
    <2> QED BY <2>1, Waits
  <1>2. pc # "mask" =>
          /\ hush = "timely"
          /\ ~(ticked /\ Tick)
          /\ ~(pc = "screens" /\ queue' # queue /\ Loud(lastQueued))
    BY DEF HNext, Remember
  <1>3. Loud(lastQueued)' = Loud(lastQueued')
    BY DEF Loud, Mask
  <1>4. Next /\ SleepReset \in Nat
    BY SizesAssumption DEF HNext
  <1>5. ASSUME pc # "mask", Untouched, UNCHANGED <<holdoff, ticked>>, sleep' \in {sleep, SleepReset}
        PROVE  Ready'
    <2>1. Ready
      BY <1>2, <1>5 DEF InTime
    <2>2. \A n: WaitBehind(n)' = WaitBehind(n)
      BY <1>5 DEF WaitBehind
    <2>3. sleep <= sleep' /\ sleep' \in Nat
      BY <1>1, <1>4, <1>5
    <2>4. \A n \in 0..Len(queue): WaitBehind(n) <= sleep => WaitBehind(n)' <= sleep'
      BY <1>1, <2>2, <2>3
    <2> QED BY <1>5, <2>1, <2>4, ReadyStays
  <1>6. CASE Begin \/ SetThrottle \/ Turn \/ Timers \/ Wake
    <2>1. /\ pc \notin {"mask", "screens", "packet", "transmit"} /\ pc' # "transmit"
          /\ UNCHANGED <<holdoff, ticked>> /\ sleep' \in {sleep, SleepReset}
      BY <1>6 DEF Begin, SetThrottle, Turn, Timers, Wake, timers
    <2>2. Untouched
      BY <2>1, QueueSteps DEF VersionPushed, StatusPushed, HeadSent, SendPacket, Transmit
    <2> QED BY <1>5, <2>1, <2>2
  <1>7. CASE Screens
    <2>1. /\ pc = "screens" /\ pc' # "transmit"
          /\ UNCHANGED <<holdoff, ticked>> /\ sleep' \in {sleep, SleepReset}
      BY <1>7 DEF Screens, PowerDown, SavePrefs, AnswerVersion, AnswerRead, NothingElse
    <2>2. CASE Untouched
      BY <1>5, <2>1, <2>2
    <2>3. CASE VersionPushed
      <3>1. queue' # queue
        BY <2>3, VersionTyped DEF VersionPushed, HTypeOK, TypeOK
      <3>2. ~Loud(lastQueued) /\ Ready
        BY <1>2, <2>1, <3>1 DEF InTime
      <3>3. Ready'
        BY <2>1, <2>3, <3>2, ReadyPushed
      <3> QED BY <2>1, <3>3
    <2> QED BY <2>1, <2>2, <2>3, QueueSteps DEF StatusPushed, HeadSent, SendPacket, Transmit
  <1>8. CASE BuildMask
    <2>1. pc = "mask" /\ pc' = "timers" /\ UNCHANGED <<holdoff, ticked, sleep>>
      BY <1>8 DEF BuildMask, timers
    <2>2. Untouched
      BY <2>1, QueueSteps DEF VersionPushed, StatusPushed, HeadSent, SendPacket, Transmit
    <2>3. hush = "timely" \/ WaitBehind(Len(queue)) <= sleep
      BY <2>1 DEF HNext, Remember
    <2>4. Ready
      BY <2>3, ReadyBegins DEF InTime
    <2>5. \A n: WaitBehind(n)' = WaitBehind(n)
      BY <2>1 DEF WaitBehind
    <2>6. \A n \in 0..Len(queue): WaitBehind(n) <= sleep => WaitBehind(n)' <= sleep'
      BY <2>1, <2>5
    <2>7. Ready'
      BY <2>2, <2>4, <2>6, ReadyStays
    <2> QED BY <2>1, <2>7
  <1>9. CASE SendPacket
    <2>1. /\ pc = "packet" /\ hush = "timely" /\ UNCHANGED <<holdoff, ticked, sleep>>
      BY <1>2, <1>9 DEF SendPacket
    <2>2. Ready /\ Mask("COMPRESSOR_FN") \intersect mask = {}
      BY <2>1 DEF InTime, Hushed
    <2>3. CASE StatusPushed
      BY <1>3, <2>2, <2>3, ReadyQueued
    <2>4. CASE Untouched
      <3>1. Ready'
        BY <1>5, <2>1, <2>4
      <3>2. ASSUME Loud(lastQueued') PROVE Len(queue') > 0
        <4>1. Loud(lastQueued) /\ queue' = queue
          BY <2>4, <3>2 DEF Untouched
        <4>2. inputsChanged /\ adcReady
          BY <2>1, <4>1 DEF Hushed, SaysLast
        <4>3. ~PacketDue
          <5>1. SUFFICES ASSUME QueuePacket PROVE FALSE
            BY <1>9 DEF SendPacket
          <5> DEFINE p == Status(SpeedNow, DirectionNow, mask)
          <5>2. queue' = Append(queue, p) /\ p \in Packet
            BY <5>1, PacketTyped DEF QueuePacket, HTypeOK
          <5> HIDE DEF p
          <5> QED BY <4>1, <5>2 DEF HTypeOK, TypeOK
        <4>4. ~(Len(queue) < QueueDepth)
          BY <4>2, <4>3 DEF PacketDue
        <4> QED BY <1>1, <4>1, <4>4, SizesAssumption
      <3> QED BY <1>3, <3>1, <3>2
    <2> QED BY <2>1, <2>3, <2>4, QueueSteps DEF VersionPushed, HeadSent, Transmit
  <1>10. CASE Transmit
    <2>1. pc = "transmit" /\ hush = "timely" /\ pc' # "transmit" /\ sleep' = sleep
      BY <1>2, <1>10 DEF Transmit
    <2>2. Ready /\ (Loud(lastQueued) => Len(queue) > 0)
      BY <2>1 DEF InTime
    <2>3. CASE HeadSent
      BY <2>1, <2>2, <2>3, ReadySent
    <2>4. CASE Untouched
      <3>1. queue # <<>> => holdoff > 0
        <4>1. SUFFICES ASSUME queue # <<>>, holdoff = 0 PROVE FALSE
          BY DEF HTypeOK, TypeOK
        <4>2. queue' = Tail(queue) /\ queue \in Seq(Packet)
          BY <1>10, <4>1 DEF Transmit, HTypeOK, TypeOK
        <4>3. Len(Tail(queue)) = Len(queue) - 1 /\ Len(queue) \in Nat
          BY <4>1, <4>2
        <4>4. queue = Tail(queue)
          BY <2>4, <4>2 DEF Untouched
        <4>5. Len(queue) = Len(queue) - 1
          BY <4>3, <4>4
        <4> QED BY <4>3, <4>5
      <3>2. holdoff > 0 => holdoff' = holdoff
        BY <1>10 DEF Transmit
      <3>3. queue = <<>> => Len(queue) = 0
        OBVIOUS
      <3>4. ASSUME NEW n \in 0..Len(queue), n < Len(queue) \/ Loud(lastQueued),
                   WaitBehind(n) <= sleep
            PROVE  WaitBehind(n)' <= sleep'
        <4>1. holdoff > 0
          BY <1>1, <2>2, <3>1, <3>3, <3>4
        <4>2. WaitBehind(n)' = WaitBehind(n)
          BY <3>2, <4>1 DEF WaitBehind
        <4> QED BY <2>1, <3>4, <4>2
      <3>5. Ready'
        BY <2>2, <2>4, <3>4, ReadyStays
      <3> QED BY <2>1, <3>5
    <2> QED BY <2>1, <2>3, <2>4, QueueSteps DEF VersionPushed, StatusPushed, SendPacket
  <1>11. CASE Tick
    <2>1. pc # "mask" /\ pc' = pc /\ queue' = queue /\ sleep' = CountDown(sleep)
      BY <1>11 DEF Tick, sent
    <2>2. hush = "timely" /\ ~ticked
      BY <1>2, <1>11, <2>1
    <2>3. Untouched
      BY <2>1 DEF HNext, Remember, Untouched, Queues
    <2>4. ASSUME NEW n \in 0..Len(queue), WaitBehind(n) <= sleep PROVE WaitBehind(n)' <= sleep'
      <3>1. n \in Nat
        BY <1>1
      <3>2. WaitBehind(n) >= 1 /\ WaitBehind(n)' = WaitBehind(n) - 1
        BY <1>11, <2>2, <3>1, WaitTicks
      <3>3. sleep' = sleep - 1
        BY <1>1, <2>1, <2>4, <3>2 DEF CountDown
      <3> QED BY <1>1, <2>4, <3>2, <3>3
    <2>5. Ready'
      BY <2>2, <2>3, <2>4, ReadyStays DEF InTime
    <2> QED BY <1>3, <2>1, <2>2, <2>3, <2>5 DEF InTime, Untouched
  <1> QED BY <1>4, <1>6, <1>7, <1>8, <1>9, <1>10, <1>11 DEF Next, Pass

LEMMA QuietInit == HInit => QuietInv
  <1> SUFFICES ASSUME HInit PROVE QuietInv
    OBVIOUS
  <1>1. /\ pc = "begin" /\ queue = <<Version>> /\ lastQueued = Version /\ ~hums
        /\ hush = "none"
    BY DEF HInit, Init
  <1>2. ~Loud(Version)
    BY DEF Loud, Version
  <1>3. Place(0) /\ 0 \in 0..Len(queue)
    BY <1>1, <1>2 DEF Place
  <1> QED BY <1>1, <1>2, <1>3, InitLemma
          DEF QuietInv, SaysLast, Hushed, InTime, LoudAwake, RunOut

LEMMA QuietStep ==
    ASSUME CompressorApart(Settings)
    PROVE  QuietInv /\ [HNext]_hvars => QuietInv'
  <1>1. QuietInv /\ HNext => QuietInv'
    BY StepLemma, SaysLastKept, HushedKept, InTimeKept, LoudAwakeKept, RunOutKept
       DEF QuietInv, IInv
  <1>2. QuietInv /\ UNCHANGED hvars => QuietInv'
    <2> SUFFICES ASSUME QuietInv, UNCHANGED hvars PROVE QuietInv'
      OBVIOUS
    <2>1. IInv'
      BY StepLemma DEF QuietInv
    <2>2. UNCHANGED vars /\ UNCHANGED history
      BY DEF hvars
    <2>3. \A j: Place(j)' = Place(j)
      BY <2>2 DEF Place, Loud, Mask, vars, history
    <2>4. \A n: WaitBehind(n)' = WaitBehind(n)
      BY <2>2 DEF WaitBehind, vars
    <2>5. Loud(lastQueued)' = Loud(lastQueued)
      BY <2>2 DEF Loud, Mask, vars, history
    <2>6. SaysLast'
      BY <2>2, <2>3, <2>5 DEF QuietInv, SaysLast, vars
    <2>7. Hushed' /\ LoudAwake' /\ RunOut'
      BY <2>2, <2>5 DEF QuietInv, Hushed, LoudAwake, RunOut, Mask, vars, history
    <2>8. InTime'
      <3>1. WaitBehind(Len(queue))' = WaitBehind(Len(queue))
        BY <2>2 DEF WaitBehind, vars
      <3> QED BY <2>2, <2>3, <2>4, <2>5, <3>1
              DEF QuietInv, InTime, Ready, InTimeAt, vars, history
    <2> QED BY <2>1, <2>6, <2>7, <2>8 DEF QuietInv
  <1> QED BY <1>1, <1>2

(* When nothing but the compressor asserts its function, a throttle that the sleep timer   *)
(* powers down has told the decoder that the compressor is off, if its quiet began in time *)
(* to, for any holdoff, any depth of the queue and any AIRBRAKE_SLEEP_QUIET_DECISECS       *)
(* (6364-6367).                                                                            *)
THEOREM SleepsQuiet == CompressorApart(Settings) => (HSpec => []QuietAsleep)
  <1> SUFFICES ASSUME CompressorApart(Settings) PROVE HSpec => []QuietAsleep
    OBVIOUS
  <1>1. QuietInv => QuietAsleep
    <2> SUFFICES ASSUME QuietInv, pc = "asleep", ~sleepForced, settings.airbrake, hush # "late"
                 PROVE  ~hums
      BY DEF QuietAsleep
    <2>1. HTypeOK /\ sleep = 0 /\ ~ticked
      BY DEF QuietInv, IInv, RunOut
    <2>2. hush = "timely"
      BY <2>1 DEF QuietInv, LoudAwake, HTypeOK
    <2>3. ASSUME NEW n \in Nat PROVE ~(WaitBehind(n) <= sleep)
      <3>1. 0 \in 0..n /\ WaitBehind(0) <= WaitBehind(n) /\ WaitBehind(n) \in Nat
        BY <2>1, Waits
      <3>2. WaitBehind(0) >= 1 /\ WaitBehind(0) \in Nat
        BY <2>1, SizesAssumption DEF WaitBehind, HTypeOK, TypeOK
      <3> QED BY <2>1, <3>1, <3>2
    <2>4. Len(queue) \in Nat
      BY <2>1 DEF HTypeOK, TypeOK
    <2>5. Ready
      BY <2>2 DEF QuietInv, InTime
    <2>6. PICK j \in 0..Len(queue): InTimeAt(j)
      BY <2>3, <2>4, <2>5 DEF Ready
    <2>7. j = 0
      <3>1. j # 0 => j - 1 \in Nat
        BY <2>4
      <3> QED BY <2>3, <2>6, <3>1 DEF InTimeAt
    <2> QED BY <2>6, <2>7 DEF InTimeAt, Place
  <1>2. HInit => QuietInv
    BY QuietInit
  <1>3. QuietInv /\ [HNext]_hvars => QuietInv'
    BY QuietStep
  <1> QED BY <1>1, <1>2, <1>3, PTL DEF HSpec
=============================================================================
