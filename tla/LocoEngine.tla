----------------------------- MODULE LocoEngine -----------------------------
(***************************************************************************)
(* The engine state (off, starting, running, ...) and the short queue of   *)
(* cst-engine.c that remembers it per locomotive, as LOCO, LOAD and a      *)
(* pulled profile change the locomotive under control.                     *)
(***************************************************************************)
EXTENDS Integers, Sequences

CONSTANTS
  Locos,                    \* addresses that can be set, the long address 0 among them
  NoLoco,                   \* address 0, which an entry that was never used has too
  ENGINE_STATE_QUEUE_SIZE,
  ENGINE_TIMER_DECISECS

EngineAssumption == {ENGINE_STATE_QUEUE_SIZE, ENGINE_TIMER_DECISECS} \subseteq Nat \ {0}

EngineStates == {"OFF", "ON", "START", "RUNNING", "STOP", "NOT_IDLE"}
NotInitialized == "NOT_INITIALIZED"

VARIABLES
  loco,         \* locoAddress
  engine,       \* engineState
  engineTimer,
  entries,      \* locoEngineStates
  next,         \* engineQueueIndex, counted from 1
  onScreen,     \* ENGINE_SCREEN is shown
  levels        \* isFunctionOff(ENGINE_OFF_FN)

enginevars == <<loco, engine, engineTimer, entries, next, onScreen, levels>>

Places == 1 .. ENGINE_STATE_QUEUE_SIZE

EngineInit ==
  /\ loco \in Locos
  /\ engine = "OFF" /\ engineTimer = 0
  /\ entries = [i \in Places |-> [addr |-> NoLoco, state |-> NotInitialized]]
  /\ next = 1
  /\ onScreen = FALSE
  /\ levels \in BOOLEAN

\* The searches of the queue stop at the first entry of the address.
Known(queue, addr) == \E i \in Places : queue[i].addr = addr
First(queue, addr) ==
  CHOOSE i \in Places : queue[i].addr = addr /\ \A j \in 1 .. i - 1 : queue[j].addr # addr

\* engineStatesQueueGetState()
Lookup(queue, addr) ==
  IF Known(queue, addr) THEN queue[First(queue, addr)].state ELSE NotInitialized

\* engineStatesQueueUpdate(): in place, or over the oldest insertion.
Remembered(addr, state) ==
  IF Known(entries, addr) THEN [entries EXCEPT ![First(entries, addr)].state = state]
  ELSE [entries EXCEPT ![next] = [addr |-> addr, state |-> state]]
NextAfter(addr) ==
  IF Known(entries, addr) THEN next ELSE IF next = ENGINE_STATE_QUEUE_SIZE THEN 1 ELSE next + 1

-----------------------------------------------------------------------------
\* The top of every pass of the main loop.
Pass(idle) ==
  /\ engine' = CASE engine = "START" /\ engineTimer = 0 -> "RUNNING"
                 [] engine = "NOT_IDLE" /\ idle -> "RUNNING"
                 [] engine = "STOP" /\ engineTimer = 0 -> "OFF"
                 [] OTHER -> engine
  /\ UNCHANGED <<loco, engineTimer, entries, next, onScreen, levels>>

Decisec ==
  /\ engineTimer > 0
  /\ engineTimer' = engineTimer - 1
  /\ UNCHANGED <<loco, engine, entries, next, onScreen, levels>>

ShowEngine ==
  /\ ~onScreen /\ onScreen' = TRUE
  /\ UNCHANGED <<loco, engine, engineTimer, entries, next, levels>>

Up ==
  /\ onScreen
  /\ \/ levels /\ engine' = "ON" /\ UNCHANGED engineTimer
     \/ /\ ~levels /\ engine \in {"OFF", "RUNNING"}
        /\ engine' = "START" /\ engineTimer' = ENGINE_TIMER_DECISECS
  /\ UNCHANGED <<loco, entries, next, onScreen, levels>>

Down(idle) ==
  /\ onScreen
  /\ \/ levels /\ engine' = "OFF" /\ UNCHANGED engineTimer
     \/ ~levels /\ idle /\ engine' = "STOP" /\ engineTimer' = ENGINE_TIMER_DECISECS
     \/ ~levels /\ ~idle /\ engine' = "NOT_IDLE" /\ UNCHANGED engineTimer
  /\ UNCHANGED <<loco, entries, next, onScreen, levels>>

\* MENU, SELECT or the time limit of the screen.
LeaveEngine ==
  /\ onScreen /\ onScreen' = FALSE
  /\ engine' = IF engine = "NOT_IDLE" THEN "RUNNING" ELSE engine
  /\ UNCHANGED <<loco, engineTimer, entries, next, levels>>

\* Mutant: the outgoing locomotive is saved first, and may push the incoming one out.
StateAfterSave(addr) ==
  IF Lookup(Remembered(loco, engine), addr) = NotInitialized THEN engine
  ELSE Lookup(Remembered(loco, engine), addr)

\* The incoming locomotive's state, looked up before the outgoing one is saved.
StateFor(addr) ==
  IF Lookup(entries, addr) = NotInitialized THEN engine ELSE Lookup(entries, addr)

Swap(addr) ==
  /\ ~onScreen
  /\ engine' = StateFor(addr)
  /\ entries' = Remembered(loco, engine) /\ next' = NextAfter(loco)
  /\ loco' = addr
  /\ UNCHANGED <<engineTimer, onScreen>>

\* SELECT in LOCO ...
SetLoco(addr) == Swap(addr) /\ UNCHANGED levels

\* ... and a profile loaded from a slot or pulled over the air, which brings its functions.
LoadLoco(addr) == Swap(addr) /\ levels' \in BOOLEAN

EngineNext ==
  \/ \E idle \in BOOLEAN : Pass(idle) \/ Down(idle)
  \/ Decisec \/ ShowEngine \/ Up \/ LeaveEngine
  \/ \E addr \in Locos : SetLoco(addr) \/ LoadLoco(addr)

EngineSpec == EngineInit /\ [][EngineNext]_enginevars
=============================================================================
