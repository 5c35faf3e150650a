-------------------------- MODULE LocoEngineHistory --------------------------
(***************************************************************************)
(* What the queue of engine states promises: the locomotives left last     *)
(* come back with the engine they were left with.                          *)
(***************************************************************************)
EXTENDS LocoEngine

VARIABLES
  left    \* the locomotives left, the latest newcomer last, each with the state it was left in

engineall == <<enginevars, left>>

Recall(addr) == {p \in 1 .. Len(left) : left[p].addr = addr}

\* Leaving a locomotive: it is noted in its place, or the oldest note is dropped for it.
\* Address 0 is not, while a place was never used.
Full == Len(left) = ENGINE_STATE_QUEUE_SIZE
Noted(addr, state) ==
  LET note == [addr |-> addr, state |-> state] IN
  IF Recall(addr) # {} THEN [p \in 1 .. Len(left) |-> IF p \in Recall(addr) THEN note ELSE left[p]]
  ELSE IF Full THEN Append(Tail(left), note)
  ELSE IF addr = NoLoco THEN left ELSE Append(left, note)

LHInit == EngineInit /\ left = <<>>

LHNext ==
  \/ \E addr \in Locos : (SetLoco(addr) \/ LoadLoco(addr)) /\ left' = Noted(loco, engine)
  \/ /\ \/ \E idle \in BOOLEAN : Pass(idle) \/ Down(idle)
        \/ Decisec \/ ShowEngine \/ Up \/ LeaveEngine
     /\ UNCHANGED left

LHSpec == LHInit /\ [][LHNext]_engineall

EngineTypeOK ==
  /\ loco \in Locos /\ engine \in EngineStates
  /\ engineTimer \in 0 .. ENGINE_TIMER_DECISECS
  /\ entries \in [Places -> [addr : Locos \cup {NoLoco}, state : EngineStates \cup {NotInitialized}]]
  /\ next \in Places
  /\ {onScreen, levels} \subseteq BOOLEAN

-----------------------------------------------------------------------------
(* A locomotive that is among the last ones left comes back with the engine *)
(* state it was left with, any other one takes over the present state.  For *)
(* address 0 this holds once every place of the queue has been used.  Until *)
(* then a place that was not passes for its own, which the next newcomer    *)
(* takes; the other locomotives never lose theirs to it.                    *)
EngineComesBack ==
  [][ loco' # loco /\ (loco' = NoLoco => Full) =>
        engine' = IF Recall(loco') = {} THEN engine
                  ELSE left[CHOOSE p \in Recall(loco') : TRUE].state ]_engineall

(* "Save current engine state": setting the locomotive that is already      *)
(* under control leaves its engine as it is.                                *)
EngineStaysOn ==
  [][ entries' # entries /\ loco' = loco => engine' = engine ]_engineall
=============================================================================
