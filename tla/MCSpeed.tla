------------------------------ MODULE MCSpeed ------------------------------
(* A decoder without acceleration momentum (ACCEL 0), two speed steps of    *)
(* eight units and an 8-bit Word: sums wrap as those of 126 steps of 256 do in 16 bits. *)
EXTENDS SpeedHistory

MCZero ==
  {[accel |-> 0, accelAdj |-> 0, decel |-> 8, decelAdj |-> 1, brake |-> <<120, 80, 120>>,
    delay |-> 0, maxMph |-> 30, opload |-> 128, prload |-> 255, accPct |-> 10,
    accTarget |-> 1, decPct |-> 200, decThr |-> 0]}
MCEdits == {[item |-> "delay", value |-> 1]}
MCInputs ==
  [demand : 0 .. 2, brakes : {{}, {1}}, emergency : {FALSE}, stopFn : {FALSE},
   hold : {FALSE}, load : {"none"}]
=============================================================================
