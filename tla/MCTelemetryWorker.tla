-------------------------- MODULE MCTelemetryWorker --------------------------
(***************************************************************************)
(* Small instances of TelemetryWorker. One device sends a position, the    *)
(* gateway receives it again after a reconnection (same serial and hash,   *)
(* other connection and time), and the device's disconnect and heartbeat   *)
(* surround them.                                                          *)
(***************************************************************************)
EXTENDS TelemetryWorker, TLC

CONSTANTS w1, w2

OneWorker  == {w1}
TwoWorkers == {w1, w2}
MCImeis == {"imei"}

M(kind, hash, at, conn) ==
  [kind |-> kind, imei |-> "imei", serial |-> 1, hash |-> hash,
   at |-> at, conn |-> conn]

Position   == M("position", 7, 1, 1)
Resent     == M("position", 7, 2, 2)
Heartbeat  == M("heartbeat", 0, 2, 2)
Disconnect == M("disconnect", 0, 1, 1)

TwoMessages  == {Position, Resent}
FourMessages == {Position, Resent, Heartbeat, Disconnect}

WorkerSymmetry == Permutations(TwoWorkers)
=============================================================================
