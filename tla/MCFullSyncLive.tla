----------------------------- MODULE MCFullSyncLive -----------------------------
(***************************************************************************)
(* Small instances of FullSyncLive: the constants of its configurations.       *)
(***************************************************************************)
EXTENDS FullSyncLive

CONSTANTS d1, d2, w1, w2

TwoDevices == {d1, d2}
OneDevice == {d1}
NoDevice == {}

TwoWorkers == {w1, w2}
OneWorker == {w1}

\* One worker on each device, or all of them on one device.
WorkerEach == [w \in Worker |-> IF w = w1 THEN d1 ELSE d2]
AllOnOne == [w \in Worker |-> d1]

=============================================================================
