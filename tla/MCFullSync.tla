----------------------------- MODULE MCFullSync -----------------------------
(***************************************************************************)
(* Small instances of FullSync: the constants of its configurations.       *)
(***************************************************************************)
EXTENDS FullSync, TLC

CONSTANTS d1, d2, w1, w2

TwoDevices == {d1, d2}
OneDevice == {d1}
NoDevice == {}

TwoWorkers == {w1, w2}
OneWorker == {w1}

\* One worker on each device, or all of them on one device.
WorkerEach == [w \in Worker |-> IF w = w1 THEN d1 ELSE d2]
AllOnOne == [w \in Worker |-> d1]

\* A device is like any other, and takes its worker with it; so are two workers
\* of a device.
SwapDevices ==
  {p \in Permutations(Device \union Worker) :
     \A w \in Worker : p[w] \in Worker /\ p[WorkerEach[w]] = WorkerEach[p[w]]}
SwapWorkers == Permutations(Worker)

=============================================================================
