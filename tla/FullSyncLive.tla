---------------------------- MODULE FullSyncLive ----------------------------
(***************************************************************************)
(* What FullSync must eventually do.                                       *)
(*                                                                         *)
(* Nothing is due while the network fails or the users keep writing, so    *)
(* the environment becomes calm at some point: no fault, no new entry and  *)
(* no deletion any more.  Users still run the program, and every process   *)
(* starts with a sync.                                                     *)
(***************************************************************************)
EXTENDS FullSync

VARIABLE calm

liveVars == <<vars, calm>>

LiveInit == Init /\ calm = FALSE

\* A user marks an entry when it is saved.  (While it is being saved the text
\* UI may list it already: that is left to LiveSpec.)
Write == \E d \in Device : AddPut(d) \/ (adding[d] = {} /\ Mark(d))

Proceed ==
  \/ \E w \in Worker : StartSync(w) \/ SyncStep(w)
  \/ \E d \in Device : AddVersion(d) \/ Leave(d)

BecomeCalm == ~calm /\ calm' = TRUE /\ UNCHANGED vars

ReliableNext ==
  \/ BecomeCalm
  \/ ~calm /\ Write /\ UNCHANGED calm
  \/ Proceed /\ UNCHANGED calm

LiveNext ==
  \/ ReliableNext
  \/ ~calm /\ (Fault \/ \E d \in Device : Mark(d)) /\ UNCHANGED calm

\* A worker's goroutine is scheduled, and each of its requests is answered or
\* times out after 30 s; a save that has begun ends; a user who has
\* nothing running leaves the program, and starts it again.
Fairness ==
  /\ WF_liveVars(BecomeCalm)
  /\ \A w \in Worker :
       /\ WF_liveVars(SyncStep(w) /\ UNCHANGED calm)
       /\ WF_liveVars(StartSync(w) /\ UNCHANGED calm)
  /\ \A d \in Device :
       /\ WF_liveVars(AddVersion(d) /\ UNCHANGED calm)
       /\ WF_liveVars(Leave(d) /\ UNCHANGED calm)

LiveSpec == LiveInit /\ [][LiveNext]_liveVars /\ Fairness

\* The same when nothing ever fails: what goes wrong here needs no fault.
ReliableSpec == LiveInit /\ [][ReliableNext]_liveVars /\ Fairness

-----------------------------------------------------------------------------

\* FullSync always returns: no retry inside it, and no loop that waits.
SyncEnds == \A w \in Worker : (~Idle(w)) ~> Idle(w)

Unwanted(e) == \E d \in Device : e \in marked[d]

\* "Entry added and synced" (cmd/client/main.go:314): an entry that has a
\* version on a device comes to the server, unless its user deletes it.
EventuallyPublished ==
  \A d \in Device, e \in Entry :
    (versions[d][e] > 0) ~> (row[e] # NoVersion \/ Unwanted(e))

=============================================================================
