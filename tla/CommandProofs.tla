---------------------------- MODULE CommandProofs ----------------------------
(***************************************************************************)
(* What FullSync promises a device that runs the command line client: one  *)
(* operation at a time there, beside any number of devices of either kind. *)
(***************************************************************************)
EXTENDS FullSyncProofs

USE DEF Command, CommandWorker

\* What a step of a worker leaves alone, and what it may do to the server.
WorkerStep(w) ==
  /\ \A u \in Worker \ {w} : sync'[u] = sync[u]
  /\ UNCHANGED <<adding, stamp, marked>>
  /\ \A d \in Device \ {Home[w]} :
       /\ entries'[d] = entries[d] /\ versions'[d] = versions[d]
       /\ due'[d] = due[d] /\ open'[d] = open[d]
  /\ \A e \in Entry :
       row'[e] = row[e] \/ row'[e] = stamp[e] \/ \E c \in Device : e \in marked[c]

\* No other command runs on the worker's device.
Alone(w) == \A u \in CommandWorker \ {w} : Home[u] = Home[w] => Idle(u)

LEMMA TypesOk ==
  ASSUME IInv
  PROVE  /\ sync \in [Worker -> SyncState]
         /\ entries \in [Device -> SUBSET Entry]
         /\ versions \in [Device -> [Entry -> Stamp \union {NoVersion, Tombstone}]]
         /\ row \in [Entry -> Stamp \union {NoVersion}]
         /\ adding \in [Device -> SUBSET Entry]
         /\ due \in [Device -> Nat]
         /\ open \in [Device -> BOOLEAN]
         /\ Home \in [Worker -> Device]
BY WorkerAssumption DEF IInv, TypeOK

LEMMA VersionIsInt ==
  ASSUME IInv, NEW d \in Device, NEW e \in Entry
  PROVE  versions[d][e] \in Int
<1>1. versions[d][e] \in Stamp \union {NoVersion, Tombstone}
  BY TypesOk
<1>2. Stamp \subseteq Int
  BY WorkerAssumption
<1>3. NoVersion \in Int /\ Tombstone \in Int
  BY DEF NoVersion, Tombstone
<1> QED BY <1>1, <1>2, <1>3

\* What is published stays so, whatever a worker does to the server.
LEMMA PublishedKept ==
  ASSUME IInv, NEW d \in Device, NEW e \in Entry, Published(d, e),
         versions'[d][e] = versions[d][e], UNCHANGED marked,
         row'[e] = row[e] \/ row'[e] = stamp[e] \/ \E c \in Device : e \in marked[c]
  PROVE  Published(d, e)'
<1>1. versions[d][e] > 0 => versions[d][e] = stamp[e]
  BY DEF IInv, VersionsAgree, NoVersion, Tombstone
<1> QED BY <1>1 DEF Published

\* The workers of other commands do not notice.
LEMMA OthersOk ==
  ASSUME CommandInv, NEW w \in Worker, WorkerStep(w), Alone(w)
  PROVE  \A u \in CommandWorker \ {w} : PhasesOk(u)'
<1> SUFFICES ASSUME NEW u \in CommandWorker \ {w} PROVE PhasesOk(u)'
  OBVIOUS
<1>1. /\ sync'[u] = sync[u] /\ sync[u] \in SyncState /\ Home[u] \in Device
      /\ PhasesOk(u) /\ UNCHANGED marked
  BY TypesOk DEF WorkerStep, CommandInv
<1>2. CASE Idle(u)
  BY <1>1, <1>2 DEF Idle, PhasesOk, PullPhase, PushPhase, InHand
<1>3. CASE ~Idle(u)
  <2>1. entries'[Home[u]] = entries[Home[u]] /\ versions'[Home[u]] = versions[Home[u]]
    BY <1>1, <1>3 DEF Alone, WorkerStep
  <2>2. \A e \in Entry : Published(Home[u], e) => Published(Home[u], e)'
    BY <1>1, <2>1, PublishedKept DEF WorkerStep, CommandInv
  <2>3. sync[u].ids \subseteq Entry
    BY <1>1 DEF SyncState
  <2>4. PullPhase(u)' /\ InHand(u)'
    BY <1>1, <2>1 DEF PhasesOk, PullPhase, InHand, Below
  <2>5. PushPhase(u)'
    BY <1>1, <2>2, <2>3 DEF PhasesOk, PushPhase
  <2> QED BY <2>4, <2>5 DEF PhasesOk
<1> QED BY <1>2, <1>3

\* A worker that runs is alone, and nothing is ordered or saved.
LEMMA Busy ==
  ASSUME CommandInv, NEW w \in CommandWorker, ~Idle(w)
  PROVE  Alone(w) /\ due[Home[w]] = 0 /\ adding[Home[w]] = {}
<1>1. Home[w] \in Device /\ due[Home[w]] \in Nat
  BY TypesOk DEF CommandInv
<1>2. ~Quiet(Home[w]) /\ ~\A u \in WorkersOf(Home[w]) : Idle(u)
  BY DEF Quiet, WorkersOf
<1> QED BY <1>1, <1>2 DEF CommandInv, OneAtATime, Alone

\* A worker that goes on, or returns, lets nothing else start.
LEMMA StillOne ==
  ASSUME CommandInv, NEW w \in CommandWorker, ~Idle(w), WorkerStep(w), UNCHANGED due
  PROVE  OneAtATime'
<1>1. /\ Alone(w) /\ due[Home[w]] = 0 /\ adding[Home[w]] = {}
      /\ Home \in [Worker -> Device]
  BY Busy, TypesOk DEF CommandInv
<1>2. \A u \in Worker : Idle(u)' => Idle(u) \/ u = w
  BY DEF WorkerStep, Idle
<1>3. \A u \in Worker \ {w} : Idle(u)' <=> Idle(u)
  BY DEF WorkerStep, Idle
<1>4. \A d \in Device \ {Home[w]} : Quiet(d)' <=> Quiet(d)
  BY <1>3 DEF WorkerStep, Quiet, WorkersOf
<1>5. \A u, v \in CommandWorker : Home[u] = Home[v] /\ ~Idle(u)' /\ ~Idle(v)' => u = v
  BY <1>1, <1>3 DEF Alone, CommandInv, OneAtATime
<1>6. \A d \in Command : due'[d] > 0 => due'[d] = 1 /\ open'[d] /\ Quiet(d)'
  BY <1>1, <1>4 DEF WorkerStep, CommandInv, OneAtATime
<1>7. \A d \in Command : adding'[d] # {} =>
         due'[d] = 0 /\ open'[d] /\ \A u \in WorkersOf(d) : Idle(u)'
  BY <1>1, <1>3 DEF WorkerStep, CommandInv, OneAtATime, WorkersOf
<1> QED BY <1>5, <1>6, <1>7 DEF OneAtATime, Idle, Quiet, WorkersOf

\* What is left to show of a step of a worker that runs.
LEMMA WorkerOk ==
  ASSUME CommandInv, IInv', NEW w \in CommandWorker, ~Idle(w), WorkerStep(w), UNCHANGED due,
         PhasesOk(w)', VersionHasData'
  PROVE  CommandInv'
<1>1. StampsDiffer'
  BY DEF CommandInv, StampsDiffer, WorkerStep
<1>2. \A u \in CommandWorker : PhasesOk(u)'
  BY Busy, OthersOk
<1> QED BY <1>1, <1>2, StillOne DEF CommandInv

-----------------------------------------------------------------------------
(* The steps of a worker.                                                  *)

\* A step that changes the worker, and not the stores.
LEMMA QuietStep ==
  ASSUME CommandInv, NEW w \in CommandWorker, NEW s, Becomes(w, s),
         UNCHANGED <<entries, versions, adding, due, stamp, marked>>,
         \A d \in Device \ {Home[w]} : open'[d] = open[d],
         \A e \in Entry :
           row'[e] = row[e] \/ row'[e] = stamp[e] \/ \E c \in Device : e \in marked[c]
  PROVE  /\ WorkerStep(w) /\ VersionHasData'
         /\ sync'[w] = s
         /\ \A e \in Entry : Published(Home[w], e) => Published(Home[w], e)'
<1>1. sync'[w] = s /\ \A u \in Worker \ {w} : sync'[u] = sync[u]
  BY BecomesOk DEF CommandInv
<1>2. WorkerStep(w)
  BY <1>1 DEF WorkerStep
<1>3. VersionHasData'
  BY DEF CommandInv, VersionHasData
<1>4. Home[w] \in Device
  BY TypesOk DEF CommandInv
<1> QED BY <1>1, <1>2, <1>3, <1>4, PublishedKept DEF CommandInv

\* What a push or a delete does to the server.
LEMMA PushedRow ==
  ASSUME CommandInv, NEW w \in Worker, sync[w].pc = "send",
         ServerPush(sync[w].cur, sync[w].held)
  PROVE  \A e \in Entry : row'[e] = row[e] \/ row'[e] = stamp[e]
BY TypesOk DEF CommandInv, IInv, HandOk, ServerPush

LEMMA DeletedRow ==
  ASSUME CommandInv, NEW w \in Worker, sync[w].pc = "deleteSend",
         ServerDelete(sync[w].cur)
  PROVE  \A e \in Entry : row'[e] = row[e] \/ \E c \in Device : e \in marked[c]
BY TypesOk DEF CommandInv, IInv, HandOk, ServerDelete

LEMMA Returns ==
  ASSUME CommandInv, IInv', NEW w \in CommandWorker,
         \/ PushRefused(w) \/ SyncDone(w) \/ PullFail(w) \/ ApplyPutFail(w) \/ PushFail(w)
         \/ PushLost(w)
  PROVE  CommandInv'
<1>1. ~Idle(w) /\ Return(w) /\ UNCHANGED <<entries, versions, adding, due, stamp, marked>>
  BY DEF PushRefused, SyncDone, PullFail, ApplyPutFail, PushFail, PushLost, Idle
<1>2. \A e \in Entry :
        row'[e] = row[e] \/ row'[e] = stamp[e] \/ \E c \in Device : e \in marked[c]
  BY PushedRow DEF PushRefused, SyncDone, PullFail, ApplyPutFail, PushFail, PushLost
<1>3. \A d \in Device \ {Home[w]} : open'[d] = open[d]
  BY <1>1, TypesOk DEF Return, CommandInv
<1>4. WorkerStep(w) /\ VersionHasData' /\ sync'[w] = AtRest
  BY <1>1, <1>2, <1>3, QuietStep DEF Return
<1>5. PhasesOk(w)'
  BY <1>4 DEF PhasesOk, PullPhase, PushPhase, InHand, AtRest
<1> QED BY <1>1, <1>4, <1>5, WorkerOk

LEMMA PullOkOk ==
  ASSUME CommandInv, IInv', NEW w \in CommandWorker, PullOk(w)
  PROVE  CommandInv'
<1>1. /\ WorkerStep(w) /\ VersionHasData' /\ ~Idle(w)
      /\ sync'[w] = [sync[w] EXCEPT !.pc = "apply", !.since = NoVersion,
                                    !.pulled = ServerPull(sync[w].since),
                                    !.calls = Counted(@)]
  BY QuietStep DEF PullOk, Idle
<1>2. sync[w] \in SyncState /\ Home[w] \in Device
  BY TypesOk DEF CommandInv
<1>3. sync'[w].pc = "apply" /\ sync'[w].pulled = ServerPull(sync[w].since)
  BY <1>1, <1>2 DEF SyncState
<1>4. ASSUME NEW r \in sync'[w].pulled, NEW e \in Entry
      PROVE  versions'[Home[w]][e] < r.version
  <2>1. versions[Home[w]][e] <= sync[w].since
    BY DEF PullOk, CommandInv, PhasesOk, PullPhase
  <2>2. r.version > sync[w].since /\ r.version \in Int
    <3>1. PICK f \in Entry : r = [id |-> f, version |-> row[f]] /\ row[f] > sync[w].since
      BY <1>3 DEF ServerPull
    <3>2. row[f] \in Int
      BY TypesOk, TimeIsNat DEF CommandInv
    <3> QED BY <3>1, <3>2
  <2>3. versions[Home[w]][e] \in Int /\ sync[w].since \in Int
    BY <1>2, VersionIsInt DEF CommandInv, SyncState
  <2> QED BY <2>1, <2>2, <2>3 DEF PullOk
<1>5. PhasesOk(w)'
  BY <1>3, <1>4 DEF PhasesOk, PullPhase, PushPhase, InHand, Below
<1> QED BY <1>1, <1>5, WorkerOk DEF PullOk

LEMMA ApplyPutOk ==
  ASSUME CommandInv, IInv', NEW w \in CommandWorker, ApplyPut(w)
  PROVE  CommandInv'
<1>1. PICK r \in sync[w].pulled :
        /\ Earliest(r, sync[w].pulled) /\ Put(Home[w], r.id)
        /\ Becomes(w, [sync[w] EXCEPT !.pc = "applyVersion", !.pulled = @ \ {r},
                                      !.cur = r.id, !.held = r.version])
  BY DEF ApplyPut
<1>2. sync[w] \in SyncState /\ Home[w] \in Device /\ ~Idle(w) /\ sync[w].pc = "apply"
  BY TypesOk DEF CommandInv, ApplyPut, Idle
<1>3. /\ sync'[w].pc = "applyVersion" /\ sync'[w].pulled = sync[w].pulled \ {r}
      /\ sync'[w].cur = r.id /\ sync'[w].held = r.version
      /\ \A u \in Worker \ {w} : sync'[u] = sync[u]
  <2>1. /\ sync'[w] = [sync[w] EXCEPT !.pc = "applyVersion", !.pulled = @ \ {r},
                                     !.cur = r.id, !.held = r.version]
        /\ \A u \in Worker \ {w} : sync'[u] = sync[u]
    BY <1>1, BecomesOk DEF CommandInv
  <2> QED BY <1>2, <2>1 DEF SyncState
<1>4. /\ UNCHANGED <<versions, row, adding, due, open, stamp, marked>>
      /\ r.id \in entries'[Home[w]]
      /\ \A d \in Device : entries[d] \subseteq entries'[d]
      /\ \A d \in Device \ {Home[w]} : entries'[d] = entries[d]
  BY <1>1, <1>2, TypesOk DEF ApplyPut, Put, CommandInv
<1>5. WorkerStep(w) /\ VersionHasData'
  BY <1>3, <1>4 DEF WorkerStep, CommandInv, VersionHasData
<1>6. ASSUME NEW q \in sync[w].pulled \ {r} PROVE r.version < q.version
  <2>1. r.version <= q.version /\ r \in Row /\ q \in Row
    BY <1>1, <1>2 DEF Earliest, SyncState
  <2>2. /\ r.version = stamp[r.id] /\ q.version = stamp[q.id]
        /\ r.version # NoVersion /\ q.version # NoVersion
    BY DEF CommandInv, IInv, HandOk
  <2>3. r.id # q.id
    BY <2>1, <2>2 DEF Row
  <2> QED BY <2>1, <2>2, <2>3 DEF CommandInv, StampsDiffer, Row
<1>7. PullPhase(w)'
  BY <1>1, <1>3, <1>4, <1>6 DEF PullPhase, Below, CommandInv, PhasesOk
<1>8. PhasesOk(w)'
  BY <1>3, <1>7 DEF PhasesOk, PushPhase, InHand
<1> QED BY <1>2, <1>4, <1>5, <1>8, WorkerOk

LEMMA ApplyVersionOk ==
  ASSUME CommandInv, IInv', NEW w \in CommandWorker, ApplyVersion(w) \/ ApplyVersionFail(w)
  PROVE  CommandInv'
<1> DEFINE d == Home[w]  v == sync[w].held
<1>1. /\ sync[w] \in SyncState /\ d \in Device /\ ~Idle(w)
      /\ sync[w].pc = "applyVersion" /\ NextEntry(w, "apply")
      /\ UNCHANGED <<entries, row, adding, due, open, stamp, marked>>
  BY TypesOk DEF CommandInv, ApplyVersion, ApplyVersionFail, Idle
<1>2. /\ sync'[w].pc = "apply" /\ sync'[w].pulled = sync[w].pulled
      /\ \A u \in Worker \ {w} : sync'[u] = sync[u]
  BY <1>1, NextEntryStep DEF CommandInv
<1>3. /\ \A e \in Entry : versions'[d][e] = versions[d][e] \/ (e = sync[w].cur /\ versions'[d][e] = v)
      /\ \A c \in Device \ {d} : versions'[c] = versions[c]
  BY <1>1, TypesOk DEF ApplyVersion, ApplyVersionFail, PutVersion, CommandInv
<1>4. /\ sync[w].cur \in entries[d]
      /\ \A r \in sync[w].pulled : v < r.version /\ Below(d, r.version)
  BY <1>1 DEF CommandInv, PhasesOk, PullPhase
<1>5. WorkerStep(w)
  BY <1>1, <1>2, <1>3 DEF WorkerStep
<1>6. VersionHasData'
  BY <1>1, <1>3, <1>4 DEF CommandInv, VersionHasData
<1>7. PhasesOk(w)'
  BY <1>2, <1>3, <1>4 DEF PhasesOk, PullPhase, PushPhase, InHand, Below
<1> QED BY <1>1, <1>5, <1>6, <1>7, WorkerOk

\* A step of the loops over the listing, and of the drop, in state s.
LEMMA LoopOk ==
  ASSUME CommandInv, IInv', NEW w \in CommandWorker, ~Idle(w), NEW s, Becomes(w, s),
         UNCHANGED <<entries, versions, adding, due, open, stamp, marked>>,
         \A e \in Entry :
           row'[e] = row[e] \/ row'[e] = stamp[e] \/ \E c \in Device : e \in marked[c],
         PullPhase(w)',
         (\A e \in Entry : Published(Home[w], e) => Published(Home[w], e)') => PushPhase(w)',
         InHand(w)'
  PROVE  CommandInv'
<1>1. /\ WorkerStep(w) /\ VersionHasData'
      /\ \A e \in Entry : Published(Home[w], e) => Published(Home[w], e)'
  BY QuietStep
<1> QED BY <1>1, WorkerOk DEF PhasesOk

LEMMA ListEntriesOk ==
  ASSUME CommandInv, IInv', NEW w \in CommandWorker, ListEntries(w)
  PROVE  CommandInv'
<1> DEFINE s == [sync[w] EXCEPT !.pc = "push", !.ids = List(Home[w]), !.todo = List(Home[w])]
<1>1. /\ Becomes(w, s) /\ ~Idle(w) /\ sync[w].pulled = {}
      /\ UNCHANGED <<entries, versions, row, adding, due, open, stamp, marked>>
  BY DEF ListEntries, Idle
<1>2. sync[w] \in SyncState
  BY TypesOk DEF CommandInv
<1>3. sync'[w] = s
  BY <1>1, BecomesOk DEF CommandInv
<1>4. /\ sync'[w].pc = "push" /\ sync'[w].pulled = {}
      /\ sync'[w].ids = sync'[w].todo
  BY <1>1, <1>2, <1>3 DEF SyncState
<1>5. PullPhase(w)' /\ PushPhase(w)' /\ InHand(w)'
  BY <1>4 DEF PullPhase, PushPhase, InHand
<1> QED BY <1>1, <1>5, LoopOk

LEMMA PushReadOk ==
  ASSUME CommandInv, IInv', NEW w \in CommandWorker, PushSkip(w) \/ PushRead(w) \/ PushGet(w)
  PROVE  CommandInv'
<1>1. /\ ~Idle(w) /\ sync[w] \in SyncState /\ Home[w] \in Device
      /\ UNCHANGED <<entries, versions, row, adding, due, open, stamp, marked>>
  BY TypesOk DEF PushSkip, PushRead, PushGet, Idle, CommandInv
<1>2. sync[w].pulled = {} /\ PushPhase(w) /\ sync[w].ids \subseteq Entry
  BY <1>1 DEF CommandInv, PhasesOk, PullPhase, PushSkip, PushRead, PushGet, SyncState
<1>3. CASE PushSkip(w)
  <2>1. PICK e \in sync[w].todo :
          /\ NotForPush(versions[Home[w]][e])
          /\ Becomes(w, [sync[w] EXCEPT !.todo = @ \ {e}])
    BY <1>3 DEF PushSkip, GetVersion
  <2>2. sync'[w] = [sync[w] EXCEPT !.todo = @ \ {e}]
    BY <2>1, BecomesOk DEF CommandInv
  <2>3. /\ sync'[w].pc = "push" /\ sync'[w].pulled = {} /\ sync'[w].ids = sync[w].ids
        /\ sync'[w].todo = sync[w].todo \ {e}
    BY <1>1, <1>2, <1>3, <2>2 DEF SyncState, PushSkip
  <2>4. Published(Home[w], e)
    BY <2>1 DEF Published, NotForPush, NoVersion, Tombstone
  <2>5. PullPhase(w)' /\ InHand(w)'
    BY <2>3 DEF PullPhase, InHand
  <2>6. (\A f \in Entry : Published(Home[w], f) => Published(Home[w], f)') => PushPhase(w)'
    BY <1>2, <1>3, <2>3, <2>4 DEF PushPhase, PushSkip
  <2> QED BY <1>1, <2>1, <2>5, <2>6, LoopOk
<1>4. CASE PushRead(w)
  <2>1. PICK e \in sync[w].todo :
          Becomes(w, [sync[w] EXCEPT !.pc = "get", !.todo = @ \ {e}, !.cur = e,
                                     !.held = GetVersion(Home[w], e)])
    BY <1>4 DEF PushRead
  <2>2. sync'[w] = [sync[w] EXCEPT !.pc = "get", !.todo = @ \ {e}, !.cur = e,
                                   !.held = GetVersion(Home[w], e)]
    BY <2>1, BecomesOk DEF CommandInv
  <2>3. /\ sync'[w].pc = "get" /\ sync'[w].pulled = {} /\ sync'[w].ids = sync[w].ids
        /\ sync'[w].todo = sync[w].todo \ {e} /\ sync'[w].cur = e
        /\ sync'[w].held = versions[Home[w]][e]
    BY <1>1, <1>2, <2>2 DEF SyncState, GetVersion
  <2>4. PullPhase(w)' /\ InHand(w)'
    BY <1>1, <2>3 DEF PullPhase, InHand
  <2>5. (\A f \in Entry : Published(Home[w], f) => Published(Home[w], f)') => PushPhase(w)'
    BY <1>2, <1>4, <2>3 DEF PushPhase, PushRead
  <2> QED BY <1>1, <2>1, <2>4, <2>5, LoopOk
<1>5. CASE PushGet(w)
  <2>1. /\ Becomes(w, [sync[w] EXCEPT !.pc = "send"])
        /\ sync[w].pc = "get" /\ sync[w].cur \in entries[Home[w]]
    BY <1>5 DEF PushGet
  <2>2. sync'[w] = [sync[w] EXCEPT !.pc = "send"]
    BY <2>1, BecomesOk DEF CommandInv
  <2>3. /\ sync'[w].pc = "send" /\ sync'[w].pulled = {} /\ sync'[w].ids = sync[w].ids
        /\ sync'[w].todo = sync[w].todo /\ sync'[w].cur = sync[w].cur
        /\ sync'[w].held = sync[w].held
    BY <1>1, <1>2, <2>2 DEF SyncState
  <2>4. InHand(w)
    BY DEF CommandInv, PhasesOk
  <2>5. PullPhase(w)' /\ InHand(w)'
    BY <1>1, <2>1, <2>3, <2>4 DEF PullPhase, InHand
  <2>6. (\A f \in Entry : Published(Home[w], f) => Published(Home[w], f)') => PushPhase(w)'
    BY <1>2, <2>1, <2>3 DEF PushPhase
  <2> QED BY <1>1, <2>1, <2>5, <2>6, LoopOk
<1> QED BY <1>3, <1>4, <1>5

\* What the loops leave as it was.
LEMMA NextEntryKeeps ==
  ASSUME CommandInv, NEW w \in Worker, NEW loop \in {"apply", "push", "delete"},
         NextEntry(w, loop) \/ NextEntryAfterCall(w, loop)
  PROVE  /\ \E s : Becomes(w, s)
         /\ sync'[w].pc = loop /\ sync'[w].pulled = sync[w].pulled
         /\ sync'[w].ids = sync[w].ids /\ sync'[w].todo = sync[w].todo
<1>1. sync[w] \in SyncState
  BY TypesOk DEF CommandInv
<1>2. CASE NextEntry(w, loop)
  <2>1. sync'[w] = [sync[w] EXCEPT !.pc = loop, !.cur = None, !.held = NoVersion]
    BY <1>2, BecomesOk DEF NextEntry, CommandInv
  <2> QED BY <1>1, <1>2, <2>1 DEF SyncState, NextEntry
<1>3. CASE NextEntryAfterCall(w, loop)
  <2>1. sync'[w] = [sync[w] EXCEPT !.pc = loop, !.cur = None, !.held = NoVersion,
                                   !.calls = Counted(@)]
    BY <1>3, BecomesOk DEF NextEntryAfterCall, CommandInv
  <2> QED BY <1>1, <1>3, <2>1 DEF SyncState, NextEntryAfterCall
<1> QED BY <1>2, <1>3

LEMMA PushOkOk ==
  ASSUME CommandInv, IInv', NEW w \in CommandWorker, PushOk(w) \/ PushGone(w)
  PROVE  CommandInv'
<1> DEFINE d == Home[w]
<1>1. /\ ~Idle(w) /\ sync[w] \in SyncState /\ d \in Device
      /\ sync[w].pc \in {"get", "send"}
      /\ NextEntry(w, "push") \/ NextEntryAfterCall(w, "push")
      /\ UNCHANGED <<entries, versions, adding, due, open, stamp, marked>>
  BY TypesOk DEF PushOk, PushGone, Idle, CommandInv
<1>2. sync[w].pulled = {} /\ PushPhase(w) /\ sync[w].ids \subseteq Entry
  BY <1>1 DEF CommandInv, PhasesOk, PullPhase, SyncState
<1>3. PICK e \in Entry : e = sync[w].cur /\ sync[w].held = stamp[e]
  BY <1>1 DEF CommandInv, IInv, HandOk
<1>4. \A f \in Entry :
        row'[f] = row[f] \/ row'[f] = stamp[f] \/ \E c \in Device : f \in marked[c]
  BY PushedRow DEF PushOk, PushGone
<1>5. PICK s : Becomes(w, s)
  BY <1>1, NextEntryKeeps
<1>6. /\ sync'[w].pc = "push" /\ sync'[w].pulled = {}
      /\ sync'[w].ids = sync[w].ids /\ sync'[w].todo = sync[w].todo
  BY <1>1, <1>2, NextEntryKeeps
<1>7. Published(d, e)'
  <2>1. CASE PushGone(w)
    BY <1>1, <1>3, <2>1 DEF PushGone, Published, CommandInv, VersionHasData
  <2>2. CASE PushOk(w)
    <3>1. ServerPush(e, stamp[e]) /\ row \in [Entry -> Stamp \union {NoVersion}]
      BY <1>3, <2>2, TypesOk DEF PushOk, CommandInv
    <3>2. row[e] = NoVersion \/ row[e] = stamp[e]
      BY <1>3 DEF CommandInv, IInv, VersionsAgree
    <3>3. row'[e] = stamp[e]
      BY <1>3, <3>1, <3>2 DEF ServerPush
    <3>4. versions[d][e] > 0 => versions[d][e] = stamp[e]
      BY <1>1, <1>3 DEF CommandInv, IInv, VersionsAgree, NoVersion, Tombstone
    <3> QED BY <1>1, <3>3, <3>4 DEF Published
  <2> QED BY <2>1, <2>2
<1>8. PullPhase(w)' /\ InHand(w)'
  BY <1>6 DEF PullPhase, InHand
<1>9. (\A f \in Entry : Published(d, f) => Published(d, f)') => PushPhase(w)'
  BY <1>1, <1>2, <1>3, <1>6, <1>7 DEF PushPhase
<1> QED BY <1>1, <1>4, <1>5, <1>8, <1>9, LoopOk

\* A step of the deletion that changes neither store.
LEMMA DeletionOk ==
  ASSUME CommandInv, IInv', NEW w \in CommandWorker, NEW s, Becomes(w, s),
         sync[w].pc \in {"push", "delete", "deleteSend", "dropEntry", "dropVersion"},
         sync[w].pc = "push" => sync[w].todo = {},
         s.pc \in {"delete", "deleteSend", "dropEntry", "dropVersion"},
         s.ids = sync[w].ids, s.pulled = sync[w].pulled,
         s.pc # "delete" => versions[Home[w]][s.cur] = Tombstone,
         UNCHANGED <<entries, versions, adding, due, open, stamp, marked>>,
         \A e \in Entry :
           row'[e] = row[e] \/ row'[e] = stamp[e] \/ \E c \in Device : e \in marked[c]
  PROVE  CommandInv'
<1>1. sync[w] \in SyncState /\ sync'[w] = s /\ ~Idle(w)
  BY TypesOk, BecomesOk DEF CommandInv, Idle
<1>2. sync[w].pulled = {} /\ PushPhase(w) /\ sync[w].ids \subseteq Entry
  BY <1>1 DEF CommandInv, PhasesOk, PullPhase, SyncState
<1>3. PullPhase(w)' /\ InHand(w)'
  BY <1>1, <1>2 DEF PullPhase, InHand
<1>4. (\A e \in Entry : Published(Home[w], e) => Published(Home[w], e)') => PushPhase(w)'
  BY <1>1, <1>2 DEF PushPhase
<1> QED BY <1>1, <1>3, <1>4, LoopOk

LEMMA DeleteLoopOk ==
  ASSUME CommandInv, IInv', NEW w \in CommandWorker,
         PushDone(w) \/ DeleteSkip(w) \/ DeleteRead(w) \/ DeleteMissing(w) \/ DeleteRefused(w)
  PROVE  CommandInv'
<1>1. /\ sync[w] \in SyncState
      /\ UNCHANGED <<entries, versions, row, adding, due, open, stamp, marked>>
  BY TypesOk DEF PushDone, DeleteSkip, DeleteRead, DeleteMissing, DeleteRefused, CommandInv
<1>2. CASE PushDone(w)
  <2> DEFINE s == [sync[w] EXCEPT !.pc = "delete", !.todo = sync[w].ids]
  <2>1. s.pc = "delete" /\ s.ids = sync[w].ids /\ s.pulled = sync[w].pulled
    BY <1>1 DEF SyncState
  <2>2. Becomes(w, s) /\ sync[w].pc = "push" /\ sync[w].todo = {}
    BY <1>2 DEF PushDone
  <2> HIDE DEF s
  <2> QED BY <1>1, <2>1, <2>2, DeletionOk
<1>3. CASE DeleteSkip(w)
  <2>1. PICK e : Becomes(w, [sync[w] EXCEPT !.todo = @ \ {e}]) /\ sync[w].pc = "delete"
    BY <1>3 DEF DeleteSkip
  <2> DEFINE s == [sync[w] EXCEPT !.todo = @ \ {e}]
  <2>2. s.pc = "delete" /\ s.ids = sync[w].ids /\ s.pulled = sync[w].pulled
    BY <1>1, <2>1 DEF SyncState
  <2>3. Becomes(w, s)
    BY <2>1
  <2> HIDE DEF s
  <2> QED BY <1>1, <2>1, <2>2, <2>3, DeletionOk
<1>4. CASE DeleteRead(w)
  <2>1. PICK e : /\ versions[Home[w]][e] = Tombstone /\ sync[w].pc = "delete"
                 /\ Becomes(w, [sync[w] EXCEPT !.pc = "deleteSend", !.todo = @ \ {e}, !.cur = e])
    BY <1>4 DEF DeleteRead, GetVersion
  <2> DEFINE s == [sync[w] EXCEPT !.pc = "deleteSend", !.todo = @ \ {e}, !.cur = e]
  <2>2. s.pc = "deleteSend" /\ s.ids = sync[w].ids /\ s.pulled = sync[w].pulled /\ s.cur = e
    BY <1>1 DEF SyncState
  <2>3. Becomes(w, s)
    BY <2>1
  <2> HIDE DEF s
  <2> QED BY <1>1, <2>1, <2>2, <2>3, DeletionOk
<1>5. CASE DeleteMissing(w) \/ DeleteRefused(w)
  <2>1. /\ NextEntry(w, "delete") \/ NextEntryAfterCall(w, "delete")
        /\ sync[w].pc = "deleteSend"
    BY <1>5 DEF DeleteMissing, DeleteRefused
  <2>2. PICK s : Becomes(w, s)
    BY <2>1, NextEntryKeeps
  <2>3. s.pc = "delete" /\ s.ids = sync[w].ids /\ s.pulled = sync[w].pulled
    BY <2>1, <2>2, NextEntryKeeps, BecomesOk DEF CommandInv
  <2> QED BY <1>1, <2>1, <2>2, <2>3, DeletionOk
<1> QED BY <1>2, <1>3, <1>4, <1>5

LEMMA DeleteCallOk ==
  ASSUME CommandInv, IInv', NEW w \in CommandWorker,
         DeleteOk(w) \/ DeleteFail(w) \/ DeleteLost(w)
  PROVE  CommandInv'
<1>1. /\ sync[w] \in SyncState /\ sync[w].pc = "deleteSend"
      /\ UNCHANGED <<entries, versions, adding, due, open, stamp, marked>>
      /\ versions[Home[w]][sync[w].cur] = Tombstone
  BY TypesOk DEF DeleteOk, DeleteFail, DeleteLost, CommandInv, PhasesOk, InHand
<1>2. \A e \in Entry :
        row'[e] = row[e] \/ row'[e] = stamp[e] \/ \E c \in Device : e \in marked[c]
  BY DeletedRow DEF DeleteOk, DeleteFail, DeleteLost
<1>3. CASE DeleteOk(w)
  <2> DEFINE s == [sync[w] EXCEPT !.pc = "dropEntry", !.calls = Counted(@)]
  <2>1. /\ s.pc = "dropEntry" /\ s.ids = sync[w].ids /\ s.pulled = sync[w].pulled
        /\ s.cur = sync[w].cur
    BY <1>1 DEF SyncState
  <2>2. Becomes(w, s)
    BY <1>3 DEF DeleteOk
  <2> HIDE DEF s
  <2> QED BY <1>1, <1>2, <2>1, <2>2, DeletionOk
<1>4. CASE DeleteFail(w) \/ DeleteLost(w)
  <2>1. PICK n : Becomes(w, [sync[w] EXCEPT !.pc = "delete", !.cur = None, !.calls = n])
    BY <1>4 DEF DeleteFail, DeleteLost, DeleteGivenUp
  <2> DEFINE s == [sync[w] EXCEPT !.pc = "delete", !.cur = None, !.calls = n]
  <2>2. s.pc = "delete" /\ s.ids = sync[w].ids /\ s.pulled = sync[w].pulled
    BY <1>1 DEF SyncState
  <2>3. Becomes(w, s)
    BY <2>1
  <2> HIDE DEF s
  <2> QED BY <1>1, <1>2, <2>2, <2>3, DeletionOk
<1> QED BY <1>3, <1>4

\* The drop takes the data of a marked entry, and then its mark.
LEMMA DropOk ==
  ASSUME CommandInv, IInv', NEW w \in CommandWorker, DropEntry(w) \/ DropVersion(w) \/ DropFail(w)
  PROVE  CommandInv'
<1> DEFINE d == Home[w]
<1>1. /\ sync[w] \in SyncState /\ d \in Device /\ ~Idle(w)
      /\ sync[w].pc \in {"dropEntry", "dropVersion"}
      /\ UNCHANGED <<row, adding, due, open, stamp, marked>>
  BY TypesOk DEF DropEntry, DropVersion, DropFail, CommandInv, Idle
<1>2. /\ sync[w].pulled = {} /\ PushPhase(w) /\ sync[w].ids \subseteq Entry
      /\ versions[d][sync[w].cur] = Tombstone /\ sync[w].cur \in Entry
  BY <1>1, TypesOk
  DEF CommandInv, PhasesOk, PullPhase, InHand, SyncState, IInv, HandOk, TypeOK
<1>3. /\ sync'[w].pc \in {"delete", "dropVersion"} /\ sync'[w].pulled = {}
      /\ sync'[w].ids = sync[w].ids
      /\ sync'[w].pc = "dropVersion" => sync'[w].cur = sync[w].cur /\ UNCHANGED versions
      /\ \A u \in Worker \ {w} : sync'[u] = sync[u]
  <2>1. CASE Becomes(w, [sync[w] EXCEPT !.pc = "dropVersion"]) /\ UNCHANGED versions
    <3>1. /\ sync'[w] = [sync[w] EXCEPT !.pc = "dropVersion"]
          /\ \A u \in Worker \ {w} : sync'[u] = sync[u]
      BY <2>1, BecomesOk DEF CommandInv
    <3> QED BY <1>1, <1>2, <2>1, <3>1 DEF SyncState
  <2>2. CASE NextEntry(w, "delete")
    BY <1>2, <2>2, NextEntryKeeps, BecomesOk DEF CommandInv
  <2> QED BY <2>1, <2>2 DEF DropEntry, DropVersion, DropFail
<1>4. /\ \A e \in Entry : versions'[d][e] = versions[d][e] \/ versions'[d][e] = NoVersion
      /\ \A c \in Device \ {d} : versions'[c] = versions[c] /\ entries'[c] = entries[c]
      /\ \A e \in Entry \ {sync[w].cur} : e \in entries[d] => e \in entries'[d]
      /\ versions'[d][sync[w].cur] \in {NoVersion, Tombstone}
  BY <1>1, <1>2, TypesOk DEF DropEntry, DropVersion, DropFail, Delete, DeleteVersion, CommandInv
<1>5. WorkerStep(w)
  BY <1>1, <1>3, <1>4 DEF WorkerStep
<1>6. VersionHasData'
  BY <1>1, <1>2, <1>4 DEF CommandInv, VersionHasData, NoVersion, Tombstone
<1>7. \A e \in Entry : Published(d, e) => Published(d, e)'
  BY <1>1, <1>4 DEF Published, NoVersion
<1>8. PullPhase(w)' /\ InHand(w)'
  BY <1>2, <1>3 DEF PullPhase, InHand
<1>9. PushPhase(w)'
  BY <1>1, <1>2, <1>3, <1>7 DEF PushPhase
<1> QED BY <1>1, <1>5, <1>6, <1>8, <1>9, WorkerOk DEF PhasesOk

LEMMA StartSyncOk ==
  ASSUME CommandInv, IInv', NEW w \in CommandWorker, StartSync(w)
  PROVE  CommandInv'
<1> DEFINE d == Home[w]
<1>1. /\ sync[w] \in SyncState /\ d \in Device /\ Idle(w)
      /\ UNCHANGED <<entries, versions, row, adding, open, stamp, marked>>
      /\ Home \in [Worker -> Device] /\ due \in [Device -> Nat]
  BY TypesOk DEF StartSync, CommandInv
<1>2. PICK m : /\ \A e \in Entry : versions[d][e] <= m
               /\ Becomes(w, [sync[w] EXCEPT !.pc = "pull", !.since = m])
  BY DEF StartSync, IsMaxVersion
<1>3. /\ sync'[w] = [sync[w] EXCEPT !.pc = "pull", !.since = m]
      /\ \A u \in Worker \ {w} : sync'[u] = sync[u]
  BY <1>2, BecomesOk DEF CommandInv
<1>4. sync'[w].pc = "pull" /\ sync'[w].pulled = {} /\ sync'[w].since = m
  BY <1>1, <1>3 DEF SyncState, Idle, CommandInv, PhasesOk, PullPhase
<1>5. Quiet(d) /\ due[d] \in {0, 1} /\ due'[d] = 0 /\ \A c \in Device \ {d} : due'[c] = due[c]
  BY <1>1 DEF StartSync, CommandInv, OneAtATime
<1>6. Alone(w) /\ adding[d] = {}
  BY <1>5 DEF Alone, Quiet, WorkersOf
<1>7. WorkerStep(w)
  BY <1>1, <1>3, <1>5 DEF WorkerStep
<1>8. \A u \in CommandWorker : PhasesOk(u)'
  <2>1. PhasesOk(w)'
    BY <1>1, <1>2, <1>4 DEF PhasesOk, PullPhase, PushPhase, InHand
  <2> QED BY <1>6, <1>7, <2>1, OthersOk
<1>9. OneAtATime'
  <2>1. \A u \in Worker \ {w} : Idle(u)' <=> Idle(u)
    BY <1>3 DEF Idle
  <2>2. \A c \in Device \ {d} : Quiet(c)' <=> Quiet(c)
    BY <1>1, <2>1 DEF Quiet, WorkersOf
  <2>3. \A u, v \in CommandWorker : Home[u] = Home[v] /\ ~Idle(u)' /\ ~Idle(v)' => u = v
    BY <1>6, <2>1 DEF Alone, CommandInv, OneAtATime
  <2>4. \A c \in Command : due'[c] > 0 => due'[c] = 1 /\ open'[c] /\ Quiet(c)'
    BY <1>1, <1>5, <2>2 DEF CommandInv, OneAtATime
  <2>5. \A c \in Command : adding'[c] # {} =>
           due'[c] = 0 /\ open'[c] /\ \A u \in WorkersOf(c) : Idle(u)'
    BY <1>1, <1>5, <1>6, <2>1 DEF CommandInv, OneAtATime, WorkersOf
  <2> QED BY <2>3, <2>4, <2>5 DEF OneAtATime, Idle, Quiet, WorkersOf
<1>10. StampsDiffer' /\ VersionHasData'
  BY <1>1 DEF CommandInv, StampsDiffer, VersionHasData
<1> QED BY <1>8, <1>9, <1>10 DEF CommandInv

-----------------------------------------------------------------------------
(* The steps of a text UI's worker, which are many at once on its device.  *)

\* Any step of a worker is within WorkerStep.
LEMMA AnyStep ==
  ASSUME CommandInv, NEW w \in Worker, StartSync(w) \/ SyncStep(w) \/ SyncFault(w)
  PROVE  WorkerStep(w)
<1> DEFINE d == Home[w]
<1> USE DEF SyncStep, SyncFault, StartSync, PullOk, ApplyPut, ApplyVersion, ListEntries,
    PushSkip, PushRead, PushGet, PushGone, PushOk, PushRefused, PushDone, DeleteSkip,
    DeleteRead, DeleteOk, DeleteMissing, DeleteRefused, DropEntry, DropVersion, SyncDone,
    PullFail, ApplyPutFail, ApplyVersionFail, PushFail, PushLost, DeleteFail, DeleteLost,
    DropFail
<1>1. UNCHANGED <<adding, stamp, marked>>
  OBVIOUS
<1>2. \E s : Becomes(w, s)
  BY DEF Return, NextEntry, NextEntryAfterCall, DeleteGivenUp
<1>3. \A u \in Worker \ {w} : sync'[u] = sync[u]
  BY <1>2, BecomesOk DEF CommandInv
<1>4. d \in Device
  BY TypesOk DEF CommandInv
<1>5. \A c \in Device \ {d} : due'[c] = due[c] /\ open'[c] = open[c]
  BY <1>4, TypesOk DEF CommandInv, Return
<1>6. \A c \in Device \ {d} : entries'[c] = entries[c] /\ versions'[c] = versions[c]
  BY <1>4, TypesOk DEF CommandInv, Put, PutVersion, Delete, DeleteVersion
<1>7. \A e \in Entry :
        row'[e] = row[e] \/ row'[e] = stamp[e] \/ \E c \in Device : e \in marked[c]
  <2>1. CASE PushOk(w) \/ PushLost(w)
    BY <2>1, PushedRow
  <2>2. CASE DeleteOk(w) \/ DeleteLost(w)
    BY <2>2, DeletedRow
  <2>3. CASE UNCHANGED row
    BY <2>3
  <2> QED BY <2>1, <2>2, <2>3
<1> QED BY <1>1, <1>3, <1>5, <1>6, <1>7 DEF WorkerStep

LEMMA TuiWorkerOk ==
  ASSUME CommandInv, IInv', NEW w \in Worker \ CommandWorker, WorkerStep(w)
  PROVE  CommandInv'
<1>1. Home[w] \in Device /\ Home[w] \notin Command /\ Home \in [Worker -> Device]
  BY TypesOk DEF CommandInv
<1>2. \A d \in Command :
        /\ entries'[d] = entries[d] /\ versions'[d] = versions[d]
        /\ due'[d] = due[d] /\ open'[d] = open[d] /\ adding'[d] = adding[d]
  BY <1>1 DEF WorkerStep
<1>3. \A u \in CommandWorker : sync'[u] = sync[u] /\ (Idle(u)' <=> Idle(u))
  BY DEF WorkerStep, Idle
<1>4. \A d \in Command : Quiet(d)' <=> Quiet(d)
  BY <1>2, <1>3 DEF Quiet, WorkersOf
<1>5. \A d \in Command : (\A u \in WorkersOf(d) : Idle(u)') <=> \A u \in WorkersOf(d) : Idle(u)
  BY <1>3 DEF WorkersOf
<1>6. OneAtATime'
  <2>1. \A u, v \in CommandWorker : Home[u] = Home[v] /\ ~Idle(u)' /\ ~Idle(v)' => u = v
    BY <1>3 DEF CommandInv, OneAtATime
  <2>2. \A d \in Command : due'[d] > 0 => due'[d] = 1 /\ open'[d] /\ Quiet(d)'
    BY <1>2, <1>4 DEF CommandInv, OneAtATime
  <2>3. \A d \in Command : adding'[d] # {} =>
           due'[d] = 0 /\ open'[d] /\ \A u \in WorkersOf(d) : Idle(u)'
    BY <1>2, <1>5 DEF CommandInv, OneAtATime
  <2> QED BY <2>1, <2>2, <2>3 DEF OneAtATime, Idle, Quiet, WorkersOf
<1>7. StampsDiffer'
  BY DEF CommandInv, StampsDiffer, WorkerStep
<1>8. VersionHasData'
  BY <1>2 DEF CommandInv, VersionHasData
<1>9. \A u \in CommandWorker : PhasesOk(u)'
  BY <1>1, OthersOk DEF Alone
<1> QED BY <1>6, <1>7, <1>8, <1>9 DEF CommandInv

-----------------------------------------------------------------------------
(* The steps of a user.                                                    *)

\* The workers of other devices do not notice, and a command has none that runs.
LEMMA UserFrame ==
  ASSUME CommandInv, NEW d \in Device, d \in Tui \/ \A w \in WorkersOf(d) : Idle(w),
         UNCHANGED <<sync, row>>,
         \A c \in Device : entries[c] \subseteq entries'[c] /\ marked[c] \subseteq marked'[c],
         \A c \in Device \ {d} : versions'[c] = versions[c]
  PROVE  \A w \in CommandWorker : PhasesOk(w)'
<1> SUFFICES ASSUME NEW w \in CommandWorker PROVE PhasesOk(w)'
  OBVIOUS
<1>1. PhasesOk(w) /\ Home[w] \in Device /\ sync[w] \in SyncState
  BY TypesOk DEF CommandInv
<1>2. CASE Home[w] = d
  BY <1>1, <1>2 DEF WorkersOf, Idle, PhasesOk, PullPhase, PushPhase, InHand
<1>3. CASE Home[w] # d
  <2>1. versions'[Home[w]] = versions[Home[w]]
    BY <1>1, <1>3
  <2>2. \A e \in Entry : Published(Home[w], e) => Published(Home[w], e)'
    BY <2>1 DEF Published
  <2>3. sync[w].ids \subseteq Entry
    BY <1>1 DEF SyncState
  <2>4. PullPhase(w)' /\ InHand(w)'
    BY <1>1, <2>1 DEF PhasesOk, PullPhase, InHand, Below
  <2>5. PushPhase(w)'
    BY <1>1, <2>2, <2>3 DEF PhasesOk, PushPhase
  <2> QED BY <2>4, <2>5 DEF PhasesOk
<1> QED BY <1>2, <1>3

\* The order of one device changes as OneAtATime allows it to a command.
LEMMA UserOrder ==
  ASSUME CommandInv, NEW d \in Device, UNCHANGED sync,
         \A c \in Device \ {d} :
           due'[c] = due[c] /\ open'[c] = open[c] /\ adding'[c] = adding[c],
         \/ d \in Tui
         \/ /\ \A w \in WorkersOf(d) : Idle(w)
            /\ due'[d] > 0 => due'[d] = 1 /\ open'[d] /\ adding'[d] = {}
            /\ adding'[d] # {} => due'[d] = 0 /\ open'[d]
  PROVE  OneAtATime'
<1>1. \A w \in Worker : Idle(w)' <=> Idle(w)
  BY DEF Idle
<1>2. \A c \in Device \ {d} : Quiet(c)' <=> Quiet(c)
  BY <1>1 DEF Quiet, WorkersOf
<1>3. d \in Tui \/ (adding'[d] = {} => Quiet(d)')
  BY <1>1 DEF Quiet, WorkersOf
<1>4. \A u, w \in CommandWorker : Home[u] = Home[w] /\ ~Idle(u)' /\ ~Idle(w)' => u = w
  BY <1>1 DEF CommandInv, OneAtATime
<1>5. \A c \in Command : due'[c] > 0 => due'[c] = 1 /\ open'[c] /\ Quiet(c)'
  BY <1>2, <1>3 DEF CommandInv, OneAtATime
<1>6. \A c \in Command : adding'[c] # {} =>
         due'[c] = 0 /\ open'[c] /\ \A u \in WorkersOf(c) : Idle(u)'
  BY <1>1 DEF CommandInv, OneAtATime, WorkersOf
<1> QED BY <1>4, <1>5, <1>6 DEF OneAtATime, Idle, Quiet, WorkersOf

LEMMA AddPutOk ==
  ASSUME CommandInv, IInv', NEW d \in Device, AddPut(d)
  PROVE  CommandInv'
<1>1. /\ d \in Tui \/ (open[d] /\ due[d] = 0 /\ Quiet(d))
      /\ UNCHANGED <<versions, row, sync, due, open, stamp, marked>>
      /\ \A c \in Device : entries[c] \subseteq entries'[c]
      /\ \A c \in Device \ {d} : adding'[c] = adding[c]
  BY TypesOk DEF AddPut, Ready, Put, CommandInv
<1>2. \A w \in CommandWorker : PhasesOk(w)'
  BY <1>1, UserFrame DEF Quiet
<1>3. OneAtATime'
  BY <1>1, UserOrder DEF Quiet
<1>4. StampsDiffer' /\ VersionHasData'
  BY <1>1 DEF CommandInv, StampsDiffer, VersionHasData
<1> QED BY <1>2, <1>3, <1>4 DEF CommandInv

LEMMA AddVersionOk ==
  ASSUME CommandInv, IInv', NEW d \in Device, AddVersion(d)
  PROVE  CommandInv'
<1>1. PICK e \in adding[d], v \in Stamp :
        /\ \A f \in Entry : stamp[f] # v
        /\ PutVersion(d, e, v) /\ stamp' = [stamp EXCEPT ![e] = v]
  BY DEF AddVersion
<1>2. /\ d \in Tui \/ (open[d] /\ due[d] = 0 /\ \A w \in WorkersOf(d) : Idle(w))
      /\ e \in Entry /\ e \in entries[d]
      /\ stamp \in [Entry -> Stamp \union {NoVersion}]
  BY <1>1, TypesOk DEF CommandInv, OneAtATime, IInv, TypeOK, SavingOnce
<1>3. /\ UNCHANGED <<entries, row, sync, open, marked>>
      /\ \A c \in Device \ {d} :
           adding'[c] = adding[c] /\ due'[c] = due[c] /\ versions'[c] = versions[c]
      /\ adding'[d] = {} /\ (d \in Tui \/ due'[d] = 1)
  BY <1>1, <1>2, TypesOk DEF AddVersion, OrderAfterSave, Order, PutVersion, CommandInv
<1>4. \A w \in CommandWorker : PhasesOk(w)'
  BY <1>2, <1>3, UserFrame
<1>5. OneAtATime'
  BY <1>2, <1>3, UserOrder
<1>6. StampsDiffer'
  BY <1>1, <1>2 DEF CommandInv, StampsDiffer
<1>7. VersionHasData'
  BY <1>1, <1>2, <1>3, TypesOk DEF CommandInv, VersionHasData, PutVersion
<1> QED BY <1>4, <1>5, <1>6, <1>7 DEF CommandInv

LEMMA MarkOk ==
  ASSUME CommandInv, IInv', NEW d \in Device, Mark(d)
  PROVE  CommandInv'
<1>1. PICK e \in Entry : /\ PutVersion(d, e, Tombstone)
                         /\ marked' = [marked EXCEPT ![d] = @ \union {e}]
  BY DEF Mark
<1>2. /\ d \in Tui \/ (open[d] /\ due[d] = 0 /\ Quiet(d) /\ due'[d] = 1)
      /\ UNCHANGED <<entries, row, sync, adding, open, stamp>>
      /\ \A c \in Device : marked[c] \subseteq marked'[c]
      /\ \A c \in Device \ {d} : due'[c] = due[c] /\ versions'[c] = versions[c]
  BY <1>1, TypesOk DEF Mark, Ready, Order, PutVersion, CommandInv, IInv, TypeOK
<1>3. \A w \in CommandWorker : PhasesOk(w)'
  BY <1>2, UserFrame DEF Quiet
<1>4. OneAtATime'
  BY <1>2, UserOrder DEF Quiet
<1>5. StampsDiffer'
  BY <1>2 DEF CommandInv, StampsDiffer
<1>6. VersionHasData'
  BY <1>1, <1>2, TypesOk DEF CommandInv, VersionHasData, PutVersion, Tombstone
<1> QED BY <1>3, <1>4, <1>5, <1>6 DEF CommandInv

LEMMA AddVersionFailOk ==
  ASSUME CommandInv, IInv', NEW d \in Device, AddVersionFail(d)
  PROVE  CommandInv'
<1>1. d \in Tui \/ (open[d] /\ due[d] = 0 /\ \A w \in WorkersOf(d) : Idle(w))
  BY DEF AddVersionFail, CommandInv, OneAtATime
<1>2. /\ UNCHANGED <<entries, versions, row, sync, open, stamp, marked>>
      /\ \A c \in Device \ {d} : adding'[c] = adding[c] /\ due'[c] = due[c]
      /\ adding'[d] = {} /\ (d \in Tui \/ due'[d] = 1)
  BY <1>1, TypesOk DEF AddVersionFail, OrderAfterSave, Order, CommandInv
<1>3. \A w \in CommandWorker : PhasesOk(w)'
  BY <1>1, <1>2, UserFrame
<1>4. OneAtATime'
  BY <1>1, <1>2, UserOrder
<1>5. StampsDiffer' /\ VersionHasData'
  BY <1>2 DEF CommandInv, StampsDiffer, VersionHasData
<1> QED BY <1>3, <1>4, <1>5 DEF CommandInv

LEMMA LeaveOk ==
  ASSUME CommandInv, IInv', NEW d \in Device, Leave(d)
  PROVE  CommandInv'
<1>1. /\ UNCHANGED <<entries, versions, row, sync, adding, due, stamp, marked>>
      /\ due[d] = 0 /\ Quiet(d) /\ \A c \in Device \ {d} : open'[c] = open[c]
  BY TypesOk DEF Leave, CommandInv
<1>2. \A w \in CommandWorker : PhasesOk(w)'
  BY <1>1, UserFrame DEF Quiet
<1>3. OneAtATime'
  BY <1>1, UserOrder DEF Quiet
<1>4. StampsDiffer' /\ VersionHasData'
  BY <1>1 DEF CommandInv, StampsDiffer, VersionHasData
<1> QED BY <1>2, <1>3, <1>4 DEF CommandInv

LEMMA CrashOk ==
  ASSUME CommandInv, IInv', NEW d \in Device, Crash(d)
  PROVE  CommandInv'
<1>1. /\ UNCHANGED <<entries, versions, row, stamp, marked>>
      /\ \A w \in Worker : sync'[w] = IF Home[w] = d THEN AtRest ELSE sync[w]
      /\ adding'[d] = {} /\ due'[d] = 0
      /\ \A c \in Device \ {d} :
           adding'[c] = adding[c] /\ due'[c] = due[c] /\ open'[c] = open[c]
  BY TypesOk DEF Crash, CommandInv
<1>2. \A w \in Worker : Idle(w)' <=> Home[w] = d \/ Idle(w)
  BY <1>1 DEF Idle, AtRest
<1>3. \A w \in CommandWorker : PhasesOk(w)'
  <2> SUFFICES ASSUME NEW w \in CommandWorker PROVE PhasesOk(w)'
    OBVIOUS
  <2>1. CASE Home[w] = d
    BY <1>1, <2>1 DEF PhasesOk, PullPhase, PushPhase, InHand, AtRest
  <2>2. CASE Home[w] # d
    <3>1. sync'[w] = sync[w] /\ PhasesOk(w)
      BY <1>1, <2>2 DEF CommandInv
    <3> QED BY <1>1, <3>1 DEF PhasesOk, PullPhase, PushPhase, InHand, Below, Published
  <2> QED BY <2>1, <2>2
<1>4. OneAtATime'
  <2>1. \A c \in Device \ {d} : Quiet(c)' <=> Quiet(c)
    BY <1>1, <1>2 DEF Quiet, WorkersOf
  <2>2. \A u, w \in CommandWorker : Home[u] = Home[w] /\ ~Idle(u)' /\ ~Idle(w)' => u = w
    BY <1>2 DEF CommandInv, OneAtATime
  <2>3. \A c \in Command : due'[c] > 0 => due'[c] = 1 /\ open'[c] /\ Quiet(c)'
    BY <1>1, <2>1 DEF CommandInv, OneAtATime
  <2>4. \A c \in Command : adding'[c] # {} =>
           due'[c] = 0 /\ open'[c] /\ \A u \in WorkersOf(c) : Idle(u)'
    BY <1>1, <1>2 DEF CommandInv, OneAtATime, WorkersOf
  <2> QED BY <2>2, <2>3, <2>4 DEF OneAtATime, Idle, Quiet, WorkersOf
<1>5. StampsDiffer' /\ VersionHasData'
  BY <1>1 DEF CommandInv, StampsDiffer, VersionHasData
<1> QED BY <1>3, <1>4, <1>5 DEF CommandInv

-----------------------------------------------------------------------------
(* The theorems.                                                           *)

LEMMA CommandInit == Init => CommandInv
<1> SUFFICES ASSUME Init PROVE CommandInv
  OBVIOUS
<1>1. IInv
  BY InitIInv
<1>2. OneAtATime
  BY WorkerAssumption DEF Init, OneAtATime, Idle, Quiet, WorkersOf, AtRest
<1>3. StampsDiffer /\ VersionHasData
  BY DEF Init, StoreInit, StampsDiffer, VersionHasData, NoVersion
<1>4. \A w \in CommandWorker : PhasesOk(w)
  BY DEF Init, PhasesOk, PullPhase, PushPhase, InHand, AtRest
<1> QED BY <1>1, <1>2, <1>3, <1>4 DEF CommandInv

LEMMA CommandUnchanged == ASSUME CommandInv, UNCHANGED vars, IInv' PROVE CommandInv'
<1>1. OneAtATime'
  BY DEF vars, CommandInv, OneAtATime, Idle, Quiet, WorkersOf
<1>2. StampsDiffer' /\ VersionHasData'
  BY DEF vars, CommandInv, StampsDiffer, VersionHasData
<1>3. \A w \in CommandWorker : PhasesOk(w)'
  BY DEF vars, CommandInv, PhasesOk, PullPhase, PushPhase, InHand, Below, Published
<1> QED BY <1>1, <1>2, <1>3 DEF CommandInv

LEMMA CommandNext == CommandInv /\ [Next]_vars => CommandInv'
<1> SUFFICES ASSUME CommandInv, [Next]_vars PROVE CommandInv'
  OBVIOUS
<1>1. IInv'
  BY NextIInv DEF CommandInv
<1>2. ASSUME NEW w \in CommandWorker, StartSync(w) \/ SyncStep(w) PROVE CommandInv'
  BY <1>1, <1>2, StartSyncOk, Returns, PullOkOk, ApplyPutOk, ApplyVersionOk, ListEntriesOk,
     PushReadOk, PushOkOk, DeleteLoopOk, DeleteCallOk, DropOk
  DEF SyncStep
<1>3. ASSUME NEW w \in CommandWorker, SyncFault(w) PROVE CommandInv'
  BY <1>1, <1>3, Returns, ApplyVersionOk, DeleteCallOk, DropOk DEF SyncFault
<1>4. ASSUME NEW d \in Device, AddPut(d) \/ AddVersion(d) \/ Mark(d) \/ Leave(d)
      PROVE  CommandInv'
  BY <1>1, <1>4, AddPutOk, AddVersionOk, MarkOk, LeaveOk
<1>5. ASSUME NEW d \in Device, AddVersionFail(d) \/ Crash(d) PROVE CommandInv'
  BY <1>1, <1>5, AddVersionFailOk, CrashOk
<1>6. ASSUME NEW w \in Worker \ CommandWorker, StartSync(w) \/ SyncStep(w) \/ SyncFault(w)
      PROVE  CommandInv'
  BY <1>1, <1>6, AnyStep, TuiWorkerOk
<1>7. CASE UNCHANGED vars
  BY <1>1, <1>7, CommandUnchanged
<1> QED BY <1>2, <1>3, <1>4, <1>5, <1>6, <1>7 DEF Next, Step, Fault

\* The invariant of the devices that run the command line client.
THEOREM CommandInvariant == Spec => []CommandInv
BY CommandInit, CommandNext, PTL DEF Spec

\* VersionHasData: without overlapping operations a version stands for data, whatever
\* fails or dies (client sync.go:119-122, 172-173, main.go:304-308).
THEOREM VersionHasDataHolds == Spec => []VersionHasData
<1>1. CommandInv => VersionHasData
  BY DEF CommandInv
<1> QED BY <1>1, CommandInvariant, PTL

\* PullResumes: what a broken-off pull has not recorded is above the maximum (sync.go:102-125).
THEOREM PullResumesHolds == Spec => []PullResumes
<1>1. CommandInv => PullResumes
  BY DEF CommandInv, PhasesOk, PullPhase, Below, PullResumes
<1> QED BY <1>1, CommandInvariant, PTL

\* PushPublishes: a push phase that ends well has published the listing (sync.go:131-162).
THEOREM PushPublishesHolds == Spec => []PushPublishes
<1>1. CommandInv => PushPublishes
  <2> SUFFICES ASSUME CommandInv, NEW w \in CommandWorker,
                      sync[w].pc \in {"delete", "deleteSend", "dropEntry", "dropVersion"},
                      NEW e \in sync[w].ids, versions[Home[w]][e] > 0
               PROVE  row[e] = versions[Home[w]][e] \/ \E d \in Device : e \in marked[d]
    BY DEF PushPublishes
  <2> QED BY DEF CommandInv, PhasesOk, PushPhase, Published
<1> QED BY <1>1, CommandInvariant, PTL

\* PushIsCurrent: what a command pushes is what its store holds (sync.go:132-158).
THEOREM PushIsCurrentHolds == Spec => []PushIsCurrent
<1>1. CommandInv => PushIsCurrent
  BY DEF CommandInv, PhasesOk, InHand, PushIsCurrent
<1> QED BY <1>1, CommandInvariant, PTL

-----------------------------------------------------------------------------
(* The mark of an entry that is not the newest.                            *)

\* A version comes into a store by the end of a save, a mark, or a pulled row.
LEMMA NewVersion ==
  ASSUME CommandInv, [Next]_vars, NEW d \in Device, NEW e \in Entry,
         versions'[d][e] \notin {versions[d][e], Tombstone, NoVersion}
  PROVE  \/ e \in adding[d] /\ AddVersion(d)
         \/ \E w \in WorkersOf(d) : ApplyVersion(w) /\ sync[w].cur = e
<1>1. CASE \E c \in Device : AddVersion(c)
  <2>1. PICK c \in Device : AddVersion(c)
    BY <1>1
  <2>2. PICK f \in adding[c], v \in Stamp : PutVersion(c, f, v)
    BY <2>1 DEF AddVersion
  <2>3. f \in Entry
    BY <2>2, TypesOk DEF CommandInv
  <2>4. c = d /\ f = e
    BY <2>2, <2>3, TypesOk DEF CommandInv, PutVersion
  <2> QED BY <2>1, <2>2, <2>4
<1>2. CASE \E w \in Worker : ApplyVersion(w)
  <2>1. PICK w \in Worker : ApplyVersion(w)
    BY <1>2
  <2>2. Home[w] = d /\ sync[w].cur = e
    BY <2>1, TypesOk DEF CommandInv, ApplyVersion, PutVersion
  <2> QED BY <2>1, <2>2 DEF WorkersOf
<1>3. CASE \E c \in Device : Mark(c)
  BY <1>3, TypesOk DEF CommandInv, Mark, PutVersion
<1>4. CASE \E w \in Worker : DropVersion(w)
  BY <1>4, TypesOk DEF CommandInv, DropVersion, DeleteVersion
<1>5. CASE UNCHANGED versions
  BY <1>5
<1> QED
  BY <1>1, <1>2, <1>3, <1>4, <1>5
  DEF Next, Step, Fault, SyncStep, SyncFault, StartSync, PullOk, ApplyPut, ListEntries,
      PushSkip, PushRead, PushGet, PushGone, PushOk, PushRefused, PushDone, DeleteSkip,
      DeleteRead, DeleteOk, DeleteMissing, DeleteRefused, DropEntry, SyncDone,
      PullFail, ApplyPutFail, ApplyVersionFail, PushFail, PushLost, DeleteFail, DeleteLost,
      DropFail, AddPut, Leave, AddVersionFail, Crash, vars

\* A mark is of an entry that was put, and a command saves none that is marked.
MarksPut ==
  \A d \in Device, e \in Entry :
    versions[d][e] = Tombstone => ~Fresh(e) /\ (d \in Command => e \notin adding[d])

\* An entry that was put is held somewhere until its version was written.
LEMMA NeverFresh ==
  ASSUME CommandInv, [Next]_vars, NEW e \in Entry, ~Fresh(e)
  PROVE  ~Fresh(e)'
<1> USE DEF Fresh
<1>1. CASE \E d \in Device : AddVersion(d)
  <2>1. PICK d \in Device : AddVersion(d)
    BY <1>1
  <2>2. PICK f \in adding[d], v \in Stamp : stamp' = [stamp EXCEPT ![f] = v] /\ UNCHANGED entries
    BY <2>1 DEF AddVersion
  <2>3. v # NoVersion /\ stamp \in [Entry -> Stamp \union {NoVersion}]
    BY WorkerAssumption DEF NoVersion, CommandInv, IInv, TypeOK
  <2> QED BY <2>2, <2>3
<1>2. CASE \E w \in Worker : DropEntry(w)
  <2>1. PICK w \in Worker : DropEntry(w)
    BY <1>2
  <2>2. stamp[sync[w].cur] # NoVersion /\ UNCHANGED stamp
    BY <2>1 DEF DropEntry, CommandInv, IInv, HandOk
  <2>3. \A d \in Device : entries[d] \ {sync[w].cur} \subseteq entries'[d]
    BY <2>1, TypesOk DEF DropEntry, Delete, CommandInv
  <2> QED BY <2>2, <2>3
<1>3. CASE UNCHANGED stamp /\ \A d \in Device : entries[d] \subseteq entries'[d]
  BY <1>3
<1>4. ASSUME NEW d \in Device, NEW f, Put(d, f)
      PROVE  \A c \in Device : entries[c] \subseteq entries'[c]
  BY <1>4, TypesOk DEF Put, CommandInv
<1> QED
  BY <1>1, <1>2, <1>3, <1>4, TypesOk
  DEF Next, Step, Fault, SyncStep, SyncFault, StartSync, PullOk, ApplyPut, ApplyVersion,
      ListEntries, PushSkip, PushRead, PushGet, PushGone, PushOk, PushRefused, PushDone,
      DeleteSkip, DeleteRead, DeleteOk, DeleteMissing, DeleteRefused, DropVersion, SyncDone,
      PullFail, ApplyPutFail, ApplyVersionFail, PushFail, PushLost, DeleteFail, DeleteLost,
      DropFail, AddPut, Mark, Leave, AddVersionFail, Crash, vars, CommandInv

\* A new mark is put by the user, when a command of the device saves nothing.
LEMMA NewMark ==
  ASSUME CommandInv, [Next]_vars, NEW d \in Device, NEW e \in Entry,
         versions'[d][e] = Tombstone, versions[d][e] # Tombstone
  PROVE  Mark(d) /\ ~Fresh(e)
<1>1. CASE \E c \in Device : AddVersion(c)
  <2>1. PICK c \in Device : AddVersion(c)
    BY <1>1
  <2>2. PICK f \in adding[c], v \in Stamp : PutVersion(c, f, v)
    BY <2>1 DEF AddVersion
  <2>3. f \in Entry /\ v # Tombstone
    BY <2>2, TypesOk, TimeIsNat DEF CommandInv
  <2> QED BY <2>2, <2>3, TypesOk DEF CommandInv, PutVersion
<1>2. CASE \E w \in Worker : ApplyVersion(w)
  <2>1. PICK w \in Worker : ApplyVersion(w)
    BY <1>2
  <2>2. sync[w].cur \in Entry /\ sync[w].held # Tombstone
    BY <2>1, StampIsTime DEF CommandInv, IInv, HandOk, ApplyVersion
  <2> QED BY <2>1, <2>2, TypesOk DEF CommandInv, ApplyVersion, PutVersion
<1>3. CASE \E c \in Device : Mark(c)
  <2>1. PICK c \in Device : Mark(c)
    BY <1>3
  <2>2. PICK f \in Entry : ~Fresh(f) /\ PutVersion(c, f, Tombstone)
    BY <2>1 DEF Mark
  <2>3. c = d /\ f = e
    BY <2>2, TypesOk DEF CommandInv, PutVersion
  <2> QED BY <2>1, <2>2, <2>3
<1>4. CASE \E w \in Worker : DropVersion(w)
  BY <1>4, TypesOk DEF CommandInv, DropVersion, DeleteVersion, NoVersion, Tombstone
<1>5. CASE UNCHANGED versions
  BY <1>5
<1> QED
  BY <1>1, <1>2, <1>3, <1>4, <1>5
  DEF Next, Step, Fault, SyncStep, SyncFault, StartSync, PullOk, ApplyPut, ListEntries,
      PushSkip, PushRead, PushGet, PushGone, PushOk, PushRefused, PushDone, DeleteSkip,
      DeleteRead, DeleteOk, DeleteMissing, DeleteRefused, DropEntry, SyncDone,
      PullFail, ApplyPutFail, ApplyVersionFail, PushFail, PushLost, DeleteFail, DeleteLost,
      DropFail, AddPut, Leave, AddVersionFail, Crash, vars

\* What a device begins to save is new.
LEMMA NewSave ==
  ASSUME CommandInv, [Next]_vars, NEW d \in Device, NEW e \in adding'[d], e \notin adding[d]
  PROVE  Fresh(e) /\ UNCHANGED versions
<1>1. CASE \E c \in Device : AddPut(c)
  BY <1>1, TypesOk DEF CommandInv, AddPut
<1>2. CASE \A c \in Device : adding'[c] \subseteq adding[c]
  BY <1>2
<1> QED
  BY <1>1, <1>2, TypesOk
  DEF Next, Step, Fault, SyncStep, SyncFault, StartSync, PullOk, ApplyPut, ApplyVersion,
      ListEntries, PushSkip, PushRead, PushGet, PushGone, PushOk, PushRefused, PushDone,
      DeleteSkip, DeleteRead, DeleteOk, DeleteMissing, DeleteRefused, DropEntry, DropVersion,
      SyncDone, PullFail, ApplyPutFail, ApplyVersionFail, PushFail, PushLost, DeleteFail,
      DeleteLost, DropFail, AddVersion, Mark, Leave, AddVersionFail, Crash, vars, CommandInv

LEMMA MarksPutNext == CommandInv /\ MarksPut /\ [Next]_vars => MarksPut'
<1> SUFFICES ASSUME CommandInv, MarksPut, [Next]_vars,
                    NEW d \in Device, NEW e \in Entry, versions'[d][e] = Tombstone
             PROVE  ~Fresh(e)' /\ (d \in Command => e \notin adding'[d])
  BY DEF MarksPut
<1>1. CASE versions[d][e] = Tombstone
  BY <1>1, NeverFresh, NewSave DEF MarksPut
<1>2. CASE versions[d][e] # Tombstone
  <2>1. Mark(d) /\ ~Fresh(e)
    BY <1>2, NewMark
  <2>2. d \in Command => adding'[d] = {}
    BY <2>1 DEF Mark, Ready, Quiet
  <2> QED BY <2>1, <2>2, NeverFresh
<1> QED BY <1>1, <1>2

LEMMA MarksPutInvariant == Spec => []MarksPut
<1>1. Init => MarksPut
  BY DEF Init, StoreInit, MarksPut, NoVersion, Tombstone
<1> QED BY <1>1, MarksPutNext, CommandInvariant, PTL DEF Spec

\* OlderMarkSurvives: a pull of a command erases only the mark of the newest entry
\* (sync.go:102, 122).
THEOREM OlderMarkSurvivesHolds == Spec => OlderMarkSurvives
<1>1. ASSUME CommandInv, MarksPut, [Next]_vars, NEW d \in Command, NEW e \in Entry,
             NEW f \in Entry, versions[d][e] = Tombstone, versions[d][f] > stamp[e]
      PROVE  versions'[d][e] \in {Tombstone, NoVersion}
  <2>1. SUFFICES ASSUME versions'[d][e] \notin {Tombstone, NoVersion} PROVE FALSE
    OBVIOUS
  <2>2. e \notin adding[d]
    BY <1>1 DEF MarksPut
  <2>3. versions'[d][e] \notin {versions[d][e], Tombstone, NoVersion}
    BY <1>1, <2>1
  <2>4. PICK w \in Worker : Home[w] = d /\ ApplyVersion(w) /\ sync[w].cur = e
    BY <1>1, <2>2, <2>3, NewVersion DEF WorkersOf
  <2>5. sync[w].held = stamp[e] /\ Below(d, sync[w].held)
    BY <1>1, <2>4 DEF ApplyVersion, CommandInv, IInv, HandOk, PhasesOk, PullPhase
  <2>6. versions[d][f] < stamp[e]
    BY <2>5 DEF Below
  <2>7. versions[d][f] \in Int /\ stamp[e] \in Int
    BY <1>1, VersionIsInt, StampIsTime DEF CommandInv
  <2> QED BY <1>1, <2>6, <2>7
<1>2. CommandInv /\ MarksPut /\ [Next]_vars =>
        \A d \in Command, e \in Entry :
          /\ versions[d][e] = Tombstone
          /\ \E f \in Entry : versions[d][f] > stamp[e]
          => versions'[d][e] \in {Tombstone, NoVersion}
  BY <1>1
<1>3. CommandInv /\ MarksPut /\ [Next]_vars =>
        [\A d \in Command, e \in Entry :
          /\ versions[d][e] = Tombstone
          /\ \E f \in Entry : versions[d][f] > stamp[e]
          => versions'[d][e] \in {Tombstone, NoVersion}]_vars
  BY <1>2
<1> QED BY <1>3, CommandInvariant, MarksPutInvariant, PTL DEF OlderMarkSurvives, Spec

=============================================================================
