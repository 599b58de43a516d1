--------------------------- MODULE FullSyncProofs ---------------------------
(***************************************************************************)
(* Proofs about FullSync, for any devices, workers, entries, timestamps    *)
(* and limits, with and without overlapping operations.                    *)
(***************************************************************************)
EXTENDS FullSync, TLAPS

\* The set of the workers' states is not empty: an idle worker is in it.
LEMMA AtRestType == AtRest \in SyncState
BY WorkerAssumption DEF AtRest, SyncState, PC, None, NoVersion

\* A worker at rest holds nothing.
LEMMA AtRestHand == ASSUME NEW w \in Worker PROVE HandOk(w, AtRest)
BY DEF HandOk, AtRest

\* The count of the requests on a connection stays within the limit.
LEMMA CountedType ==
  ASSUME NEW n \in 0..RateMax PROVE Counted(n) \in 0..RateMax
BY WorkerAssumption DEF Counted

\* A reading of the clock, or its absence, is a number and no tombstone.
LEMMA TimeIsNat ==
  ASSUME NEW m \in Stamp \union {NoVersion}
  PROVE  m \in Nat /\ m # Tombstone
<1>1. m \in Nat
  BY WorkerAssumption DEF NoVersion
<1> QED BY <1>1 DEF Tombstone

\* The version an entry got is no tombstone.
LEMMA StampIsTime ==
  ASSUME IInv, NEW e \in Entry PROVE stamp[e] \in Nat /\ stamp[e] # Tombstone
<1>1. stamp[e] \in Stamp \union {NoVersion}
  BY DEF IInv, TypeOK
<1> QED BY <1>1, TimeIsNat

\* A step of worker w, in which nothing is stamped or marked, leaves what the
\* other workers have in hand as it was.
LEMMA HandsKept ==
  ASSUME IInv, NEW w \in Worker,
         \A u \in Worker \ {w} : sync'[u] = sync[u],
         HandOk(w, sync[w])',
         UNCHANGED <<stamp, marked>>
  PROVE  \A u \in Worker : HandOk(u, sync[u])'
<1> SUFFICES ASSUME NEW u \in Worker PROVE HandOk(u, sync[u])'
  OBVIOUS
<1>1. CASE u = w
  BY <1>1
<1>2. CASE u # w
  BY <1>2 DEF IInv, HandOk
<1> QED BY <1>1, <1>2

\* A step that only changes the variables of worker w keeps the invariant if
\* it leaves w in a state that does.
LEMMA LocalStep ==
  ASSUME IInv, NEW w \in Worker,
         sync' \in [Worker -> SyncState],
         \A u \in Worker \ {w} : sync'[u] = sync[u],
         HandOk(w, sync[w])',
         due' \in [Device -> Nat] /\ open' \in [Device -> BOOLEAN],
         UNCHANGED <<entries, versions, row, adding, stamp, marked>>
  PROVE  IInv'
<1>1. TypeOK'
  BY DEF IInv, TypeOK
<1>2. (VersionsAgree /\ SavingOnce /\ TombstonesMarked)'
  BY DEF IInv, VersionsAgree, SavingOnce, TombstonesMarked
<1> QED BY <1>1, <1>2, HandsKept DEF IInv

\* The others do not move when worker w goes on in state s.
LEMMA BecomesOk ==
  ASSUME IInv, NEW w \in Worker, NEW s, Becomes(w, s)
  PROVE  sync'[w] = s /\ \A u \in Worker \ {w} : sync'[u] = sync[u]
BY DEF IInv, TypeOK, Becomes

\* Init establishes the invariant.
LEMMA InitIInv == Init => IInv
<1> SUFFICES ASSUME Init PROVE IInv
  OBVIOUS
<1>1. TypeOK
  BY AtRestType DEF Init, StoreInit, ServerInit, TypeOK
<1>2. VersionsAgree /\ SavingOnce /\ TombstonesMarked
  BY DEF Init, StoreInit, ServerInit, VersionsAgree, SavingOnce,
         TombstonesMarked, NoVersion, Tombstone
<1>3. \A w \in Worker : HandOk(w, sync[w])
  BY AtRestHand DEF Init
<1> QED BY <1>1, <1>2, <1>3 DEF IInv

-----------------------------------------------------------------------------
(* The steps of a worker that touch neither a store nor the server.        *)

LEMMA ReturnStep ==
  ASSUME IInv, NEW w \in Worker, Return(w),
         UNCHANGED <<entries, versions, row, adding, due, stamp, marked>>
  PROVE  IInv'
<1>1. sync' \in [Worker -> SyncState]
  BY AtRestType DEF IInv, TypeOK, Return, Becomes
<1>2. sync'[w] = AtRest /\ \A u \in Worker \ {w} : sync'[u] = sync[u]
  BY DEF IInv, TypeOK, Return, Becomes
<1>3. HandOk(w, sync[w])'
  BY <1>2 DEF HandOk, AtRest
<1>4. due' \in [Device -> Nat] /\ open' \in [Device -> BOOLEAN]
  BY DEF IInv, TypeOK, Return
<1> QED BY <1>1, <1>2, <1>3, <1>4, LocalStep

\* A step from which FullSync returns.
LEMMA ReturningSteps ==
  ASSUME IInv, NEW w \in Worker,
         \/ PushRefused(w) \/ SyncDone(w) \/ PullFail(w)
         \/ ApplyPutFail(w) \/ PushFail(w)
  PROVE  IInv'
BY ReturnStep DEF PushRefused, SyncDone, PullFail, ApplyPutFail, PushFail

\* The end of a loop's body leaves the worker with nothing in hand.
LEMMA NextEntryStep ==
  ASSUME IInv, NEW w \in Worker, NEW loop \in {"apply", "push", "delete"},
         NextEntry(w, loop) \/ NextEntryAfterCall(w, loop)
  PROVE  /\ sync' \in [Worker -> SyncState]
         /\ \A u \in Worker \ {w} : sync'[u] = sync[u]
         /\ sync'[w].pc = loop
         /\ sync'[w].pulled = sync[w].pulled
<1>1. sync \in [Worker -> SyncState] /\ sync[w] \in SyncState
  BY DEF IInv, TypeOK
<1>2. sync[w].calls \in 0..RateMax /\ Counted(sync[w].calls) \in 0..RateMax
  BY <1>1, CountedType DEF SyncState
<1>3. [sync[w] EXCEPT !.pc = loop, !.cur = None, !.held = NoVersion]
        \in SyncState
  BY <1>1 DEF SyncState, PC, None, NoVersion
<1>4. [sync[w] EXCEPT !.pc = loop, !.cur = None, !.held = NoVersion,
                      !.calls = Counted(@)] \in SyncState
  BY <1>1, <1>2 DEF SyncState, PC, None, NoVersion
<1>5. CASE NextEntry(w, loop)
  BY <1>1, <1>3, <1>5 DEF NextEntry, Becomes, SyncState
<1>6. CASE NextEntryAfterCall(w, loop)
  BY <1>1, <1>4, <1>6 DEF NextEntryAfterCall, Becomes, SyncState
<1> QED BY <1>5, <1>6

\* A step that ends a loop's body and changes nothing else.
LEMMA LoopSteps ==
  ASSUME IInv, NEW w \in Worker,
         \/ PushGone(w) \/ DeleteMissing(w) \/ DeleteRefused(w)
         \/ ApplyVersionFail(w)
  PROVE  IInv'
<1>1. PICK loop \in {"apply", "push", "delete"} :
        NextEntry(w, loop) \/ NextEntryAfterCall(w, loop)
  BY DEF PushGone, DeleteMissing, DeleteRefused, ApplyVersionFail
<1>2. UNCHANGED <<entries, versions, row, adding, due, open, stamp, marked>>
  BY DEF PushGone, DeleteMissing, DeleteRefused, ApplyVersionFail
<1>3. HandOk(w, sync[w])'
  BY <1>1, <1>2, NextEntryStep DEF IInv, HandOk
<1>4. due' \in [Device -> Nat] /\ open' \in [Device -> BOOLEAN]
  BY <1>2 DEF IInv, TypeOK
<1> QED BY <1>1, <1>2, <1>3, <1>4, NextEntryStep, LocalStep

\* A worker starts, and receives the rows of its pull.
LEMMA PullSteps ==
  ASSUME IInv, NEW w \in Worker, StartSync(w) \/ PullOk(w)
  PROVE  IInv'
<1>1. sync \in [Worker -> SyncState] /\ sync[w] \in SyncState
  BY DEF IInv, TypeOK
<1>2. HandOk(w, sync[w])
  BY DEF IInv
<1>3. CASE StartSync(w)
  <2>1. PICK m \in Stamp \union {NoVersion} :
          Becomes(w, [sync[w] EXCEPT !.pc = "pull", !.since = m])
    BY <1>3 DEF StartSync
  <2>2. m \in Nat
    BY WorkerAssumption DEF NoVersion
  <2>3. /\ sync' \in [Worker -> SyncState]
        /\ \A u \in Worker \ {w} : sync'[u] = sync[u]
        /\ sync'[w].pc = "pull" /\ sync'[w].pulled = sync[w].pulled
    BY <1>1, <2>1, <2>2 DEF Becomes, SyncState, PC
  <2>4. UNCHANGED <<entries, versions, row, adding, open, stamp, marked>>
    BY <1>3 DEF StartSync
  <2>5. HandOk(w, sync[w])'
    BY <1>2, <2>3, <2>4 DEF HandOk
  <2>6. due' \in [Device -> Nat] /\ open' \in [Device -> BOOLEAN]
    <3>1. due \in [Device -> Nat] /\ Home[w] \in Device
      BY WorkerAssumption DEF IInv, TypeOK
    <3>2. due' = [due EXCEPT ![Home[w]] = IF @ > 0 THEN @ - 1 ELSE 0]
      BY <1>3 DEF StartSync
    <3>3. due' \in [Device -> Nat]
      BY <3>1, <3>2
    <3> QED BY <2>4, <3>3 DEF IInv, TypeOK
  <2> QED BY <2>3, <2>4, <2>5, <2>6, LocalStep
<1>4. CASE PullOk(w)
  <2>1. \A r \in ServerPull(sync[w].since) :
          r \in Row /\ r.version = stamp[r.id] /\ r.version # NoVersion
    <3> SUFFICES ASSUME NEW r \in ServerPull(sync[w].since)
                 PROVE  r \in Row /\ r.version = stamp[r.id]
                        /\ r.version # NoVersion
      OBVIOUS
    <3>1. PICK e \in Entry : /\ row[e] # NoVersion
                             /\ r = [id |-> e, version |-> row[e]]
      BY DEF ServerPull
    <3>2. row[e] \in Nat /\ row[e] = stamp[e]
      BY <3>1, WorkerAssumption DEF IInv, TypeOK, VersionsAgree, NoVersion
    <3> QED BY <3>1, <3>2 DEF Row
  <2>2. Counted(sync[w].calls) \in 0..RateMax
    BY <1>1, CountedType DEF SyncState
  <2>3. /\ sync' \in [Worker -> SyncState]
        /\ \A u \in Worker \ {w} : sync'[u] = sync[u]
        /\ sync'[w].pc = "apply"
        /\ sync'[w].pulled = ServerPull(sync[w].since)
    BY <1>1, <1>4, <2>1, <2>2 DEF PullOk, Becomes, SyncState, PC,
                                    NoVersion
  <2>4. UNCHANGED <<entries, versions, row, adding, due, open, stamp, marked>>
    BY <1>4 DEF PullOk
  <2>5. HandOk(w, sync[w])'
    BY <2>1, <2>3, <2>4 DEF HandOk
  <2>6. due' \in [Device -> Nat] /\ open' \in [Device -> BOOLEAN]
    BY <2>4 DEF IInv, TypeOK
  <2> QED BY <2>3, <2>4, <2>5, <2>6, LocalStep
<1> QED BY <1>3, <1>4

\* The loops over the listing: a worker lists, skips, reads and starts over.
LEMMA ListingSteps ==
  ASSUME IInv, NEW w \in Worker,
         \/ ListEntries(w) \/ PushSkip(w) \/ PushRead(w) \/ PushGet(w)
         \/ PushDone(w) \/ DeleteSkip(w) \/ DeleteRead(w)
  PROVE  IInv'
<1>1. sync \in [Worker -> SyncState] /\ sync[w] \in SyncState
  BY DEF IInv, TypeOK
<1>2. HandOk(w, sync[w])
  BY DEF IInv
<1>3. Home[w] \in Device /\ entries[Home[w]] \in SUBSET Entry
  BY WorkerAssumption DEF IInv, TypeOK
<1>4. UNCHANGED <<entries, versions, row, adding, due, open, stamp, marked>>
  BY DEF ListEntries, PushSkip, PushRead, PushGet, PushDone, DeleteSkip,
         DeleteRead
<1>5. due' \in [Device -> Nat] /\ open' \in [Device -> BOOLEAN]
  BY <1>4 DEF IInv, TypeOK
<1>6. CASE ListEntries(w)
  <2>1. /\ sync' \in [Worker -> SyncState]
        /\ \A u \in Worker \ {w} : sync'[u] = sync[u]
        /\ sync'[w].pc = "push" /\ sync'[w].pulled = sync[w].pulled
    BY <1>1, <1>3, <1>6 DEF ListEntries, List, Becomes, SyncState, PC
  <2>2. HandOk(w, sync[w])'
    BY <1>2, <1>4, <2>1 DEF HandOk
  <2> QED BY <1>4, <1>5, <2>1, <2>2, LocalStep
<1>7. CASE PushSkip(w) \/ DeleteSkip(w)
  <2>1. PICK e \in sync[w].todo :
          Becomes(w, [sync[w] EXCEPT !.todo = @ \ {e}])
    BY <1>7 DEF PushSkip, DeleteSkip
  <2>2. /\ sync' \in [Worker -> SyncState]
        /\ \A u \in Worker \ {w} : sync'[u] = sync[u]
        /\ sync'[w].pc = sync[w].pc /\ sync'[w].pulled = sync[w].pulled
        /\ sync'[w].pc \in {"push", "delete"}
    BY <1>1, <1>7, <2>1 DEF PushSkip, DeleteSkip, Becomes, SyncState
  <2>3. HandOk(w, sync[w])'
    BY <1>2, <1>4, <2>2 DEF HandOk
  <2> QED BY <1>4, <1>5, <2>2, <2>3, LocalStep
<1>8. CASE PushRead(w)
  <2>1. PICK e \in sync[w].todo :
          /\ ~NotForPush(GetVersion(Home[w], e))
          /\ Becomes(w, [sync[w] EXCEPT !.pc = "get", !.todo = @ \ {e},
                                        !.cur = e,
                                        !.held = GetVersion(Home[w], e)])
    BY <1>8 DEF PushRead
  <2>2. e \in Entry
    BY <1>1 DEF SyncState
  <2>3. /\ GetVersion(Home[w], e) = stamp[e]
        /\ GetVersion(Home[w], e) # NoVersion
        /\ GetVersion(Home[w], e) \in Nat
    BY <1>3, <2>1, <2>2, WorkerAssumption
    DEF GetVersion, NotForPush, NoVersion, Tombstone, IInv, TypeOK,
        VersionsAgree
  <2>4. /\ sync' \in [Worker -> SyncState]
        /\ \A u \in Worker \ {w} : sync'[u] = sync[u]
        /\ sync'[w].pc = "get" /\ sync'[w].pulled = sync[w].pulled
        /\ sync'[w].cur = e /\ sync'[w].held = GetVersion(Home[w], e)
    BY <1>1, <2>1, <2>2, <2>3 DEF Becomes, SyncState, PC
  <2>5. HandOk(w, sync[w])'
    BY <1>2, <1>4, <2>2, <2>3, <2>4 DEF HandOk
  <2> QED BY <1>4, <1>5, <2>4, <2>5, LocalStep
<1>9. CASE PushGet(w)
  <2>1. /\ sync' \in [Worker -> SyncState]
        /\ \A u \in Worker \ {w} : sync'[u] = sync[u]
        /\ sync'[w].pc = "send" /\ sync[w].pc = "get"
        /\ sync'[w].pulled = sync[w].pulled
        /\ sync'[w].cur = sync[w].cur /\ sync'[w].held = sync[w].held
    BY <1>1, <1>9 DEF PushGet, Becomes, SyncState, PC
  <2>2. HandOk(w, sync[w])'
    BY <1>2, <1>4, <2>1 DEF HandOk
  <2> QED BY <1>4, <1>5, <2>1, <2>2, LocalStep
<1>10. CASE PushDone(w)
  <2>1. /\ sync' \in [Worker -> SyncState]
        /\ \A u \in Worker \ {w} : sync'[u] = sync[u]
        /\ sync'[w].pc = "delete" /\ sync'[w].pulled = sync[w].pulled
    BY <1>1, <1>10 DEF PushDone, Becomes, SyncState, PC
  <2>2. HandOk(w, sync[w])'
    BY <1>2, <1>4, <2>1 DEF HandOk
  <2> QED BY <1>4, <1>5, <2>1, <2>2, LocalStep
<1>11. CASE DeleteRead(w)
  <2>1. PICK e \in sync[w].todo :
          /\ GetVersion(Home[w], e) = Tombstone
          /\ Becomes(w, [sync[w] EXCEPT !.pc = "deleteSend",
                                        !.todo = @ \ {e}, !.cur = e])
    BY <1>11 DEF DeleteRead
  <2>2. e \in Entry
    BY <1>1 DEF SyncState
  <2>3. e \in marked[Home[w]]
    BY <1>3, <2>1, <2>2 DEF GetVersion, IInv, TombstonesMarked
  <2>4. /\ sync' \in [Worker -> SyncState]
        /\ \A u \in Worker \ {w} : sync'[u] = sync[u]
        /\ sync'[w].pc = "deleteSend" /\ sync'[w].pulled = sync[w].pulled
        /\ sync'[w].cur = e
    BY <1>1, <2>1, <2>2 DEF Becomes, SyncState, PC
  <2>5. HandOk(w, sync[w])'
    BY <1>2, <1>4, <2>3, <2>4 DEF HandOk
  <2> QED BY <1>4, <1>5, <2>4, <2>5, LocalStep
<1> QED BY <1>6, <1>7, <1>8, <1>9, <1>10, <1>11

-----------------------------------------------------------------------------
(* The steps of a worker on the store.                                     *)

\* Applying a row: its data, then its version.
LEMMA ApplySteps ==
  ASSUME IInv, NEW w \in Worker, ApplyPut(w) \/ ApplyVersion(w)
  PROVE  IInv'
<1>1. sync \in [Worker -> SyncState] /\ sync[w] \in SyncState
  BY DEF IInv, TypeOK
<1>2. HandOk(w, sync[w]) /\ Home[w] \in Device
  BY WorkerAssumption DEF IInv
<1>3. CASE ApplyPut(w)
  <2>1. PICK r \in sync[w].pulled :
          /\ Put(Home[w], r.id)
          /\ Becomes(w, [sync[w] EXCEPT !.pc = "applyVersion",
                                        !.pulled = @ \ {r}, !.cur = r.id,
                                        !.held = r.version])
    BY <1>3 DEF ApplyPut
  <2>2. r.id \in Entry /\ r.version \in Nat
    BY <1>1 DEF SyncState, Row
  <2>3. UNCHANGED <<versions, row, adding, due, open, stamp, marked>>
    BY <1>3 DEF ApplyPut
  <2>4. /\ sync' \in [Worker -> SyncState]
        /\ \A u \in Worker \ {w} : sync'[u] = sync[u]
        /\ sync'[w].pc = "applyVersion"
        /\ sync'[w].pulled = sync[w].pulled \ {r}
        /\ sync'[w].cur = r.id /\ sync'[w].held = r.version
    BY <1>1, <2>1, <2>2 DEF Becomes, SyncState, PC
  <2>5. HandOk(w, sync[w])'
    BY <1>2, <2>2, <2>3, <2>4 DEF HandOk
  <2>6. /\ entries' \in [Device -> SUBSET Entry]
        /\ \A d \in Device : entries[d] \subseteq entries'[d]
    BY <1>2, <2>1, <2>2 DEF Put, IInv, TypeOK
  <2>7. TypeOK'
    BY <2>3, <2>4, <2>6 DEF IInv, TypeOK
  <2>8. (VersionsAgree /\ SavingOnce /\ TombstonesMarked)'
    BY <2>3, <2>6 DEF IInv, VersionsAgree, SavingOnce, TombstonesMarked
  <2> QED BY <2>3, <2>4, <2>5, <2>7, <2>8, HandsKept DEF IInv
<1>4. CASE ApplyVersion(w)
  <2>1. PutVersion(Home[w], sync[w].cur, sync[w].held) /\ NextEntry(w, "apply")
    BY <1>4 DEF ApplyVersion
  <2>2. UNCHANGED <<entries, row, adding, due, open, stamp, marked>>
    BY <1>4 DEF ApplyVersion
  <2>3. /\ sync[w].cur \in Entry
        /\ sync[w].held = stamp[sync[w].cur]
        /\ sync[w].held \in Stamp
    BY <1>2, <1>4 DEF ApplyVersion, HandOk, IInv, TypeOK
  <2>4. versions' \in [Device -> [Entry -> Stamp \union {NoVersion, Tombstone}]]
    BY <1>2, <2>1, <2>3 DEF PutVersion, IInv, TypeOK
  <2>5. ASSUME NEW d \in Device, NEW e \in Entry
        PROVE  versions'[d][e] = versions[d][e] \/ versions'[d][e] = stamp[e]
    BY <1>2, <2>1, <2>3 DEF PutVersion, IInv, TypeOK
  <2>6. HandOk(w, sync[w])'
    BY <1>2, <2>1, <2>2, NextEntryStep DEF HandOk
  <2>7. TypeOK'
    BY <2>1, <2>2, <2>4, NextEntryStep DEF IInv, TypeOK
  <2>8. (VersionsAgree /\ SavingOnce)'
    BY <2>2, <2>5 DEF IInv, VersionsAgree, SavingOnce
  <2>9. TombstonesMarked'
    BY <2>2, <2>5, StampIsTime DEF IInv, TombstonesMarked
  <2> QED BY <2>1, <2>2, <2>6, <2>7, <2>8, <2>9, NextEntryStep, HandsKept
          DEF IInv
<1> QED BY <1>3, <1>4

\* Dropping an entry: its data, then its version.  A failed drop changes the
\* worker alone.
LEMMA DropSteps ==
  ASSUME IInv, NEW w \in Worker, DropEntry(w) \/ DropVersion(w) \/ DropFail(w)
  PROVE  IInv'
<1>1. sync \in [Worker -> SyncState] /\ sync[w] \in SyncState
  BY DEF IInv, TypeOK
<1>2. HandOk(w, sync[w]) /\ Home[w] \in Device
  BY WorkerAssumption DEF IInv
<1>3. UNCHANGED <<row, adding, due, open, stamp, marked>>
  BY DEF DropEntry, DropVersion, DropFail
<1>4. ASSUME sync[w].pc = "dropEntry",
             Becomes(w, [sync[w] EXCEPT !.pc = "dropVersion"])
      PROVE  /\ sync' \in [Worker -> SyncState]
             /\ \A u \in Worker \ {w} : sync'[u] = sync[u]
             /\ HandOk(w, sync[w])'
  <2>1. /\ sync' \in [Worker -> SyncState]
        /\ \A u \in Worker \ {w} : sync'[u] = sync[u]
        /\ sync'[w].pc = "dropVersion" /\ sync'[w].pulled = sync[w].pulled
        /\ sync'[w].cur = sync[w].cur
    BY <1>1, <1>4 DEF Becomes, SyncState, PC
  <2> QED BY <1>2, <1>3, <1>4, <2>1 DEF HandOk
<1>5. ASSUME NextEntry(w, "delete")
      PROVE  /\ sync' \in [Worker -> SyncState]
             /\ \A u \in Worker \ {w} : sync'[u] = sync[u]
             /\ HandOk(w, sync[w])'
  BY <1>2, <1>3, <1>5, NextEntryStep DEF HandOk
<1>6. /\ sync' \in [Worker -> SyncState]
      /\ \A u \in Worker \ {w} : sync'[u] = sync[u]
      /\ HandOk(w, sync[w])'
  BY <1>4, <1>5 DEF DropEntry, DropVersion, DropFail
<1>7. CASE DropEntry(w)
  <2>1. /\ UNCHANGED versions
        /\ Delete(Home[w], sync[w].cur) /\ sync[w].pc = "dropEntry"
    BY <1>7 DEF DropEntry
  <2>2. entries' \in [Device -> SUBSET Entry]
    BY <1>2, <2>1 DEF Delete, IInv, TypeOK
  <2>3. ASSUME NEW d \in Device, NEW e \in adding[d] PROVE e \in entries'[d]
    <3>1. e \in entries[d] /\ stamp[e] = NoVersion
      BY DEF IInv, TypeOK, SavingOnce
    <3>2. stamp[sync[w].cur] # NoVersion
      BY <1>2, <2>1 DEF HandOk
    <3> QED BY <1>2, <2>1, <3>1, <3>2 DEF Delete, IInv, TypeOK
  <2>4. TypeOK'
    BY <1>3, <1>6, <2>1, <2>2 DEF IInv, TypeOK
  <2>5. (VersionsAgree /\ SavingOnce /\ TombstonesMarked)'
    BY <1>3, <2>1, <2>3 DEF IInv, VersionsAgree, SavingOnce, TombstonesMarked
  <2> QED BY <1>3, <1>6, <2>4, <2>5, HandsKept DEF IInv
<1>8. CASE DropVersion(w)
  <2>1. UNCHANGED entries /\ DeleteVersion(Home[w], sync[w].cur)
    BY <1>8 DEF DropVersion
  <2>2. versions' \in [Device -> [Entry -> Stamp \union {NoVersion, Tombstone}]]
    BY <1>2, <2>1 DEF DeleteVersion, IInv, TypeOK
  <2>3. ASSUME NEW d \in Device, NEW e \in Entry
        PROVE  versions'[d][e] = versions[d][e] \/ versions'[d][e] = NoVersion
    BY <1>2, <2>1 DEF DeleteVersion, IInv, TypeOK
  <2>4. TypeOK'
    BY <1>3, <1>6, <2>1, <2>2 DEF IInv, TypeOK
  <2>5. (VersionsAgree /\ SavingOnce /\ TombstonesMarked)'
    BY <1>3, <2>1, <2>3
    DEF IInv, VersionsAgree, SavingOnce, TombstonesMarked, NoVersion, Tombstone
  <2> QED BY <1>3, <1>6, <2>4, <2>5, HandsKept DEF IInv
<1>9. CASE DropFail(w)
  <2>1. UNCHANGED <<entries, versions>>
    BY <1>9 DEF DropFail
  <2>2. due' \in [Device -> Nat] /\ open' \in [Device -> BOOLEAN]
    BY <1>3 DEF IInv, TypeOK
  <2> QED BY <1>3, <1>6, <2>1, <2>2, LocalStep
<1> QED BY <1>7, <1>8, <1>9

-----------------------------------------------------------------------------
(* The requests that change the server's table.                            *)

\* A push, answered or not.
LEMMA PushSteps ==
  ASSUME IInv, NEW w \in Worker, PushOk(w) \/ PushLost(w)
  PROVE  IInv'
<1>1. sync \in [Worker -> SyncState] /\ sync[w] \in SyncState
  BY DEF IInv, TypeOK
<1>2. HandOk(w, sync[w])
  BY DEF IInv
<1>3. /\ sync[w].pc = "send"
      /\ ServerPush(sync[w].cur, sync[w].held)
      /\ \/ NextEntryAfterCall(w, "push") /\ UNCHANGED open
         \/ Return(w)
      /\ UNCHANGED <<entries, versions, adding, due, stamp, marked>>
  BY DEF PushOk, PushLost
<1>4. /\ sync[w].cur \in Entry
      /\ sync[w].held = stamp[sync[w].cur]
      /\ sync[w].held \in Stamp
  BY <1>2, <1>3 DEF HandOk, IInv, TypeOK
<1>5. row' \in [Entry -> Stamp \union {NoVersion}]
  BY <1>3, <1>4 DEF ServerPush, IInv, TypeOK
<1>6. \A e \in Entry : row'[e] = row[e] \/ row'[e] = stamp[e]
  BY <1>3, <1>4 DEF ServerPush, IInv, TypeOK
<1>7. /\ sync' \in [Worker -> SyncState]
      /\ \A u \in Worker \ {w} : sync'[u] = sync[u]
      /\ HandOk(w, sync[w])'
  <2>1. CASE NextEntryAfterCall(w, "push")
    BY <1>2, <1>3, <2>1, NextEntryStep DEF HandOk
  <2>2. CASE Return(w)
    <3>1. /\ sync' \in [Worker -> SyncState]
          /\ \A u \in Worker \ {w} : sync'[u] = sync[u]
          /\ sync'[w] = AtRest
      BY <1>1, <2>2, AtRestType DEF Return, Becomes
    <3> QED BY <3>1 DEF HandOk, AtRest
  <2> QED BY <1>3, <2>1, <2>2
<1>8. TypeOK'
  <2>1. open' \in [Device -> BOOLEAN]
    BY <1>3 DEF Return, IInv, TypeOK
  <2> QED BY <1>3, <1>5, <1>7, <2>1 DEF IInv, TypeOK
<1>9. (VersionsAgree /\ SavingOnce /\ TombstonesMarked)'
  BY <1>3, <1>6 DEF IInv, VersionsAgree, SavingOnce, TombstonesMarked
<1> QED BY <1>3, <1>7, <1>8, <1>9, HandsKept DEF IInv

\* A deletion, answered, lost or failed.
LEMMA DeleteSteps ==
  ASSUME IInv, NEW w \in Worker, DeleteOk(w) \/ DeleteLost(w) \/ DeleteFail(w)
  PROVE  IInv'
<1>1. sync \in [Worker -> SyncState] /\ sync[w] \in SyncState
  BY DEF IInv, TypeOK
<1>2. HandOk(w, sync[w]) /\ Home[w] \in Device
  BY WorkerAssumption DEF IInv
<1>3. /\ sync[w].pc = "deleteSend"
      /\ UNCHANGED <<entries, versions, adding, due, open, stamp, marked>>
  BY DEF DeleteOk, DeleteLost, DeleteFail
<1>4. sync[w].cur \in Entry
  BY <1>2, <1>3 DEF HandOk, IInv, TypeOK
<1>5. Counted(sync[w].calls) \in 0..RateMax /\ 0 \in 0..RateMax
  BY <1>1, CountedType, WorkerAssumption DEF SyncState
<1>6. row' \in [Entry -> Stamp \union {NoVersion}]
  BY <1>4 DEF DeleteOk, DeleteLost, DeleteFail, ServerDelete, IInv, TypeOK
<1>7. \A e \in Entry : row'[e] = row[e] \/ row'[e] = NoVersion
  BY <1>4 DEF DeleteOk, DeleteLost, DeleteFail, ServerDelete, IInv, TypeOK
<1>8. /\ sync' \in [Worker -> SyncState]
      /\ \A u \in Worker \ {w} : sync'[u] = sync[u]
      /\ HandOk(w, sync[w])'
  <2>1. CASE DeleteOk(w)
    <3>1. /\ sync' \in [Worker -> SyncState]
          /\ \A u \in Worker \ {w} : sync'[u] = sync[u]
          /\ sync'[w].pc = "dropEntry" /\ sync'[w].pulled = sync[w].pulled
          /\ sync'[w].cur = sync[w].cur
      BY <1>1, <1>5, <2>1 DEF DeleteOk, Becomes, SyncState, PC
    <3>2. stamp[sync[w].cur] # NoVersion
      BY <1>4, <2>1 DEF DeleteOk, DeleteFindsRow, IInv, VersionsAgree
    <3> QED BY <1>2, <1>3, <3>1, <3>2 DEF HandOk
  <2>2. CASE DeleteGivenUp(w)
    <3>1. PICK n \in {0, Counted(sync[w].calls)} :
            Becomes(w, [sync[w] EXCEPT !.pc = "delete", !.cur = None,
                                       !.calls = n])
      BY <2>2 DEF DeleteGivenUp
    <3>2. /\ sync' \in [Worker -> SyncState]
          /\ \A u \in Worker \ {w} : sync'[u] = sync[u]
          /\ sync'[w].pc = "delete" /\ sync'[w].pulled = sync[w].pulled
      BY <1>1, <1>5, <3>1 DEF Becomes, SyncState, PC, None
    <3> QED BY <1>2, <1>3, <3>2 DEF HandOk
  <2> QED BY <2>1, <2>2 DEF DeleteLost, DeleteFail
<1>9. TypeOK'
  BY <1>3, <1>6, <1>8 DEF IInv, TypeOK
<1>10. (VersionsAgree /\ SavingOnce /\ TombstonesMarked)'
  BY <1>3, <1>7 DEF IInv, VersionsAgree, SavingOnce, TombstonesMarked
<1> QED BY <1>3, <1>8, <1>9, <1>10, HandsKept DEF IInv

-----------------------------------------------------------------------------
(* The commands, and the death of a process.                               *)

\* A new entry is saved under an id nobody has.
LEMMA AddPutStep ==
  ASSUME IInv, NEW d \in Device, AddPut(d) PROVE IInv'
<1>1. PICK e \in Entry :
        Fresh(e) /\ Put(d, e) /\ adding' = [adding EXCEPT ![d] = {e}]
  BY DEF AddPut
<1>2. UNCHANGED <<versions, row, sync, due, open, stamp, marked>>
  BY DEF AddPut
<1>3. /\ entries' \in [Device -> SUBSET Entry]
      /\ \A c \in Device : entries[c] \subseteq entries'[c]
      /\ e \in entries'[d]
  BY <1>1 DEF Put, IInv, TypeOK
<1>4. /\ adding' \in [Device -> SUBSET Entry]
      /\ adding'[d] = {e}
      /\ \A c \in Device \ {d} : adding'[c] = adding[c]
  BY <1>1 DEF IInv, TypeOK
<1>5. \A c \in Device : e \notin adding[c]
  BY <1>1 DEF Fresh, IInv, SavingOnce
<1>6. SavingOnce'
  BY <1>1, <1>2, <1>3, <1>4, <1>5 DEF Fresh, IInv, SavingOnce
<1>7. TypeOK'
  BY <1>2, <1>3, <1>4 DEF IInv, TypeOK
<1>8. (VersionsAgree /\ TombstonesMarked)'
  BY <1>2 DEF IInv, VersionsAgree, TombstonesMarked
<1>9. \A w \in Worker : HandOk(w, sync[w])'
  BY <1>2 DEF IInv, HandOk
<1> QED BY <1>6, <1>7, <1>8, <1>9 DEF IInv

\* Ordering a sync counts it.
LEMMA OrderType ==
  ASSUME IInv, NEW d \in Device, Order(d) \/ UNCHANGED due, UNCHANGED open
  PROVE  due' \in [Device -> Nat] /\ open' \in [Device -> BOOLEAN]
BY DEF Order, IInv, TypeOK

\* The entry gets its version.  No device, no row and no worker had one for it.
LEMMA AddVersionStep ==
  ASSUME IInv, NEW d \in Device, AddVersion(d) PROVE IInv'
<1>1. PICK e \in adding[d], v \in Stamp :
        PutVersion(d, e, v) /\ stamp' = [stamp EXCEPT ![e] = v]
  BY DEF AddVersion
<1>2. /\ adding' = [adding EXCEPT ![d] = {}]
      /\ UNCHANGED <<entries, row, sync, marked>>
      /\ due' \in [Device -> Nat] /\ open' \in [Device -> BOOLEAN]
  BY OrderType DEF AddVersion, OrderAfterSave
<1>3. e \in Entry /\ stamp[e] = NoVersion
  BY DEF IInv, TypeOK, SavingOnce
<1>4. /\ stamp' \in [Entry -> Stamp \union {NoVersion}]
      /\ stamp'[e] = v
      /\ \A f \in Entry \ {e} : stamp'[f] = stamp[f]
  BY <1>1, <1>3 DEF IInv, TypeOK
<1>5. /\ versions' \in [Device -> [Entry -> Stamp \union {NoVersion, Tombstone}]]
      /\ versions'[d][e] = v
      /\ \A c \in Device, f \in Entry :
           c # d \/ f # e => versions'[c][f] = versions[c][f]
  BY <1>1, <1>3 DEF PutVersion, IInv, TypeOK
<1>6. TypeOK'
  BY <1>2, <1>4, <1>5 DEF IInv, TypeOK
<1>7. VersionsAgree'
  <2>1. ASSUME NEW c \in Device, NEW f \in Entry
        PROVE  versions'[c][f] \in {NoVersion, Tombstone, stamp'[f]}
    BY <1>3, <1>4, <1>5 DEF IInv, VersionsAgree
  <2>2. \A f \in Entry : row'[f] \in {NoVersion, stamp'[f]}
    BY <1>2, <1>3, <1>4 DEF IInv, VersionsAgree
  <2> QED BY <2>1, <2>2 DEF VersionsAgree
<1>8. SavingOnce'
  <2> SUFFICES ASSUME NEW c \in Device, NEW f \in Entry, f \in adding'[c]
               PROVE  /\ stamp'[f] = NoVersion
                      /\ f \in entries'[c]
                      /\ \A b \in Device : f \in adding'[b] => b = c
    BY DEF SavingOnce
  <2>1. \A b \in Device : adding'[b] \subseteq adding[b]
    BY <1>2 DEF IInv, TypeOK
  <2>2. c # d /\ f \in adding[c]
    BY <1>2 DEF IInv, TypeOK
  <2>3. f # e
    BY <1>1, <1>3, <2>2 DEF IInv, SavingOnce
  <2> QED BY <1>2, <1>4, <2>1, <2>2, <2>3 DEF IInv, SavingOnce
<1>9. TombstonesMarked'
  BY SMTT(30), <1>1, <1>2, <1>3, <1>5, WorkerAssumption
  DEF IInv, TombstonesMarked, Tombstone
<1>10. ASSUME NEW w \in Worker PROVE HandOk(w, sync[w])'
  <2>1. HandOk(w, sync[w]) /\ sync[w] \in SyncState /\ sync'[w] = sync[w]
    BY <1>2 DEF IInv, TypeOK
  <2>2. \A r \in sync[w].pulled : r.id \in Entry /\ r.id # e
    BY <1>3, <2>1 DEF HandOk, SyncState, Row
  <2>3. sync[w].pc \in {"applyVersion", "get", "send"} =>
          sync[w].cur \in Entry /\ sync[w].cur # e
    BY <1>3, <2>1 DEF HandOk
  <2>4. sync[w].pc \in {"dropEntry", "dropVersion"} =>
          sync[w].cur \in Entry /\ sync[w].cur # e
    BY <1>3, <2>1, WorkerAssumption DEF HandOk, IInv, TypeOK
  <2> QED BY <1>2, <1>4, <2>1, <2>2, <2>3, <2>4 DEF HandOk
<1> QED BY <1>6, <1>7, <1>8, <1>9, <1>10 DEF IInv

\* A user marks an entry.
LEMMA MarkStep ==
  ASSUME IInv, NEW d \in Device, Mark(d) PROVE IInv'
<1>1. PICK e \in Entry : /\ PutVersion(d, e, Tombstone)
                         /\ marked' = [marked EXCEPT ![d] = @ \union {e}]
  BY DEF Mark
<1>2. UNCHANGED <<entries, row, sync, adding, stamp>>
  BY DEF Mark
<1>3. due' \in [Device -> Nat] /\ open' \in [Device -> BOOLEAN]
  BY OrderType DEF Mark
<1>4. /\ marked' \in [Device -> SUBSET Entry]
      /\ e \in marked'[d]
      /\ \A c \in Device : marked[c] \subseteq marked'[c]
  BY <1>1 DEF IInv, TypeOK
<1>5. /\ versions' \in [Device -> [Entry -> Stamp \union {NoVersion, Tombstone}]]
      /\ versions'[d][e] = Tombstone
      /\ \A c \in Device, f \in Entry :
           c # d \/ f # e => versions'[c][f] = versions[c][f]
  BY <1>1 DEF PutVersion, IInv, TypeOK
<1>6. TypeOK'
  BY <1>2, <1>3, <1>4, <1>5 DEF IInv, TypeOK
<1>7. VersionsAgree' /\ SavingOnce' /\ TombstonesMarked'
  <2>1. VersionsAgree'
    BY <1>2, <1>5 DEF IInv, VersionsAgree
  <2>2. SavingOnce'
    BY <1>2 DEF IInv, SavingOnce
  <2>3. TombstonesMarked'
    BY <1>4, <1>5 DEF IInv, TombstonesMarked
  <2> QED BY <2>1, <2>2, <2>3
<1>8. ASSUME NEW w \in Worker PROVE HandOk(w, sync[w])'
  <2>1. HandOk(w, sync[w]) /\ Home[w] \in Device
    BY WorkerAssumption DEF IInv
  <2> QED BY <1>2, <1>4, <2>1 DEF HandOk
<1> QED BY <1>6, <1>7, <1>8 DEF IInv

\* The version of a new entry is not written.
LEMMA AddVersionFailStep ==
  ASSUME IInv, NEW d \in Device, AddVersionFail(d) PROVE IInv'
<1>1. /\ adding' = [adding EXCEPT ![d] = {}]
      /\ UNCHANGED <<entries, versions, row, sync, stamp, marked>>
      /\ due' \in [Device -> Nat] /\ open' \in [Device -> BOOLEAN]
  BY OrderType DEF AddVersionFail, OrderAfterSave
<1>2. /\ adding' \in [Device -> SUBSET Entry]
      /\ \A c \in Device : adding'[c] \subseteq adding[c]
  BY <1>1 DEF IInv, TypeOK
<1>3. TypeOK'
  BY <1>1, <1>2 DEF IInv, TypeOK
<1>4. (VersionsAgree /\ SavingOnce /\ TombstonesMarked)'
  BY <1>1, <1>2 DEF IInv, VersionsAgree, SavingOnce, TombstonesMarked
<1>5. \A w \in Worker : HandOk(w, sync[w])'
  BY <1>1 DEF IInv, HandOk
<1> QED BY <1>3, <1>4, <1>5 DEF IInv

\* The process of a device ends.
LEMMA LeaveStep ==
  ASSUME IInv, NEW d \in Device, Leave(d) PROVE IInv'
<1>1. /\ open' \in [Device -> BOOLEAN]
      /\ UNCHANGED <<entries, versions, row, sync, adding, due, stamp, marked>>
  BY DEF Leave, IInv, TypeOK
<1>2. TypeOK'
  BY <1>1 DEF IInv, TypeOK
<1>3. (VersionsAgree /\ SavingOnce /\ TombstonesMarked)'
  BY <1>1 DEF IInv, VersionsAgree, SavingOnce, TombstonesMarked
<1>4. \A w \in Worker : HandOk(w, sync[w])'
  BY <1>1 DEF IInv, HandOk
<1> QED BY <1>2, <1>3, <1>4 DEF IInv

\* The process of a device dies: its workers are at rest.
LEMMA CrashStep ==
  ASSUME IInv, NEW d \in Device, Crash(d) PROVE IInv'
<1>1. /\ sync' = [w \in Worker |-> IF Home[w] = d THEN AtRest ELSE sync[w]]
      /\ adding' = [adding EXCEPT ![d] = {}]
      /\ due' = [due EXCEPT ![d] = 0]
      /\ UNCHANGED <<entries, versions, row, stamp, marked>>
  BY DEF Crash
<1>2. /\ adding' \in [Device -> SUBSET Entry]
      /\ \A c \in Device : adding'[c] \subseteq adding[c]
      /\ due' \in [Device -> Nat] /\ open' \in [Device -> BOOLEAN]
  BY <1>1 DEF Crash, IInv, TypeOK
<1>3. sync' \in [Worker -> SyncState]
  BY <1>1, AtRestType DEF IInv, TypeOK
<1>4. TypeOK'
  BY <1>1, <1>2, <1>3 DEF IInv, TypeOK
<1>5. (VersionsAgree /\ SavingOnce /\ TombstonesMarked)'
  BY <1>1, <1>2 DEF IInv, VersionsAgree, SavingOnce, TombstonesMarked
<1>6. ASSUME NEW w \in Worker PROVE HandOk(w, sync[w])'
  <2>1. CASE Home[w] = d
    BY <1>1, <2>1 DEF HandOk, AtRest
  <2>2. CASE Home[w] # d
    BY <1>1, <2>2 DEF IInv, HandOk
  <2> QED BY <2>1, <2>2
<1> QED BY <1>4, <1>5, <1>6 DEF IInv

-----------------------------------------------------------------------------
(* The theorems.                                                           *)

\* Every step keeps the invariant.
LEMMA NextIInv == IInv /\ [Next]_vars => IInv'
<1> SUFFICES ASSUME IInv, [Next]_vars PROVE IInv'
  OBVIOUS
<1>1. CASE UNCHANGED vars
  BY <1>1 DEF vars, IInv, TypeOK, VersionsAgree, SavingOnce, TombstonesMarked,
              HandOk
<1>2. CASE Step
  <2>1. ASSUME NEW w \in Worker, StartSync(w) \/ SyncStep(w) PROVE IInv'
    BY <2>1, PullSteps, ApplySteps, ListingSteps, LoopSteps, PushSteps,
       ReturningSteps, DeleteSteps, DropSteps
    DEF SyncStep
  <2>2. ASSUME NEW d \in Device, AddPut(d) \/ AddVersion(d) \/ Mark(d) \/ Leave(d)
        PROVE  IInv'
    BY <2>2, AddPutStep, AddVersionStep, MarkStep, LeaveStep
  <2> QED BY <1>2, <2>1, <2>2 DEF Step
<1>3. CASE Fault
  <2>1. ASSUME NEW w \in Worker, SyncFault(w) PROVE IInv'
    BY <2>1, ReturningSteps, LoopSteps, PushSteps, DeleteSteps, DropSteps
    DEF SyncFault
  <2>2. ASSUME NEW d \in Device, AddVersionFail(d) \/ Crash(d) PROVE IInv'
    BY <2>2, AddVersionFailStep, CrashStep
  <2> QED BY <1>3, <2>1, <2>2 DEF Fault
<1> QED BY <1>1, <1>2, <1>3 DEF Next

\* The invariant holds in every reachable state.
THEOREM Invariant == Spec => []IInv
<1> QED BY InitIInv, NextIInv, PTL DEF Spec

\* Type correctness: the stores, the server's table and the workers hold what
\* their types say, for any number of devices, workers and entries.
THEOREM TypeCorrect == Spec => []TypeOK
<1>1. IInv => TypeOK
  BY DEF IInv
<1> QED BY <1>1, Invariant, PTL

\* An entry has one version wherever it is, whatever overlaps and fails.
THEOREM OneVersionHolds == Spec => []OneVersion
<1>1. IInv => OneVersion
  BY DEF IInv, VersionsAgree, HandOk, OneVersion
<1> QED BY <1>1, Invariant, PTL

-----------------------------------------------------------------------------
(* Nothing is lost unasked.                                                *)

\* The only step that takes an entry from a device is DropEntry.
LEMMA CopyStep ==
  ASSUME IInv, [Next]_vars, NEW d \in Device, NEW e \in entries[d] \ entries'[d]
  PROVE  \E w \in Worker : DropEntry(w) /\ d = Home[w] /\ e = sync[w].cur
<1>1. entries # entries'
  OBVIOUS
<1>2. CASE \E w \in Worker : DropEntry(w)
  <2>1. PICK w \in Worker : DropEntry(w)
    BY <1>2
  <2>2. d = Home[w] /\ e = sync[w].cur
    BY <2>1, WorkerAssumption DEF DropEntry, Delete, IInv, TypeOK
  <2> QED BY <2>1, <2>2
<1>3. CASE \E w \in Worker : ApplyPut(w)
  <2>1. PICK w \in Worker : ApplyPut(w)
    BY <1>3
  <2>2. PICK r \in sync[w].pulled : Put(Home[w], r.id)
    BY <2>1 DEF ApplyPut
  <2>3. entries[d] \subseteq entries'[d]
    BY <2>2, WorkerAssumption DEF Put, IInv, TypeOK
  <2> QED BY <2>3
<1>4. CASE \E c \in Device : AddPut(c)
  <2>1. PICK c \in Device, f \in Entry : Put(c, f)
    BY <1>4 DEF AddPut
  <2>2. entries[d] \subseteq entries'[d]
    BY <2>1 DEF Put, IInv, TypeOK
  <2> QED BY <2>2
<1>5. \/ \E w \in Worker : DropEntry(w) \/ ApplyPut(w)
      \/ \E c \in Device : AddPut(c)
  BY <1>1
  DEF Next, vars, Step, Fault, SyncStep, SyncFault, StartSync, PullOk,
      ApplyVersion, ListEntries, PushSkip, PushRead, PushGet, PushGone,
      PushOk, PushRefused, PushDone, DeleteSkip, DeleteRead, DeleteOk,
      DeleteMissing, DeleteRefused, DropVersion, SyncDone, PullFail,
      ApplyPutFail, ApplyVersionFail, PushFail, PushLost, DeleteFail,
      DeleteLost, DropFail, AddVersion, Mark, AddVersionFail, Leave, Crash
<1> QED BY <1>2, <1>3, <1>4, <1>5

\* What is dropped was marked there.
LEMMA CopyKept ==
  ASSUME IInv, [Next]_vars, NEW d \in Device, NEW e \in entries[d] \ entries'[d]
  PROVE  e \in marked[d]
<1>1. PICK w \in Worker : DropEntry(w) /\ d = Home[w] /\ e = sync[w].cur
  BY CopyStep
<1>2. HandOk(w, sync[w]) /\ sync[w].pc = "dropEntry"
  BY <1>1 DEF DropEntry, IInv
<1> QED BY <1>1, <1>2 DEF HandOk

\* What a step does to the server's table: nothing, a push of a saved entry,
\* or the deletion of an entry that the worker's user marked.
LEMMA RowStep ==
  ASSUME IInv, [Next]_vars
  PROVE  \/ UNCHANGED row
         \/ \E w \in Worker : PushOk(w) \/ PushLost(w)
         \/ \E w \in Worker : DeleteOk(w) \/ DeleteLost(w)
BY DEF Next, vars, Step, Fault, SyncStep, SyncFault, StartSync, PullOk,
       ApplyPut, ApplyVersion, ListEntries, PushSkip, PushRead, PushGet,
       PushGone, PushRefused, PushDone, DeleteSkip, DeleteRead,
       DeleteMissing, DeleteRefused, DropEntry, DropVersion, SyncDone,
       PullFail, ApplyPutFail, ApplyVersionFail, PushFail, DeleteFail,
       DropFail, AddPut, AddVersion, Mark, AddVersionFail, Leave, Crash

\* A row goes only after a mark.
LEMMA RowKept ==
  ASSUME IInv, [Next]_vars, NEW e \in Entry,
         row[e] # NoVersion, row'[e] = NoVersion
  PROVE  \E d \in Device : e \in marked[d]
<1>1. CASE \E w \in Worker : PushOk(w) \/ PushLost(w)
  <2>1. PICK w \in Worker : PushOk(w) \/ PushLost(w)
    BY <1>1
  <2>2. ServerPush(sync[w].cur, sync[w].held) /\ sync[w].pc = "send"
    BY <2>1 DEF PushOk, PushLost
  <2>3. sync[w].held # NoVersion
    BY <2>2 DEF IInv, HandOk
  <2> QED BY <2>2, <2>3 DEF ServerPush, IInv, TypeOK
<1>2. CASE \E w \in Worker : DeleteOk(w) \/ DeleteLost(w)
  <2>1. PICK w \in Worker : DeleteOk(w) \/ DeleteLost(w)
    BY <1>2
  <2>2. ServerDelete(sync[w].cur) /\ sync[w].pc = "deleteSend"
    BY <2>1 DEF DeleteOk, DeleteLost
  <2>3. e = sync[w].cur
    BY <2>2 DEF ServerDelete, IInv, TypeOK
  <2>4. e \in marked[Home[w]] /\ Home[w] \in Device
    BY <2>2, <2>3, WorkerAssumption DEF IInv, HandOk
  <2> QED BY <2>4
<1> QED BY <1>1, <1>2, RowStep

\* No interleaving of syncs, saves, deletions, faults and crashes, on any
\* number of devices, loses an entry its user did not mark.
THEOREM NothingIsLost == Spec => NothingLost
<1>1. IInv /\ [Next]_vars =>
        /\ \A d \in Device : \A e \in entries[d] \ entries'[d] : e \in marked[d]
        /\ \A e \in Entry :
             row[e] # NoVersion /\ row'[e] = NoVersion =>
               \E d \in Device : e \in marked[d]
  BY CopyKept, RowKept
<1> QED BY <1>1, Invariant, PTL DEF Spec, NothingLost

-----------------------------------------------------------------------------
(* With a single worker.                                                   *)

\* What is dropped is gone from the server.
RetiredFirst ==
  \A w \in Worker : sync[w].pc = "dropEntry" => row[sync[w].cur] = NoVersion

LEMMA RetiredFirstNext ==
  ASSUME \A u, w \in Worker : u = w, IInv, RetiredFirst, [Next]_vars
  PROVE  RetiredFirst'
<1> SUFFICES ASSUME NEW w \in Worker, sync'[w].pc = "dropEntry"
             PROVE  row'[sync'[w].cur] = NoVersion
  BY DEF RetiredFirst
<1>1. sync[w] \in SyncState
  BY DEF IInv, TypeOK
<1>2. CASE DeleteOk(w)
  <2>1. sync'[w] = [sync[w] EXCEPT !.pc = "dropEntry", !.calls = Counted(@)]
    BY <1>2, BecomesOk DEF DeleteOk
  <2>2. sync[w].cur \in Entry
    BY <1>2, WorkerAssumption DEF DeleteOk, IInv, HandOk, TypeOK
  <2> QED BY <1>1, <1>2, <2>1, <2>2 DEF DeleteOk, ServerDelete, SyncState, IInv, TypeOK
<1>3. ASSUME NEW s, Becomes(w, s), s.pc # "dropEntry" PROVE FALSE
  BY <1>3, BecomesOk
<1>4. ~Return(w) /\ ~\E loop \in {"apply", "push", "delete"} :
                       NextEntry(w, loop) \/ NextEntryAfterCall(w, loop)
  BY <1>1, <1>3, NextEntryStep DEF Return, AtRest
<1>5. CASE SyncStep(w) \/ SyncFault(w) \/ StartSync(w)
  <2>1. ~StartSync(w) /\ ~PullOk(w) /\ ~ApplyPut(w) /\ ~ListEntries(w)
    BY <1>1, <1>3 DEF StartSync, PullOk, ApplyPut, ListEntries, SyncState
  <2>2. ~PushSkip(w) /\ ~PushRead(w) /\ ~PushGet(w) /\ ~PushDone(w)
    BY <1>1, <1>3 DEF PushSkip, PushRead, PushGet, PushDone, SyncState
  <2>3. ~DeleteSkip(w) /\ ~DeleteRead(w) /\ ~DeleteFail(w) /\ ~DeleteLost(w)
    BY <1>1, <1>3 DEF DeleteSkip, DeleteRead, DeleteFail, DeleteLost, DeleteGivenUp, SyncState
  <2>4. ~Becomes(w, [sync[w] EXCEPT !.pc = "dropVersion"])
    BY <1>1, <1>3 DEF SyncState
  <2> QED
    BY <1>2, <1>4, <1>5, <2>1, <2>2, <2>3, <2>4
    DEF SyncStep, SyncFault, ApplyVersion, PushGone, PushOk, PushRefused, DeleteMissing,
        DeleteRefused, DropEntry, DropVersion, SyncDone, PullFail, ApplyPutFail,
        ApplyVersionFail, PushFail, PushLost, DropFail
<1>6. CASE UNCHANGED <<sync, row>>
  BY <1>6 DEF RetiredFirst
<1>7. CASE \E d \in Device : Crash(d)
  BY <1>7 DEF Crash, AtRest, RetiredFirst
<1> QED BY <1>5, <1>6, <1>7
        DEF Next, Step, Fault, AddPut, AddVersion, Mark, Leave, AddVersionFail, vars

\* DropAfterRetire: with one worker an entry goes from the device only after the server has
\* forgotten it (sync.go:164-174).  Another worker may push it back in between.
THEOREM DropAfterRetireHolds ==
  ASSUME \A u, w \in Worker : u = w PROVE Spec => DropAfterRetire
<1>1. Init => RetiredFirst
  BY DEF Init, RetiredFirst, AtRest
<1>2. Spec => []RetiredFirst
  BY <1>1, RetiredFirstNext, Invariant, PTL DEF Spec
<1>3. ASSUME IInv, RetiredFirst, [Next]_vars, NEW d \in Device, NEW e \in entries[d] \ entries'[d]
      PROVE  row[e] = NoVersion
  <2>1. PICK w \in Worker : DropEntry(w) /\ e = sync[w].cur
    BY <1>3, CopyStep
  <2> QED BY <1>3, <2>1 DEF DropEntry, RetiredFirst
<1>4. IInv /\ RetiredFirst /\ [Next]_vars =>
        [\A d \in Device : \A e \in entries[d] \ entries'[d] : row[e] = NoVersion]_vars
  BY <1>3
<1> QED BY <1>2, <1>4, Invariant, PTL DEF DropAfterRetire, Spec

-----------------------------------------------------------------------------
(* FullSync implements the vault.                                          *)

\* A step of FullSync changes one of the four things the vault is about, or
\* none of them.
LEMMA StepKinds ==
  ASSUME [Next]_vars
  PROVE  \/ UNCHANGED <<entries, row, stamp, marked>>
         \/ /\ UNCHANGED <<row, stamp, marked>>
            /\ \/ \E w \in Worker : ApplyPut(w) \/ DropEntry(w)
               \/ \E d \in Device : AddPut(d)
         \/ /\ UNCHANGED <<entries, stamp, marked>>
            /\ \E w \in Worker : \/ PushOk(w) \/ PushLost(w)
                                 \/ DeleteOk(w) \/ DeleteLost(w)
         \/ /\ UNCHANGED <<entries, row>>
            /\ \E d \in Device : AddVersion(d) \/ Mark(d)
BY ZenonT(60) DEF Next, vars, Step, Fault, SyncStep, SyncFault, StartSync, PullOk,
       ApplyPut, ApplyVersion, ListEntries, PushSkip, PushRead, PushGet,
       PushGone, PushOk, PushRefused, PushDone, DeleteSkip, DeleteRead,
       DeleteOk, DeleteMissing, DeleteRefused, DropEntry, DropVersion,
       SyncDone, PullFail, ApplyPutFail, ApplyVersionFail, PushFail, PushLost,
       DeleteFail, DeleteLost, DropFail, AddPut, AddVersion, Mark,
       AddVersionFail, Leave, Crash

\* A row that is applied is a copy of a saved entry.
LEMMA ApplyIsCopy ==
  ASSUME IInv, NEW w \in Worker, ApplyPut(w),
         UNCHANGED <<row, stamp, marked>>
  PROVE  \E d \in Device, e \in Entry : V!Copy(d, e)
<1>1. PICK r \in sync[w].pulled : Put(Home[w], r.id)
  BY DEF ApplyPut
<1>2. r.id \in Entry /\ stamp[r.id] # NoVersion
  BY DEF IInv, TypeOK, SyncState, Row, HandOk
<1>3. V!Copy(Home[w], r.id)
  BY <1>1, <1>2 DEF V!Copy, Put
<1> QED BY <1>2, <1>3, WorkerAssumption

\* The local end of a deletion drops an entry the user asked for.
LEMMA DropIsDrop ==
  ASSUME IInv, NEW w \in Worker, DropEntry(w),
         UNCHANGED <<row, stamp, marked>>
  PROVE  \E d \in Device, e \in Entry : V!Drop(d, e)
<1>1. Delete(Home[w], sync[w].cur) /\ sync[w].cur \in marked[Home[w]]
  BY DEF DropEntry, IInv, HandOk
<1>2. Home[w] \in Device /\ sync[w].cur \in Entry
  BY <1>1, WorkerAssumption DEF IInv, TypeOK
<1>3. V!Drop(Home[w], sync[w].cur)
  BY <1>1 DEF V!Drop, Delete
<1> QED BY <1>2, <1>3

\* A new entry is nowhere: no device, no row, no version.
LEMMA AddIsCreate ==
  ASSUME IInv, NEW d \in Device, AddPut(d),
         UNCHANGED <<row, stamp, marked>>
  PROVE  \E e \in Entry : V!Create(d, e)
<1>1. PICK e \in Entry : Fresh(e) /\ Put(d, e)
  BY DEF AddPut
<1>2. row[e] = NoVersion /\ stamp[e] = NoVersion
  BY <1>1 DEF Fresh, IInv, VersionsAgree
<1>3. V!Create(d, e)
  BY <1>1, <1>2 DEF V!Create, Fresh, Put
<1> QED BY <1>3

\* A push publishes a saved entry.
LEMMA PushIsPublish ==
  ASSUME IInv, NEW w \in Worker, PushOk(w) \/ PushLost(w),
         UNCHANGED <<entries, stamp, marked>>
  PROVE  \E e \in Entry : V!Publish(e)
<1>1. ServerPush(sync[w].cur, sync[w].held) /\ sync[w].pc = "send"
  BY DEF PushOk, PushLost
<1>2. /\ sync[w].cur \in Entry
      /\ sync[w].held = stamp[sync[w].cur]
      /\ sync[w].held # NoVersion
  BY <1>1 DEF IInv, HandOk
<1>3. PICK e \in Entry : e = sync[w].cur
  BY <1>2
<1>4. \A f \in Entry : row'[f] # NoVersion <=> row[f] # NoVersion \/ f = e
  BY <1>1, <1>2, <1>3 DEF ServerPush, IInv, TypeOK
<1>5. V!Publish(e)
  BY <1>2, <1>3, <1>4 DEF V!Publish
<1> QED BY <1>5

\* A deletion on the server retires an entry the user asked for.
LEMMA DeleteIsRetire ==
  ASSUME IInv, NEW w \in Worker, DeleteOk(w) \/ DeleteLost(w),
         UNCHANGED <<entries, stamp, marked>>
  PROVE  \E d \in Device, e \in Entry : V!Retire(d, e)
<1>1. ServerDelete(sync[w].cur) /\ sync[w].pc = "deleteSend"
  BY DEF DeleteOk, DeleteLost
<1>2. /\ sync[w].cur \in marked[Home[w]]
      /\ Home[w] \in Device /\ sync[w].cur \in Entry
  BY <1>1, WorkerAssumption DEF IInv, TypeOK, HandOk
<1>3. PICK e \in Entry : e = sync[w].cur
  BY <1>2
<1>4. \A f \in Entry : row'[f] # NoVersion <=> row[f] # NoVersion /\ f # e
  BY <1>1, <1>3 DEF ServerDelete, IInv, TypeOK
<1>5. V!Retire(Home[w], e)
  BY <1>2, <1>3, <1>4 DEF V!Retire
<1> QED BY <1>2, <1>5

\* Writing the version completes the saving of an entry a device holds.
LEMMA VersionIsSave ==
  ASSUME IInv, NEW d \in Device, AddVersion(d), UNCHANGED <<entries, row>>
  PROVE  \E e \in Entry : V!Save(e)
<1>1. PICK e \in adding[d], v \in Stamp : stamp' = [stamp EXCEPT ![e] = v]
  BY DEF AddVersion
<1>2. /\ e \in Entry /\ e \in entries[d] /\ stamp[e] = NoVersion
      /\ v # NoVersion /\ UNCHANGED marked
  BY WorkerAssumption DEF IInv, TypeOK, SavingOnce, NoVersion, AddVersion
<1>3. \A f \in Entry : stamp'[f] # NoVersion <=> stamp[f] # NoVersion \/ f = e
  BY <1>1, <1>2 DEF IInv, TypeOK
<1>4. V!Save(e)
  BY <1>2, <1>3 DEF V!Save
<1> QED BY <1>2, <1>4

\* A mark is the user's request.
LEMMA MarkIsRequest ==
  ASSUME IInv, NEW d \in Device, Mark(d), UNCHANGED <<entries, row>>
  PROVE  \E e \in Entry : V!Request(d, e)
<1>1. PICK e \in Entry : ~Fresh(e) /\ marked' = [marked EXCEPT ![d] = @ \union {e}]
  BY DEF Mark
<1>2. UNCHANGED stamp
  BY DEF Mark
<1>3. V!Request(d, e)
  BY <1>1, <1>2 DEF V!Request, Fresh
<1> QED BY <1>3

\* Every step of FullSync is a step of the vault, or leaves it as it is.
LEMMA VaultStep ==
  ASSUME IInv, [Next]_vars PROVE [V!Next]_V!vars
<1>1. CASE UNCHANGED <<entries, row, stamp, marked>>
  BY <1>1 DEF V!vars
<1>2. CASE /\ UNCHANGED <<row, stamp, marked>>
           /\ \/ \E w \in Worker : ApplyPut(w) \/ DropEntry(w)
              \/ \E d \in Device : AddPut(d)
  BY <1>2, ApplyIsCopy, DropIsDrop, AddIsCreate DEF V!Next
<1>3. CASE /\ UNCHANGED <<entries, stamp, marked>>
           /\ \E w \in Worker : \/ PushOk(w) \/ PushLost(w)
                                \/ DeleteOk(w) \/ DeleteLost(w)
  BY <1>3, PushIsPublish, DeleteIsRetire DEF V!Next
<1>4. CASE /\ UNCHANGED <<entries, row>>
           /\ \E d \in Device : AddVersion(d) \/ Mark(d)
  BY <1>4, VersionIsSave, MarkIsRequest DEF V!Next
<1> QED BY <1>1, <1>2, <1>3, <1>4, StepKinds

\* The program implements the vault, with the mapping of module FullSync: the
\* initial states are the vault's, and every step is a step of the vault.
THEOREM RefinesVault == Spec => VaultSpec
<1>1. Init => V!Init
  BY DEF Init, StoreInit, ServerInit, V!Init
<1>2. IInv /\ [Next]_vars => [V!Next]_V!vars
  BY VaultStep
<1> QED BY <1>1, <1>2, Invariant, PTL DEF Spec, VaultSpec, V!Spec

=============================================================================
