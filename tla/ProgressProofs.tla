---------------------------- MODULE ProgressProofs ----------------------------
(***************************************************************************)
(* A sync ends after finitely many steps of its own, whatever the others   *)
(* do: its steps descend, and there is no endless descent.                 *)
(***************************************************************************)
EXTENDS FullSyncProofs, FiniteSetTheorems

\* What a loop has not reached shrinks when it takes an element.
LEMMA Shorter == ASSUME NEW S, NEW x \in S PROVE S \ {x} \subseteq S /\ S \ {x} # S
OBVIOUS

\* A sync that returns is at its end.
LEMMA RestNearer ==
  ASSUME NEW s \in SyncState, s.pc # "idle" PROVE Nearer(AtRest, s)
BY DEF SyncState, PC, Nearer, Phases, AtRest

\* The end of a loop's body, with the count of requests or without.
LEMMA NextEntryNearer ==
  ASSUME IInv, NEW w \in Worker, NEW loop \in {"apply", "push", "delete"},
         NextEntry(w, loop) \/ NextEntryAfterCall(w, loop),
         \/ loop = "apply" /\ sync[w].pc = "applyVersion"
         \/ loop = "push" /\ sync[w].pc \in {"get", "send"}
         \/ loop = "delete" /\ sync[w].pc \in {"deleteSend", "dropVersion"}
  PROVE  Nearer(sync'[w], sync[w])
<1>1. sync[w] \in SyncState
  BY DEF IInv, TypeOK
<1>2. CASE NextEntry(w, loop)
  <2>1. sync'[w] = [sync[w] EXCEPT !.pc = loop, !.cur = None, !.held = NoVersion]
    BY <1>2, BecomesOk DEF NextEntry
  <2> QED BY <1>1, <2>1 DEF SyncState, Nearer, Phases, Ahead, Body
<1>3. CASE NextEntryAfterCall(w, loop)
  <2>1. sync'[w] = [sync[w] EXCEPT !.pc = loop, !.cur = None, !.held = NoVersion,
                                   !.calls = Counted(@)]
    BY <1>3, BecomesOk DEF NextEntryAfterCall
  <2> QED BY <1>1, <2>1 DEF SyncState, Nearer, Phases, Ahead, Body
<1> QED BY <1>2, <1>3

LEMMA PullNearer ==
  ASSUME IInv, NEW w \in Worker, PullOk(w) \/ ApplyPut(w) \/ ListEntries(w)
  PROVE  Nearer(sync'[w], sync[w])
<1>1. sync[w] \in SyncState
  BY DEF IInv, TypeOK
<1>2. CASE PullOk(w)
  <2>1. sync'[w] = [sync[w] EXCEPT !.pc = "apply", !.since = NoVersion,
                                   !.pulled = ServerPull(sync[w].since), !.calls = Counted(@)]
    BY <1>2, BecomesOk DEF PullOk
  <2> QED BY <1>1, <1>2, <2>1 DEF PullOk, SyncState, Nearer, Phases
<1>3. CASE ApplyPut(w)
  <2>1. PICK r \in sync[w].pulled :
          sync'[w] = [sync[w] EXCEPT !.pc = "applyVersion", !.pulled = @ \ {r},
                                     !.cur = r.id, !.held = r.version]
    BY <1>3, BecomesOk DEF ApplyPut
  <2>2. sync'[w].pc = "applyVersion" /\ sync'[w].pulled = sync[w].pulled \ {r}
    BY <1>1, <2>1 DEF SyncState
  <2> QED BY <1>3, <2>2, Shorter DEF ApplyPut, Nearer, Phases, Ahead
<1>4. CASE ListEntries(w)
  <2>1. sync'[w] = [sync[w] EXCEPT !.pc = "push", !.ids = List(Home[w]),
                                   !.todo = List(Home[w])]
    BY <1>4, BecomesOk DEF ListEntries
  <2> QED BY <1>1, <1>4, <2>1 DEF ListEntries, SyncState, Nearer, Phases
<1> QED BY <1>2, <1>3, <1>4

LEMMA LoopNearer ==
  ASSUME IInv, NEW w \in Worker,
         PushSkip(w) \/ PushRead(w) \/ PushGet(w) \/ PushDone(w) \/ DeleteSkip(w) \/ DeleteRead(w)
  PROVE  Nearer(sync'[w], sync[w])
<1>1. sync[w] \in SyncState
  BY DEF IInv, TypeOK
<1>2. CASE PushSkip(w) \/ DeleteSkip(w)
  <2>1. PICK e \in sync[w].todo : sync'[w] = [sync[w] EXCEPT !.todo = @ \ {e}]
    BY <1>2, BecomesOk DEF PushSkip, DeleteSkip
  <2>2. sync'[w].pc = sync[w].pc /\ sync'[w].todo = sync[w].todo \ {e}
    BY <1>1, <2>1 DEF SyncState
  <2> QED BY <1>2, <2>2, Shorter DEF PushSkip, DeleteSkip, Nearer, Phases, Ahead
<1>3. CASE PushRead(w)
  <2>1. PICK e \in sync[w].todo :
          sync'[w] = [sync[w] EXCEPT !.pc = "get", !.todo = @ \ {e}, !.cur = e,
                                     !.held = GetVersion(Home[w], e)]
    BY <1>3, BecomesOk DEF PushRead
  <2>2. /\ sync[w].pc = "push" /\ sync'[w].pc = "get"
        /\ sync'[w].todo = sync[w].todo \ {e}
    BY <1>1, <1>3, <2>1 DEF PushRead, SyncState
  <2>3. /\ Phases(sync'[w]) = 2 /\ Ahead(sync'[w]) = sync[w].todo \ {e}
        /\ Phases(sync[w]) = 2 /\ Ahead(sync[w]) = sync[w].todo
    BY <2>2 DEF Phases, Ahead
  <2> QED BY <2>3, Shorter DEF Nearer
<1>4. CASE PushGet(w)
  <2>1. sync'[w] = [sync[w] EXCEPT !.pc = "send"]
    BY <1>4, BecomesOk DEF PushGet
  <2> QED BY <1>1, <1>4, <2>1 DEF PushGet, SyncState, Nearer, Phases, Ahead, Body
<1>5. CASE PushDone(w)
  <2>1. sync'[w] = [sync[w] EXCEPT !.pc = "delete", !.todo = sync[w].ids]
    BY <1>5, BecomesOk DEF PushDone
  <2> QED BY <1>1, <1>5, <2>1 DEF PushDone, SyncState, Nearer, Phases
<1>6. CASE DeleteRead(w)
  <2>1. PICK e \in sync[w].todo :
          sync'[w] = [sync[w] EXCEPT !.pc = "deleteSend", !.todo = @ \ {e}, !.cur = e]
    BY <1>6, BecomesOk DEF DeleteRead
  <2>2. /\ sync[w].pc = "delete" /\ sync'[w].pc = "deleteSend"
        /\ sync'[w].todo = sync[w].todo \ {e}
    BY <1>1, <1>6, <2>1 DEF DeleteRead, SyncState
  <2>3. /\ Phases(sync'[w]) = 1 /\ Ahead(sync'[w]) = sync[w].todo \ {e}
        /\ Phases(sync[w]) = 1 /\ Ahead(sync[w]) = sync[w].todo
    BY <2>2 DEF Phases, Ahead
  <2> QED BY <2>3, Shorter DEF Nearer
<1> QED BY <1>2, <1>3, <1>4, <1>5, <1>6

LEMMA DeletionNearer ==
  ASSUME IInv, NEW w \in Worker,
         \/ DeleteOk(w) \/ DeleteFail(w) \/ DeleteLost(w)
         \/ DropEntry(w) \/ DropVersion(w) \/ DropFail(w)
  PROVE  Nearer(sync'[w], sync[w])
<1>1. sync[w] \in SyncState
  BY DEF IInv, TypeOK
<1>2. CASE DeleteOk(w)
  <2>1. sync'[w] = [sync[w] EXCEPT !.pc = "dropEntry", !.calls = Counted(@)]
    BY <1>2, BecomesOk DEF DeleteOk
  <2> QED BY <1>1, <1>2, <2>1 DEF DeleteOk, SyncState, Nearer, Phases, Ahead, Body
<1>3. CASE DeleteFail(w) \/ DeleteLost(w)
  <2>1. PICK n : sync'[w] = [sync[w] EXCEPT !.pc = "delete", !.cur = None, !.calls = n]
    BY <1>3, BecomesOk DEF DeleteFail, DeleteLost, DeleteGivenUp
  <2> QED BY <1>1, <1>3, <2>1
          DEF DeleteFail, DeleteLost, SyncState, Nearer, Phases, Ahead, Body
<1>4. CASE sync[w].pc = "dropEntry" /\ Becomes(w, [sync[w] EXCEPT !.pc = "dropVersion"])
  <2>1. sync'[w] = [sync[w] EXCEPT !.pc = "dropVersion"]
    BY <1>4, BecomesOk
  <2> QED BY <1>1, <1>4, <2>1 DEF SyncState, Nearer, Phases, Ahead, Body
<1>5. CASE sync[w].pc = "dropVersion" /\ NextEntry(w, "delete")
  BY <1>5, NextEntryNearer
<1> QED BY <1>2, <1>3, <1>4, <1>5 DEF DropEntry, DropVersion, DropFail

\* Each step of a worker that runs is a descent, and its own.
LEMMA StepNearer ==
  ASSUME IInv, NEW w \in Worker, SyncStep(w) \/ SyncFault(w)
  PROVE  Nearer(sync'[w], sync[w]) /\ \A u \in Worker \ {w} : sync'[u] = sync[u]
<1>1. CASE PullOk(w) \/ ApplyPut(w) \/ ListEntries(w)
  BY <1>1, PullNearer, BecomesOk DEF PullOk, ApplyPut, ListEntries
<1>2. CASE PushSkip(w) \/ PushRead(w) \/ PushGet(w) \/ PushDone(w) \/ DeleteSkip(w) \/ DeleteRead(w)
  BY <1>2, LoopNearer, BecomesOk
  DEF PushSkip, PushRead, PushGet, PushDone, DeleteSkip, DeleteRead
<1>3. CASE \/ DeleteOk(w) \/ DeleteFail(w) \/ DeleteLost(w)
           \/ DropEntry(w) \/ DropVersion(w) \/ DropFail(w)
  BY <1>3, DeletionNearer, BecomesOk
  DEF DeleteOk, DeleteFail, DeleteLost, DropEntry, DropVersion, DropFail, DeleteGivenUp, NextEntry
<1>4. CASE \/ ApplyVersion(w) \/ ApplyVersionFail(w) \/ PushGone(w) \/ PushOk(w)
           \/ DeleteMissing(w) \/ DeleteRefused(w)
  BY <1>4, NextEntryNearer, BecomesOk
  DEF ApplyVersion, ApplyVersionFail, PushGone, PushOk, DeleteMissing, DeleteRefused,
      NextEntry, NextEntryAfterCall
<1>5. CASE \/ PushRefused(w) \/ SyncDone(w) \/ PullFail(w) \/ ApplyPutFail(w)
           \/ PushFail(w) \/ PushLost(w)
  <2>1. Return(w) /\ sync[w].pc # "idle"
    BY <1>5 DEF PushRefused, SyncDone, PullFail, ApplyPutFail, PushFail, PushLost
  <2> QED BY <2>1, BecomesOk, RestNearer DEF Return, IInv, TypeOK
<1> QED BY <1>1, <1>2, <1>3, <1>4, <1>5 DEF SyncStep, SyncFault

\* SyncDescends: no loop of a sync starts again and no request is repeated, whatever is
\* answered, lost or done elsewhere meanwhile (sync.go:101-175).
THEOREM SyncDescendsHolds == Spec => SyncDescends
<1>1. ASSUME IInv, [Next]_vars, NEW w \in Worker, ~Idle(w), sync'[w] # sync[w]
      PROVE  Nearer(sync'[w], sync[w])
  <2>1. CASE \E u \in Worker : SyncStep(u) \/ SyncFault(u)
    BY <1>1, <2>1, StepNearer
  <2>2. CASE \E u \in Worker : StartSync(u)
    <3>1. PICK u \in Worker : Idle(u) /\ \E s : Becomes(u, s)
      BY <2>2 DEF StartSync
    <3> QED BY <1>1, <3>1, BecomesOk
  <2>3. CASE \E d \in Device : Crash(d)
    <3>1. sync'[w] = AtRest
      BY <1>1, <2>3 DEF Crash
    <3> QED BY <1>1, <3>1, RestNearer DEF Idle, IInv, TypeOK
  <2>4. CASE UNCHANGED sync
    BY <1>1, <2>4
  <2> QED BY <1>1, <2>1, <2>2, <2>3, <2>4
          DEF Next, Step, Fault, AddPut, AddVersion, Mark, Leave, AddVersionFail, vars
<1>2. IInv /\ [Next]_vars =>
        [\A w \in Worker : ~Idle(w) /\ sync'[w] # sync[w] => Nearer(sync'[w], sync[w])]_vars
  BY <1>1
<1> QED BY <1>2, Invariant, PTL DEF SyncDescends, Spec

-----------------------------------------------------------------------------
(* There is no endless descent.                                            *)

LEMMA LeastNat ==
  ASSUME NEW T \in SUBSET Nat, T # {} PROVE \E n \in T : \A m \in T : n <= m
<1>1. PICK n \in T : \A m \in T : ~(<<m, n>> \in OpToRel(<, Nat))
  BY NatLessThanWellFounded, WFMin
<1>2. \A m \in T : <<m, n>> \in Nat \X Nat /\ ~(m < n)
  BY <1>1 DEF OpToRel
<1>3. \A m \in T : m \in Nat /\ n \in Nat /\ ~(m < n)
  BY <1>2
<1>4. \A m \in T : n <= m
  BY <1>3
<1> QED BY <1>4

\* A proper part of a finite set is smaller.
LEMMA Smaller ==
  ASSUME NEW S, IsFiniteSet(S), NEW T, T \subseteq S, T # S
  PROVE  IsFiniteSet(T) /\ Cardinality(T) < Cardinality(S)
<1>1. IsFiniteSet(T) /\ Cardinality(T) <= Cardinality(S) /\ Cardinality(S) # Cardinality(T)
  BY FS_Subset
<1>2. Cardinality(T) \in Nat /\ Cardinality(S) \in Nat
  BY <1>1, FS_CardinalityType
<1> QED BY <1>1, <1>2

\* The states of a worker with finitely many ids and rows ahead.
FiniteState == {s \in SyncState : IsFiniteSet(Ahead(s))}

\* An endless descent would be a set of states without a lowest one.
LEMMA DescentsEnd ==
  ASSUME NEW T \in SUBSET FiniteState, T # {}
  PROVE  \E s \in T : \A t \in T : ~Nearer(t, s)
<1>1. \A s \in T : Phases(s) \in Nat /\ Body(s) \in Nat /\ Cardinality(Ahead(s)) \in Nat
  BY FS_CardinalityType DEF FiniteState, SyncState, PC, Phases, Body
<1>2. PICK p \in Nat : /\ \E s \in T : Phases(s) = p
                       /\ \A s \in T : p <= Phases(s)
  <2> DEFINE P == {Phases(s) : s \in T}
  <2>1. PICK p \in P : \A q \in P : p <= q
    BY <1>1, LeastNat
  <2> QED BY <1>1, <2>1
<1> DEFINE A == {s \in T : Phases(s) = p}
<1>3. PICK c \in Nat : /\ \E s \in A : Cardinality(Ahead(s)) = c
                       /\ \A s \in A : c <= Cardinality(Ahead(s))
  <2> DEFINE C == {Cardinality(Ahead(s)) : s \in A}
  <2>1. PICK m \in C : \A q \in C : m <= q
    BY <1>1, <1>2, LeastNat
  <2> QED BY <1>1, <2>1
<1> DEFINE B == {s \in A : Cardinality(Ahead(s)) = c}
<1>4. PICK b \in Nat : /\ \E s \in B : Body(s) = b
                       /\ \A s \in B : b <= Body(s)
  <2> DEFINE C == {Body(s) : s \in B}
  <2>1. C \in SUBSET Nat /\ C # {}
    BY <1>1, <1>3
  <2> HIDE DEF C
  <2>2. PICK m \in C : \A q \in C : m <= q
    BY <2>1, LeastNat
  <2> USE DEF C
  <2>3. PICK s \in B : m = Body(s)
    BY <2>2
  <2>4. m \in Nat /\ \A t \in B : m <= Body(t)
    BY <2>1, <2>2
  <2> QED BY <2>3, <2>4
<1>5. PICK s \in B : Body(s) = b
  BY <1>4
<1>6. ASSUME NEW t \in T, Nearer(t, s) PROVE FALSE
  <2>1. ~(Phases(t) < Phases(s))
    BY <1>1, <1>2, <1>5
  <2>2. Phases(t) = Phases(s)
    BY <1>6, <2>1 DEF Nearer
  <2>3. CASE Ahead(t) \subseteq Ahead(s) /\ Ahead(t) # Ahead(s)
    BY <1>1, <1>3, <1>5, <2>2, <2>3, Smaller DEF FiniteState
  <2>4. CASE Ahead(t) = Ahead(s) /\ Body(t) < Body(s)
    BY <1>1, <1>4, <1>5, <2>2, <2>4
  <2> QED BY <1>6, <2>1, <2>3, <2>4 DEF Nearer
<1> QED BY <1>5, <1>6


-----------------------------------------------------------------------------
(* A sync has finitely many ids and rows to go through.                    *)

Stored == {e \in Entry : row[e] # NoVersion}

FiniteWork ==
  /\ \A d \in Device : IsFiniteSet(entries[d])
  /\ IsFiniteSet(Stored)
  /\ \A w \in Worker :
       IsFiniteSet(sync[w].pulled) /\ IsFiniteSet(sync[w].ids) /\ IsFiniteSet(sync[w].todo)

\* One element more at most keeps a set finite.
LEMMA OneMore ==
  ASSUME NEW S, IsFiniteSet(S), NEW T, NEW x, T \subseteq S \union {x}
  PROVE  IsFiniteSet(T)
BY FS_AddElement, FS_Subset

\* The answer to a pull has a row for each of some stored entries.
LEMMA AnswerFinite ==
  ASSUME IsFiniteSet(Stored), NEW since PROVE IsFiniteSet(ServerPull(since))
<1> DEFINE S == {e \in Entry : row[e] # NoVersion /\ row[e] > since}
           f == [e \in S |-> [id |-> e, version |-> row[e]]]
<1>1. IsFiniteSet(S)
  BY FS_Subset DEF Stored
<1>2. f \in Surjection(S, ServerPull(since))
  BY DEF Surjection, ServerPull
<1> QED BY <1>1, <1>2, FS_Surjection

\* How a step changes the stores: one entry comes at most.
LEMMA StoresGrowByOne ==
  ASSUME IInv, [Next]_vars, NEW d \in Device
  PROVE  \E x : entries'[d] \subseteq entries[d] \union {x}
<1>1. ASSUME NEW c \in Device, NEW e, Put(c, e) \/ Delete(c, e)
      PROVE  \E x : entries'[d] \subseteq entries[d] \union {x}
  BY <1>1 DEF Put, Delete, IInv, TypeOK
<1>2. CASE UNCHANGED entries
  BY <1>2
<1>3. \A w \in Worker : Home[w] \in Device
  BY WorkerAssumption
<1> QED
  BY <1>1, <1>2, <1>3
  DEF Next, Step, Fault, SyncStep, SyncFault, StartSync, PullOk, ApplyPut, ApplyVersion,
      ListEntries, PushSkip, PushRead, PushGet, PushGone, PushOk, PushRefused, PushDone,
      DeleteSkip, DeleteRead, DeleteOk, DeleteMissing, DeleteRefused, DropEntry, DropVersion,
      SyncDone, PullFail, ApplyPutFail, ApplyVersionFail, PushFail, PushLost, DeleteFail,
      DeleteLost, DropFail, AddPut, AddVersion, Mark, Leave, AddVersionFail, Crash, vars

\* The server gets a row more at most.
LEMMA TableGrowsByOne ==
  ASSUME IInv, [Next]_vars
  PROVE  \E x : Stored' \subseteq Stored \union {x}
<1>1. ASSUME NEW e, NEW v, ServerPush(e, v) \/ ServerDelete(e)
      PROVE  \E x : Stored' \subseteq Stored \union {x}
  BY <1>1 DEF ServerPush, ServerDelete, Stored, IInv, TypeOK
<1>2. CASE UNCHANGED row
  BY <1>2 DEF Stored
<1> QED
  BY <1>1, <1>2
  DEF Next, Step, Fault, SyncStep, SyncFault, StartSync, PullOk, ApplyPut, ApplyVersion,
      ListEntries, PushSkip, PushRead, PushGet, PushGone, PushOk, PushRefused, PushDone,
      DeleteSkip, DeleteRead, DeleteOk, DeleteMissing, DeleteRefused, DropEntry, DropVersion,
      SyncDone, PullFail, ApplyPutFail, ApplyVersionFail, PushFail, PushLost, DeleteFail,
      DeleteLost, DropFail, AddPut, AddVersion, Mark, Leave, AddVersionFail, Crash, vars

\* What a worker has to go through, in state s.
Finite(s) == IsFiniteSet(s.pulled) /\ IsFiniteSet(s.ids) /\ IsFiniteSet(s.todo)

LEMMA RestFinite == Finite(AtRest)
BY FS_EmptySet DEF Finite, AtRest

\* A step of a worker leaves it a part of what it had, an answer or a listing.
LEMMA WorkFinite ==
  ASSUME IInv, FiniteWork, NEW w \in Worker, StartSync(w) \/ SyncStep(w) \/ SyncFault(w)
  PROVE  Finite(sync'[w])
<1>1. sync[w] \in SyncState /\ Home[w] \in Device /\ Finite(sync[w])
  BY WorkerAssumption DEF IInv, TypeOK, FiniteWork, Finite
<1>2. CASE \/ StartSync(w) \/ ApplyPut(w) \/ PushSkip(w) \/ PushRead(w) \/ PushGet(w)
           \/ DeleteSkip(w) \/ DeleteRead(w) \/ DeleteOk(w) \/ DeleteFail(w) \/ DeleteLost(w)
           \/ DropEntry(w) \/ DropFail(w) \/ DropVersion(w) \/ ApplyVersion(w)
           \/ ApplyVersionFail(w) \/ PushGone(w) \/ PushOk(w) \/ DeleteMissing(w)
           \/ DeleteRefused(w)
  <2>1. /\ sync'[w].pulled \subseteq sync[w].pulled /\ sync'[w].ids = sync[w].ids
        /\ sync'[w].todo \subseteq sync[w].todo
    <3>1. CASE \E loop : NextEntry(w, loop) \/ NextEntryAfterCall(w, loop)
      BY <1>1, <3>1 DEF NextEntry, NextEntryAfterCall, Becomes, SyncState, IInv, TypeOK
    <3>2. CASE StartSync(w)
      <4>1. PICK m : sync'[w] = [sync[w] EXCEPT !.pc = "pull", !.since = m]
        BY <3>2, BecomesOk DEF StartSync
      <4> QED BY <1>1, <4>1 DEF SyncState
    <3>3. CASE ApplyPut(w)
      <4>1. PICK r \in sync[w].pulled :
              sync'[w] = [sync[w] EXCEPT !.pc = "applyVersion", !.pulled = @ \ {r},
                                         !.cur = r.id, !.held = r.version]
        BY <3>3, BecomesOk DEF ApplyPut
      <4> QED BY <1>1, <4>1 DEF SyncState
    <3>4. CASE PushSkip(w) \/ DeleteSkip(w)
      <4>1. PICK e : sync'[w] = [sync[w] EXCEPT !.todo = @ \ {e}]
        BY <3>4, BecomesOk DEF PushSkip, DeleteSkip
      <4> QED BY <1>1, <4>1 DEF SyncState
    <3>5. CASE PushRead(w)
      <4>1. PICK e : sync'[w] = [sync[w] EXCEPT !.pc = "get", !.todo = @ \ {e}, !.cur = e,
                                               !.held = GetVersion(Home[w], e)]
        BY <3>5, BecomesOk DEF PushRead
      <4> QED BY <1>1, <4>1 DEF SyncState
    <3>6. CASE DeleteRead(w)
      <4>1. PICK e : sync'[w] = [sync[w] EXCEPT !.pc = "deleteSend", !.todo = @ \ {e},
                                               !.cur = e]
        BY <3>6, BecomesOk DEF DeleteRead
      <4> QED BY <1>1, <4>1 DEF SyncState
    <3>7. CASE \E pc : Becomes(w, [sync[w] EXCEPT !.pc = pc])
      BY <1>1, <3>7 DEF Becomes, SyncState, IInv, TypeOK
    <3>8. CASE DeleteFail(w) \/ DeleteLost(w)
      <4>1. PICK n : sync'[w] = [sync[w] EXCEPT !.pc = "delete", !.cur = None, !.calls = n]
        BY <3>8, BecomesOk DEF DeleteFail, DeleteLost, DeleteGivenUp
      <4> QED BY <1>1, <4>1 DEF SyncState
    <3>9. CASE DeleteOk(w)
      <4>1. sync'[w] = [sync[w] EXCEPT !.pc = "dropEntry", !.calls = Counted(@)]
        BY <3>9, BecomesOk DEF DeleteOk
      <4> QED BY <1>1, <4>1 DEF SyncState
    <3> QED
      BY <1>2, <3>1, <3>2, <3>3, <3>4, <3>5, <3>6, <3>7, <3>8, <3>9
      DEF PushGet, DropEntry, DropFail, DropVersion, ApplyVersion, ApplyVersionFail, PushGone,
          PushOk, DeleteMissing, DeleteRefused
  <2> QED BY <1>1, <2>1, FS_Subset DEF Finite
<1>3. CASE PullOk(w)
  <2>1. /\ sync'[w].pulled = ServerPull(sync[w].since)
        /\ sync'[w].ids = sync[w].ids /\ sync'[w].todo = sync[w].todo
    BY <1>1, <1>3 DEF PullOk, Becomes, SyncState, IInv, TypeOK
  <2> QED BY <1>1, <2>1, AnswerFinite DEF Finite, FiniteWork
<1>4. CASE ListEntries(w)
  <2>1. /\ sync'[w].pulled = sync[w].pulled
        /\ sync'[w].ids = entries[Home[w]] /\ sync'[w].todo = entries[Home[w]]
    BY <1>1, <1>4 DEF ListEntries, List, Becomes, SyncState, IInv, TypeOK
  <2> QED BY <1>1, <2>1 DEF Finite, FiniteWork
<1>5. CASE PushDone(w)
  <2>1. /\ sync'[w].pulled = sync[w].pulled
        /\ sync'[w].ids = sync[w].ids /\ sync'[w].todo = sync[w].ids
    BY <1>1, <1>5 DEF PushDone, Becomes, SyncState, IInv, TypeOK
  <2> QED BY <1>1, <2>1 DEF Finite
<1>6. CASE Return(w)
  <2>1. sync'[w] = AtRest
    BY <1>6 DEF Return, Becomes, IInv, TypeOK
  <2> QED BY <2>1, RestFinite
<1> QED
  BY <1>2, <1>3, <1>4, <1>5, <1>6
  DEF SyncStep, SyncFault, PushRefused, SyncDone, PullFail, ApplyPutFail, PushFail, PushLost

LEMMA FiniteNext == IInv /\ FiniteWork /\ [Next]_vars => FiniteWork'
<1> SUFFICES ASSUME IInv, FiniteWork, [Next]_vars PROVE FiniteWork'
  OBVIOUS
<1>1. \A d \in Device : IsFiniteSet(entries'[d])
  BY StoresGrowByOne, OneMore DEF FiniteWork
<1>2. IsFiniteSet(Stored')
  BY TableGrowsByOne, OneMore DEF FiniteWork
<1>3. ASSUME NEW w \in Worker PROVE Finite(sync'[w])
  <2>1. CASE sync'[w] = sync[w]
    BY <2>1 DEF FiniteWork, Finite
  <2>2. CASE \E u \in Worker : StartSync(u) \/ SyncStep(u) \/ SyncFault(u)
    <3>1. PICK u \in Worker : StartSync(u) \/ SyncStep(u) \/ SyncFault(u)
      BY <2>2
    <3>2. \E s : StartSync(u) => Becomes(u, s)
      BY DEF StartSync
    <3> QED BY <2>1, <3>1, <3>2, WorkFinite, StepNearer, BecomesOk
  <2>3. CASE \E d \in Device : Crash(d)
    BY <2>1, <2>3, RestFinite DEF Crash
  <2>4. CASE UNCHANGED sync
    BY <2>1, <2>4
  <2> QED BY <2>1, <2>2, <2>3, <2>4
          DEF Next, Step, Fault, AddPut, AddVersion, Mark, Leave, AddVersionFail, vars
<1> QED BY <1>1, <1>2, <1>3 DEF FiniteWork, Finite, Stored

\* With SyncDescends: a sync cannot go on for ever.  What it has to go through is finite,
\* however many entries there may be, and no descent through such states is endless.
THEOREM DescentIsFinite ==
  /\ Spec => [](\A w \in Worker : sync[w] \in FiniteState)
  /\ \A T \in SUBSET FiniteState : T # {} => \E s \in T : \A t \in T : ~Nearer(t, s)
<1>1. Init => FiniteWork
  <2>1. Init => Stored = {} /\ \A d \in Device : entries[d] = {}
    BY DEF Init, StoreInit, ServerInit, Stored
  <2>2. Init => \A w \in Worker : sync[w] = AtRest
    BY DEF Init
  <2> QED BY <2>1, <2>2, FS_EmptySet, RestFinite DEF FiniteWork, Finite
<1>2. IInv /\ FiniteWork => \A w \in Worker : sync[w] \in FiniteState
  BY DEF IInv, TypeOK, FiniteWork, FiniteState, Ahead
<1>3. Spec => []FiniteWork
  BY <1>1, FiniteNext, Invariant, PTL DEF Spec
<1>4. Spec => [](\A w \in Worker : sync[w] \in FiniteState)
  BY <1>2, <1>3, Invariant, PTL
<1> QED BY <1>4, DescentsEnd

=============================================================================
