------------------------------ MODULE FullSync ------------------------------
(***************************************************************************)
(* Synchronisation of a user's devices through the server:                 *)
(* internal/client/sync/sync.go, with the commands that write to a         *)
(* device's store (cmd/client/main.go, internal/tui/components.go).        *)
(*                                                                         *)
(* A worker is one goroutine that runs FullSync on its device's store: it  *)
(* pulls the rows above the store's highest version and applies them,      *)
(* pushes every entry that has a version, then asks the server to delete   *)
(* every entry marked with a tombstone.  Each call on the store and each   *)
(* RPC is a step; anything may happen between two steps of a worker.       *)
(***************************************************************************)
EXTENDS LocalStore, SyncServer, ConflictPolicy

CONSTANTS Worker,       \* the goroutines that run FullSync
          Home,         \* the device of each worker
          Stamp,        \* the values time.Now().UnixNano() takes
          RateMax,      \* requests the server accepts on one connection
          MaxDue,       \* bound: syncs a text UI orders ahead
          Tui           \* the devices that run the text UI

\* Every process starts with a sync whose error is dropped, and takes the
\* user's command when it is over.  The text UI then starts a FullSync in a
\* goroutine of its own at every deletion, while it still accepts keys.  The
\* other devices run the command line client: one command per process, one
\* operation at a time, and a command that writes ends with a second sync.  The
\* lock of the Bolt file keeps two processes of a device apart.
ASSUME WorkerAssumption ==
  /\ Home \in [Worker -> Device]
  /\ Stamp \subseteq Nat \ {0}
  /\ RateMax \in Nat \ {0}
  /\ MaxDue \in Nat \ {0}
  /\ Tui \subseteq Device

VARIABLES sync,         \* the local variables of each worker
          adding,       \* entries saved whose version is not written yet
          due,          \* syncs each device has ordered and not started
          open,         \* is the first sync of the device's process over?
          stamp,        \* history: the version an entry got when it was made
          marked        \* history: the entries each device marked for deletion

vars == <<entries, versions, row, sync, adding, due, open, stamp, marked>>

-----------------------------------------------------------------------------
(* The state of a worker.                                                  *)

PC == {"idle", "pull", "apply", "applyVersion", "push", "get", "send",
       "delete", "deleteSend", "dropEntry", "dropVersion"}

\* No entry in hand.
None == 0

SyncState ==
  [pc : PC,
   since : Nat,                     \* maxLocal
   pulled : SUBSET Row,             \* serverEntries not applied yet
   ids : SUBSET Entry,              \* ids
   todo : SUBSET Entry,             \* the part of ids the loop has not reached
   cur : Entry \union {None},       \* the id in the loop's body
   held : Nat,                      \* the version read or received for it
   calls : 0..RateMax]              \* requests on the worker's connection

AtRest == [pc |-> "idle", since |-> NoVersion, pulled |-> {}, ids |-> {},
           todo |-> {}, cur |-> None, held |-> NoVersion, calls |-> 0]

Idle(w) == sync[w].pc = "idle"

WorkersOf(d) == {w \in Worker : Home[w] = d}

\* The devices that run the command line client, and their workers.
Command == Device \ Tui

CommandWorker == {w \in Worker : Home[w] \in Command}

\* Nothing runs on the device.
Quiet(d) == adding[d] = {} /\ \A w \in WorkersOf(d) : Idle(w)

\* The ids of the listing are in key order.
First(e, ids) == e \in ids /\ \A f \in ids : e <= f

\* Mutant: the SELECT without its ORDER BY.
EarliestUnordered(r, rows) == r \in rows

\* The rows of a pull are in the order of their versions.
Earliest(r, rows) == r \in rows /\ \A q \in rows : r.version <= q.version

\* Mutant: one request too few.
AcceptedOneLess(w) == sync[w].calls + 1 < RateMax

\* The server's rate limiter counts per peer address, which holds the port,
\* and FullSync dials a connection of its own: the count starts at 0 with the
\* worker and never expires while it runs.
Accepted(w) == sync[w].calls < RateMax

Counted(n) == IF n < RateMax THEN n + 1 ELSE n

\* Worker w goes on in state s.
Becomes(w, s) == sync' = [sync EXCEPT ![w] = s]

\* FullSync returns: its variables are gone and the connection is closed.  The
\* first sync of a process opens it for the user; the second one of a command
\* ends it.
Return(w) ==
  /\ Becomes(w, AtRest)
  /\ open' = [open EXCEPT ![Home[w]] = Home[w] \in Tui \/ ~@]

\* The body of a loop ends.
NextEntry(w, loop) ==
  Becomes(w, [sync[w] EXCEPT !.pc = loop, !.cur = None, !.held = NoVersion])

\* The body of a loop ends after a request.
NextEntryAfterCall(w, loop) ==
  Becomes(w, [sync[w] EXCEPT !.pc = loop, !.cur = None, !.held = NoVersion,
                             !.calls = Counted(@)])

-----------------------------------------------------------------------------
(* Pull.                                                                   *)

StartSync(w) ==
  /\ Idle(w)
  /\ \/ ~open[Home[w]] /\ Quiet(Home[w])
     \/ open[Home[w]] /\ due[Home[w]] > 0
  /\ due' = [due EXCEPT ![Home[w]] = IF @ > 0 THEN @ - 1 ELSE 0]
  /\ \E m \in Stamp \union {NoVersion} :
       /\ IsMaxVersion(Home[w], m)
       /\ Becomes(w, [sync[w] EXCEPT !.pc = "pull", !.since = m])
  /\ UNCHANGED <<entries, versions, row, adding, open, stamp, marked>>

PullOk(w) ==
  /\ sync[w].pc = "pull"
  /\ Becomes(w, [sync[w] EXCEPT !.pc = "apply", !.since = NoVersion,
                                !.pulled = ServerPull(sync[w].since),
                                !.calls = Counted(@)])
  /\ UNCHANGED <<entries, versions, row, adding, due, open, stamp, marked>>

\* The resolver compares the row's time of update with the literal 0.
RowTime == 1

ApplyPut(w) ==
  /\ sync[w].pc = "apply"
  /\ \E r \in sync[w].pulled :
       /\ Earliest(r, sync[w].pulled)
       /\ Resolve("last-write-wins", 0, RowTime) = "remote"
       /\ Put(Home[w], r.id)
       /\ Becomes(w, [sync[w] EXCEPT !.pc = "applyVersion",
                                     !.pulled = @ \ {r}, !.cur = r.id,
                                     !.held = r.version])
  /\ UNCHANGED <<versions, row, adding, due, open, stamp, marked>>

ApplyVersion(w) ==
  /\ sync[w].pc = "applyVersion"
  /\ PutVersion(Home[w], sync[w].cur, sync[w].held)
  /\ NextEntry(w, "apply")
  /\ UNCHANGED <<entries, row, adding, due, open, stamp, marked>>

-----------------------------------------------------------------------------
(* Push.                                                                   *)

ListEntries(w) ==
  /\ sync[w].pc = "apply"
  /\ sync[w].pulled = {}
  /\ Becomes(w, [sync[w] EXCEPT !.pc = "push", !.ids = List(Home[w]),
                                !.todo = List(Home[w])])
  /\ UNCHANGED <<entries, versions, row, adding, due, open, stamp, marked>>

\* Mutant: only a missing version is skipped.
NotForPushTombstone(v) == v = NoVersion

\* GetVersion at the top of the loop: no version, or marked for deletion.
NotForPush(v) == v \in {NoVersion, Tombstone}

PushSkip(w) ==
  /\ sync[w].pc = "push"
  /\ \E e \in sync[w].todo :
       /\ First(e, sync[w].todo)
       /\ NotForPush(GetVersion(Home[w], e))
       /\ Becomes(w, [sync[w] EXCEPT !.todo = @ \ {e}])
  /\ UNCHANGED <<entries, versions, row, adding, due, open, stamp, marked>>

PushRead(w) ==
  /\ sync[w].pc = "push"
  /\ \E e \in sync[w].todo :
       /\ First(e, sync[w].todo)
       /\ ~NotForPush(GetVersion(Home[w], e))
       /\ Becomes(w, [sync[w] EXCEPT !.pc = "get", !.todo = @ \ {e},
                                     !.cur = e,
                                     !.held = GetVersion(Home[w], e)])
  /\ UNCHANGED <<entries, versions, row, adding, due, open, stamp, marked>>

PushGet(w) ==
  /\ sync[w].pc = "get"
  /\ sync[w].cur \in entries[Home[w]]
  /\ Becomes(w, [sync[w] EXCEPT !.pc = "send"])
  /\ UNCHANGED <<entries, versions, row, adding, due, open, stamp, marked>>

\* Another worker dropped the entry since the listing.
PushGone(w) ==
  /\ sync[w].pc = "get"
  /\ sync[w].cur \notin entries[Home[w]]
  /\ NextEntry(w, "push")
  /\ UNCHANGED <<entries, versions, row, adding, due, open, stamp, marked>>

\* Mutant: the version is read again when the request is built.
PushOkRereads(w) ==
  /\ sync[w].pc = "send"
  /\ Accepted(w)
  /\ ServerPush(sync[w].cur, GetVersion(Home[w], sync[w].cur))
  /\ NextEntryAfterCall(w, "push")
  /\ UNCHANGED <<entries, versions, adding, due, open, stamp, marked>>

PushOk(w) ==
  /\ sync[w].pc = "send"
  /\ Accepted(w)
  /\ ServerPush(sync[w].cur, sync[w].held)
  /\ NextEntryAfterCall(w, "push")
  /\ UNCHANGED <<entries, versions, adding, due, open, stamp, marked>>

\* ResourceExhausted: the whole sync ends.
PushRefused(w) ==
  /\ sync[w].pc = "send"
  /\ ~Accepted(w)
  /\ Return(w)
  /\ UNCHANGED <<entries, versions, row, adding, due, stamp, marked>>

PushDone(w) ==
  /\ sync[w].pc = "push"
  /\ sync[w].todo = {}
  /\ Becomes(w, [sync[w] EXCEPT !.pc = "delete", !.todo = sync[w].ids])
  /\ UNCHANGED <<entries, versions, row, adding, due, open, stamp, marked>>

-----------------------------------------------------------------------------
(* Delete.                                                                 *)

DeleteSkip(w) ==
  /\ sync[w].pc = "delete"
  /\ \E e \in sync[w].todo :
       /\ First(e, sync[w].todo)
       /\ GetVersion(Home[w], e) # Tombstone
       /\ Becomes(w, [sync[w] EXCEPT !.todo = @ \ {e}])
  /\ UNCHANGED <<entries, versions, row, adding, due, open, stamp, marked>>

\* Mutant: an entry without a version is taken for one marked for deletion.
DeleteReadUnversioned(w) ==
  /\ sync[w].pc = "delete"
  /\ \E e \in sync[w].todo :
       /\ First(e, sync[w].todo)
       /\ NotForPush(GetVersion(Home[w], e))
       /\ Becomes(w, [sync[w] EXCEPT !.pc = "deleteSend", !.todo = @ \ {e},
                                     !.cur = e])
  /\ UNCHANGED <<entries, versions, row, adding, due, open, stamp, marked>>

DeleteRead(w) ==
  /\ sync[w].pc = "delete"
  /\ \E e \in sync[w].todo :
       /\ First(e, sync[w].todo)
       /\ GetVersion(Home[w], e) = Tombstone
       /\ Becomes(w, [sync[w] EXCEPT !.pc = "deleteSend", !.todo = @ \ {e},
                                     !.cur = e])
  /\ UNCHANGED <<entries, versions, row, adding, due, open, stamp, marked>>

DeleteOk(w) ==
  /\ sync[w].pc = "deleteSend"
  /\ Accepted(w)
  /\ DeleteFindsRow(sync[w].cur)
  /\ ServerDelete(sync[w].cur)
  /\ Becomes(w, [sync[w] EXCEPT !.pc = "dropEntry", !.calls = Counted(@)])
  /\ UNCHANGED <<entries, versions, adding, due, open, stamp, marked>>

\* Mutant: the request is repeated on a new connection until a row goes.
DeleteMissingRetries(w) ==
  /\ sync[w].pc = "deleteSend"
  /\ Accepted(w)
  /\ ~DeleteFindsRow(sync[w].cur)
  /\ Becomes(w, [sync[w] EXCEPT !.calls = 0])
  /\ UNCHANGED <<entries, versions, row, adding, due, open, stamp, marked>>

\* FailedPrecondition: the entry keeps its tombstone and the loop goes on.
DeleteMissing(w) ==
  /\ sync[w].pc = "deleteSend"
  /\ Accepted(w)
  /\ ~DeleteFindsRow(sync[w].cur)
  /\ NextEntryAfterCall(w, "delete")
  /\ UNCHANGED <<entries, versions, row, adding, due, open, stamp, marked>>

\* ResourceExhausted: the loop goes on.
DeleteRefused(w) ==
  /\ sync[w].pc = "deleteSend"
  /\ ~Accepted(w)
  /\ NextEntry(w, "delete")
  /\ UNCHANGED <<entries, versions, row, adding, due, open, stamp, marked>>

DropEntry(w) ==
  /\ sync[w].pc = "dropEntry"
  /\ Delete(Home[w], sync[w].cur)
  /\ Becomes(w, [sync[w] EXCEPT !.pc = "dropVersion"])
  /\ UNCHANGED <<versions, row, adding, due, open, stamp, marked>>

DropVersion(w) ==
  /\ sync[w].pc = "dropVersion"
  /\ DeleteVersion(Home[w], sync[w].cur)
  /\ NextEntry(w, "delete")
  /\ UNCHANGED <<entries, row, adding, due, open, stamp, marked>>

SyncDone(w) ==
  /\ sync[w].pc = "delete"
  /\ sync[w].todo = {}
  /\ Return(w)
  /\ UNCHANGED <<entries, versions, row, adding, due, stamp, marked>>

-----------------------------------------------------------------------------
(* The commands that write to the store.                                   *)

\* Mutant: the next command is taken while the second sync runs.
ReadyBusy(d) == open[d] /\ due[d] = 0

\* The command line client runs one command, and then its second sync.
Ready(d) == open[d] /\ (d \in Tui \/ (Quiet(d) /\ due[d] = 0))

\* A command that writes nothing, or could not, ends; the user leaves the text
\* UI while nothing runs.  Leaving it while something runs is a crash.
Leave(d) ==
  /\ open[d] /\ Quiet(d) /\ due[d] = 0
  /\ open' = [open EXCEPT ![d] = FALSE]
  /\ UNCHANGED <<entries, versions, row, sync, adding, due, stamp, marked>>

Order(d) == due' = [due EXCEPT ![d] = @ + 1]

\* The id of a new entry holds the time: no device has used it.
Fresh(e) == stamp[e] = NoVersion /\ \A d \in Device : e \notin entries[d]

AddPut(d) ==
  /\ Ready(d)
  /\ adding[d] = {}
  /\ \E e \in Entry :
       /\ Fresh(e)
       /\ Put(d, e)
       /\ adding' = [adding EXCEPT ![d] = {e}]
  /\ UNCHANGED <<versions, row, sync, due, open, stamp, marked>>

\* The text UI hands the sync that follows a save to nobody: tea.Batch is
\* returned as a message, and only commands run.
OrderAfterSave(d) == IF d \in Tui THEN UNCHANGED due ELSE Order(d)

\* The clock is read again.  No two saves read the same nanosecond.
AddVersion(d) ==
  /\ \E e \in adding[d], v \in Stamp :
       /\ \A f \in Entry : stamp[f] # v
       /\ PutVersion(d, e, v)
       /\ stamp' = [stamp EXCEPT ![e] = v]
  /\ adding' = [adding EXCEPT ![d] = {}]
  /\ OrderAfterSave(d)
  /\ UNCHANGED <<entries, row, sync, open, marked>>

\* The user names any entry that was saved on some device, or that this device
\* is saving; the store is not asked whether it holds the entry.  (The text UI
\* offers the entries of its last listing, which may be gone by now.)
Mark(d) ==
  /\ Ready(d)
  /\ due[d] < MaxDue
  /\ Order(d)
  /\ \E e \in Entry :
       /\ ~Fresh(e)
       /\ \A c \in Device \ {d} : e \notin adding[c]
       /\ PutVersion(d, e, Tombstone)
       /\ marked' = [marked EXCEPT ![d] = @ \union {e}]
  /\ UNCHANGED <<entries, row, sync, adding, open, stamp>>

-----------------------------------------------------------------------------
(* What goes wrong.  A request fails before the server sees it, or is      *)
(* executed and its answer is lost (the 30 s timeout, a broken             *)
(* connection); a write to the store returns an error (a read of an open   *)
(* Bolt file only fails for a missing key); the process dies.  After a     *)
(* failed request the connection is the same or a new one.                 *)

\* A failed dial is the same step.
PullFail(w) ==
  /\ sync[w].pc = "pull"
  /\ Return(w)
  /\ UNCHANGED <<entries, versions, row, adding, due, stamp, marked>>

\* Mutant: the error of Put is dropped too.
ApplyPutFailIgnored(w) ==
  /\ sync[w].pc = "apply"
  /\ \E r \in sync[w].pulled :
       /\ Earliest(r, sync[w].pulled)
       /\ Becomes(w, [sync[w] EXCEPT !.pc = "applyVersion",
                                     !.pulled = @ \ {r}, !.cur = r.id,
                                     !.held = r.version])
  /\ UNCHANGED <<entries, versions, row, adding, due, open, stamp, marked>>

ApplyPutFail(w) ==
  /\ sync[w].pc = "apply"
  /\ sync[w].pulled # {}
  /\ Return(w)
  /\ UNCHANGED <<entries, versions, row, adding, due, stamp, marked>>

\* The error of PutVersion is dropped.
ApplyVersionFail(w) ==
  /\ sync[w].pc = "applyVersion"
  /\ NextEntry(w, "apply")
  /\ UNCHANGED <<entries, versions, row, adding, due, open, stamp, marked>>

\* Mutant: the error of Push is dropped.
PushFailIgnored(w) ==
  /\ sync[w].pc = "send"
  /\ NextEntry(w, "push")
  /\ UNCHANGED <<entries, versions, row, adding, due, open, stamp, marked>>

PushFail(w) ==
  /\ sync[w].pc = "send"
  /\ Return(w)
  /\ UNCHANGED <<entries, versions, row, adding, due, stamp, marked>>

PushLost(w) ==
  /\ sync[w].pc = "send"
  /\ Accepted(w)
  /\ ServerPush(sync[w].cur, sync[w].held)
  /\ Return(w)
  /\ UNCHANGED <<entries, versions, adding, due, stamp, marked>>

DeleteGivenUp(w) ==
  \E n \in {0, Counted(sync[w].calls)} :
    Becomes(w, [sync[w] EXCEPT !.pc = "delete", !.cur = None, !.calls = n])

\* Mutant: the entry is dropped whatever the error.
DeleteFailDrops(w) ==
  /\ sync[w].pc = "deleteSend"
  /\ Becomes(w, [sync[w] EXCEPT !.pc = "dropEntry"])
  /\ UNCHANGED <<entries, versions, row, adding, due, open, stamp, marked>>

DeleteFail(w) ==
  /\ sync[w].pc = "deleteSend"
  /\ DeleteGivenUp(w)
  /\ UNCHANGED <<entries, versions, row, adding, due, open, stamp, marked>>

DeleteLost(w) ==
  /\ sync[w].pc = "deleteSend"
  /\ Accepted(w)
  /\ DeleteFindsRow(sync[w].cur)
  /\ ServerDelete(sync[w].cur)
  /\ DeleteGivenUp(w)
  /\ UNCHANGED <<entries, versions, adding, due, open, stamp, marked>>

\* The errors of Delete and DeleteVersion are dropped.
DropFail(w) ==
  /\ \/ /\ sync[w].pc = "dropEntry"
        /\ Becomes(w, [sync[w] EXCEPT !.pc = "dropVersion"])
     \/ /\ sync[w].pc = "dropVersion"
        /\ NextEntry(w, "delete")
  /\ UNCHANGED <<entries, versions, row, adding, due, open, stamp, marked>>

\* The error of PutVersion is dropped: the entry has no version.
AddVersionFail(d) ==
  /\ adding[d] # {}
  /\ adding' = [adding EXCEPT ![d] = {}]
  /\ OrderAfterSave(d)
  /\ UNCHANGED <<entries, versions, row, sync, open, stamp, marked>>

Crash(d) ==
  /\ ~Quiet(d) \/ due[d] > 0
  /\ sync' = [w \in Worker |-> IF Home[w] = d THEN AtRest ELSE sync[w]]
  /\ adding' = [adding EXCEPT ![d] = {}]
  /\ due' = [due EXCEPT ![d] = 0]
  /\ open' = [open EXCEPT ![d] = FALSE]
  /\ UNCHANGED <<entries, versions, row, stamp, marked>>

-----------------------------------------------------------------------------

Init ==
  /\ StoreInit
  /\ ServerInit
  /\ sync = [w \in Worker |-> AtRest]
  /\ adding = [d \in Device |-> {}]
  /\ due = [d \in Device |-> 0]
  /\ open = [d \in Device |-> FALSE]
  /\ stamp = [e \in Entry |-> NoVersion]
  /\ marked = [d \in Device |-> {}]

SyncStep(w) ==
  \/ PullOk(w) \/ ApplyPut(w) \/ ApplyVersion(w)
  \/ ListEntries(w) \/ PushSkip(w) \/ PushRead(w) \/ PushGet(w) \/ PushGone(w)
  \/ PushOk(w) \/ PushRefused(w) \/ PushDone(w)
  \/ DeleteSkip(w) \/ DeleteRead(w) \/ DeleteOk(w) \/ DeleteMissing(w)
  \/ DeleteRefused(w) \/ DropEntry(w) \/ DropVersion(w) \/ SyncDone(w)

SyncFault(w) ==
  \/ PullFail(w) \/ ApplyPutFail(w) \/ ApplyVersionFail(w)
  \/ PushFail(w) \/ PushLost(w)
  \/ DeleteFail(w) \/ DeleteLost(w) \/ DropFail(w)

Step ==
  \/ \E w \in Worker : StartSync(w) \/ SyncStep(w)
  \/ \E d \in Device : AddPut(d) \/ AddVersion(d) \/ Mark(d) \/ Leave(d)

Fault ==
  \/ \E w \in Worker : SyncFault(w)
  \/ \E d \in Device : AddVersionFail(d) \/ Crash(d)

Next == Step \/ Fault

Spec == Init /\ [][Next]_vars

-----------------------------------------------------------------------------
(* Properties.                                                             *)

\* Every variable has its type.  The stores hold ids of entries and versions
\* that are timestamps, tombstones or absent (store.go:106-113).
TypeOK ==
  /\ entries \in [Device -> SUBSET Entry]
  /\ versions \in [Device -> [Entry -> Stamp \union {NoVersion, Tombstone}]]
  /\ row \in [Entry -> Stamp \union {NoVersion}]
  /\ sync \in [Worker -> SyncState]
  /\ adding \in [Device -> SUBSET Entry]
  /\ due \in [Device -> Nat]
  /\ open \in [Device -> BOOLEAN]
  /\ stamp \in [Entry -> Stamp \union {NoVersion}]
  /\ marked \in [Device -> SUBSET Entry]

\* An entry has one version wherever it is: the one it got when it was made.
\* So "higher version" (sync.go:39 of the server) never chooses between two
\* contents of an entry, and a tombstone never reaches the server's table.
OneVersion ==
  /\ \A d \in Device, e \in Entry :
       versions[d][e] \in {NoVersion, Tombstone, stamp[e]}
  /\ \A e \in Entry : row[e] \in {NoVersion, stamp[e]}
  /\ \A w \in Worker :
       /\ \A r \in sync[w].pulled : r.version = stamp[r.id]
       /\ sync[w].pc \in {"applyVersion", "get", "send"} =>
            sync[w].held = stamp[sync[w].cur]

\* No step of any worker, whatever it overlaps with, loses an entry: a
\* device's copy goes only if a user marked the entry on that device, and the
\* server's row only if a user marked it somewhere (client sync.go:164-174).
NothingLost ==
  [][ /\ \A d \in Device :
           \A e \in entries[d] \ entries'[d] : e \in marked[d]
      /\ \A e \in Entry :
           row[e] # NoVersion /\ row'[e] = NoVersion =>
             \E d \in Device : e \in marked[d] ]_vars

\* On a device that runs commands a version stands for data the store holds: Put
\* comes before PutVersion when an entry is saved and when it is pulled, Delete
\* before DeleteVersion.  Otherwise the maximum would hide rows the device does
\* not have.
VersionHasData ==
  \A d \in Command, e \in Entry : versions[d][e] > 0 => e \in entries[d]

\* A command's sync that dies while it applies a pull loses nothing for good:
\* every row it has not recorded is above the store's maximum, so the next pull
\* asks for it again (the order of sync.go:59 on the server).
PullResumes ==
  \A w \in CommandWorker :
    /\ \A r \in sync[w].pulled :
         \A e \in Entry : versions[Home[w]][e] < r.version
    /\ sync[w].pc = "applyVersion" =>
         \A e \in Entry : versions[Home[w]][e] < sync[w].held

\* When the push phase of a command ends without an error every entry that was
\* listed with a version is on the server, unless a user deleted it from some
\* device (client sync.go:131-162).
PushPublishes ==
  \A w \in CommandWorker :
    sync[w].pc \in {"delete", "deleteSend", "dropEntry", "dropVersion"} =>
      \A e \in sync[w].ids :
        versions[Home[w]][e] > 0 =>
          \/ row[e] = versions[Home[w]][e]
          \/ \E d \in Device : e \in marked[d]

\* What a command pushes is what its store holds at that moment, although it was
\* read before the request and the user may have marked it (client sync.go:132-158).
PushIsCurrent ==
  \A w \in CommandWorker :
    sync[w].pc = "send" =>
      /\ sync[w].cur \in entries[Home[w]]
      /\ versions[Home[w]][sync[w].cur] = sync[w].held

\* Where commands run, a pull erases only the mark of the newest entry: while the
\* device records a later version a tombstone lasts until it is dropped
\* (sync.go:102, 122).  MarkSurvives is the same without the condition.
OlderMarkSurvives ==
  [][ \A d \in Command, e \in Entry :
        /\ versions[d][e] = Tombstone
        /\ \E f \in Entry : versions[d][f] > stamp[e]
        => versions'[d][e] \in {Tombstone, NoVersion} ]_vars

\* The phases of a sync that lie ahead, the ids or rows its loop has not reached,
\* and the requests and writes left in the loop's body.
Phases(s) ==
  CASE s.pc = "idle" -> 0
    [] s.pc \in {"delete", "deleteSend", "dropEntry", "dropVersion"} -> 1
    [] s.pc \in {"push", "get", "send"} -> 2
    [] s.pc \in {"apply", "applyVersion"} -> 3
    [] s.pc = "pull" -> 4

Ahead(s) == IF Phases(s) = 3 THEN s.pulled ELSE s.todo

Body(s) ==
  CASE s.pc = "deleteSend" -> 3
    [] s.pc \in {"get", "dropEntry"} -> 2
    [] s.pc \in {"applyVersion", "send", "dropVersion"} -> 1
    [] OTHER -> 0

\* State t of a worker is nearer to the end than state s.
Nearer(t, s) ==
  \/ Phases(t) < Phases(s)
  \/ /\ Phases(t) = Phases(s)
     /\ \/ Ahead(t) \subseteq Ahead(s) /\ Ahead(t) # Ahead(s)
        \/ Ahead(t) = Ahead(s) /\ Body(t) < Body(s)

\* Whatever is answered, refused, lost or fails, and whatever other workers do,
\* each step of a sync brings it nearer to its end: no loop starts again and no
\* request is repeated (sync.go:101-175).
SyncDescends ==
  [][ \A w \in Worker :
        ~Idle(w) /\ sync'[w] # sync[w] => Nearer(sync'[w], sync[w]) ]_vars

\* A device forgets an entry only when the server has forgotten it: the local
\* copy goes after a confirmed delete, in whatever order requests fail.  With a
\* second device, or a second worker, someone may push it back in between.
DropAfterRetire ==
  [][ \A d \in Device :
        \A e \in entries[d] \ entries'[d] : row[e] = NoVersion ]_vars

\* "Marked for deletion" (cmd/client/main.go:390) lasts until the entry is
\* deleted: a pull never turns the tombstone of a saved entry into a version.
MarkSurvives ==
  [][ \A d \in Device, e \in Entry :
        versions[d][e] = Tombstone /\ e \notin adding[d] =>
          versions'[d][e] \in {Tombstone, NoVersion} ]_vars

\* An entry that its user deleted, and that is gone from the device and from
\* the server, never reaches the server again.
DeletedStaysDeleted ==
  [][ \A d \in Device, e \in Entry :
        /\ e \in marked[d]
        /\ e \notin entries[d]
        /\ versions[d][e] = NoVersion
        /\ row[e] = NoVersion
        => row'[e] = NoVersion ]_vars

\* "Data is synchronised between devices through the server" (Readme.md:12): a
\* pull brings every entry of the server that the device lacks and no user
\* deleted.  What it passes over it passes over for good: the maximum only grows.
PullFindsMissing ==
  [][ \A w \in Worker :
        sync[w].pc = "pull" /\ sync'[w].pc = "apply" =>
          \A e \in Entry :
            /\ row[e] # NoVersion
            /\ e \notin entries[Home[w]]
            /\ \A d \in Device : e \notin marked[d]
            => \E r \in sync'[w].pulled : r.id = e ]_vars

-----------------------------------------------------------------------------
(* The inductive invariant behind OneVersion, NothingLost and VaultSpec.   *)

\* The stores and the server agree on the version of an entry.
VersionsAgree ==
  /\ \A d \in Device, e \in Entry :
       versions[d][e] \in {NoVersion, Tombstone, stamp[e]}
  /\ \A e \in Entry : row[e] \in {NoVersion, stamp[e]}

\* An entry whose version is not written yet is held by the device that saves
\* it, and nobody else saves it.
SavingOnce ==
  \A d \in Device, e \in Entry :
    e \in adding[d] =>
      /\ stamp[e] = NoVersion
      /\ e \in entries[d]
      /\ \A c \in Device : e \in adding[c] => c = d

\* A tombstone comes from the user.
TombstonesMarked ==
  \A d \in Device, e \in Entry :
    versions[d][e] = Tombstone => e \in marked[d]

\* What a worker has in hand in state s was saved before, and what it deletes
\* was marked on its device.
HandOk(w, s) ==
  /\ \A r \in s.pulled : r.version = stamp[r.id] /\ r.version # NoVersion
  /\ s.pc \in {"applyVersion", "get", "send"} =>
       /\ s.cur \in Entry
       /\ s.held = stamp[s.cur]
       /\ s.held # NoVersion
  /\ s.pc \in {"deleteSend", "dropEntry", "dropVersion"} =>
       s.cur \in marked[Home[w]]
  /\ s.pc \in {"dropEntry", "dropVersion"} => stamp[s.cur] # NoVersion

IInv ==
  /\ TypeOK
  /\ VersionsAgree
  /\ SavingOnce
  /\ TombstonesMarked
  /\ \A w \in Worker : HandOk(w, sync[w])

-----------------------------------------------------------------------------
(* The inductive invariant behind VersionHasData, PullResumes and          *)
(* PushPublishes on the devices that run the command line client, beside   *)
(* devices that run either.                                                *)

\* Such a device runs one sync, or one save, or has one sync ordered.
OneAtATime ==
  /\ \A u, w \in CommandWorker : Home[u] = Home[w] /\ ~Idle(u) /\ ~Idle(w) => u = w
  /\ \A d \in Command :
       /\ due[d] > 0 => due[d] = 1 /\ open[d] /\ Quiet(d)
       /\ adding[d] # {} =>
            due[d] = 0 /\ open[d] /\ \A w \in WorkersOf(d) : Idle(w)

\* A version tells whose it is.
StampsDiffer ==
  \A e, f \in Entry : stamp[e] = stamp[f] /\ stamp[e] # NoVersion => e = f

\* Every version of the device is below v.
Below(d, v) == \A e \in Entry : versions[d][e] < v

\* The rows come in ascending order, above all the device has recorded.
PullPhase(w) ==
  LET s == sync[w] d == Home[w] IN
  /\ s.pc \notin {"apply", "applyVersion"} => s.pulled = {}
  /\ s.pc = "pull" => \A e \in Entry : versions[d][e] <= s.since
  /\ \A r \in s.pulled : Below(d, r.version)
  /\ s.pc = "applyVersion" =>
       s.cur \in entries[d] /\ Below(d, s.held) /\ \A r \in s.pulled : s.held < r.version

Published(d, e) ==
  versions[d][e] > 0 => row[e] = versions[d][e] \/ \E c \in Device : e \in marked[c]

\* What the push loop has passed is published.
PushPhase(w) ==
  LET s == sync[w] d == Home[w] IN
  /\ s.pc = "push" => \A e \in s.ids \ s.todo : Published(d, e)
  /\ s.pc \in {"get", "send"} => \A e \in s.ids \ (s.todo \union {s.cur}) : Published(d, e)
  /\ s.pc \in {"delete", "deleteSend", "dropEntry", "dropVersion"} =>
       \A e \in s.ids : Published(d, e)

\* What is in hand is as it was read: the version and the data of a push, the
\* tombstone of a deletion until the end.
InHand(w) ==
  LET s == sync[w] d == Home[w] IN
  /\ s.pc \in {"get", "send"} => versions[d][s.cur] = s.held
  /\ s.pc = "send" => s.cur \in entries[d]
  /\ s.pc \in {"deleteSend", "dropEntry", "dropVersion"} => versions[d][s.cur] = Tombstone

PhasesOk(w) == PullPhase(w) /\ PushPhase(w) /\ InHand(w)

CommandInv ==
  /\ IInv
  /\ OneAtATime
  /\ StampsDiffer
  /\ VersionHasData
  /\ \A w \in CommandWorker : PhasesOk(w)

-----------------------------------------------------------------------------
(* The promise of the system, over the same state without the protocol.    *)

V == INSTANCE Vault WITH
  copies <- entries,
  stored <- {e \in Entry : row[e] # NoVersion},
  saved <- {e \in Entry : stamp[e] # NoVersion},
  requested <- marked

\* However syncs, saves, deletions, failures and crashes interleave, the
\* program only does what the vault allows: it never invents an entry, never
\* uploads one that is still being saved, and never drops one unasked.
VaultSpec == V!Spec

=============================================================================
