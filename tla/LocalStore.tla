----------------------------- MODULE LocalStore -----------------------------
(***************************************************************************)
(* The client's BoltDB file, internal/client/store/store.go, one per       *)
(* device, for one user.  Every method takes the store's mutex and runs    *)
(* one Bolt transaction, so each is one atomic step.                       *)
(*                                                                         *)
(* The "entries" bucket is the set of the ids it holds.                    *)
(***************************************************************************)
EXTENDS EntryData

CONSTANT Device

VARIABLES entries,      \* bucket "entries": the ids each device holds
          versions      \* bucket "versions": the version of each id

StoreInit ==
  /\ entries = [d \in Device |-> {}]
  /\ versions = [d \in Device |-> [e \in Entry |-> NoVersion]]

Put(d, e) == entries' = [entries EXCEPT ![d] = @ \union {e}]

Delete(d, e) == entries' = [entries EXCEPT ![d] = @ \ {e}]

PutVersion(d, e, v) == versions' = [versions EXCEPT ![d][e] = v]

DeleteVersion(d, e) == versions' = [versions EXCEPT ![d][e] = NoVersion]

List(d) == entries[d]

GetVersion(d, e) == versions[d][e]

\* GetMaxVersion: the fold starts at 0, so tombstones never count.
IsMaxVersion(d, m) ==
  /\ m \in {NoVersion} \union {versions[d][e] : e \in Entry}
  /\ \A v \in {NoVersion} \union {versions[d][e] : e \in Entry} : v <= m

=============================================================================
