----------------------------- MODULE SyncServer -----------------------------
(***************************************************************************)
(* The sync service over the server's "entries" table,                     *)
(* internal/server/sync/sync.go, for the rows of one user.  Each RPC runs  *)
(* one SQL statement per entry; the client sends one entry per Push, so    *)
(* each RPC is one atomic step on the table.                               *)
(***************************************************************************)
EXTENDS EntryData

VARIABLE row            \* the version of the row of each entry

ServerInit == row = [e \in Entry |-> NoVersion]

\* INSERT ... ON CONFLICT DO UPDATE ... WHERE entries.version < the new one.
ServerPush(e, v) ==
  row' = [row EXCEPT ![e] = IF @ = NoVersion \/ @ < v THEN v ELSE @]

\* SELECT ... WHERE version > since.  The rows come ordered by version: see
\* Earliest in FullSync, which takes them in that order.
ServerPull(since) ==
  {[id |-> e, version |-> row[e]] :
     e \in {f \in Entry : row[f] # NoVersion /\ row[f] > since}}

\* DELETE: the version in the request is not looked at, and deleting no row
\* is an error (FailedPrecondition).
DeleteFindsRow(e) == row[e] # NoVersion

\* Mutant: the DELETE without its WHERE.
ServerDeleteAll(e) == row' = [f \in Entry |-> NoVersion]

ServerDelete(e) == row' = [row EXCEPT ![e] = NoVersion]

=============================================================================
