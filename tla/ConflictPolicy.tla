--------------------------- MODULE ConflictPolicy ---------------------------
(***************************************************************************)
(* The resolvers of internal/sync/policy.go.  A resolver picks the local   *)
(* or the remote copy of an entry; only LastWriteWins looks at them, at    *)
(* the time of the last update.                                            *)
(***************************************************************************)
EXTENDS Integers

LastWriteWins(localUpdatedAt, remoteUpdatedAt) ==
  IF remoteUpdatedAt > localUpdatedAt THEN "remote" ELSE "local"

Resolve(policy, localUpdatedAt, remoteUpdatedAt) ==
  CASE policy = "server-authoritative" -> "remote"
    [] policy = "client-authoritative" -> "local"
    [] policy \in {"last-write-wins", ""} -> LastWriteWins(localUpdatedAt, remoteUpdatedAt)

=============================================================================
