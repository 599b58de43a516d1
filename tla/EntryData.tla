----------------------------- MODULE EntryData ------------------------------
(***************************************************************************)
(* What the client's store and the server's table both hold: the versions  *)
(* of a set of entries.  An entry's data is written once, under an id that *)
(* holds the time of its creation, and no operation of the program changes *)
(* it, so data is not modelled: an entry is held or it is not.             *)
(***************************************************************************)
EXTENDS Integers

\* The ids of one user's entries, numbered in the byte order of the keys.
CONSTANT Entry

ASSUME EntryAssumption == Entry \subseteq Nat \ {0}

\* What GetVersion returns, with an error, for a missing key.  On the server:
\* no row.  No client pushes version 0.
NoVersion == 0

\* The version that marks an entry for deletion on a device.
Tombstone == -1

\* One row of the answer to a Pull.
Row == [id : Entry, version : Nat]

=============================================================================
