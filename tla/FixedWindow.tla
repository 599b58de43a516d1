---------------------------- MODULE FixedWindow ----------------------------
(***************************************************************************)
(* What the server's rate limiter promises a key, without the map of       *)
(* records and its cleanup: the first request of a key opens a window, at  *)
(* most Max requests of the key pass while it is open, and a window that   *)
(* is over leaves nothing behind.                                          *)
(***************************************************************************)
EXTENDS Naturals, Sequences

CONSTANTS Key, Max, Window

VARIABLES now,          \* the time
          window,       \* the window of each key
          admitted      \* the requests of each key that passed

vars == <<now, window, admitted>>

\* The key has no window.
Closed == [passed |-> 0, first |-> 0]

Init ==
  /\ now = 0
  /\ window = [k \in Key |-> Closed]
  /\ admitted = [k \in Key |-> <<>>]

\* A request of the key passes: the n-th one of the window that began at first.
Let(k, n, first) ==
  /\ window' = [window EXCEPT ![k] = [passed |-> n, first |-> first]]
  /\ admitted' = [admitted EXCEPT ![k] = Append(@, [at |-> now, first |-> first])]
  /\ UNCHANGED now

Open(k) == window[k] = Closed /\ Let(k, 1, now)

Take(k) ==
  /\ window[k] # Closed
  /\ window[k].passed < Max
  /\ Let(k, window[k].passed + 1, window[k].first)

\* Time goes by, and windows close.
Pass ==
  /\ now' = now + 1
  /\ window' = [k \in Key |->
       IF window[k] # Closed /\ now + 1 <= window[k].first + Window THEN window[k] ELSE Closed]
  /\ UNCHANGED admitted

Next == Pass \/ \E k \in Key : Open(k) \/ Take(k)

Spec == Init /\ [][Next]_vars

=============================================================================
