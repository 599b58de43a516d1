---------------------------- MODULE RateLimiter ----------------------------
(***************************************************************************)
(* The server's rate limiter, internal/server/middleware/ratelimit.go.     *)
(*                                                                         *)
(* One map of attempts, under a mutex, serves every request by its peer    *)
(* address and every Login by its login as well.  A record lives for one   *)
(* window from its first request: it is not a sliding window.              *)
(***************************************************************************)
EXTENDS Integers, Sequences

CONSTANTS Key,          \* peer addresses and logins
          Max,          \* max
          Window,       \* window
          MaxNow        \* bound: the time at which the model stops

ASSUME LimiterAssumption ==
  /\ Max \in Nat \ {0}
  /\ Window \in Nat \ {0}
  /\ MaxNow \in Nat

VARIABLES now,          \* the monotonic clock
          attempts,     \* the record of each key
          tick,         \* the time at which the cleanup's ticker fires next
          running,      \* is the cleanup loop alive?
          admitted      \* history: the requests of each key that Allow let pass

vars == <<now, attempts, tick, running, admitted>>

-----------------------------------------------------------------------------

\* A count above Max is as good as any other: it is kept at Max + 1.
Record == [count : 1..(Max + 1), first : Nat]

\* The map has no record of the key.
Absent == [count |-> 0, first |-> 0]

\* When a request passed, and when the record it was counted in was made.
Passed == [at : Nat, first : Nat]

Init ==
  /\ now = 0
  /\ attempts = [k \in Key |-> Absent]
  /\ tick = Window
  /\ running = TRUE
  /\ admitted = [k \in Key |-> <<>>]

Expired(r) == now - r.first > Window

\* The key has a record that counts.
Known(k) == attempts[k] # Absent /\ ~Expired(attempts[k])

Admit(k, first) ==
  admitted' = [admitted EXCEPT ![k] = Append(@, [at |-> now, first |-> first])]

\* Allow makes a new record, in the place of an expired one if there is one.
AllowFirst(k) ==
  /\ ~Known(k)
  /\ attempts' = [attempts EXCEPT ![k] = [count |-> 1, first |-> now]]
  /\ Admit(k, now)
  /\ UNCHANGED <<now, tick, running>>

\* Mutant: the limit is compared before the count is raised.
AllowOneMore(k) ==
  /\ Known(k)
  /\ attempts[k].count <= Max
  /\ attempts' = [attempts EXCEPT ![k].count = @ + 1]
  /\ Admit(k, attempts[k].first)
  /\ UNCHANGED <<now, tick, running>>

Allow(k) ==
  /\ Known(k)
  /\ attempts[k].count + 1 <= Max
  /\ attempts' = [attempts EXCEPT ![k].count = @ + 1]
  /\ Admit(k, attempts[k].first)
  /\ UNCHANGED <<now, tick, running>>

\* Mutant: a refused request starts the window again.
RefuseRestarts(k) ==
  /\ Known(k)
  /\ attempts[k].count + 1 > Max
  /\ attempts' = [attempts EXCEPT ![k] = [count |-> Max + 1, first |-> now]]
  /\ UNCHANGED <<now, tick, running, admitted>>

Refuse(k) ==
  /\ Known(k)
  /\ attempts[k].count + 1 > Max
  /\ attempts' = [attempts EXCEPT ![k].count = Max + 1]
  /\ UNCHANGED <<now, tick, running, admitted>>

\* Mutant: the count is set back and the record is kept.
CleanupKeepsRecord ==
  /\ running
  /\ now >= tick
  /\ attempts' = [k \in Key |->
       IF Expired(attempts[k]) THEN [attempts[k] EXCEPT !.count = 0]
       ELSE attempts[k]]
  /\ \E t \in (now + 1)..(now + Window) : t % Window = 0 /\ tick' = t
  /\ UNCHANGED <<now, running, admitted>>

\* Mutant: a record goes at the last instant of its window.
CleanupTooSoon ==
  /\ running
  /\ now >= tick
  /\ attempts' = [k \in Key |->
       IF now - attempts[k].first >= Window THEN Absent ELSE attempts[k]]
  /\ \E t \in (now + 1)..(now + Window) : t % Window = 0 /\ tick' = t
  /\ UNCHANGED <<now, running, admitted>>

\* The ticker drops the ticks nobody waits for.
Cleanup ==
  /\ running
  /\ now >= tick
  /\ attempts' = [k \in Key |->
       IF Expired(attempts[k]) THEN Absent ELSE attempts[k]]
  /\ \E t \in (now + 1)..(now + Window) : t % Window = 0 /\ tick' = t
  /\ UNCHANGED <<now, running, admitted>>

\* Stop: a second one would close a closed channel.
Stop ==
  /\ running
  /\ running' = FALSE
  /\ UNCHANGED <<now, attempts, tick, admitted>>

\* Time goes by.
Pass ==
  /\ now < MaxNow
  /\ now' = now + 1
  /\ UNCHANGED <<attempts, tick, running, admitted>>

Next ==
  \/ \E k \in Key : AllowFirst(k) \/ Allow(k) \/ Refuse(k)
  \/ Cleanup \/ Stop \/ Pass

Spec == Init /\ [][Next]_vars

-----------------------------------------------------------------------------
(* Properties.                                                             *)

\* Every variable has its type: a record in the map counts at least one request
\* (ratelimit.go:59-62).
TypeOK ==
  /\ now \in Nat
  /\ attempts \in [Key -> Record \union {Absent}]
  /\ tick \in Nat
  /\ running \in BOOLEAN
  /\ admitted \in [Key -> Seq(Passed)]

\* What the limiter really limits: windows are fixed, so a key may spend the
\* end of one and the start of the next at once, but never more: any 2 * Max
\* requests it lets pass in a row take longer than a window.  A cleanup in
\* between gives nobody a new start (ratelimit.go:41-45, 82-94).
SpreadOut ==
  \A k \in Key : \A i \in 1..Len(admitted[k]) :
    i + 2 * Max - 1 <= Len(admitted[k]) =>
      admitted[k][i + 2 * Max - 1].at > admitted[k][i].at + Window

\* A key is turned away only if it had its share: where the next request would
\* be refused, Max requests have passed within the last window.  Refused ones
\* do not hold the window open (ratelimit.go:93).
RefusedHadShare ==
  \A k \in Key :
    Known(k) /\ attempts[k].count >= Max =>
      /\ Len(admitted[k]) >= Max
      /\ admitted[k][Len(admitted[k]) - Max + 1].at + Window >= now

-----------------------------------------------------------------------------
(* The inductive invariant behind SpreadOut and RefusedHadShare.           *)

\* The requests that passed, by the records they were counted in: a record
\* lives for a window, starts with its first request, counts at most Max, and
\* begins after the one before it has expired.
GroupsOk(s) ==
  /\ \A i \in 1..Len(s) : s[i].first <= s[i].at /\ s[i].at <= s[i].first + Window
  /\ \A i, j \in 1..Len(s) :
       i < j => s[i].first = s[j].first \/ s[j].first > s[i].first + Window
  /\ \A i \in 1..Len(s) :
       s[i].at = s[i].first \/ (i > 1 /\ s[i - 1].first = s[i].first)
  /\ \A i \in 1..Len(s) :
       i + Max <= Len(s) => s[i + Max].first > s[i].first + Window

\* The requests of a record that passed.
Share(r) == IF r.count > Max THEN Max ELSE r.count

\* The last requests that passed are those of the key's record; the others, and
\* all of them if it has none, were counted in records that have expired.
RecordOk(r, s) ==
  LET old == Len(s) - Share(r)
  IN  /\ old >= 0
      /\ \A i \in (old + 1)..Len(s) : s[i].first = r.first
      /\ \A i \in 1..old :
           s[i].first + Window < IF r = Absent THEN now ELSE r.first
      /\ r.first <= now

IInv ==
  /\ TypeOK
  /\ \A k \in Key : GroupsOk(admitted[k]) /\ RecordOk(attempts[k], admitted[k])

-----------------------------------------------------------------------------
(* The promise of the limiter, without its map.                            *)

W == INSTANCE FixedWindow WITH
  window <- [k \in Key |->
    IF Known(k) THEN [passed |-> Share(attempts[k]), first |-> attempts[k].first]
    ELSE [passed |-> 0, first |-> 0]]

\* Nobody can tell when the cleanup runs, whether it has been stopped, or what the map
\* still holds of a window that is over: a key has a window, and its share of it
\* (ratelimit.go:36-58, 74-94).
WindowSpec == W!Spec

=============================================================================
