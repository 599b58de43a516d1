------------------------------ MODULE Sessions ------------------------------
(***************************************************************************)
(* What the rotation of refresh tokens promises, without statements, locks *)
(* and transactions: a login puts a token into the table, and an exchange  *)
(* is one step, which takes the old token out and puts the new one in.     *)
(* The only other step is the late exchange, which finds the old token     *)
(* gone and puts a new one in beside those that are there.                 *)
(***************************************************************************)
EXTENDS Naturals

CONSTANTS User, Token

VARIABLES users,        \* the users who have registered
          live,         \* the tokens in the table
          logins,       \* the number of logins
          stem,         \* the logins that each token stems from
          used          \* the tokens that were exchanged for another one

vars == <<users, live, logins, stem, used>>

Init ==
  /\ users = {}
  /\ live = {}
  /\ logins = 0
  /\ stem = [t \in Token |-> {}]
  /\ used = {}

Register(u) ==
  /\ u \notin users
  /\ users' = users \union {u}
  /\ UNCHANGED <<live, logins, stem, used>>

LogIn(t) ==
  /\ t.user \in users
  /\ t \notin live
  /\ live' = live \union {t}
  /\ logins' = logins + 1
  /\ stem' = [stem EXCEPT ![t] = @ \union {logins'}]
  /\ UNCHANGED <<users, used>>

\* Token n goes on with the logins of t.
Succeed(t, n) ==
  /\ stem[t] # {}
  /\ n.user = t.user
  /\ stem' = [stem EXCEPT ![n] = @ \union stem[t]]
  /\ UNCHANGED <<users, logins>>

\* In one step: t out, n in.  A token may be exchanged for itself.
Exchange(t, n) ==
  /\ t \in live
  /\ n \notin live \ {t}
  /\ live' = (live \ {t}) \union {n}
  /\ used' = used \union ({t} \ {n})
  /\ Succeed(t, n)

\* The token was in the table when it was looked up, and another exchange has
\* taken it since: n goes in, and nothing goes out.
ExchangeLate(t, n) ==
  /\ n \notin live
  /\ live' = live \union {n}
  /\ UNCHANGED used
  /\ Succeed(t, n)

Next ==
  \/ \E u \in User : Register(u)
  \/ \E t \in Token : LogIn(t) \/ \E n \in Token : Exchange(t, n) \/ ExchangeLate(t, n)

Spec == Init /\ [][Next]_vars

=============================================================================
