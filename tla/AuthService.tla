---------------------------- MODULE AuthService ----------------------------
(***************************************************************************)
(* The server's authentication: internal/server/auth/auth.go behind the    *)
(* interceptor of internal/server/middleware/ratelimit.go, with the tables *)
(* users and refresh_tokens of migrations/001_init.sql.                    *)
(*                                                                         *)
(* A handler is one goroutine that serves Login or RefreshToken, in the    *)
(* statements it sends.  A request the limiter refuses changes nothing and *)
(* is left out.                                                            *)
(***************************************************************************)
EXTENDS Integers

CONSTANTS User,         \* logins
          Handler,      \* the goroutines that serve Login and RefreshToken
          Lifetime,     \* seconds a refresh token lives (72 h)
          MaxNow,       \* bound: the second at which the model stops
          MaxLogin      \* bound: the logins that succeed

ASSUME AuthAssumption ==
  /\ Lifetime \in Nat \ {0}
  /\ MaxNow \in Nat
  /\ MaxLogin \in Nat

\* A token is signed over its user and the second of its issue, and nothing
\* tells two tokens of one second apart.
Token == [user : User, iat : 0..MaxNow]

\* No token.
NoToken == [user |-> "none"]

VARIABLES now,          \* the second on the server's clock
          users,        \* table users
          expires,      \* table refresh_tokens: expires_at, 0 for no row
          call,         \* the local variables of each handler
          logins,       \* history: the number of logins that succeeded
          stem,         \* history: the logins that each token stems from
          used,         \* history: the tokens that were exchanged for another one
          slow          \* history: did a handler keep a token past its second?

vars == <<now, users, expires, call, logins, stem, used, slow>>

rows == {t \in Token : expires[t] # 0}

\* login: a token is signed for Login.  found: the SELECT has found the row of
\* the old token, the new one is signed.  waiting: the DELETE waits for the lock
\* another transaction has on the row.  deleted: this transaction has deleted
\* the row.  missed: the DELETE has met no row.
CallState ==
  [pc : {"idle", "login", "found", "waiting", "deleted", "missed"},
   old : Token \union {NoToken}, new : Token \union {NoToken}]

NoCall == [pc |-> "idle", old |-> NoToken, new |-> NoToken]

Busy(h) == call[h].pc # "idle"

\* The token that is signed for a user now.
New(u) == [user |-> u, iat |-> now]

\* A handler has deleted the row and not committed.
Locked(t) == \E h \in Handler : call[h].pc = "deleted" /\ call[h].old = t

\* What the transaction of handler h deletes.
Deleted(h) == IF call[h].pc = "deleted" THEN {call[h].old} ELSE {}

\* The table without the tokens in gone and with t, for a lifetime from now.
Exchanged(gone, t) ==
  [r \in Token |-> IF r = t THEN now + Lifetime
                   ELSE IF r \in gone THEN 0 ELSE expires[r]]

Init ==
  /\ now = 0
  /\ users = {}
  /\ expires = [t \in Token |-> 0]
  /\ call = [h \in Handler |-> NoCall]
  /\ logins = 0
  /\ stem = [t \in Token |-> {}]
  /\ used = {}
  /\ slow = FALSE

-----------------------------------------------------------------------------
(* Register and Login.                                                     *)

\* The login is unique: a second INSERT of it fails.
Register(u) ==
  /\ u \notin users
  /\ users' = users \union {u}
  /\ UNCHANGED <<now, expires, call, logins, stem, used, slow>>

\* Mutant: the login is not looked up.
LoginSignUnchecked(h, u) ==
  /\ ~Busy(h)
  /\ call' = [call EXCEPT ![h] = [pc |-> "login", old |-> NoToken, new |-> New(u)]]
  /\ UNCHANGED <<now, users, expires, logins, stem, used, slow>>

\* The SELECT, and the token that is signed after it.
LoginSign(h, u) ==
  /\ ~Busy(h)
  /\ u \in users
  /\ call' = [call EXCEPT ![h] = [pc |-> "login", old |-> NoToken, new |-> New(u)]]
  /\ UNCHANGED <<now, users, expires, logins, stem, used, slow>>

\* The hash of a token is unique: while the same token is in the table, the
\* INSERT fails or waits for who has deleted it.
LoginInsert(h) ==
  LET t == call[h].new
  IN  /\ call[h].pc = "login"
      /\ logins < MaxLogin
      /\ t \notin rows
      /\ expires' = Exchanged({}, t)
      /\ logins' = logins + 1
      /\ stem' = [stem EXCEPT ![t] = @ \union {logins'}]
      /\ call' = [call EXCEPT ![h] = NoCall]
      /\ UNCHANGED <<now, users, used, slow>>

-----------------------------------------------------------------------------
(* RefreshToken.                                                           *)

\* The interceptor asks for a token that this server has signed and that has not
\* expired; whose it is, RefreshToken does not ask.
HeaderAccepted == \E t \in Token : stem[t] # {} /\ now < t.iat + Lifetime

\* The SELECT finds the row, expires_at > now(), and the new token is signed,
\* before the transaction begins.
RefreshFind(h, t) ==
  /\ ~Busy(h)
  /\ HeaderAccepted
  /\ t \in rows
  /\ now < expires[t]
  /\ call' = [call EXCEPT ![h] = [pc |-> "found", old |-> t, new |-> New(t.user)]]
  /\ UNCHANGED <<now, users, expires, logins, stem, used, slow>>

RefreshWait(h) ==
  /\ call[h].pc = "found"
  /\ Locked(call[h].old)
  /\ call' = [call EXCEPT ![h].pc = "waiting"]
  /\ UNCHANGED <<now, users, expires, logins, stem, used, slow>>

\* Mutant: the DELETE is a transaction of its own.
RefreshDeleteAlone(h) ==
  /\ call[h].pc \in {"found", "waiting"}
  /\ call[h].old \in rows
  /\ ~Locked(call[h].old)
  /\ expires' = [expires EXCEPT ![call[h].old] = 0]
  /\ call' = [call EXCEPT ![h].pc = "deleted"]
  /\ UNCHANGED <<now, users, logins, stem, used, slow>>

\* The DELETE takes the row: now, or after the transaction it waited for has
\* rolled back.
RefreshDelete(h) ==
  /\ call[h].pc \in {"found", "waiting"}
  /\ call[h].old \in rows
  /\ ~Locked(call[h].old)
  /\ call' = [call EXCEPT ![h].pc = "deleted"]
  /\ UNCHANGED <<now, users, expires, logins, stem, used, slow>>

\* The row went after the SELECT.  No row deleted is no error.
RefreshMiss(h) ==
  /\ call[h].pc = "found"
  /\ call[h].old \notin rows
  /\ call' = [call EXCEPT ![h].pc = "missed"]
  /\ UNCHANGED <<now, users, expires, logins, stem, used, slow>>

\* Who waited for the row does not find it, even if the same token is back.
Released(h) ==
  [g \in Handler |->
     IF g = h THEN NoCall
     ELSE IF call[g].pc = "waiting" /\ call[g].old \in Deleted(h)
          THEN [call[g] EXCEPT !.pc = "missed"]
          ELSE call[g]]

\* Mutant: the row is not deleted.
RefreshCommitKeeps(h) ==
  LET old == call[h].old
      new == call[h].new
  IN  /\ call[h].pc \in {"deleted", "missed"}
      /\ new \notin rows \ Deleted(h)
      /\ expires' = Exchanged({}, new)
      /\ stem' = [stem EXCEPT ![new] = @ \union stem[old]]
      /\ used' = used \union (Deleted(h) \ {new})
      /\ call' = Released(h)
      /\ UNCHANGED <<now, users, logins, slow>>

\* The new token is inserted, as in LoginInsert, and the transaction is committed.
RefreshCommit(h) ==
  LET old == call[h].old
      new == call[h].new
  IN  /\ call[h].pc \in {"deleted", "missed"}
      /\ new \notin rows \ Deleted(h)
      /\ expires' = Exchanged(Deleted(h), new)
      /\ stem' = [stem EXCEPT ![new] = @ \union stem[old]]
      /\ used' = used \union (Deleted(h) \ {new})
      /\ call' = Released(h)
      /\ UNCHANGED <<now, users, logins, slow>>

-----------------------------------------------------------------------------

\* Mutant: the statements are not in a transaction.
FailDeletes(h) ==
  /\ Busy(h)
  /\ expires' = [t \in Token |-> IF t \in Deleted(h) THEN 0 ELSE expires[t]]
  /\ call' = [call EXCEPT ![h] = NoCall]
  /\ UNCHANGED <<now, users, logins, stem, used, slow>>

\* A statement fails, the request is cancelled or the server dies: the
\* transaction is rolled back.
Fail(h) ==
  /\ Busy(h)
  /\ call' = [call EXCEPT ![h] = NoCall]
  /\ UNCHANGED <<now, users, expires, logins, stem, used, slow>>

\* A second goes by.
Pass ==
  /\ now < MaxNow
  /\ now' = now + 1
  /\ slow' = (slow \/ \E h \in Handler : Busy(h))
  /\ UNCHANGED <<users, expires, call, logins, stem, used>>

Handle(h) ==
  \/ \E u \in User : LoginSign(h, u)
  \/ LoginInsert(h)
  \/ \E t \in Token : RefreshFind(h, t)
  \/ RefreshWait(h) \/ RefreshDelete(h) \/ RefreshMiss(h) \/ RefreshCommit(h)
  \/ Fail(h)

Next ==
  \/ \E u \in User : Register(u)
  \/ \E h \in Handler : Handle(h)
  \/ Pass

Spec == Init /\ [][Next]_vars

-----------------------------------------------------------------------------
(* Properties.                                                             *)

\* Every variable has its type, and only known users have tokens (the foreign
\* key of 001_init.sql:10).
TypeOK ==
  /\ now \in 0..MaxNow
  /\ users \subseteq User
  /\ expires \in [Token -> Nat]
  /\ \A t \in rows : t.user \in users
  /\ call \in [Handler -> CallState]
  /\ logins \in Nat
  /\ stem \in [Token -> SUBSET (1..logins)]
  /\ used \subseteq Token
  /\ slow \in BOOLEAN

\* However rotations overlap, fail or are cut off, a login leaves something to
\* go on with: the table always holds a token that stems from it
\* (auth.go:119-137).
SessionKept == \A login \in 1..logins : \E r \in rows : login \in stem[r]

\* A token that was exchanged is never found again (auth.go:101-107, 126), although
\* tokens are told apart by their second only.  It takes handlers that insert a
\* token in the second in which they signed it.
UsedNeverFound == ~slow => used \intersect rows = {}

-----------------------------------------------------------------------------
(* The inductive invariant behind SessionKept and UsedNeverFound.          *)

\* What a busy handler holds: a new token, of the current second if none is slow,
\* and in a rotation an older one of the same user.
HandOk(c) ==
  /\ c.new \in Token /\ c.new.user \in users /\ c.new.iat <= now
  /\ ~slow => c.new.iat = now
  /\ c.pc # "login" =>
       c.old \in Token /\ c.old.user = c.new.user /\ c.old.iat <= now

IInv ==
  /\ TypeOK
  /\ SessionKept
  /\ UsedNeverFound
  /\ \A t \in rows : t.iat <= now
  /\ ~slow => \A t \in used : t.iat < now
  /\ \A h \in Handler : Busy(h) => HandOk(call[h])

\* What a transaction has deleted is its own until it ends: the row is in the
\* table, no other transaction has deleted it, and whoever holds a token to
\* exchange has one that somebody logged in for.
DeletedOk ==
  /\ \A t \in rows : stem[t] # {}
  /\ \A h \in Handler : Busy(h) /\ call[h].pc # "login" => stem[call[h].old] # {}
  /\ \A h \in Handler : Deleted(h) \subseteq rows
  /\ \A g, h \in Handler : g # h => Deleted(g) \intersect Deleted(h) = {}

-----------------------------------------------------------------------------
(* The promise of the rotation, without its statements.                    *)

S == INSTANCE Sessions WITH live <- rows

\* The DELETE and the INSERT of a rotation are one step or none, whoever else
\* rotates the same token, waits for its row or fails, and a token goes out of
\* the table in no other way (auth.go:119-137).
SessionsSpec == S!Spec

=============================================================================
