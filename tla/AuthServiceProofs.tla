------------------------- MODULE AuthServiceProofs -------------------------
(***************************************************************************)
(* Proofs about AuthService, for any users, handlers and lifetime.         *)
(***************************************************************************)
EXTENDS AuthService, TLAPS

\* No token is no token.
LEMMA NoTokenFact == NoToken \notin Token
BY DEF NoToken, Token

\* A token signed now is one.
LEMMA NewFact ==
  ASSUME IInv, NEW u \in User
  PROVE  New(u) \in Token /\ New(u).user = u /\ New(u).iat = now
BY DEF IInv, TypeOK, New, Token

\* The rows of the table after an insertion.
LEMMA RowsAfter ==
  ASSUME IInv, NEW gone, NEW t \in Token, expires' = Exchanged(gone, t)
  PROVE  /\ rows' = (rows \ gone) \union {t}
         /\ expires' \in [Token -> Nat]
BY AuthAssumption DEF IInv, TypeOK, Exchanged, rows

LEMMA InitIInv == Init => IInv
<1> SUFFICES ASSUME Init PROVE IInv
  OBVIOUS
<1>1. rows = {} /\ \A h \in Handler : ~Busy(h)
  BY DEF Init, rows, Busy, NoCall
<1>2. call \in [Handler -> CallState]
  BY DEF Init, CallState, NoCall
<1>3. /\ expires \in [Token -> Nat]
      /\ stem \in [Token -> SUBSET (1..logins)]
      /\ users \subseteq User /\ used \subseteq Token
      /\ \A t \in rows : t.user \in users
  BY <1>1 DEF Init
<1>4. now \in 0..MaxNow /\ logins \in Nat
  BY AuthAssumption DEF Init
<1>5. slow \in BOOLEAN
  BY DEF Init
<1>6. TypeOK
  BY <1>2, <1>3, <1>4, <1>5 DEF TypeOK
<1> QED BY <1>1, <1>6 DEF Init, IInv, SessionKept, UsedNeverFound

-----------------------------------------------------------------------------
(* Steps that only move a handler.                                         *)

LEMMA CallStep ==
  ASSUME IInv, NEW h \in Handler, NEW c \in CallState,
         call' = [call EXCEPT ![h] = c],
         c.pc # "idle" => HandOk(c),
         UNCHANGED <<now, users, expires, logins, stem, used, slow>>
  PROVE  IInv'
<1>1. rows' = rows
  BY DEF rows
<1>2. TypeOK' /\ SessionKept' /\ UsedNeverFound'
  BY <1>1 DEF IInv, TypeOK, SessionKept, UsedNeverFound
<1>3. ASSUME NEW g \in Handler, Busy(g)' PROVE HandOk(call[g])'
  BY <1>3 DEF IInv, TypeOK, Busy, HandOk
<1> QED BY <1>1, <1>2, <1>3 DEF IInv

LEMMA LoginSignStep ==
  ASSUME IInv, NEW h \in Handler, NEW u \in User, LoginSign(h, u)
  PROVE  IInv'
<1> DEFINE c == [pc |-> "login", old |-> NoToken, new |-> New(u)]
<1>1. c \in CallState
  BY NewFact DEF CallState
<1>2. HandOk(c)
  BY NewFact DEF HandOk, LoginSign, IInv, TypeOK
<1> QED BY <1>1, <1>2, CallStep DEF LoginSign

LEMMA RefreshFindStep ==
  ASSUME IInv, NEW h \in Handler, NEW t \in Token, RefreshFind(h, t)
  PROVE  IInv'
<1> DEFINE c == [pc |-> "found", old |-> t, new |-> New(t.user)]
<1>1. t.user \in users /\ t.user \in User /\ t.iat <= now
  BY DEF RefreshFind, IInv, TypeOK
<1>2. c \in CallState
  BY <1>1, NewFact DEF CallState
<1>3. HandOk(c)
  BY <1>1, NewFact DEF HandOk, IInv, TypeOK
<1> QED BY <1>2, <1>3, CallStep DEF RefreshFind

LEMMA FailStep == ASSUME IInv, NEW h \in Handler, Fail(h) PROVE IInv'
<1>1. NoCall \in CallState /\ NoCall.pc = "idle"
  BY DEF NoCall, CallState
<1> QED BY <1>1, CallStep DEF Fail

\* Between the SELECT and the INSERT a rotation only moves on.
LEMMA RotationStep ==
  ASSUME IInv, NEW h \in Handler,
         RefreshWait(h) \/ RefreshDelete(h) \/ RefreshMiss(h)
  PROVE  IInv'
<1>1. PICK p \in {"waiting", "deleted", "missed"} :
        /\ call' = [call EXCEPT ![h].pc = p]
        /\ call[h].pc \in {"found", "waiting"}
        /\ UNCHANGED <<now, users, expires, logins, stem, used, slow>>
  BY DEF RefreshWait, RefreshDelete, RefreshMiss
<1> DEFINE c == [call[h] EXCEPT !.pc = p]
<1>2. call[h] \in CallState /\ call \in [Handler -> CallState]
  BY DEF IInv, TypeOK
<1>3. /\ c \in CallState /\ c.pc = p
      /\ c.old = call[h].old /\ c.new = call[h].new
  BY <1>2 DEF CallState
<1>4. HandOk(c)
  BY <1>1, <1>3 DEF IInv, Busy, HandOk
<1>5. call' = [call EXCEPT ![h] = c]
  BY <1>1, <1>2
<1> HIDE DEF c
<1> QED BY <1>1, <1>3, <1>4, <1>5, CallStep

-----------------------------------------------------------------------------
(* Steps that write.                                                       *)

LEMMA RegisterStep == ASSUME IInv, NEW u \in User, Register(u) PROVE IInv'
<1>1. rows' = rows
  BY DEF rows, Register
<1>2. TypeOK' /\ SessionKept' /\ UsedNeverFound'
  BY <1>1 DEF IInv, TypeOK, SessionKept, UsedNeverFound, Register
<1>3. ASSUME NEW g \in Handler, Busy(g)' PROVE HandOk(call[g])'
  BY <1>3 DEF IInv, Busy, HandOk, Register
<1> QED BY <1>1, <1>2, <1>3 DEF IInv, Register

LEMMA PassStep == ASSUME IInv, Pass PROVE IInv'
<1>1. rows' = rows
  BY DEF rows, Pass
<1>2. /\ now \in Nat /\ now' = now + 1 /\ now' \in 0..MaxNow
      /\ slow' \in BOOLEAN
      /\ ~slow' => ~slow /\ \A h \in Handler : ~Busy(h)
  <2>1. now \in Nat /\ now' = now + 1 /\ now' \in 0..MaxNow
    BY AuthAssumption DEF IInv, TypeOK, Pass
  <2>2. slow \in BOOLEAN /\ slow' = (slow \/ \E h \in Handler : Busy(h))
    BY DEF IInv, TypeOK, Pass
  <2> QED BY <2>1, <2>2, Zenon
<1>3. TypeOK' /\ SessionKept' /\ UsedNeverFound'
  BY <1>1, <1>2 DEF IInv, TypeOK, SessionKept, UsedNeverFound, Pass
<1>4. \A t \in Token : t.iat \in Nat
  BY AuthAssumption DEF Token
<1>5. (\A t \in rows : t.iat <= now)' /\ (~slow => \A t \in used : t.iat < now)'
  BY <1>1, <1>2, <1>4 DEF IInv, TypeOK, Pass, rows
<1>6. ASSUME NEW g \in Handler, Busy(g)' PROVE HandOk(call[g])'
  <2>1. Busy(g) /\ HandOk(call[g]) /\ call' = call /\ users' = users
    BY <1>6 DEF Busy, IInv, Pass
  <2> QED BY <2>1, <1>2, <1>4 DEF HandOk
<1> QED BY <1>3, <1>5, <1>6 DEF IInv

\* A token t takes the place of the tokens in gone, and with it the logins they
\* stem from.
LEMMA InsertStep ==
  ASSUME IInv, NEW gone \in SUBSET Token, NEW t \in Token, NEW s,
         t.user \in users, t.iat <= now, ~slow => t.iat = now,
         ~slow => \A r \in gone : r = t \/ r.iat < now,
         expires' = Exchanged(gone, t),
         used' = used \union (gone \ {t}),
         stem' = [stem EXCEPT ![t] = @ \union s],
         \A r \in gone : stem[r] \subseteq s,
         logins' \in Nat, logins <= logins', s \subseteq 1..logins',
         (1..logins') \ (1..logins) \subseteq s,
         call' \in [Handler -> CallState],
         \A g \in Handler : Busy(g)' =>
           /\ Busy(g) /\ (call[g].pc = "login" <=> call'[g].pc = "login")
           /\ call'[g].old = call[g].old /\ call'[g].new = call[g].new,
         UNCHANGED <<now, users, slow>>
  PROVE  IInv'
<1>1. rows' = (rows \ gone) \union {t} /\ expires' \in [Token -> Nat]
  BY RowsAfter
<1>2. /\ stem' \in [Token -> SUBSET (1..logins')]
      /\ stem'[t] = stem[t] \union s
      /\ \A r \in Token : stem[r] \subseteq stem'[r]
  <2>1. /\ stem \in [Token -> SUBSET (1..logins)]
        /\ logins \in Nat
    BY DEF IInv, TypeOK
  <2>2. (1..logins) \subseteq 1..logins'
    BY <2>1
  <2>3. stem[t] \union s \subseteq 1..logins'
    BY <2>1, <2>2
  <2> QED BY <2>1, <2>2, <2>3
<1>3. TypeOK'
  <2>1. \A r \in rows' : r.user \in users'
    BY <1>1 DEF IInv, TypeOK
  <2>2. used' \subseteq Token /\ slow' \in BOOLEAN
    BY DEF IInv, TypeOK
  <2>3. now' \in 0..MaxNow /\ users' \subseteq User
    BY DEF IInv, TypeOK
  <2> QED BY <2>1, <2>2, <2>3, <1>1, <1>2 DEF TypeOK
<1>4. SessionKept'
  <2> SUFFICES ASSUME NEW login \in 1..logins'
               PROVE  \E r \in rows' : login \in stem'[r]
    BY DEF SessionKept
  <2>1. CASE login \in s
    BY <2>1, <1>1, <1>2
  <2>2. CASE login \notin s
    <3>1. PICK r \in rows : login \in stem[r]
      BY <2>2 DEF IInv, SessionKept
    <3>2. r \in Token /\ r \notin gone
      BY <3>1, <2>2 DEF rows
    <3> QED BY <3>1, <3>2, <1>1, <1>2
  <2> QED BY <2>1, <2>2
<1>5. ~slow => \A r \in used' : r.iat < now
  BY DEF IInv
<1>6. UsedNeverFound'
  <2> SUFFICES ASSUME ~slow, NEW r \in used', r \in rows' PROVE FALSE
    BY DEF UsedNeverFound
  <2>1. r \in Token /\ r.iat < now /\ now \in Int
    BY <1>5, <1>3 DEF TypeOK, IInv
  <2>2. r # t
    BY <2>1
  <2> QED BY <2>2, <1>1 DEF IInv, UsedNeverFound
<1>7. \A r \in rows' : r.iat <= now
  BY <1>1 DEF IInv
<1>8. ASSUME NEW g \in Handler, Busy(g)' PROVE HandOk(call[g])'
  BY <1>8 DEF IInv, HandOk, Busy
<1> QED BY <1>3, <1>4, <1>5, <1>6, <1>7, <1>8 DEF IInv

LEMMA LoginInsertStep ==
  ASSUME IInv, NEW h \in Handler, LoginInsert(h) PROVE IInv'
<1> DEFINE t == call[h].new
           gone == {}
           s == {logins'}
<1>1. /\ t \in Token /\ t.user \in users /\ t.iat <= now
      /\ ~slow => t.iat = now
      /\ expires' = Exchanged(gone, t)
      /\ logins' = logins + 1
      /\ stem' = [stem EXCEPT ![t] = @ \union s]
      /\ call' = [call EXCEPT ![h] = NoCall]
      /\ UNCHANGED <<now, users, used, slow>>
  BY DEF LoginInsert, IInv, Busy, HandOk
<1>2. logins \in Nat /\ call \in [Handler -> CallState]
  BY DEF IInv, TypeOK
<1>3. /\ logins' \in Nat /\ logins <= logins'
      /\ s \subseteq 1..logins'
      /\ (1..logins') \ (1..logins) \subseteq s
  BY <1>1, <1>2
<1>4. NoCall \in CallState /\ NoCall.pc = "idle"
  BY DEF NoCall, CallState
<1>5. call' \in [Handler -> CallState]
  BY <1>1, <1>2, <1>4
<1>6. \A g \in Handler : Busy(g)' =>
        /\ Busy(g) /\ (call[g].pc = "login" <=> call'[g].pc = "login")
        /\ call'[g].old = call[g].old /\ call'[g].new = call[g].new
  BY <1>1, <1>2, <1>4 DEF Busy
<1>7. used' = used \union (gone \ {t})
  BY <1>1
<1>8. /\ gone \in SUBSET Token
      /\ \A r \in gone : stem[r] \subseteq s
      /\ ~slow => \A r \in gone : r = t \/ r.iat < now
  OBVIOUS
<1> HIDE DEF t, gone, s
<1> QED BY <1>1, <1>3, <1>5, <1>6, <1>7, <1>8, InsertStep

LEMMA RefreshCommitStep ==
  ASSUME IInv, NEW h \in Handler, RefreshCommit(h) PROVE IInv'
<1> DEFINE old == call[h].old
           t == call[h].new
           gone == Deleted(h)
<1>1. /\ t \in Token /\ t.user \in users /\ t.iat <= now
      /\ ~slow => t.iat = now
      /\ old \in Token /\ old.user = t.user /\ old.iat <= now
      /\ gone \subseteq {old}
  BY DEF RefreshCommit, IInv, Busy, HandOk, Deleted
<1>2. /\ expires' = Exchanged(gone, t)
      /\ stem' = [stem EXCEPT ![t] = @ \union stem[old]]
      /\ used' = used \union (gone \ {t})
      /\ call' = Released(h)
      /\ UNCHANGED <<now, users, logins, slow>>
  BY DEF RefreshCommit
<1>3. ~slow => old = t \/ old.iat < now
  BY <1>1, AuthAssumption DEF IInv, TypeOK, Token
<1>4. logins \in Nat /\ call \in [Handler -> CallState] /\ stem[old] \subseteq 1..logins
  BY <1>1 DEF IInv, TypeOK
<1>5. NoCall \in CallState /\ NoCall.pc = "idle"
  BY DEF NoCall, CallState
<1>6. ASSUME NEW g \in Handler
      PROVE  /\ call'[g] \in CallState
             /\ Busy(g)' =>
                  /\ Busy(g) /\ (call[g].pc = "login" <=> call'[g].pc = "login")
                  /\ call'[g].old = call[g].old /\ call'[g].new = call[g].new
  <2>1. CASE g = h
    BY <2>1, <1>2, <1>5 DEF Released, Busy
  <2>2. CASE g # h /\ call'[g] = call[g]
    BY <2>2, <1>4 DEF Busy
  <2>3. CASE /\ g # h /\ call[g].pc = "waiting"
             /\ call'[g] = [call[g] EXCEPT !.pc = "missed"]
    BY <2>3, <1>4 DEF Busy, CallState
  <2> QED BY <2>1, <2>2, <2>3, <1>2 DEF Released
<1>7. call' \in [Handler -> CallState]
  BY <1>2, <1>6 DEF Released
<1> HIDE DEF old, t, gone
<1>8. /\ gone \in SUBSET Token
      /\ ~slow => \A r \in gone : r = t \/ r.iat < now
      /\ \A r \in gone : stem[r] \subseteq stem[old]
      /\ logins' \in Nat /\ logins <= logins'
      /\ stem[old] \subseteq 1..logins' /\ (1..logins') \ (1..logins) \subseteq stem[old]
  BY <1>1, <1>2, <1>3, <1>4
<1> QED BY <1>1, <1>2, <1>6, <1>7, <1>8, InsertStep

-----------------------------------------------------------------------------

LEMMA NextIInv == IInv /\ [Next]_vars => IInv'
<1> SUFFICES ASSUME IInv, [Next]_vars PROVE IInv'
  OBVIOUS
<1>1. ASSUME NEW u \in User, Register(u) PROVE IInv'
  BY <1>1, RegisterStep
<1>2. ASSUME NEW h \in Handler, Handle(h) PROVE IInv'
  BY <1>2, LoginSignStep, LoginInsertStep, RefreshFindStep, RotationStep,
     RefreshCommitStep, FailStep
  DEF Handle
<1>3. CASE Pass
  BY <1>3, PassStep
<1>4. CASE UNCHANGED vars
  BY <1>4
  DEF vars, IInv, TypeOK, SessionKept, UsedNeverFound, rows, Busy, HandOk
<1> QED BY <1>1, <1>2, <1>3, <1>4 DEF Next

\* The invariant holds in every state of a run of the server.
THEOREM Invariant == Spec => []IInv
BY InitIInv, NextIInv, PTL DEF Spec

\* Type correctness: only registered users ever have tokens in the table
\* (001_init.sql:10, auth.go:37-70).
THEOREM TypeCorrect == Spec => []TypeOK
<1>1. IInv => TypeOK
  BY DEF IInv
<1> QED BY <1>1, Invariant, PTL

\* However the rotations of any number of handlers overlap or fail, no login is
\* left without a token in the table (auth.go:119-137).
THEOREM SessionKeptHolds == Spec => []SessionKept
<1>1. IInv => SessionKept
  BY DEF IInv
<1> QED BY <1>1, Invariant, PTL

\* As long as tokens are inserted in the second in which they are signed, no
\* token that was exchanged is found again (auth.go:101-107, 126).
THEOREM UsedNeverFoundHolds == Spec => []UsedNeverFound
<1>1. IInv => UsedNeverFound
  BY DEF IInv
<1> QED BY <1>1, Invariant, PTL

-----------------------------------------------------------------------------
(* The rotation is one step: AuthService implements Sessions.              *)

\* Only handler h moves: what it has deleted afterwards nobody else has, and
\* what the others have deleted stays in the table.
LEMMA DeletedStep ==
  ASSUME DeletedOk, NEW h \in Handler,
         \A t \in Token : stem[t] \subseteq stem'[t],
         \A t \in rows' : stem'[t] # {},
         \A g \in Handler : Busy(g)' /\ call'[g].pc # "login" =>
           \/ stem'[call'[g].old] # {}
           \/ /\ Busy(g) /\ call[g].pc # "login"
              /\ call'[g].old = call[g].old /\ call[g].old \in Token,
         \A g \in Handler \ {h} : Deleted(g)' = Deleted(g) /\ Deleted(g) \subseteq rows',
         Deleted(h)' \subseteq rows',
         \A g \in Handler \ {h} : Deleted(h)' \intersect Deleted(g) = {}
  PROVE  DeletedOk'
<1>1. ASSUME NEW g \in Handler, Busy(g)', call'[g].pc # "login"
      PROVE  stem'[call'[g].old] # {}
  BY <1>1 DEF DeletedOk
<1>2. \A g \in Handler : Deleted(g)' \subseteq rows'
  OBVIOUS
<1>3. ASSUME NEW f \in Handler, NEW g \in Handler, f # g
      PROVE  Deleted(f)' \intersect Deleted(g)' = {}
  BY <1>3 DEF DeletedOk
<1> QED BY <1>1, <1>2, <1>3 DEF DeletedOk

\* The statements before the INSERT change no table.
LEMMA MoveKeepsDeleted ==
  ASSUME IInv, DeletedOk, NEW h \in Handler,
         \/ \E u \in User : LoginSign(h, u)
         \/ \E t \in Token : RefreshFind(h, t)
         \/ RefreshWait(h) \/ RefreshDelete(h) \/ RefreshMiss(h) \/ Fail(h)
  PROVE  DeletedOk'
<1> DEFINE Moves(c) ==
      /\ call' = [call EXCEPT ![h] = c]
      /\ c.pc \notin {"idle", "login"} =>
           \/ c.old \in rows
           \/ Busy(h) /\ call[h].pc # "login" /\ c.old = call[h].old
      /\ c.pc = "deleted" => c.old \in rows /\ ~Locked(c.old)
      /\ UNCHANGED <<expires, stem>>
<1>1. \E c \in CallState : Moves(c)
  <2>1. ASSUME NEW u \in User, LoginSign(h, u) PROVE \E c \in CallState : Moves(c)
    <3> DEFINE c == [pc |-> "login", old |-> NoToken, new |-> New(u)]
    <3>1. c \in CallState /\ c.pc = "login"
      BY NewFact DEF CallState
    <3>2. Moves(c)
      BY <2>1, <3>1 DEF LoginSign
    <3> QED BY <3>1, <3>2
  <2>2. ASSUME NEW t \in Token, RefreshFind(h, t) PROVE \E c \in CallState : Moves(c)
    <3> DEFINE c == [pc |-> "found", old |-> t, new |-> New(t.user)]
    <3>1. t.user \in User
      BY <2>2 DEF RefreshFind, IInv, TypeOK
    <3>2. c \in CallState /\ c.pc = "found" /\ c.old = t
      BY <3>1, NewFact DEF CallState
    <3>3. Moves(c)
      BY <2>2, <3>2 DEF RefreshFind
    <3> QED BY <3>2, <3>3
  <2>3. CASE RefreshWait(h) \/ RefreshDelete(h) \/ RefreshMiss(h)
    <3>1. call[h] \in CallState /\ call \in [Handler -> CallState]
      BY DEF IInv, TypeOK
    <3>2. PICK p \in {"waiting", "deleted", "missed"} :
            /\ call' = [call EXCEPT ![h].pc = p]
            /\ call[h].pc \in {"found", "waiting"}
            /\ p = "deleted" => call[h].old \in rows /\ ~Locked(call[h].old)
            /\ UNCHANGED <<expires, stem>>
      BY <2>3 DEF RefreshWait, RefreshDelete, RefreshMiss
    <3> DEFINE c == [call[h] EXCEPT !.pc = p]
    <3>3. /\ c \in CallState /\ c.old = call[h].old /\ c.pc = p
          /\ call' = [call EXCEPT ![h] = c]
      BY <3>1, <3>2 DEF CallState
    <3> HIDE DEF c
    <3>4. Moves(c)
      BY <3>2, <3>3 DEF Busy
    <3> QED BY <3>3, <3>4
  <2>4. CASE Fail(h)
    <3>1. NoCall \in CallState /\ NoCall.pc = "idle"
      BY DEF NoCall, CallState
    <3>2. Moves(NoCall)
      BY <2>4, <3>1 DEF Fail
    <3> QED BY <3>1, <3>2
  <2> QED BY <2>1, <2>2, <2>3, <2>4
<1> PICK c \in CallState : Moves(c)
  BY <1>1
<1>2. rows' = rows
  BY DEF rows
<1>3. call \in [Handler -> CallState]
  BY DEF IInv, TypeOK
<1>4. call'[h] = c /\ \A g \in Handler \ {h} : call'[g] = call[g]
  BY <1>3
<1>5. ASSUME NEW g \in Handler, Busy(g)', call'[g].pc # "login"
      PROVE  stem'[call'[g].old] # {}
  BY <1>4, <1>5 DEF DeletedOk, Busy
<1>6. \A g \in Handler \ {h} : Deleted(g)' = Deleted(g)
  BY <1>4 DEF Deleted
<1>7. Deleted(h)' \subseteq rows
  BY <1>4 DEF Deleted
<1>8. ASSUME NEW g \in Handler \ {h} PROVE Deleted(h)' \intersect Deleted(g) = {}
  BY <1>4 DEF Deleted, Locked
<1> QED BY <1>2, <1>5, <1>6, <1>7, <1>8, DeletedStep DEF DeletedOk

LEMMA InsertKeepsDeleted ==
  ASSUME IInv, DeletedOk, NEW h \in Handler, LoginInsert(h)
  PROVE  DeletedOk'
<1> DEFINE t == call[h].new
<1>1. /\ t \in Token /\ expires' = Exchanged({}, t)
      /\ stem' = [stem EXCEPT ![t] = @ \union {logins'}]
      /\ call' = [call EXCEPT ![h] = NoCall]
  BY DEF LoginInsert, IInv, Busy, HandOk
<1>2. rows' = rows \union {t}
  BY <1>1, RowsAfter
<1>3. /\ call \in [Handler -> CallState]
      /\ stem \in [Token -> SUBSET (1..logins)]
  BY DEF IInv, TypeOK
<1> HIDE DEF t
<1>4. NoCall.pc = "idle"
  BY DEF NoCall
<1>5. call'[h] = NoCall /\ \A g \in Handler \ {h} : call'[g] = call[g]
  BY <1>1, <1>3
<1>6. Deleted(h)' = {} /\ \A g \in Handler \ {h} : Deleted(g)' = Deleted(g)
  BY <1>4, <1>5 DEF Deleted
<1>7. \A r \in Token : stem[r] \subseteq stem'[r] /\ (r = t => stem'[r] # {})
  BY <1>1, <1>3
<1>8. \A r \in rows' : stem'[r] # {}
  BY <1>2, <1>7 DEF DeletedOk, rows
<1>9. ASSUME NEW g \in Handler, Busy(g)', call'[g].pc # "login"
      PROVE  /\ Busy(g) /\ call[g].pc # "login"
             /\ call'[g].old = call[g].old /\ call[g].old \in Token
  BY <1>4, <1>5, <1>9 DEF Busy, IInv, HandOk
<1> QED BY <1>2, <1>6, <1>7, <1>8, <1>9, DeletedStep DEF DeletedOk

LEMMA CommitKeepsDeleted ==
  ASSUME IInv, DeletedOk, NEW h \in Handler, RefreshCommit(h)
  PROVE  DeletedOk'
<1> DEFINE t == call[h].new
           old == call[h].old
<1>1. /\ t \in Token /\ old \in Token /\ stem[old] # {}
      /\ expires' = Exchanged(Deleted(h), t)
      /\ stem' = [stem EXCEPT ![t] = @ \union stem[old]]
      /\ call' = Released(h)
  BY DEF RefreshCommit, IInv, Busy, HandOk, DeletedOk
<1>2. rows' = (rows \ Deleted(h)) \union {t}
  BY <1>1, RowsAfter
<1>3. /\ call \in [Handler -> CallState]
      /\ stem \in [Token -> SUBSET (1..logins)]
  BY DEF IInv, TypeOK
<1> HIDE DEF t, old
<1>4. NoCall.pc = "idle"
  BY DEF NoCall
<1>5. call'[h] = NoCall
  BY <1>1 DEF Released
<1>6. ASSUME NEW g \in Handler \ {h}
      PROVE  /\ call'[g].old = call[g].old
             /\ Busy(g)' = Busy(g)
             /\ (call'[g].pc = "login") = (call[g].pc = "login")
             /\ Deleted(g)' = Deleted(g)
  <2>1. CASE call'[g] = call[g]
    BY <2>1 DEF Busy, Deleted
  <2>2. CASE call[g].pc = "waiting" /\ call'[g] = [call[g] EXCEPT !.pc = "missed"]
    <3>1. call'[g].pc = "missed" /\ call'[g].old = call[g].old
      BY <2>2, <1>3 DEF CallState
    <3> QED BY <2>2, <3>1 DEF Busy, Deleted
  <2> QED BY <2>1, <2>2, <1>1 DEF Released
<1>7. Deleted(h)' = {} /\ \A g \in Handler \ {h} : Deleted(g) \subseteq rows'
  BY <1>2, <1>4, <1>5 DEF Deleted, DeletedOk
<1>8. \A r \in Token : stem[r] \subseteq stem'[r] /\ (r = t => stem'[r] # {})
  BY <1>1, <1>3
<1>9. \A r \in rows' : stem'[r] # {}
  BY <1>2, <1>8 DEF DeletedOk, rows
<1>10. ASSUME NEW g \in Handler, Busy(g)', call'[g].pc # "login"
       PROVE  /\ Busy(g) /\ call[g].pc # "login"
              /\ call'[g].old = call[g].old /\ call[g].old \in Token
  <2>1. g # h
    BY <1>4, <1>5, <1>10 DEF Busy
  <2> QED BY <2>1, <1>6, <1>10 DEF IInv, HandOk
<1> QED BY <1>6, <1>7, <1>8, <1>9, <1>10, DeletedStep

LEMMA DeletedNext == IInv /\ DeletedOk /\ [Next]_vars => DeletedOk'
<1> SUFFICES ASSUME IInv, DeletedOk, [Next]_vars PROVE DeletedOk'
  OBVIOUS
<1>1. ASSUME NEW h \in Handler, Handle(h) PROVE DeletedOk'
  BY <1>1, MoveKeepsDeleted, InsertKeepsDeleted, CommitKeepsDeleted DEF Handle
<1>2. CASE (\E u \in User : Register(u)) \/ Pass \/ UNCHANGED vars
  <2>1. UNCHANGED <<expires, call, stem>>
    BY <1>2 DEF Register, Pass, vars
  <2> QED BY <2>1 DEF DeletedOk, rows, Busy, Deleted
<1> QED BY <1>1, <1>2 DEF Next

\* A transaction's rows are its own, for any number of handlers.
LEMMA DeletedInvariant == Spec => []DeletedOk
<1>1. Init => DeletedOk
  <2> SUFFICES ASSUME Init PROVE DeletedOk
    OBVIOUS
  <2>1. rows = {} /\ \A h \in Handler : ~Busy(h) /\ Deleted(h) = {}
    BY DEF Init, rows, Busy, Deleted, NoCall
  <2> QED BY <2>1 DEF DeletedOk
<1> QED BY <1>1, DeletedNext, Invariant, PTL DEF Spec

\* An INSERT ends a login, an exchange or a late exchange; nothing else touches
\* the tables.
LEMMA LoginIsOneStep ==
  ASSUME IInv, NEW h \in Handler, LoginInsert(h)
  PROVE  S!Next
<1> DEFINE t == call[h].new
<1>1. t \in Token /\ t.user \in users
  BY DEF LoginInsert, IInv, Busy, HandOk
<1>2. rows' = rows \union {t}
  BY <1>1, RowsAfter DEF LoginInsert
<1>3. S!LogIn(t)
  BY <1>1, <1>2 DEF LoginInsert, S!LogIn
<1> QED BY <1>1, <1>3 DEF S!Next

LEMMA CommitIsOneStep ==
  ASSUME IInv, DeletedOk, NEW h \in Handler, RefreshCommit(h)
  PROVE  S!Next
<1> DEFINE old == call[h].old
           new == call[h].new
<1>1. /\ old \in Token /\ new \in Token /\ old.user = new.user
      /\ stem[old] # {} /\ Deleted(h) \subseteq rows
  BY DEF RefreshCommit, IInv, Busy, HandOk, DeletedOk
<1>2. rows' = (rows \ Deleted(h)) \union {new}
  BY <1>1, RowsAfter DEF RefreshCommit
<1>3. S!Succeed(old, new)
  BY <1>1 DEF RefreshCommit, S!Succeed
<1>4. CASE call[h].pc = "deleted"
  <2>1. Deleted(h) = {old}
    BY <1>4 DEF Deleted
  <2>2. S!Exchange(old, new)
    BY <1>1, <1>2, <1>3, <2>1 DEF RefreshCommit, S!Exchange
  <2> QED BY <1>1, <2>2 DEF S!Next
<1>5. CASE call[h].pc = "missed"
  <2>1. Deleted(h) = {}
    BY <1>5 DEF Deleted
  <2>2. S!ExchangeLate(old, new)
    BY <1>2, <1>3, <2>1 DEF RefreshCommit, S!ExchangeLate
  <2> QED BY <1>1, <2>2 DEF S!Next
<1> QED BY <1>4, <1>5 DEF RefreshCommit

LEMMA SessionsStep == IInv /\ DeletedOk /\ [Next]_vars => [S!Next]_(S!vars)
<1> SUFFICES ASSUME IInv, DeletedOk, [Next]_vars PROVE [S!Next]_(S!vars)
  OBVIOUS
<1>1. ASSUME NEW u \in User, Register(u) PROVE S!Next
  <2>1. rows' = rows
    BY <1>1 DEF Register, rows
  <2> QED BY <1>1, <2>1 DEF Register, S!Register, S!Next
<1>2. ASSUME NEW h \in Handler, Handle(h) PROVE S!Next \/ UNCHANGED S!vars
  <2>1. CASE LoginInsert(h)
    BY <2>1, LoginIsOneStep
  <2>2. CASE RefreshCommit(h)
    BY <2>2, CommitIsOneStep
  <2>3. CASE UNCHANGED <<users, expires, logins, stem, used>>
    <3>1. rows' = rows
      BY <2>3 DEF rows
    <3> QED BY <2>3, <3>1 DEF S!vars
  <2> QED BY <1>2, <2>1, <2>2, <2>3
    DEF Handle, LoginSign, RefreshFind, RefreshWait, RefreshDelete, RefreshMiss, Fail
<1>3. CASE Pass \/ UNCHANGED vars
  <2>1. UNCHANGED <<users, expires, logins, stem, used>>
    BY <1>3 DEF Pass, vars
  <2>2. rows' = rows
    BY <2>1 DEF rows
  <2> QED BY <2>1, <2>2 DEF S!vars
<1> QED BY <1>1, <1>2, <1>3 DEF Next

\* The rotation is one step for whoever looks at the tables, however many
\* handlers rotate, wait for each other's rows, fail or die in the middle
\* (auth.go:119-137).
THEOREM ImplementsSessions == Spec => SessionsSpec
<1>1. Init => S!Init
  <2>1. Init => rows = {}
    BY DEF Init, rows
  <2> QED BY <2>1 DEF Init, S!Init
<1> QED BY <1>1, SessionsStep, Invariant, DeletedInvariant, PTL DEF Spec, S!Spec, SessionsSpec

=============================================================================
