------------------------------ MODULE Session ------------------------------
(***************************************************************************)
(* The programs of one machine up to the moment they have a session: the   *)
(* commands of cmd/client/main.go, the logins of internal/tui/components.go*)
(* (handleAuth), the session file of internal/client/session/session.go    *)
(* and the lock of the Bolt file (internal/client/store/store.go).         *)
(*                                                                         *)
(* A client is one run of a command, or one goroutine of the text UI that  *)
(* logs in; Tui has the screens that start those.  Both log in alike: the  *)
(* server's answer, the store, the session file, a first sync.  A command  *)
(* that ends gives the store back; a login of the text UI keeps it until   *)
(* the program ends, or until its file is collected after a failure.       *)
(***************************************************************************)

CONSTANTS Cli,          \* runs of the command line client
          Attempt,      \* logins of the text UI
          Password,     \* what users type
          None          \* no client, no password, no file

Client == Cli \union Attempt

ASSUME SessionAssumption ==
  /\ Cli \intersect Attempt = {}
  /\ None \notin Client \union Password

VARIABLES account,      \* the server's user: the password its secret is under
          file,         \* session.enc
          lock,         \* the client that has the Bolt file open
          stage,        \* where each client is
          typed,        \* the password each client was given
          cut           \* history: was the last write of the file broken off?

sessionVars == <<account, file, lock, stage, typed, cut>>

\* register, login: before the call.  open: before NewStore.  save, write: before
\* and inside the write of the file.  sync: the first FullSync.  load: before
\* Load.  done, failed: it has ended, or its answer waits for the text UI.
\* in: the text UI has taken the login over.  gone: it is no more.
Working == {"register", "login", "open", "save", "write", "sync", "load"}

Stage == Working \union {"idle", "done", "failed", "in", "gone"}

\* The keys are derived from different things: the secret of the account with the
\* password when the file is written, the password alone when it is read.
SaveKey(p) == [from |-> "secret and password", password |-> p]

LoadKey(p) == [from |-> "password", password |-> p]

NoFile == [by |-> None, key |-> [from |-> "no file", password |-> None]]

Torn == [by |-> None, key |-> [from |-> "half a file", password |-> None]]

Saved == [by : Client, key : {SaveKey(p) : p \in Password}]

\* A client goes on.
GoOn(c, s) == stage' = [stage EXCEPT ![c] = s] /\ UNCHANGED lock

\* Mutant: a command that fails does not return.
EndUnlessFailed(c, s) ==
  /\ stage' = [stage EXCEPT ![c] = s]
  /\ lock' = IF c \in Cli /\ lock = c /\ s # "failed" THEN None ELSE lock

\* A client ends.  The end of a command's process closes the store; the text UI
\* closes it nowhere.
End(c, s) ==
  /\ stage' = [stage EXCEPT ![c] = s]
  /\ lock' = IF c \in Cli /\ lock = c THEN None ELSE lock

SessionInit ==
  /\ account \in Password \union {None}
  /\ file = NoFile
  /\ lock = None
  /\ stage = [c \in Client |-> "idle"]
  /\ typed = [c \in Client |-> None]
  /\ cut = FALSE

\* A client starts with the password its user has typed.
Begin(c, s, p) ==
  /\ stage[c] = "idle"
  /\ GoOn(c, s)
  /\ typed' = [typed EXCEPT ![c] = p]
  /\ UNCHANGED <<account, file, cut>>

CliRegister(c) == \E p \in Password : Begin(c, "register", p)

CliLogin(c) == \E p \in Password : Begin(c, "login", p)

CliUse(c) == \E p \in Password : Begin(c, "load", p)

\* The secret is encrypted under the password.  A registration in the text UI goes
\* on with the login.
Register(c) ==
  /\ stage[c] = "register"
  /\ account = None
  /\ account' = typed[c]
  /\ GoOn(c, IF c \in Attempt THEN "login" ELSE "done")
  /\ UNCHANGED <<file, typed, cut>>

\* The login is taken, the server does not answer or refuses the call; or it has
\* registered the user and the answer is lost.
RegisterFail(c) ==
  /\ stage[c] = "register"
  /\ account' = account \/ (account = None /\ account' = typed[c])
  /\ End(c, "failed")
  /\ UNCHANGED <<file, typed, cut>>

\* Mutant: the session is saved before the store is opened.
LoginSavesFirst(c) ==
  /\ stage[c] = "login"
  /\ account = typed[c]
  /\ GoOn(c, "save")
  /\ UNCHANGED <<account, file, typed, cut>>

\* The server hands out tokens to anyone; it is the secret that opens only with
\* the password it was registered under.
Login(c) ==
  /\ stage[c] = "login"
  /\ account = typed[c]
  /\ GoOn(c, "open")
  /\ UNCHANGED <<account, file, typed, cut>>

\* No answer, no such user, a refused call, or the wrong password.
LoginFail(c) ==
  /\ stage[c] = "login"
  /\ End(c, "failed")
  /\ UNCHANGED <<account, file, typed, cut>>

\* Mutant: the store is opened though another program has it.
OpenStoreUnlocked(c) ==
  /\ stage[c] = "open"
  /\ lock' = c
  /\ stage' = [stage EXCEPT ![c] = "save"]
  /\ UNCHANGED <<account, file, typed, cut>>

\* bbolt.Open without a timeout waits until the file is free.
OpenStore(c) ==
  /\ stage[c] = "open"
  /\ lock = None
  /\ lock' = c
  /\ stage' = [stage EXCEPT ![c] = "save"]
  /\ UNCHANGED <<account, file, typed, cut>>

OpenStoreFail(c) ==
  /\ stage[c] = "open"
  /\ End(c, "failed")
  /\ UNCHANGED <<account, file, typed, cut>>

\* Mutant: a part of the file counts as a session.
SaveTruncateSome(c) ==
  /\ stage[c] = "save"
  /\ file' = [by |-> c, key |-> Torn.key]
  /\ GoOn(c, "write")
  /\ UNCHANGED <<account, typed, cut>>

\* os.WriteFile truncates the file that is there, and then writes.
SaveTruncate(c) ==
  /\ stage[c] = "save"
  /\ file' = Torn
  /\ GoOn(c, "write")
  /\ UNCHANGED <<account, typed, cut>>

SaveWrite(c) ==
  /\ stage[c] = "write"
  /\ file' = [by |-> c, key |-> SaveKey(typed[c])]
  /\ cut' = FALSE
  /\ GoOn(c, "sync")
  /\ UNCHANGED <<account, typed>>

\* The file can not be opened, or not be written to the end.
SaveFail(c) ==
  /\ stage[c] \in {"save", "write"}
  /\ cut' = (cut \/ stage[c] = "write")
  /\ End(c, "failed")
  /\ UNCHANGED <<account, file, typed>>

\* Whatever comes of the first sync, the login has succeeded.
FirstSync(c) ==
  /\ stage[c] = "sync"
  /\ End(c, "done")
  /\ UNCHANGED <<account, file, typed, cut>>

\* requireSession reads the file before it opens the store.  No file that a login has
\* saved opens, so what follows it is never reached.
Load(c) ==
  /\ stage[c] = "load"
  /\ End(c, IF file \in Saved /\ file.key = LoadKey(typed[c]) THEN "done" ELSE "failed")
  /\ UNCHANGED <<account, file, typed, cut>>

\* A command is killed.
Kill(c) ==
  /\ stage[c] \in Working
  /\ cut' = (cut \/ stage[c] = "write")
  /\ End(c, "gone")
  /\ UNCHANGED <<account, file, typed>>

\* The text UI ends, and with it its goroutines.
KillAttempts ==
  /\ stage' = [c \in Client |-> IF c \in Attempt THEN "gone" ELSE stage[c]]
  /\ lock' = IF lock \in Attempt THEN None ELSE lock
  /\ cut' = (cut \/ \E a \in Attempt : stage[a] = "write")
  /\ UNCHANGED <<account, file, typed>>

\* A login that fails behind NewStore drops its store without a Close.  The garbage
\* collector closes the file of a store that nothing holds, and with it the lock.
Collect(a) ==
  /\ stage[a] \in {"failed", "gone"}
  /\ lock = a
  /\ lock' = None
  /\ UNCHANGED <<account, file, stage, typed, cut>>

\* What a client does once it has started, if its calls return.
Proceed(c) ==
  \/ Register(c) \/ RegisterFail(c) \/ Login(c) \/ LoginFail(c) \/ OpenStore(c)
  \/ SaveTruncate(c) \/ SaveWrite(c) \/ SaveFail(c) \/ FirstSync(c) \/ Load(c)

ClientStep(c) == Proceed(c) \/ OpenStoreFail(c)

\* The text UI starts a login or a registration.
TuiStart(a, s, p) == s \in {"login", "register"} /\ Begin(a, s, p)

\* It takes the store and the session over, or learns of the failure.
TuiTake(a) ==
  /\ \/ stage[a] = "done" /\ GoOn(a, "in")
     \/ stage[a] = "failed" /\ GoOn(a, "gone")
  /\ UNCHANGED <<account, file, typed, cut>>

CliStart(c) == CliRegister(c) \/ CliLogin(c) \/ CliUse(c)

SessionNext ==
  \/ \E c \in Client : ClientStep(c)
  \/ \E c \in Cli : CliStart(c) \/ Kill(c)
  \/ \E a \in Attempt :
       TuiTake(a) \/ Collect(a) \/ \E s \in {"login", "register"}, p \in Password : TuiStart(a, s, p)
  \/ KillAttempts

SessionSpec == SessionInit /\ [][SessionNext]_sessionVars

\* A command is scheduled, and its calls return: the server's within a limit of time, the
\* store's and the file's at once, but the wait for the store, which nothing limits.  No
\* such limit ends the registration of a text UI (components.go:694), so its logins get
\* no fairness.
FairSession == SessionSpec /\ \A c \in Cli : WF_sessionVars(Proceed(c))

-----------------------------------------------------------------------------
(* Properties.                                                             *)

SessionTypeOK ==
  /\ account \in Password \union {None}
  /\ file \in Saved \union {NoFile, Torn}
  /\ lock \in Client \union {None}
  /\ stage \in [Client -> Stage]
  /\ typed \in [Client -> Password \union {None}]
  /\ cut \in BOOLEAN

\* From NewStore on a login has the store; a login of the text UI keeps it.
Holding(c) ==
  stage[c] \in {"save", "write", "sync", "in"} \/ (stage[c] = "done" /\ c \in Attempt)

\* The client that has the store open has written its session before it goes on,
\* and nobody has written another one since: the file is always the session of
\* the program that works with the store.  It rests on the order of NewStore and
\* Save in both logins (main.go:172-181, components.go:720-733).
FileOfHolder ==
  \A c \in Client :
    stage[c] \in {"sync", "in"} \/ (stage[c] = "done" /\ c \in Attempt) =>
      /\ lock = c
      /\ file = [by |-> c, key |-> SaveKey(typed[c])]

\* Half a session file is one that is being written, by the client that has the
\* store, or one whose writer died or failed (session.go:54).
FileWhole ==
  /\ file = Torn => cut \/ \E c \in Client : lock = c /\ stage[c] = "write"
  /\ \A c \in Client : stage[c] = "write" => file = Torn

\* No client leaves the store shut behind it: whoever has it works with it, or is a
\* login of the text UI that failed and whose file is not collected yet
\* (main.go:172-195, components.go:720-740).
StoreInUse ==
  lock # None =>
    Holding(lock) \/ (lock \in Attempt /\ stage[lock] \in {"failed", "gone"})

\* The session of a login that ended well opens with the password of that login
\* (main.go:192: "Logged in successfully. Session saved.").
LoginThenLoad ==
  [][\A c \in Client :
       stage[c] = "load" /\ stage'[c] = "failed" =>
         ~(file \in Saved /\ stage[file.by] = "done" /\ typed[file.by] = typed[c])]_sessionVars

\* A command returns, unless the text UI keeps the store for ever: no way out of a
\* command leaves the lock behind (main.go:133-195).
CommandReturns ==
  <>[](lock \notin Attempt) => \A c \in Cli : stage[c] \in Working ~> stage[c] \notin Working

-----------------------------------------------------------------------------
(* The inductive invariant behind FileOfHolder, FileWhole and StoreInUse.  *)

\* It alone writes the file, under a password that was typed.
SessionInv ==
  /\ SessionTypeOK
  /\ \A c \in Client : Holding(c) => lock = c
  /\ \A c \in Client : stage[c] \in Working => typed[c] \in Password
  /\ \A a \in Attempt : stage[a] # "load"
  /\ FileOfHolder
  /\ FileWhole
  /\ StoreInUse

=============================================================================
