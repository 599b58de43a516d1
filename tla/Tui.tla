-------------------------------- MODULE Tui --------------------------------
(***************************************************************************)
(* The text UI of internal/tui/components.go beside the commands of the    *)
(* same machine (Session).                                                 *)
(*                                                                         *)
(* Update handles one message at a time.  What it returns is run in a      *)
(* goroutine (a command), whose answer is a message that arrives later, in *)
(* any order.  A command is a slot of cmd; "idle" is a free slot.  A sync  *)
(* is one step here: FullSync has its inside.                              *)
(***************************************************************************)
EXTENDS Session

CONSTANTS Entry,        \* entry ids
          Binary,       \* those that hold a file
          Slot,         \* bound: the commands that run at once
          Form          \* forms, used again when nothing holds them

ASSUME TuiAssumption == Binary \subseteq Entry /\ None \notin Entry \union Form

VARIABLES running,      \* is the program running?
          screen,       \* model.screen
          step,         \* authModel.step
          action,       \* authModel.action
          err,          \* model.err # nil
          session,      \* model.session, model.store, model.masterKey: whose login
          list,         \* model.list: the entries on the list
          viewing,      \* model.viewingEntry
          data,         \* model.viewingData: whose data
          form,         \* model.addForm: which form
          adding,       \* model.adding
          cmd,          \* the commands and their answers
          held,         \* the store: entries with data
          marked,       \* the store: entries with a tombstone
          viewsCross,   \* history: was an entry opened while another was on its way?
          loadsCross,   \* history: was the list asked for while it was on its way?
          left          \* history: saves whose screen a finished sync has left

screenVars == <<running, screen, step, action, err, session>>
dataVars == <<list, viewing, data, form, adding>>
storeVars == <<held, marked>>
historyVars == <<viewsCross, loadsCross, left>>
tuiVars == <<screenVars, dataVars, cmd, storeVars, historyVars>>
vars == <<sessionVars, tuiVars>>

Screen == {"auth", "list", "view", "choose", "add"}
Step == {"choose", "login", "password", "authenticating"}

Idle == [do |-> "idle"]
Load_ == [do |-> "load"]
Sync == [do |-> "sync"]
Synced == [do |-> "synced"]
Error == [do |-> "error"]
View(e) == [do |-> "view", entry |-> e]
Viewed(e) == [do |-> "viewed", entry |-> e]
Listed(es) == [do |-> "listed", entries |-> es]
Save(f) == [do |-> "save", form |-> f]

Command ==
  {Idle, Load_, Sync, Synced, Error}
    \union {View(e) : e \in Entry} \union {Viewed(e) : e \in Entry}
    \union {Listed(es) : es \in SUBSET Entry} \union {Save(f) : f \in Form}

Pending(kinds) == \E s \in Slot : cmd[s].do \in kinds

\* The goroutine of a command starts, and takes a slot.
Start(s, c) == cmd[s] = Idle /\ cmd' = [cmd EXCEPT ![s] = c]

\* A command answers, or its answer is handled.
Becomes(s, c) == cmd' = [cmd EXCEPT ![s] = c]

\* The list is asked for.
Loading(s) ==
  /\ Becomes(s, Load_)
  /\ loadsCross' = \E t \in Slot \ {s} : cmd[t].do \in {"load", "listed"}

\* What the list shows: entries with data and without a tombstone.
Live == held \ marked

\* The ids that anything remembers.  The id of a new entry is none of them.
Known ==
  held \union marked \union list \union {data}
    \union UNION {cmd[s].entries : s \in {t \in Slot : cmd[t].do = "listed"}}
    \union {cmd[s].entry : s \in {t \in Slot : cmd[t].do \in {"view", "viewed"}}}

Init ==
  /\ SessionInit
  /\ running = TRUE
  /\ screen = "auth"
  /\ step = "choose"
  /\ action = "login"
  /\ err = FALSE
  /\ session = None
  /\ list = {} /\ viewing = None /\ data = None
  /\ form = None /\ adding = FALSE
  /\ cmd = [s \in Slot |-> Idle]
  /\ held \in SUBSET Entry /\ marked = {}
  /\ viewsCross = FALSE /\ loadsCross = FALSE /\ left = {}

-----------------------------------------------------------------------------
(* The keys of the login.                                                  *)

SwitchAction ==
  /\ running /\ screen = "auth" /\ step = "choose"
  /\ action' = IF action = "login" THEN "register" ELSE "login"
  /\ UNCHANGED <<sessionVars, running, screen, step, err, session,
                 dataVars, cmd, storeVars, historyVars>>

\* The action is chosen, the login is typed.
EnterNext ==
  /\ running /\ screen = "auth" /\ step \in {"choose", "login"}
  /\ step' = IF step = "choose" THEN "login" ELSE "password"
  /\ UNCHANGED <<sessionVars, running, screen, action, err, session,
                 dataVars, cmd, storeVars, historyVars>>

\* The password is typed: handleAuth starts with a copy of the model's fields.
EnterPassword(a, p) ==
  /\ running /\ screen = "auth" /\ step = "password"
  /\ TuiStart(a, action, p)
  /\ step' = "authenticating"
  /\ UNCHANGED <<running, screen, action, err, session,
                 dataVars, cmd, storeVars, historyVars>>

AuthSuccess(a, s) ==
  /\ running /\ stage[a] = "done"
  /\ TuiTake(a)
  /\ cmd[s] = Idle
  /\ session' = a
  /\ screen' = "list"
  /\ Loading(s)
  /\ UNCHANGED <<running, step, action, err, dataVars, storeVars, viewsCross, left>>

AuthError(a) ==
  /\ running /\ stage[a] = "failed"
  /\ TuiTake(a)
  /\ err' = TRUE
  /\ UNCHANGED <<running, screen, step, action, session,
                 dataVars, cmd, storeVars, historyVars>>

-----------------------------------------------------------------------------
(* Leaving.                                                                *)

\* Nothing is left of the program but its files.
Quit ==
  /\ running' = FALSE
  /\ KillAttempts
  /\ screen' = "auth" /\ step' = "choose" /\ action' = "login" /\ err' = FALSE /\ session' = None
  /\ list' = {} /\ viewing' = None /\ data' = None /\ form' = None /\ adding' = FALSE
  /\ cmd' = [s \in Slot |-> Idle]
  /\ viewsCross' = FALSE /\ loadsCross' = FALSE /\ left' = {}
  /\ UNCHANGED storeVars

\* Escape.  The case "esc" of the type choice is never reached: a key of the type
\* KeyEscape takes the branch above it, which knows the view and the list.  A form
\* does not take escape either.
KeyEsc ==
  /\ running
  /\ \/ /\ screen = "view"
        /\ screen' = "list"
        /\ UNCHANGED <<sessionVars, running, step, cmd>>
     \/ /\ screen = "auth" /\ step # "choose"
        /\ step' = "choose"
        /\ UNCHANGED <<sessionVars, running, screen, cmd>>
  /\ UNCHANGED <<action, err, session, dataVars, storeVars, historyVars>>

KeyEscQuits ==
  /\ running
  /\ screen = "list" \/ (screen = "auth" /\ step = "choose")
  /\ Quit

\* Ctrl-C, or the program is killed.
KeyCtrlC == running /\ Quit

-----------------------------------------------------------------------------
(* The keys of the vault.                                                  *)

\* Mutant: the key is not asked which screen it is for.
KeyAddAnywhere ==
  /\ running
  /\ screen' = "choose"
  /\ UNCHANGED <<sessionVars, running, step, action, err, session,
                 dataVars, cmd, storeVars, historyVars>>

KeyAdd ==
  /\ running /\ screen = "list"
  /\ screen' = "choose"
  /\ UNCHANGED <<sessionVars, running, step, action, err, session,
                 dataVars, cmd, storeVars, historyVars>>

\* p, t, c or b: a new form in the place of the last one.
KeyType ==
  /\ running /\ screen = "choose"
  /\ screen' = "add"
  /\ form' \in Form \ ({form} \union {cmd[s].form : s \in {t \in Slot : cmd[t].do = "save"}})
  /\ adding' = TRUE
  /\ UNCHANGED <<sessionVars, running, step, action, err, session, list, viewing, data,
                 cmd, storeVars, historyVars>>

\* Mutant: the list is shown before the form has been read.
FormDoneLeaves(s) ==
  /\ running /\ screen = "add" /\ adding
  /\ adding' = FALSE
  /\ screen' = "list"
  /\ Start(s, Save(form))
  /\ left' = left \ {s}
  /\ UNCHANGED <<sessionVars, running, step, action, err, session, list, viewing, data, form,
                 storeVars, viewsCross, loadsCross>>

\* The last field of the form is entered.  The screen stays.
FormDone(s) ==
  /\ running /\ screen = "add" /\ adding
  /\ adding' = FALSE
  /\ Start(s, Save(form))
  /\ left' = left \ {s}
  /\ UNCHANGED <<sessionVars, screenVars, list, viewing, data, form, storeVars,
                 viewsCross, loadsCross>>

\* Mutant: the entry that was viewed last is marked.
KeyDeleteViewed(s, e) ==
  /\ running /\ screen = "list" /\ e \in list
  /\ marked' \in {marked \union {viewing}, marked}
  /\ Start(s, Sync)
  /\ UNCHANGED <<sessionVars, screenVars, dataVars, held, historyVars>>

\* The error of PutVersion is dropped; the sync starts anyway.
KeyDelete(s, e) ==
  /\ running /\ screen = "list" /\ e \in list
  /\ marked' \in {marked \union {e}, marked}
  /\ Start(s, Sync)
  /\ UNCHANGED <<sessionVars, screenVars, dataVars, held, historyVars>>

KeyEnter(s, e) ==
  /\ running /\ screen = "list" /\ e \in list
  /\ screen' = "view"
  /\ viewing' = e
  /\ Start(s, View(e))
  /\ viewsCross' = Pending({"view", "viewed"})
  /\ UNCHANGED <<sessionVars, running, step, action, err, session, list, data, form, adding,
                 storeVars, loadsCross, left>>

\* s: the file of a binary entry is written out, and reported as an error.
KeySave ==
  /\ running /\ screen = "view" /\ viewing \in Binary /\ data # None
  /\ err' = TRUE
  /\ UNCHANGED <<sessionVars, running, screen, step, action, session,
                 dataVars, cmd, storeVars, historyVars>>

-----------------------------------------------------------------------------
(* The goroutines of the commands.                                         *)

RunLoad(s) ==
  /\ cmd[s].do = "load"
  /\ Becomes(s, Listed(Live)) \/ Becomes(s, Error)
  /\ UNCHANGED <<sessionVars, screenVars, dataVars, storeVars, historyVars>>

\* Mutant: an entry that can not be read gives no message.
RunViewSilent(s) ==
  /\ cmd[s].do = "view"
  /\ \/ cmd[s].entry \in held /\ Becomes(s, Viewed(cmd[s].entry))
     \/ Becomes(s, Idle)
  /\ UNCHANGED <<sessionVars, screenVars, dataVars, storeVars, historyVars>>

RunView(s) ==
  /\ cmd[s].do = "view"
  /\ \/ cmd[s].entry \in held /\ Becomes(s, Viewed(cmd[s].entry))
     \/ Becomes(s, Error)
  /\ UNCHANGED <<sessionVars, screenVars, dataVars, storeVars, historyVars>>

\* The form is read now, not when it was completed.  The sync that should follow
\* is returned as a message, which Update knows nothing of.
RunSave(s) ==
  /\ cmd[s].do = "save"
  /\ \/ \E e \in Entry \ Known : held' = held \union {e} /\ Becomes(s, Idle)
     \/ Becomes(s, Error) /\ UNCHANGED held
  /\ UNCHANGED <<sessionVars, screenVars, dataVars, marked, historyVars>>

\* A sync drops, restores and brings entries; it resolves marks and makes none.
RunSync(s) ==
  /\ cmd[s].do = "sync"
  /\ held' \in SUBSET Entry
  /\ marked' \in SUBSET marked
  /\ Becomes(s, Synced)
  /\ UNCHANGED <<sessionVars, screenVars, dataVars, historyVars>>

-----------------------------------------------------------------------------
(* Update is given the answers.                                            *)

TakeListed(s) ==
  /\ cmd[s].do = "listed"
  /\ list' = cmd[s].entries
  /\ Becomes(s, Idle)
  /\ UNCHANGED <<sessionVars, screenVars, viewing, data, form, adding, storeVars, historyVars>>

TakeViewed(s) ==
  /\ cmd[s].do = "viewed"
  /\ data' = cmd[s].entry
  /\ Becomes(s, Idle)
  /\ UNCHANGED <<sessionVars, screenVars, list, viewing, form, adding, storeVars, historyVars>>

\* Mutant: the list is not read again.
TakeSyncedOnly(s) ==
  /\ cmd[s].do = "synced"
  /\ screen' = "list"
  /\ Becomes(s, Idle)
  /\ left' = left \union {t \in Slot : cmd[t].do = "save"}
  /\ UNCHANGED <<sessionVars, running, step, action, err, session, dataVars, storeVars,
                 viewsCross, loadsCross>>

\* The list comes to the front, whatever the user is at.
TakeSynced(s) ==
  /\ cmd[s].do = "synced"
  /\ screen' = "list"
  /\ Loading(s)
  /\ left' = left \union {t \in Slot : cmd[t].do = "save"}
  /\ UNCHANGED <<sessionVars, running, step, action, err, session, dataVars, storeVars,
                 viewsCross>>

TakeError(s) ==
  /\ cmd[s].do = "error"
  /\ err' = TRUE
  /\ Becomes(s, Idle)
  /\ UNCHANGED <<sessionVars, running, screen, step, action, session,
                 dataVars, storeVars, historyVars>>

Goroutine(s) == RunLoad(s) \/ RunView(s) \/ RunSave(s) \/ RunSync(s)

Take(s) == TakeListed(s) \/ TakeViewed(s) \/ TakeSynced(s) \/ TakeError(s)

TakeAuth(a) == (\E s \in Slot : AuthSuccess(a, s)) \/ AuthError(a)

Key ==
  \/ SwitchAction \/ EnterNext \/ KeyEsc \/ KeyAdd \/ KeyType \/ KeySave
  \/ \E a \in Attempt, p \in Password : EnterPassword(a, p)
  \/ \E s \in Slot : FormDone(s) \/ \E e \in list : KeyDelete(s, e) \/ KeyEnter(s, e)

Next ==
  \/ \E c \in Client : ClientStep(c) /\ UNCHANGED tuiVars
  \/ \E c \in Cli : (CliStart(c) \/ Kill(c)) /\ UNCHANGED tuiVars
  \/ \E a \in Attempt : TakeAuth(a) \/ (Collect(a) /\ UNCHANGED tuiVars)
  \/ \E s \in Slot : Goroutine(s) \/ Take(s)
  \/ Key \/ KeyEscQuits \/ KeyCtrlC

Spec == Init /\ [][Next]_vars

-----------------------------------------------------------------------------
(* Properties.                                                             *)

TypeOK ==
  /\ SessionTypeOK
  /\ running \in BOOLEAN
  /\ screen \in Screen
  /\ step \in Step
  /\ action \in {"login", "register"}
  /\ err \in BOOLEAN
  /\ session \in Attempt \union {None}
  /\ list \subseteq Entry
  /\ viewing \in Entry \union {None}
  /\ data \in Entry \union {None}
  /\ form \in Form \union {None}
  /\ adding \in BOOLEAN
  /\ cmd \in [Slot -> Command]
  /\ held \subseteq Entry
  /\ marked \subseteq Entry
  /\ viewsCross \in BOOLEAN
  /\ loadsCross \in BOOLEAN
  /\ left \subseteq Slot

\* The vault that was opened first stays: however often the user goes back and logs
\* in again while handleAuth is still busy, no second login takes the place of the
\* first, because it never gets the store (components.go:561-566, 720).
OneVault == [][session # None /\ running' => session' = session]_vars

\* No command runs without a store, and no screen behind the login is shown: m.store
\* and m.session are nil until then (components.go:324-389, 405, 502).
NothingBeforeLogin ==
  session = None => screen = "auth" /\ \A s \in Slot : cmd[s] = Idle

\* When the answers are in, what is shown under an entry is that entry, unless it was
\* opened while another one was on its way (components.go:146-148, 196).
ShownIsAsked ==
  screen = "view" /\ ~err /\ ~viewsCross /\ ~Pending({"view", "viewed", "error"})
    => data = viewing

\* When the syncs and their listings are in, the list shows nothing that was deleted,
\* unless two listings crossed (components.go:141, 149-151).
ListIsFresh ==
  ~err /\ ~loadsCross /\ ~Pending({"sync", "synced", "load", "listed", "error"})
    => list \subseteq Live

\* A save reads the form it was made for, though it reads the model's field when it
\* runs: only a sync that comes back meanwhile opens the way to another form
\* (components.go:405, 149-151).
SaveReadsItsForm ==
  \A s \in Slot : cmd[s].do = "save" /\ s \notin left => cmd[s].form = form

-----------------------------------------------------------------------------
(* The inductive invariant behind these.                                   *)

\* A vault that is open is that of a login that has the store.
VaultIsOpen == session # None => running /\ stage[session] = "in"

\* What is on its way to the view screen is what was asked for, if nothing crossed.
ViewOnItsWay ==
  screen = "view" /\ ~err /\ ~viewsCross /\ ~Pending({"error"}) =>
    /\ \A s \in Slot : cmd[s].do \in {"view", "viewed"} => cmd[s].entry = viewing
    /\ Pending({"view", "viewed"}) \/ data = viewing

\* If nothing crossed, one listing is on its way, and once no sync runs it is a
\* listing of what is there.
ListOnItsWay ==
  ~loadsCross =>
    /\ \A s, t \in Slot :
         cmd[s].do \in {"load", "listed"} /\ cmd[t].do \in {"load", "listed"} => s = t
    /\ ~err /\ ~Pending({"sync", "synced", "load", "error"}) =>
         /\ \A s \in Slot : cmd[s].do = "listed" => cmd[s].entries \subseteq Live
         /\ Pending({"listed"}) \/ list \subseteq Live

\* Until a sync comes back, the screen of a form that is saved stays.
SaveOnItsWay ==
  \A s \in Slot :
    cmd[s].do = "save" /\ s \notin left => cmd[s].form = form /\ screen = "add" /\ ~adding

\* A form that is filled in is there.
FormIsThere == adding => form \in Form

TuiInv ==
  /\ SessionInv /\ TypeOK /\ NothingBeforeLogin
  /\ VaultIsOpen /\ ViewOnItsWay /\ ListOnItsWay /\ SaveOnItsWay /\ FormIsThere

=============================================================================
