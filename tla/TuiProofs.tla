----------------------------- MODULE TuiProofs -----------------------------
(***************************************************************************)
(* Tui's invariant, for any commands, logins, entries, slots and forms.    *)
(***************************************************************************)
EXTENDS Tui, SessionProofs

\* What an action of the text UI has to keep, beside the invariant of Session.
Kept == SessionInv' => TuiInv'

LEMMA CommandKinds ==
  ASSUME NEW c \in Command
  PROVE  /\ c.do \in {"view", "viewed"} => c.entry \in Entry
         /\ c.do = "listed" => c.entries \subseteq Entry
         /\ c.do = "save" => c.form \in Form
BY DEF Command, Idle, Load_, Sync, Synced, Error, View, Viewed, Listed, Save

LEMMA SwitchActionOk ==
  ASSUME TuiInv, SwitchAction
  PROVE  Kept
BY SessionAssumption, TuiAssumption, CommandKinds
DEF Kept, SessionInv, SwitchAction,
    TuiInv, TypeOK, NothingBeforeLogin, VaultIsOpen, ViewOnItsWay, ListOnItsWay,
    SaveOnItsWay, FormIsThere, Pending, Live,
    sessionVars, screenVars, dataVars, storeVars, historyVars, Screen, Step

LEMMA EnterNextOk ==
  ASSUME TuiInv, EnterNext
  PROVE  Kept
BY SessionAssumption, TuiAssumption, CommandKinds
DEF Kept, SessionInv, EnterNext,
    TuiInv, TypeOK, NothingBeforeLogin, VaultIsOpen, ViewOnItsWay, ListOnItsWay,
    SaveOnItsWay, FormIsThere, Pending, Live,
    sessionVars, screenVars, dataVars, storeVars, historyVars, Screen, Step

LEMMA KeyEscOk ==
  ASSUME TuiInv, KeyEsc
  PROVE  Kept
BY SessionAssumption, TuiAssumption, CommandKinds
DEF Kept, SessionInv, KeyEsc,
    TuiInv, TypeOK, NothingBeforeLogin, VaultIsOpen, ViewOnItsWay, ListOnItsWay,
    SaveOnItsWay, FormIsThere, Pending, Live,
    sessionVars, screenVars, dataVars, storeVars, historyVars, Screen, Step

LEMMA KeyAddOk ==
  ASSUME TuiInv, KeyAdd
  PROVE  Kept
BY SessionAssumption, TuiAssumption, CommandKinds
DEF Kept, SessionInv, KeyAdd,
    TuiInv, TypeOK, NothingBeforeLogin, VaultIsOpen, ViewOnItsWay, ListOnItsWay,
    SaveOnItsWay, FormIsThere, Pending, Live,
    sessionVars, screenVars, dataVars, storeVars, historyVars, Screen, Step

LEMMA KeyTypeOk ==
  ASSUME TuiInv, KeyType
  PROVE  Kept
BY SessionAssumption, TuiAssumption, CommandKinds
DEF Kept, SessionInv, KeyType, Command, Idle, Load_, Sync, Synced, Error, View, Viewed, Listed, Save,
    
    TuiInv, TypeOK, NothingBeforeLogin, VaultIsOpen, ViewOnItsWay, ListOnItsWay,
    SaveOnItsWay, FormIsThere, Pending, Live,
    sessionVars, screenVars, dataVars, storeVars, historyVars, Screen, Step

LEMMA KeySaveOk ==
  ASSUME TuiInv, KeySave
  PROVE  Kept
BY SessionAssumption, TuiAssumption, CommandKinds
DEF Kept, SessionInv, KeySave,
    TuiInv, TypeOK, NothingBeforeLogin, VaultIsOpen, ViewOnItsWay, ListOnItsWay,
    SaveOnItsWay, FormIsThere, Pending, Live,
    sessionVars, screenVars, dataVars, storeVars, historyVars, Screen, Step

LEMMA FormDoneOk ==
  ASSUME TuiInv, NEW s \in Slot, FormDone(s)
  PROVE  Kept
<1> USE DEF FormDone, Start, TuiInv
<1>1. /\ cmd[s] = Idle
      /\ cmd' = [cmd EXCEPT ![s] = Save(form)]
      /\ \A t \in Slot : cmd'[t] = IF t = s THEN Save(form) ELSE cmd[t]
  BY DEF TypeOK
<1>2. SessionInv' => TypeOK'
  BY <1>1 DEF TypeOK, SessionInv, FormIsThere, Command, screenVars, storeVars
<1>3. NothingBeforeLogin' /\ VaultIsOpen' /\ FormIsThere'
  BY DEF NothingBeforeLogin, VaultIsOpen, FormIsThere, sessionVars, screenVars
<1>4. ViewOnItsWay'
  BY DEF ViewOnItsWay, screenVars
<1>5. ListOnItsWay'
  BY <1>1 DEF ListOnItsWay, Pending, Live, Idle, Save, screenVars, storeVars
<1>6. SaveOnItsWay'
  BY <1>1 DEF SaveOnItsWay, Save, screenVars
<1> QED BY <1>2, <1>3, <1>4, <1>5, <1>6 DEF Kept

LEMMA KeyDeleteOk ==
  ASSUME TuiInv, NEW s \in Slot, NEW e \in list, KeyDelete(s, e)
  PROVE  Kept
BY SessionAssumption, TuiAssumption, CommandKinds
DEF Kept, SessionInv, KeyDelete, Command, Idle, Load_, Sync, Synced, Error, View, Viewed, Listed, Save,
    Start,
    TuiInv, TypeOK, NothingBeforeLogin, VaultIsOpen, ViewOnItsWay, ListOnItsWay,
    SaveOnItsWay, FormIsThere, Pending, Live,
    sessionVars, screenVars, dataVars, storeVars, historyVars, Screen, Step

LEMMA KeyEnterOk ==
  ASSUME TuiInv, NEW s \in Slot, NEW e \in list, KeyEnter(s, e)
  PROVE  Kept
BY SessionAssumption, TuiAssumption, CommandKinds
DEF Kept, SessionInv, KeyEnter, Command, Idle, Load_, Sync, Synced, Error, View, Viewed, Listed, Save,
    Start,
    TuiInv, TypeOK, NothingBeforeLogin, VaultIsOpen, ViewOnItsWay, ListOnItsWay,
    SaveOnItsWay, FormIsThere, Pending, Live,
    sessionVars, screenVars, dataVars, storeVars, historyVars, Screen, Step

LEMMA RunLoadOk ==
  ASSUME TuiInv, NEW s \in Slot, RunLoad(s)
  PROVE  Kept
BY SessionAssumption, TuiAssumption, CommandKinds
DEF Kept, SessionInv, RunLoad, Command, Idle, Load_, Sync, Synced, Error, View, Viewed, Listed, Save,
    Becomes, Loading,
    TuiInv, TypeOK, NothingBeforeLogin, VaultIsOpen, ViewOnItsWay, ListOnItsWay,
    SaveOnItsWay, FormIsThere, Pending, Live,
    sessionVars, screenVars, dataVars, storeVars, historyVars, Screen, Step

LEMMA RunViewOk ==
  ASSUME TuiInv, NEW s \in Slot, RunView(s)
  PROVE  Kept
BY SessionAssumption, TuiAssumption, CommandKinds
DEF Kept, SessionInv, RunView, Command, Idle, Load_, Sync, Synced, Error, View, Viewed, Listed, Save,
    Becomes, Loading,
    TuiInv, TypeOK, NothingBeforeLogin, VaultIsOpen, ViewOnItsWay, ListOnItsWay,
    SaveOnItsWay, FormIsThere, Pending, Live,
    sessionVars, screenVars, dataVars, storeVars, historyVars, Screen, Step

LEMMA RunSaveOk ==
  ASSUME TuiInv, NEW s \in Slot, RunSave(s)
  PROVE  Kept
BY SessionAssumption, TuiAssumption, CommandKinds
DEF Kept, SessionInv, RunSave, Command, Idle, Load_, Sync, Synced, Error, View, Viewed, Listed, Save,
    Becomes, Loading,
    TuiInv, TypeOK, NothingBeforeLogin, VaultIsOpen, ViewOnItsWay, ListOnItsWay,
    SaveOnItsWay, FormIsThere, Pending, Live,
    sessionVars, screenVars, dataVars, storeVars, historyVars, Screen, Step

LEMMA RunSyncOk ==
  ASSUME TuiInv, NEW s \in Slot, RunSync(s)
  PROVE  Kept
BY SessionAssumption, TuiAssumption, CommandKinds
DEF Kept, SessionInv, RunSync, Command, Idle, Load_, Sync, Synced, Error, View, Viewed, Listed, Save,
    Becomes, Loading,
    TuiInv, TypeOK, NothingBeforeLogin, VaultIsOpen, ViewOnItsWay, ListOnItsWay,
    SaveOnItsWay, FormIsThere, Pending, Live,
    sessionVars, screenVars, dataVars, storeVars, historyVars, Screen, Step

LEMMA TakeListedOk ==
  ASSUME TuiInv, NEW s \in Slot, TakeListed(s)
  PROVE  Kept
BY SessionAssumption, TuiAssumption, CommandKinds
DEF Kept, SessionInv, TakeListed, Command, Idle, Load_, Sync, Synced, Error, View, Viewed, Listed, Save,
    Becomes, Loading,
    TuiInv, TypeOK, NothingBeforeLogin, VaultIsOpen, ViewOnItsWay, ListOnItsWay,
    SaveOnItsWay, FormIsThere, Pending, Live,
    sessionVars, screenVars, dataVars, storeVars, historyVars, Screen, Step

LEMMA TakeViewedOk ==
  ASSUME TuiInv, NEW s \in Slot, TakeViewed(s)
  PROVE  Kept
BY SessionAssumption, TuiAssumption, CommandKinds
DEF Kept, SessionInv, TakeViewed, Command, Idle, Load_, Sync, Synced, Error, View, Viewed, Listed, Save,
    Becomes, Loading,
    TuiInv, TypeOK, NothingBeforeLogin, VaultIsOpen, ViewOnItsWay, ListOnItsWay,
    SaveOnItsWay, FormIsThere, Pending, Live,
    sessionVars, screenVars, dataVars, storeVars, historyVars, Screen, Step

LEMMA TakeSyncedOk ==
  ASSUME TuiInv, NEW s \in Slot, TakeSynced(s)
  PROVE  Kept
BY SessionAssumption, TuiAssumption, CommandKinds
DEF Kept, SessionInv, TakeSynced, Command, Idle, Load_, Sync, Synced, Error, View, Viewed, Listed, Save,
    Becomes, Loading,
    TuiInv, TypeOK, NothingBeforeLogin, VaultIsOpen, ViewOnItsWay, ListOnItsWay,
    SaveOnItsWay, FormIsThere, Pending, Live,
    sessionVars, screenVars, dataVars, storeVars, historyVars, Screen, Step

LEMMA TakeErrorOk ==
  ASSUME TuiInv, NEW s \in Slot, TakeError(s)
  PROVE  Kept
BY SessionAssumption, TuiAssumption, CommandKinds
DEF Kept, SessionInv, TakeError, Command, Idle, Load_, Sync, Synced, Error, View, Viewed, Listed, Save,
    Becomes, Loading,
    TuiInv, TypeOK, NothingBeforeLogin, VaultIsOpen, ViewOnItsWay, ListOnItsWay,
    SaveOnItsWay, FormIsThere, Pending, Live,
    sessionVars, screenVars, dataVars, storeVars, historyVars, Screen, Step

LEMMA EnterPasswordOk ==
  ASSUME TuiInv, NEW a \in Attempt, NEW p \in Password, EnterPassword(a, p)
  PROVE  Kept
BY SessionAssumption, TuiAssumption, CommandKinds
DEF Kept, SessionInv, EnterPassword, TuiStart, Begin, GoOn,
    TuiInv, TypeOK, NothingBeforeLogin, VaultIsOpen, ViewOnItsWay, ListOnItsWay,
    SaveOnItsWay, FormIsThere, Pending, Live,
    sessionVars, screenVars, dataVars, storeVars, historyVars, Screen, Step

LEMMA AuthSuccessOk ==
  ASSUME TuiInv, NEW a \in Attempt, NEW s \in Slot, AuthSuccess(a, s)
  PROVE  Kept
<1> USE DEF AuthSuccess, TuiTake, GoOn, TuiInv
<1>1. session = None
  BY SessionAssumption DEF SessionInv, VaultIsOpen, Holding, TypeOK, Client
<1>2. /\ \A t \in Slot : cmd[t] = Idle
      /\ cmd' = [cmd EXCEPT ![s] = Load_]
      /\ \A t \in Slot : cmd'[t] = IF t = s THEN Load_ ELSE Idle
  BY <1>1 DEF NothingBeforeLogin, Loading, Becomes, TypeOK
<1>3. SessionInv' => TypeOK'
  BY <1>2 DEF TypeOK, SessionInv, Loading, Command, Screen, dataVars, storeVars
<1>4. NothingBeforeLogin' /\ FormIsThere'
  BY SessionAssumption DEF NothingBeforeLogin, FormIsThere, dataVars, Client
<1>5. VaultIsOpen'
  BY DEF VaultIsOpen, SessionInv, SessionTypeOK, Client
<1>6. ViewOnItsWay' /\ SaveOnItsWay'
  BY <1>2 DEF ViewOnItsWay, SaveOnItsWay, Idle, Load_
<1>7. ListOnItsWay'
  BY <1>2 DEF ListOnItsWay, Pending, Idle, Load_
<1> QED BY <1>3, <1>4, <1>5, <1>6, <1>7 DEF Kept

LEMMA AuthErrorOk ==
  ASSUME TuiInv, NEW a \in Attempt, AuthError(a)
  PROVE  Kept
BY SessionAssumption, TuiAssumption, CommandKinds
DEF Kept, SessionInv, AuthError, TuiTake, GoOn, SessionTypeOK, Client,
    TuiInv, TypeOK, NothingBeforeLogin, VaultIsOpen, ViewOnItsWay, ListOnItsWay,
    SaveOnItsWay, FormIsThere, Pending, Live,
    sessionVars, screenVars, dataVars, storeVars, historyVars, Screen, Step

LEMMA QuitOk ==
  ASSUME TuiInv, Quit
  PROVE  Kept
BY SessionAssumption, TuiAssumption, CommandKinds
DEF Kept, SessionInv, Quit, Command, Idle, Load_, Sync, Synced, Error, View, Viewed, Listed, Save,
    KillAttempts,
    TuiInv, TypeOK, NothingBeforeLogin, VaultIsOpen, ViewOnItsWay, ListOnItsWay,
    SaveOnItsWay, FormIsThere, Pending, Live,
    sessionVars, screenVars, dataVars, storeVars, historyVars, Screen, Step

\* A step of a command or of a login, which the text UI does not see yet.
LEMMA ClientOk ==
  ASSUME TuiInv, UNCHANGED tuiVars,
         \/ \E c \in Client : ClientStep(c)
         \/ \E c \in Cli : CliStart(c) \/ Kill(c)
         \/ \E a \in Attempt : Collect(a)
  PROVE  Kept
<1> USE DEF TuiInv
<1>1. ASSUME NEW a \in Attempt, stage[a] = "in" PROVE stage'[a] = "in"
  <2>1. ASSUME NEW c \in Client, ClientStep(c) PROVE stage'[a] = "in"
    BY <1>1, <2>1
    DEF ClientStep, Proceed, Register, RegisterFail, Login, LoginFail, OpenStore, OpenStoreFail,
        SaveTruncate, SaveWrite, SaveFail, FirstSync, Load, GoOn, End, SessionInv,
        SessionTypeOK, Client
  <2>2. ASSUME NEW c \in Cli, CliStart(c) \/ Kill(c) PROVE stage'[a] = "in"
    BY <1>1, <2>2
    DEF CliStart, CliRegister, CliLogin, CliUse, Begin, Kill, GoOn, End, Working, SessionInv,
        SessionTypeOK, Client
  <2>3. ASSUME NEW b \in Attempt, Collect(b) PROVE stage'[a] = "in"
    BY <1>1, <2>3 DEF Collect
  <2> QED BY <2>1, <2>2, <2>3
<1>2. VaultIsOpen'
  BY <1>1 DEF VaultIsOpen, TypeOK, tuiVars, screenVars
<1> QED
  BY <1>2
  DEF Kept, SessionInv, TypeOK, NothingBeforeLogin, ViewOnItsWay, ListOnItsWay, SaveOnItsWay,
      FormIsThere, Pending, Live, tuiVars, screenVars, dataVars, storeVars, historyVars

LEMMA TuiUnchangedOk == TuiInv /\ UNCHANGED vars => Kept
BY DEF TuiInv, Kept, VaultIsOpen, SessionInv, TypeOK, NothingBeforeLogin, ViewOnItsWay,
       ListOnItsWay, SaveOnItsWay, FormIsThere, Pending, Live, vars, sessionVars, tuiVars,
       screenVars, dataVars, storeVars, historyVars

LEMMA NextKept == TuiInv /\ [Next]_vars => Kept
<1> SUFFICES ASSUME TuiInv, [Next]_vars PROVE Kept
  OBVIOUS
<1>1. CASE \E c \in Client : ClientStep(c) /\ UNCHANGED tuiVars
  BY <1>1, ClientOk
<1>2. CASE \E c \in Cli : (CliStart(c) \/ Kill(c)) /\ UNCHANGED tuiVars
  BY <1>2, ClientOk
<1>3. CASE \E a \in Attempt : TakeAuth(a) \/ (Collect(a) /\ UNCHANGED tuiVars)
  BY <1>3, AuthSuccessOk, AuthErrorOk, ClientOk DEF TakeAuth
<1>4. CASE \E s \in Slot : Goroutine(s) \/ Take(s)
  BY <1>4, RunLoadOk, RunViewOk, RunSaveOk, RunSyncOk, TakeListedOk, TakeViewedOk,
     TakeSyncedOk, TakeErrorOk DEF Goroutine, Take
<1>5. CASE Key
  BY <1>5, SwitchActionOk, EnterNextOk, KeyEscOk, KeyAddOk, KeyTypeOk, KeySaveOk,
     EnterPasswordOk, FormDoneOk, KeyDeleteOk, KeyEnterOk DEF Key
<1>6. CASE KeyEscQuits \/ KeyCtrlC
  BY <1>6, QuitOk DEF KeyEscQuits, KeyCtrlC
<1>7. CASE UNCHANGED vars
  BY <1>7, TuiUnchangedOk
<1> QED BY <1>1, <1>2, <1>3, <1>4, <1>5, <1>6, <1>7 DEF Next

\* Each step of the text UI is one of Session, or none.
LEMMA StepOfSession == [Next]_vars => [SessionNext]_sessionVars
<1> SUFFICES ASSUME [Next]_vars PROVE [SessionNext]_sessionVars
  OBVIOUS
<1>1. CASE \E c \in Client : ClientStep(c) /\ UNCHANGED tuiVars
  BY <1>1 DEF SessionNext
<1>2. CASE \E c \in Cli : (CliStart(c) \/ Kill(c)) /\ UNCHANGED tuiVars
  BY <1>2 DEF SessionNext
<1>3. CASE \E a \in Attempt : TakeAuth(a) \/ (Collect(a) /\ UNCHANGED tuiVars)
  BY <1>3 DEF SessionNext, TakeAuth, AuthSuccess, AuthError
<1>4. CASE \E s \in Slot : Goroutine(s) \/ Take(s)
  BY <1>4 DEF Goroutine, Take, RunLoad, RunView, RunSave, RunSync, TakeListed, TakeViewed,
              TakeSynced, TakeError
<1>5. CASE \E a \in Attempt, p \in Password : EnterPassword(a, p)
  BY <1>5 DEF SessionNext, EnterPassword, TuiStart
<1>6. CASE Key /\ ~\E a \in Attempt, p \in Password : EnterPassword(a, p)
  BY <1>6 DEF Key, SwitchAction, EnterNext, KeyEsc, KeyAdd, KeyType, KeySave, FormDone,
              KeyDelete, KeyEnter
<1>7. CASE KeyEscQuits \/ KeyCtrlC
  BY <1>7 DEF SessionNext, KeyEscQuits, KeyCtrlC, Quit
<1>8. CASE UNCHANGED vars
  BY <1>8 DEF vars
<1> QED BY <1>1, <1>2, <1>3, <1>4, <1>5, <1>6, <1>7, <1>8 DEF Next

LEMMA TuiInitOk == Init => TuiInv
<1> SUFFICES ASSUME Init PROVE TuiInv
  OBVIOUS
<1>1. SessionInv
  BY InitOk DEF Init
<1>2. TypeOK
  BY <1>1 DEF Init, TypeOK, SessionInv, Screen, Step, Command
<1> QED
  BY <1>1, <1>2
  DEF Init, TuiInv, NothingBeforeLogin, VaultIsOpen, ViewOnItsWay, ListOnItsWay, SaveOnItsWay,
      FormIsThere, Pending, Idle

LEMMA TuiNextOk == TuiInv /\ [Next]_vars => TuiInv'
<1> SUFFICES ASSUME TuiInv, [Next]_vars PROVE TuiInv'
  OBVIOUS
<1>1. SessionInv'
  BY StepOfSession, NextOk DEF TuiInv
<1> QED BY <1>1, NextKept DEF Kept

\* The invariant holds in every state of the text UI and the commands beside it.
THEOREM TuiInvariant == Spec => []TuiInv
BY TuiInitOk, TuiNextOk, PTL DEF Spec

\* What Session proves of its programs holds when the screens start the logins.
THEOREM ImplementsSession == Spec => SessionSpec
<1>1. Init => SessionInit
  BY DEF Init
<1> QED BY <1>1, StepOfSession, PTL DEF Spec, SessionSpec

\* TypeOK: the fields of the model and the answers of its commands are of their types.
THEOREM TuiTypeCorrect == Spec => []TypeOK
<1>1. TuiInv => TypeOK
  BY DEF TuiInv
<1> QED BY <1>1, TuiInvariant, PTL

\* NothingBeforeLogin: no command runs and no screen is shown without a store.
THEOREM NothingBeforeLoginHolds == Spec => []NothingBeforeLogin
<1>1. TuiInv => NothingBeforeLogin
  BY DEF TuiInv
<1> QED BY <1>1, TuiInvariant, PTL

\* OneVault: the vault that was opened first stays until the program ends.
THEOREM OneVaultHolds == Spec => OneVault
<1>1. TuiInv /\ [Next]_vars => [session # None /\ running' => session' = session]_vars
  <2> SUFFICES ASSUME TuiInv, [Next]_vars, session # None, running'
               PROVE  session' = session
    OBVIOUS
  <2>1. ASSUME NEW a \in Attempt, NEW s \in Slot, AuthSuccess(a, s) PROVE FALSE
    BY <2>1, SessionAssumption
    DEF AuthSuccess, TuiInv, SessionInv, VaultIsOpen, Holding, TypeOK, Client
  <2> QED
    BY <2>1
    DEF Next, vars, tuiVars, screenVars, TakeAuth, AuthError, Goroutine, Take, RunLoad, RunView,
        RunSave, RunSync, TakeListed, TakeViewed, TakeSynced, TakeError, Key, SwitchAction,
        EnterNext, KeyEsc, KeyAdd, KeyType, KeySave, EnterPassword, FormDone, KeyDelete,
        KeyEnter, KeyEscQuits, KeyCtrlC, Quit
<1> QED BY <1>1, TuiInvariant, PTL DEF Spec, OneVault

\* ShownIsAsked: what is shown is what was asked for, unless two requests crossed.
THEOREM ShownIsAskedHolds == Spec => []ShownIsAsked
<1>1. TuiInv => ShownIsAsked
  BY DEF TuiInv, ViewOnItsWay, ShownIsAsked, Pending
<1> QED BY <1>1, TuiInvariant, PTL

\* ListIsFresh: at rest the list shows nothing that was deleted, unless two crossed.
THEOREM ListIsFreshHolds == Spec => []ListIsFresh
<1>1. TuiInv => ListIsFresh
  BY DEF TuiInv, ListOnItsWay, ListIsFresh, Pending
<1> QED BY <1>1, TuiInvariant, PTL

\* SaveReadsItsForm: a save reads its own form, unless a sync left the form's screen.
THEOREM SaveReadsItsFormHolds == Spec => []SaveReadsItsForm
<1>1. TuiInv => SaveReadsItsForm
  BY DEF TuiInv, SaveOnItsWay, SaveReadsItsForm
<1> QED BY <1>1, TuiInvariant, PTL

=============================================================================
