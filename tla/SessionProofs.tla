--------------------------- MODULE SessionProofs ---------------------------
(***************************************************************************)
(* Session's invariant, for any commands, logins and passwords.            *)
(***************************************************************************)
EXTENDS Session, TLAPS

USE DEF Client

LEMMA InitOk == SessionInit => SessionInv
<1> SUFFICES ASSUME SessionInit PROVE SessionInv
  OBVIOUS
<1> QED
  BY SessionAssumption
  DEF SessionInit, SessionInv, SessionTypeOK, Stage, Working, Holding, FileOfHolder,
      FileWhole, StoreInUse, Torn, NoFile, Saved

LEMMA BeginOk ==
  ASSUME SessionInv, NEW c \in Client, NEW s \in {"register", "login", "load"},
         NEW p \in Password, c \in Attempt => s # "load", Begin(c, s, p)
  PROVE  SessionInv'
BY SessionAssumption
DEF SessionInv, SessionTypeOK, Begin, GoOn, Stage, Working, Holding, FileOfHolder,
    FileWhole, StoreInUse, Saved, Torn, NoFile

\* Steps that leave the file alone and do not come to hold the store.
LEMMA OtherOk ==
  ASSUME SessionInv, NEW c \in Client,
         \/ Register(c) \/ RegisterFail(c) \/ Login(c) \/ LoginFail(c) \/ OpenStoreFail(c)
         \/ Load(c)
  PROVE  SessionInv'
<1>1. CASE Register(c)
  BY <1>1, SessionAssumption
  DEF SessionInv, SessionTypeOK, Register, GoOn, Stage, Working, Holding, FileOfHolder,
      FileWhole, StoreInUse, Saved, Torn, NoFile
<1>2. CASE RegisterFail(c)
  BY <1>2, SessionAssumption
  DEF SessionInv, SessionTypeOK, RegisterFail, End, Stage, Working, Holding, FileOfHolder,
      FileWhole, StoreInUse, Saved, Torn, NoFile
<1>3. CASE Login(c)
  BY <1>3, SessionAssumption
  DEF SessionInv, SessionTypeOK, Login, GoOn, Stage, Working, Holding, FileOfHolder,
      FileWhole, StoreInUse, Saved, Torn, NoFile
<1>4. CASE LoginFail(c)
  BY <1>4, SessionAssumption
  DEF SessionInv, SessionTypeOK, LoginFail, End, Stage, Working, Holding, FileOfHolder,
      FileWhole, StoreInUse, Saved, Torn, NoFile
<1>5. CASE OpenStoreFail(c)
  BY <1>5, SessionAssumption
  DEF SessionInv, SessionTypeOK, OpenStoreFail, End, Stage, Working, Holding, FileOfHolder,
      FileWhole, StoreInUse, Saved, Torn, NoFile
<1>6. CASE Load(c)
  BY <1>6, SessionAssumption
  DEF SessionInv, SessionTypeOK, Load, End, Stage, Working, Holding, FileOfHolder,
      FileWhole, StoreInUse, Saved, Torn, NoFile
<1> QED BY <1>1, <1>2, <1>3, <1>4, <1>5, <1>6

\* The steps of a login that has the store.
LEMMA HolderStepOk ==
  ASSUME SessionInv, NEW c \in Client,
         OpenStore(c) \/ SaveTruncate(c) \/ SaveWrite(c) \/ SaveFail(c) \/ FirstSync(c)
  PROVE  SessionInv'
<1>1. CASE OpenStore(c)
  BY <1>1, SessionAssumption
  DEF SessionInv, SessionTypeOK, OpenStore, Stage, Working, Holding, FileOfHolder,
      FileWhole, StoreInUse, Saved, Torn, NoFile
<1>2. CASE SaveTruncate(c)
  BY <1>2, SessionAssumption
  DEF SessionInv, SessionTypeOK, SaveTruncate, GoOn, Stage, Working, Holding, FileOfHolder,
      FileWhole, StoreInUse, Saved, Torn, NoFile
<1>3. CASE SaveWrite(c)
  BY <1>3, SessionAssumption
  DEF SessionInv, SessionTypeOK, SaveWrite, GoOn, Stage, Working, Holding, FileOfHolder,
      FileWhole, StoreInUse, Saved, Torn, NoFile
<1>4. CASE SaveFail(c)
  BY <1>4, SessionAssumption
  DEF SessionInv, SessionTypeOK, SaveFail, End, Stage, Working, Holding, FileOfHolder,
      FileWhole, StoreInUse, Saved, Torn, NoFile
<1>5. CASE FirstSync(c)
  BY <1>5, SessionAssumption
  DEF SessionInv, SessionTypeOK, FirstSync, End, Stage, Working, Holding, FileOfHolder,
      FileWhole, StoreInUse, Saved, Torn, NoFile
<1> QED BY <1>1, <1>2, <1>3, <1>4, <1>5

LEMMA KillOk ==
  ASSUME SessionInv, NEW c \in Cli, Kill(c)
  PROVE  SessionInv'
BY SessionAssumption
DEF SessionInv, SessionTypeOK, Kill, End, Stage, Working, Holding, FileOfHolder,
    FileWhole, StoreInUse, Saved, Torn, NoFile

LEMMA KillAttemptsOk ==
  ASSUME SessionInv, KillAttempts
  PROVE  SessionInv'
BY SessionAssumption
DEF SessionInv, SessionTypeOK, KillAttempts, Stage, Working, Holding, FileOfHolder,
    FileWhole, StoreInUse, Saved, Torn, NoFile

LEMMA TuiTakeOk ==
  ASSUME SessionInv, NEW a \in Attempt, TuiTake(a)
  PROVE  SessionInv'
BY SessionAssumption
DEF SessionInv, SessionTypeOK, TuiTake, GoOn, Stage, Working, Holding, FileOfHolder,
    FileWhole, StoreInUse, Saved, Torn, NoFile

LEMMA CollectOk ==
  ASSUME SessionInv, NEW a \in Attempt, Collect(a)
  PROVE  SessionInv'
BY SessionAssumption
DEF SessionInv, SessionTypeOK, Collect, Stage, Working, Holding, FileOfHolder,
    FileWhole, StoreInUse, Saved, Torn, NoFile

LEMMA UnchangedOk ==
  ASSUME SessionInv, UNCHANGED sessionVars
  PROVE  SessionInv'
BY DEF SessionInv, SessionTypeOK, sessionVars, Stage, Working, Holding, FileOfHolder,
       FileWhole, StoreInUse, Saved, Torn, NoFile

LEMMA CliStartOk ==
  ASSUME SessionInv, NEW c \in Cli, CliStart(c)
  PROVE  SessionInv'
BY BeginOk, SessionAssumption DEF CliStart, CliRegister, CliLogin, CliUse

LEMMA TuiStartOk ==
  ASSUME SessionInv, NEW a \in Attempt, NEW s, NEW p \in Password, TuiStart(a, s, p)
  PROVE  SessionInv'
BY BeginOk DEF TuiStart

LEMMA ClientStepOk ==
  ASSUME SessionInv, NEW c \in Client, ClientStep(c)
  PROVE  SessionInv'
BY OtherOk, HolderStepOk DEF ClientStep, Proceed

LEMMA NextOk == SessionInv /\ [SessionNext]_sessionVars => SessionInv'
BY ClientStepOk, CliStartOk, KillOk, TuiTakeOk, CollectOk, TuiStartOk, KillAttemptsOk, UnchangedOk
DEF SessionNext

\* The invariant holds in every state of the programs of a machine.
THEOREM Invariant == SessionSpec => []SessionInv
BY InitOk, NextOk, PTL DEF SessionSpec

\* SessionTypeOK: stages, the lock and the file are of their types (session.go, main.go).
THEOREM TypeCorrect == SessionSpec => []SessionTypeOK
<1>1. SessionInv => SessionTypeOK
  BY DEF SessionInv
<1> QED BY <1>1, Invariant, PTL

\* FileOfHolder: the session on disk belongs to the program that has the store.
THEOREM FileOfHolderHolds == SessionSpec => []FileOfHolder
<1>1. SessionInv => FileOfHolder
  BY DEF SessionInv
<1> QED BY <1>1, Invariant, PTL

\* FileWhole: half a session file is being written, or its writer died.
THEOREM FileWholeHolds == SessionSpec => []FileWhole
<1>1. SessionInv => FileWhole
  BY DEF SessionInv
<1> QED BY <1>1, Invariant, PTL

\* StoreInUse: no way out of a command or of a login leaves the lock behind, but that of a
\* login of the text UI that fails, until its file is collected.
THEOREM StoreInUseHolds == SessionSpec => []StoreInUse
<1>1. SessionInv => StoreInUse
  BY DEF SessionInv
<1> QED BY <1>1, Invariant, PTL

=============================================================================
