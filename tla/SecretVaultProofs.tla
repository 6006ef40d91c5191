------------------------- MODULE SecretVaultProofs -------------------------
(***************************************************************************)
(* Proofs that the vault loses no secret, wherever the program ends and    *)
(* whichever call of the file system fails (SecretVault).                  *)
(***************************************************************************)
EXTENDS SecretVault, TLAPS

\* What the files hold, step by step of a replacement.  Before the old file is
\* moved aside they hold what memory held; afterwards the backup does; once the
\* new file is installed, memory again.
Holds(data) ==
  \/ main = data
  \/ main = NoFile /\ backup = NoFile /\ data = Empty

Quiet == vaultWriter = NoWriter => Holds(vaultData)

Untouched ==
  vaultWriter # NoWriter /\ vaultWriter.step \in {"stage", "drop"} => Holds(vaultWriter.before)

Cleared ==
  vaultWriter # NoWriter /\ vaultWriter.step = "aside" =>
    backup = NoFile /\ Holds(vaultWriter.before)

MovedAside ==
  vaultWriter # NoWriter /\ vaultWriter.step = "install" =>
    /\ main = NoFile
    /\ \/ backup = vaultWriter.before
       \/ backup = NoFile /\ vaultWriter.before = Empty

Installed ==
  vaultWriter # NoWriter /\ vaultWriter.step = "sweep" => main = vaultData

\* While the program runs and no replacement failed twice.
FilesFollow == Up /\ ~stranded => Quiet /\ Untouched /\ Cleared /\ MovedAside /\ Installed

\* A replacement changes one secret, which no record that exists refers to.
OneSecret ==
  vaultWriter # NoWriter =>
    /\ vaultWriter.ref \notin listed
    /\ \A r \in Refs : r # vaultWriter.ref => vaultWriter.before[r] = vaultData[r]

\* The record of the command is not listed while its secret may be missing, and
\* it is the command that writes its reference.
Unlisted ==
  keeper # NoCommand /\ keeper.step # "start" /\ keeper.step # "restart" => keeper.ref \notin listed

Paid ==
  keeper # NoCommand =>
    /\ keeper.step \in {"record", "start", "restart"} => vaultData[keeper.ref] # NoSecret
    /\ keeper.step = "relist" /\ keeper.ref \in Sources => vaultData[keeper.ref] # NoSecret
    /\ keeper.step \in {"save", "resave"} => keeper.secret # NoSecret
    /\ keeper.step = "stop" /\ ~stranded =>
         vaultData[keeper.ref] # NoSecret \/ keeper.ref \in unpaid

WriterOfCommand ==
  vaultWriter # NoWriter =>
    \/ vaultWriter.ref \in Credentials
    \/ /\ keeper # NoCommand /\ keeper.ref = vaultWriter.ref
       /\ \/ /\ keeper.step \in {"save", "resave"}
             /\ vaultData[keeper.ref] = keeper.secret
          \/ keeper.step \in {"erase", "clean"}

MemoryHasListed ==
  Up /\ ~stranded => \A r \in listed \ unpaid : vaultData[r] # NoSecret

FilesHaveListed ==
  ~stranded => ListedHasSecret

VaultIInv ==
  /\ VaultTypeOK
  /\ FilesFollow
  /\ OneSecret /\ Unlisted /\ Paid /\ WriterOfCommand
  /\ MemoryHasListed /\ FilesHaveListed

-----------------------------------------------------------------------------
(* Types *)

\* What a command does next is a command, for the reference it is about.
LEMMA UndoType ==
  ASSUME NEW c \in VaultCommands
  PROVE  /\ Undo(c) \in VaultCommands \cup {NoCommand}
         /\ Undo(c) # NoCommand => /\ Undo(c).ref = c.ref
                                   /\ Undo(c).step \in {"relist", "resave"}
                                   /\ Undo(c).secret = c.secret
<1>1. Step(c, "relist") \in VaultCommands /\ Step(c, "resave") \in VaultCommands
  BY DEF Step, VaultCommands, CommandSteps
<1> QED BY <1>1 DEF Undo, Step, VaultCommands

LEMMA AfterVaultType ==
  ASSUME NEW c \in VaultCommands, NEW ok \in BOOLEAN
  PROVE  AfterVault(c, ok) \in VaultCommands \cup {NoCommand}
<1>1. \A s \in CommandSteps : Step(c, s) \in VaultCommands
  BY DEF Step, VaultCommands
<1> QED BY <1>1, UndoType DEF AfterVault, CommandSteps

\* The secret of one reference is replaced.
LEMMA ReplacedContents ==
  ASSUME NEW data \in Contents, NEW r \in Refs, NEW s \in Secrets \cup {NoSecret}
  PROVE  /\ [data EXCEPT ![r] = s] \in Contents
         /\ [data EXCEPT ![r] = s][r] = s
         /\ \A q \in Refs : q # r => [data EXCEPT ![r] = s][q] = data[q]
BY DEF Contents

LEMMA EmptyIsContents == Empty \in Contents
BY DEF Empty, Contents

\* The reference of a replacement's result: what the command does next is typed.
LEMMA ReturnType ==
  ASSUME VaultTypeOK, NEW r, NEW ok \in BOOLEAN, Return(r, ok)
  PROVE  keeper' \in VaultCommands \cup {NoCommand}
<1>1. CASE keeper # NoCommand /\ keeper.ref = r
  BY <1>1, AfterVaultType DEF Return, VaultTypeOK
<1>2. CASE ~(keeper # NoCommand /\ keeper.ref = r)
  BY <1>2 DEF Return, VaultTypeOK
<1> QED BY <1>1, <1>2

\* A running program has its secrets in memory; a replacement has a record.
LEMMA UpType ==
  ASSUME VaultTypeOK
  PROVE  /\ Up => vaultData \in Contents
         /\ vaultWriter # NoWriter => Up /\ vaultWriter \in Writers
         /\ keeper # NoCommand => Up /\ keeper \in VaultCommands
BY DEF VaultTypeOK, Up

LEMMA BeginReplaceType ==
  ASSUME VaultTypeOK, NEW r \in Refs, NEW s \in Secrets \cup {NoSecret}, BeginReplace(r, s)
  PROVE  /\ vaultData' \in Contents
         /\ vaultWriter' \in Writers
<1>1. vaultData \in Contents
  BY DEF BeginReplace, VaultTypeOK, Up
<1> QED BY <1>1, ReplacedContents DEF BeginReplace, Writers, WriteSteps

LEMMA TypeStep ==
  ASSUME VaultAssumption, VaultTypeOK, [VaultNext]_vaultVars
  PROVE  VaultTypeOK'
<1> USE DEF VaultTypeOK
<1> DEFINE Owned == Snapshots \cup Sources
<1>refs. Owned \subseteq Refs /\ Credentials \subseteq Refs
  BY DEF Refs
<1>1. ASSUME NEW r \in Owned, NEW s \in Secrets, CreateRecord(r, s) PROVE VaultTypeOK'
  <2>1. keeper' \in VaultCommands
    BY <1>1 DEF CreateRecord, VaultCommands, CommandSteps
  <2> QED BY <1>1, <2>1 DEF CreateRecord, Up
<1>2. ASSUME NEW r \in Owned, DeleteRecord(r) PROVE VaultTypeOK'
  <2>1. vaultData[r] \in Secrets \cup {NoSecret}
    BY <1>2, <1>refs, UpType DEF DeleteRecord, Contents
  <2>2. keeper' \in VaultCommands
    BY <1>2, <2>1 DEF DeleteRecord, VaultCommands, CommandSteps
  <2> QED BY <1>2, <2>2 DEF DeleteRecord, Up
<1>3. ASSUME NEW ok \in BOOLEAN, WriteRecord(ok) PROVE VaultTypeOK'
  <2>1. keeper \in VaultCommands /\ keeper.ref \in Owned
    BY <1>3 DEF WriteRecord, VaultCommands
  <2>2. keeper' \in VaultCommands \cup {NoCommand}
    BY <1>3, <2>1 DEF WriteRecord, Step, VaultCommands, CommandSteps
  <2> QED BY <1>3, <2>1, <2>2 DEF WriteRecord, Up
<1>4. ASSUME NEW ok \in BOOLEAN, NEW undone \in BOOLEAN, Rebuild(ok, undone) PROVE VaultTypeOK'
  <2>1. keeper \in VaultCommands /\ keeper.ref \in Owned
    BY <1>4 DEF Rebuild, VaultCommands
  <2>2. keeper' \in VaultCommands \cup {NoCommand}
    BY <1>4, <2>1 DEF Rebuild, Step, VaultCommands, CommandSteps
  <2> QED BY <1>4, <2>1, <2>2 DEF Rebuild, Up
<1>5. ASSUME NEW ok \in BOOLEAN, DeleteFromKeyring(ok) PROVE VaultTypeOK'
  <2>1. keeper' \in VaultCommands \cup {NoCommand}
    BY <1>5, UndoType DEF DeleteFromKeyring
  <2> QED BY <1>5, <2>1 DEF DeleteFromKeyring, Up
<1>6. ASSUME NEW ok \in BOOLEAN, Relist(ok) PROVE VaultTypeOK'
  <2>1. keeper \in VaultCommands /\ keeper.ref \in Owned
    BY <1>6 DEF Relist, VaultCommands
  <2>2. keeper' \in VaultCommands \cup {NoCommand}
    BY <1>6, <2>1 DEF Relist, Step, VaultCommands, CommandSteps
  <2>3. unpaid' \subseteq Snapshots
    BY <1>6 DEF Relist
  <2> QED BY <1>6, <2>1, <2>2, <2>3 DEF Relist, Up
<1>7. ASSUME CommandWrites PROVE VaultTypeOK'
  <2>1. /\ keeper \in VaultCommands /\ keeper.ref \in Refs
        /\ keeper.secret \in Secrets \cup {NoSecret}
    BY <1>7, <1>refs DEF CommandWrites, VaultCommands
  <2>2. CASE BeginReplace(keeper.ref, keeper.secret) /\ UNCHANGED keeper
    <3>1. vaultData' \in Contents /\ vaultWriter' \in Writers
      BY <2>1, <2>2, BeginReplaceType
    <3> QED BY <2>2, <3>1 DEF BeginReplace, Up, VaultAssumption
  <2>3. CASE BeginReplace(keeper.ref, NoSecret) /\ UNCHANGED keeper
    <3>1. vaultData' \in Contents /\ vaultWriter' \in Writers
      BY <2>1, <2>3, BeginReplaceType
    <3> QED BY <2>3, <3>1 DEF BeginReplace, Up, VaultAssumption
  <2>4. CASE /\ Return(keeper.ref, TRUE)
             /\ UNCHANGED <<vaultData, main, backup, vaultWriter, listed, stranded, unpaid>>
    <3>1. keeper' \in VaultCommands \cup {NoCommand}
      BY <2>4, ReturnType
    <3> QED BY <2>4, <3>1, <1>7 DEF CommandWrites, Up
  <2> QED BY <1>7, <2>2, <2>3, <2>4 DEF CommandWrites
<1>8. ASSUME NEW r \in Credentials, NEW s \in Secrets \cup {NoSecret}, CredentialWrites(r, s)
      PROVE  VaultTypeOK'
  <2>1. vaultData' \in Contents /\ vaultWriter' \in Writers
    BY <1>8, <1>refs, BeginReplaceType DEF CredentialWrites
  <2> QED BY <1>8, <2>1 DEF CredentialWrites, BeginReplace, Up, VaultAssumption
<1>9. ASSUME Stage \/ DropBackup \/ MoveAside \/ Install PROVE VaultTypeOK'
  <2>1. vaultData \in Contents /\ vaultWriter \in Writers /\ Up
    BY <1>9, UpType DEF Stage, DropBackup, MoveAside, Install, Advance
  <2>2. vaultWriter' \in Writers
    BY <1>9, <2>1 DEF Stage, DropBackup, MoveAside, Install, Advance, Writers, WriteSteps
  <2>3. {main', backup'} \subseteq Contents \cup {NoFile}
    BY <1>9, <2>1 DEF Stage, DropBackup, MoveAside, Install
  <2> QED BY <1>9, <2>1, <2>2, <2>3 DEF Stage, DropBackup, MoveAside, Install, Advance, Up
<1>10. ASSUME Sweep PROVE VaultTypeOK'
  <2>1. keeper' \in VaultCommands \cup {NoCommand}
    BY <1>10, ReturnType DEF Sweep
  <2> QED BY <1>10, <2>1 DEF Sweep, Up
<1>11. ASSUME FailReplace PROVE VaultTypeOK'
  <2>1. keeper' \in VaultCommands \cup {NoCommand}
    BY <1>11, ReturnType DEF FailReplace
  <2>2. vaultData' \in Contents /\ stranded' \in BOOLEAN
    BY <1>11, UpType DEF FailReplace, Writers
  <2>3. {main', backup'} \subseteq Contents \cup {NoFile}
    BY <1>11 DEF FailReplace
  <2> QED BY <1>11, <2>1, <2>2, <2>3 DEF FailReplace, Up, VaultAssumption
<1>12. ASSUME OpenVault PROVE VaultTypeOK'
  <2>1. {main', backup'} \subseteq Contents \cup {NoFile}
    BY <1>12 DEF OpenVault
  <2>2. vaultData' \in Contents
    BY <1>12, <2>1, EmptyIsContents DEF OpenVault
  <2> QED BY <1>12, <2>1, <2>2 DEF OpenVault, Up
<1>13. ASSUME CrashVault PROVE VaultTypeOK'
  BY <1>13 DEF CrashVault, Up
<1>14. CASE UNCHANGED vaultVars
  BY <1>14 DEF vaultVars, Up
<1> QED
  BY <1>1, <1>2, <1>3, <1>4, <1>5, <1>6, <1>7, <1>8, <1>9, <1>10, <1>11, <1>12, <1>13, <1>14
  DEF VaultNext

-----------------------------------------------------------------------------
(* What the next start reads *)

\* FilesFollow says it step by step; here for the files as a whole.
LEMMA RecoverableFollows ==
  ASSUME VaultAssumption, VaultTypeOK, FilesFollow, ~stranded
  PROVE  RecoversMemory
<1> SUFFICES ASSUME Up
             PROVE  \/ Recoverable = vaultData
                    \/ vaultWriter # NoWriter /\ Recoverable = vaultWriter.before
  BY DEF RecoversMemory
<1>1. CASE vaultWriter = NoWriter
  <2>1. Holds(vaultData)
    BY <1>1 DEF FilesFollow, Quiet
  <2> QED BY <2>1, EmptyIsContents DEF Holds, Recoverable, VaultAssumption, VaultTypeOK, Up
<1>2. CASE vaultWriter # NoWriter
  <2>1. vaultWriter \in Writers
    BY <1>2 DEF VaultTypeOK
  <2>2. vaultWriter.step \in WriteSteps /\ vaultWriter.before \in Contents
    BY <2>1 DEF Writers
  <2>3. CASE vaultWriter.step \in {"stage", "drop", "aside"}
    <3>1. Holds(vaultWriter.before)
      BY <1>2, <2>3 DEF FilesFollow, Untouched, Cleared
    <3> QED BY <1>2, <2>2, <3>1 DEF Holds, Recoverable, VaultAssumption
  <2>4. CASE vaultWriter.step = "install"
    BY <1>2, <2>2, <2>4 DEF FilesFollow, MovedAside, Recoverable, VaultAssumption
  <2>5. CASE vaultWriter.step = "sweep"
    BY <1>2, <2>5 DEF FilesFollow, Installed, Recoverable, VaultTypeOK, Up
  <2> QED BY <2>2, <2>3, <2>4, <2>5 DEF WriteSteps
<1> QED BY <1>1, <1>2

\* The same after a step: a replacement in progress touches no listed secret.
LEMMA FilesFromMemory ==
  ASSUME VaultAssumption, VaultTypeOK', FilesFollow', OneSecret', MemoryHasListed', Up'
  PROVE  FilesHaveListed'
<1> SUFFICES ASSUME ~stranded', NEW r \in (listed \ unpaid)'
             PROVE  Recoverable'[r] # NoSecret
  BY DEF FilesHaveListed, ListedHasSecret
<1>1. vaultData'[r] # NoSecret /\ r \in Refs /\ r \in listed'
  BY DEF MemoryHasListed, VaultTypeOK, Refs
<1>2. CASE vaultWriter' = NoWriter
  <2>1. main' = vaultData' \/ (main' = NoFile /\ backup' = NoFile /\ vaultData' = Empty)
    BY <1>2 DEF FilesFollow, Quiet, Holds
  <2>2. Recoverable' = vaultData'
    BY <2>1 DEF Recoverable, VaultTypeOK, Up
  <2> QED BY <1>1, <2>2
<1>3. CASE vaultWriter' # NoWriter
  <2>1. vaultWriter'.step \in WriteSteps /\ vaultWriter'.before \in Contents
    BY <1>3 DEF VaultTypeOK, Writers
  <2>2. vaultWriter'.before[r] # NoSecret
    BY <1>1, <1>3 DEF OneSecret
  <2>3. Recoverable' = vaultWriter'.before \/ Recoverable' = vaultData'
    <3>1. CASE vaultWriter'.step \in {"stage", "drop", "aside"}
      <4>1. \/ main' = vaultWriter'.before
            \/ main' = NoFile /\ backup' = NoFile /\ vaultWriter'.before = Empty
        BY <1>3, <3>1 DEF FilesFollow, Untouched, Cleared, Holds
      <4> QED BY <2>1, <4>1 DEF Recoverable, VaultAssumption
    <3>2. CASE vaultWriter'.step = "install"
      BY <1>3, <2>1, <3>2 DEF FilesFollow, MovedAside, Recoverable, VaultAssumption
    <3>3. CASE vaultWriter'.step = "sweep"
      BY <1>3, <3>3 DEF FilesFollow, Installed, Recoverable, VaultTypeOK, Up
    <3> QED BY <2>1, <3>1, <3>2, <3>3 DEF WriteSteps
  <2> QED BY <1>1, <2>2, <2>3
<1> QED BY <1>2, <1>3

-----------------------------------------------------------------------------
(* The commands keep the invariant *)

Rest ==
  /\ FilesFollow /\ OneSecret /\ Unlisted /\ Paid /\ WriterOfCommand /\ MemoryHasListed

\* A command that is not in a call of the vault: its reference is not the one
\* that is being written.
LEMMA WriterElsewhere ==
  ASSUME VaultAssumption, VaultTypeOK, WriterOfCommand,
         vaultWriter # NoWriter,
         keeper = NoCommand \/ keeper.step \notin {"save", "resave", "erase", "clean"}
  PROVE  /\ vaultWriter.ref \in Credentials
         /\ vaultWriter.ref \notin Snapshots \cup Sources
BY DEF WriterOfCommand, VaultAssumption

LEMMA FilesUntouched ==
  ASSUME FilesFollow, UNCHANGED <<vaultData, main, backup, vaultWriter, stranded>>
  PROVE  FilesFollow'
BY DEF FilesFollow, Up, Quiet, Untouched, Cleared, MovedAside, Installed, Holds

LEMMA CreateStep ==
  ASSUME VaultAssumption, VaultTypeOK, Rest,
         NEW r \in Snapshots \cup Sources, NEW s \in Secrets, CreateRecord(r, s)
  PROVE  Rest'
<1>1. FilesFollow'
  BY FilesUntouched DEF Rest, CreateRecord
<1>2. OneSecret'
  BY DEF Rest, CreateRecord, OneSecret
<1>3. keeper'.ref = r /\ keeper'.step = "save" /\ keeper'.secret = s /\ r \notin listed'
  BY DEF CreateRecord
<1>4. Unlisted'
  BY <1>3 DEF Unlisted
<1>5. Paid'
  BY <1>3 DEF Paid, VaultAssumption
<1>6. WriterOfCommand'
  BY WriterElsewhere DEF Rest, CreateRecord, WriterOfCommand
<1>7. MemoryHasListed'
  BY DEF Rest, CreateRecord, MemoryHasListed, Up
<1> QED BY <1>1, <1>2, <1>4, <1>5, <1>6, <1>7 DEF Rest

LEMMA DeleteStep ==
  ASSUME VaultAssumption, VaultTypeOK, Rest,
         NEW r \in Snapshots \cup Sources, DeleteRecord(r)
  PROVE  Rest'
<1>1. FilesFollow'
  BY FilesUntouched DEF Rest, DeleteRecord
<1>2. OneSecret'
  BY DEF Rest, DeleteRecord, OneSecret
<1>3. /\ keeper'.ref = r /\ keeper'.step \in {"stop", "erase"}
      /\ r \in listed /\ r \notin listed'
  BY DEF DeleteRecord
<1>4. Unlisted'
  BY <1>3 DEF Unlisted
<1>5. ~stranded => vaultData[r] # NoSecret \/ r \in unpaid
  BY <1>3 DEF Rest, MemoryHasListed, DeleteRecord
<1>6. Paid'
  BY <1>3, <1>5 DEF Paid, DeleteRecord
<1>7. WriterOfCommand'
  BY WriterElsewhere DEF Rest, DeleteRecord, WriterOfCommand
<1>8. MemoryHasListed'
  BY DEF Rest, DeleteRecord, MemoryHasListed, Up
<1> QED BY <1>1, <1>2, <1>4, <1>6, <1>7, <1>8 DEF Rest

LEMMA WriteRecordStep ==
  ASSUME VaultAssumption, VaultTypeOK, Rest, NEW ok \in BOOLEAN, WriteRecord(ok)
  PROVE  Rest'
<1>1. FilesFollow'
  BY FilesUntouched DEF Rest, WriteRecord
<1>2. /\ keeper # NoCommand /\ keeper.step = "record" /\ keeper \in VaultCommands
      /\ keeper.ref \in Snapshots \cup Sources /\ keeper.ref \notin listed
      /\ vaultData[keeper.ref] # NoSecret
  BY DEF WriteRecord, Rest, Unlisted, Paid, VaultTypeOK, VaultCommands
<1>3. vaultWriter # NoWriter =>
        /\ vaultWriter.ref \in Credentials /\ vaultWriter.ref \notin Snapshots \cup Sources
  BY <1>2, WriterElsewhere DEF Rest
<1>4. OneSecret'
  BY <1>2, <1>3 DEF Rest, WriteRecord, OneSecret
<1>5. \/ keeper' = NoCommand
      \/ /\ keeper'.ref = keeper.ref
         /\ \/ keeper'.step = "clean" /\ listed' = listed
            \/ keeper'.step = "start"
  BY <1>2 DEF WriteRecord, Step, VaultCommands
<1>6. Unlisted'
  BY <1>2, <1>5 DEF Unlisted
<1>7. Paid'
  BY <1>2, <1>5 DEF Paid, WriteRecord
<1>8. WriterOfCommand'
  BY <1>3 DEF WriterOfCommand, WriteRecord
<1>9. MemoryHasListed'
  BY <1>2 DEF Rest, WriteRecord, MemoryHasListed, Up
<1> QED BY <1>1, <1>4, <1>6, <1>7, <1>8, <1>9 DEF Rest

LEMMA RebuildStep ==
  ASSUME VaultAssumption, VaultTypeOK, Rest,
         NEW ok \in BOOLEAN, NEW undone \in BOOLEAN, Rebuild(ok, undone)
  PROVE  Rest'
<1>1. FilesFollow'
  BY FilesUntouched DEF Rest, Rebuild
<1>2. /\ keeper # NoCommand /\ keeper.step \in {"start", "stop", "restart"}
      /\ keeper \in VaultCommands /\ keeper.ref \in Snapshots \cup Sources
  BY DEF Rebuild, VaultTypeOK, VaultCommands
<1>3. vaultWriter # NoWriter =>
        /\ vaultWriter.ref \in Credentials /\ vaultWriter.ref \notin Snapshots \cup Sources
  BY <1>2, WriterElsewhere DEF Rest
<1>4. OneSecret'
  BY <1>2, <1>3 DEF Rest, Rebuild, OneSecret
<1>5. \/ keeper' = NoCommand
      \/ /\ keeper'.ref = keeper.ref /\ keeper'.ref \notin listed'
         /\ keeper'.step \in {"erase", "clean"}
  BY <1>2 DEF Rebuild, Step, VaultCommands, Rest, Unlisted
<1>6. Unlisted' /\ Paid'
  BY <1>5 DEF Unlisted, Paid
<1>7. WriterOfCommand'
  BY <1>3 DEF WriterOfCommand, Rebuild
<1>8. MemoryHasListed'
  BY <1>2 DEF Rest, Rebuild, MemoryHasListed, Paid, Up
<1> QED BY <1>1, <1>4, <1>6, <1>7, <1>8 DEF Rest

LEMMA KeyringStep ==
  ASSUME VaultAssumption, VaultTypeOK, Rest, NEW ok \in BOOLEAN, DeleteFromKeyring(ok)
  PROVE  Rest'
<1>1. FilesFollow'
  BY FilesUntouched DEF Rest, DeleteFromKeyring
<1>2. /\ keeper # NoCommand /\ keeper.step = "keyring" /\ keeper \in VaultCommands
      /\ keeper.ref \notin listed
  BY DEF DeleteFromKeyring, Rest, Unlisted, VaultTypeOK
<1>3. vaultWriter # NoWriter => vaultWriter.ref \in Credentials
  BY <1>2, WriterElsewhere DEF Rest
<1>4. OneSecret' /\ MemoryHasListed'
  BY DEF Rest, DeleteFromKeyring, OneSecret, MemoryHasListed, Up
<1>5. \/ keeper' = NoCommand
      \/ /\ keeper'.ref = keeper.ref
         /\ \/ keeper'.step = "relist" /\ keeper'.ref \notin Sources
            \/ keeper'.step = "resave" /\ keeper'.secret # NoSecret
  BY <1>2 DEF DeleteFromKeyring, Undo, Step, VaultCommands, VaultAssumption
<1>6. Unlisted' /\ Paid'
  BY <1>2, <1>5 DEF Unlisted, Paid, DeleteFromKeyring
<1>7. WriterOfCommand'
  BY <1>3 DEF WriterOfCommand, DeleteFromKeyring
<1> QED BY <1>1, <1>4, <1>6, <1>7 DEF Rest

LEMMA RelistStep ==
  ASSUME VaultAssumption, VaultTypeOK, Rest, NEW ok \in BOOLEAN, Relist(ok)
  PROVE  Rest'
<1>1. FilesFollow'
  BY FilesUntouched DEF Rest, Relist
<1>2. /\ keeper # NoCommand /\ keeper.step = "relist" /\ keeper \in VaultCommands
      /\ keeper.ref \in Snapshots \cup Sources
      /\ keeper.ref \in Sources => vaultData[keeper.ref] # NoSecret
  BY DEF Relist, Rest, Paid, VaultTypeOK, VaultCommands
<1>3. vaultWriter # NoWriter =>
        /\ vaultWriter.ref \in Credentials /\ vaultWriter.ref \notin Snapshots \cup Sources
  BY <1>2, WriterElsewhere DEF Rest
<1>4. OneSecret'
  BY <1>2, <1>3 DEF Rest, Relist, OneSecret
<1>5. \/ keeper' = NoCommand
      \/ keeper'.ref = keeper.ref /\ keeper'.step = "restart" /\ keeper.ref \in Sources
  BY <1>2 DEF Relist, Step, VaultCommands
<1>6. Unlisted' /\ Paid'
  BY <1>2, <1>5 DEF Unlisted, Paid, Relist
<1>7. WriterOfCommand'
  BY <1>3 DEF WriterOfCommand, Relist
<1>8. MemoryHasListed'
  BY <1>2 DEF Rest, Relist, MemoryHasListed, Up
<1> QED BY <1>1, <1>4, <1>6, <1>7, <1>8 DEF Rest

-----------------------------------------------------------------------------
(* The vault keeps the invariant *)

\* A replacement begins, of a credential or of the command's secret.
LEMMA BeginStep ==
  ASSUME VaultAssumption, VaultTypeOK, Rest,
         NEW r \in Refs, NEW s \in Secrets \cup {NoSecret}, BeginReplace(r, s), UNCHANGED keeper,
         \/ r \in Credentials
         \/ /\ keeper # NoCommand /\ keeper.ref = r
            /\ \/ keeper.step \in {"save", "resave"} /\ s = keeper.secret
               \/ keeper.step \in {"erase", "clean"}
  PROVE  Rest'
<1>1. /\ vaultData \in Contents /\ vaultData' \in Contents /\ Up /\ Up'
      /\ vaultData'[r] = s /\ \A q \in Refs : q # r => vaultData'[q] = vaultData[q]
  <2>1. Up /\ vaultData \in Contents /\ vaultData' = [vaultData EXCEPT ![r] = s]
    BY DEF BeginReplace, VaultTypeOK, Up
  <2>2. /\ [vaultData EXCEPT ![r] = s] \in Contents
        /\ [vaultData EXCEPT ![r] = s][r] = s
        /\ \A q \in Refs : q # r => [vaultData EXCEPT ![r] = s][q] = vaultData[q]
    BY <2>1 DEF Contents
  <2>3. Up'
    BY <2>1, <2>2 DEF Up, VaultAssumption
  <2> QED BY <2>1, <2>2, <2>3
<1>2. /\ vaultWriter = NoWriter /\ vaultWriter' # NoWriter
      /\ vaultWriter'.ref = r /\ vaultWriter'.before = vaultData /\ vaultWriter'.step = "stage"
  BY <1>1, BeginReplaceType DEF BeginReplace, VaultAssumption
<1>3. r \notin listed
  BY DEF Rest, Unlisted, VaultTypeOK, VaultAssumption
<1>4. FilesFollow'
  <2>1. ~stranded => Holds(vaultData)
    BY <1>1, <1>2 DEF Rest, FilesFollow, Quiet
  <2>2. ~stranded' => Holds(vaultWriter.before)'
    BY <1>2, <2>1 DEF Holds, BeginReplace
  <2> QED BY <1>2, <2>2 DEF FilesFollow, Quiet, Untouched, Cleared, MovedAside, Installed
<1>5. OneSecret'
  BY <1>1, <1>2, <1>3 DEF OneSecret, BeginReplace
<1>6. Unlisted'
  BY DEF Rest, Unlisted, BeginReplace
<1>7. Paid'
  <2>1. CASE keeper = NoCommand
    BY <2>1 DEF Paid
  <2>2. CASE keeper # NoCommand
    <3>1. keeper.ref \in Snapshots \cup Sources /\ keeper.ref \in Refs
      BY <2>2 DEF VaultTypeOK, VaultCommands, Refs
    <3>2. \/ vaultData'[keeper.ref] = vaultData[keeper.ref]
          \/ keeper.step \in {"save", "resave", "erase", "clean"}
      BY <1>1, <3>1 DEF VaultAssumption
    <3> QED BY <2>2, <3>2 DEF Rest, Paid, BeginReplace
  <2> QED BY <2>1, <2>2
<1>8. WriterOfCommand'
  BY <1>1, <1>2 DEF WriterOfCommand
<1>9. MemoryHasListed'
  BY <1>1, <1>3 DEF Rest, MemoryHasListed, BeginReplace, VaultTypeOK, Refs
<1> QED BY <1>4, <1>5, <1>6, <1>7, <1>8, <1>9 DEF Rest

\* A deletion of what the vault does not have returns at once.
LEMMA NothingToErase ==
  ASSUME VaultAssumption, VaultTypeOK, Rest,
         keeper # NoCommand, keeper.step \in {"erase", "clean"}, vaultWriter = NoWriter,
         Return(keeper.ref, TRUE),
         UNCHANGED <<vaultData, main, backup, vaultWriter, listed, stranded, unpaid>>
  PROVE  Rest'
<1>1. FilesFollow'
  BY FilesUntouched DEF Rest
<1>2. OneSecret' /\ WriterOfCommand'
  BY DEF OneSecret, WriterOfCommand
<1>3. keeper \in VaultCommands /\ keeper.ref \notin listed
  BY DEF Rest, Unlisted, VaultTypeOK
<1>4. keeper' = NoCommand \/ (keeper'.ref = keeper.ref /\ keeper'.step = "keyring")
  BY <1>3 DEF Return, AfterVault, Step, VaultCommands
<1>5. Unlisted' /\ Paid'
  BY <1>3, <1>4 DEF Unlisted, Paid
<1>6. MemoryHasListed'
  BY DEF Rest, MemoryHasListed, Up
<1> QED BY <1>1, <1>2, <1>5, <1>6 DEF Rest

LEMMA CommandWritesStep ==
  ASSUME VaultAssumption, VaultTypeOK, Rest, CommandWrites
  PROVE  Rest'
<1>1. /\ keeper # NoCommand /\ keeper.ref \in Refs
      /\ keeper.secret \in Secrets \cup {NoSecret}
  BY DEF CommandWrites, VaultTypeOK, VaultCommands, Refs
<1>2. CASE /\ keeper.step \in {"save", "resave"}
           /\ BeginReplace(keeper.ref, keeper.secret) /\ UNCHANGED keeper
  BY <1>1, <1>2, BeginStep
<1>3. CASE /\ keeper.step \in {"erase", "clean"}
           /\ BeginReplace(keeper.ref, NoSecret) /\ UNCHANGED keeper
  BY <1>1, <1>3, BeginStep
<1>4. CASE /\ keeper.step \in {"erase", "clean"} /\ vaultWriter = NoWriter
           /\ Return(keeper.ref, TRUE)
           /\ UNCHANGED <<vaultData, main, backup, vaultWriter, listed, stranded, unpaid>>
  BY <1>1, <1>4, NothingToErase
<1> QED BY <1>2, <1>3, <1>4 DEF CommandWrites

LEMMA AdvanceStep ==
  ASSUME VaultAssumption, VaultTypeOK, Rest, Stage \/ DropBackup \/ MoveAside \/ Install
  PROVE  Rest'
<1>1. /\ vaultWriter # NoWriter /\ vaultWriter \in Writers
      /\ UNCHANGED <<vaultData, keeper, listed, stranded, unpaid>>
  BY DEF Stage, DropBackup, MoveAside, Install, Advance, VaultTypeOK
<1>2. /\ vaultWriter' \in Writers /\ vaultWriter' # NoWriter
      /\ vaultWriter'.ref = vaultWriter.ref /\ vaultWriter'.before = vaultWriter.before
  BY <1>1 DEF Stage, DropBackup, MoveAside, Install, Advance, Writers, WriteSteps, VaultAssumption
<1>3. /\ Stage => vaultWriter.step = "stage" /\ vaultWriter'.step = "drop"
      /\ DropBackup => vaultWriter.step = "drop" /\ vaultWriter'.step = "aside"
      /\ MoveAside => vaultWriter.step = "aside" /\ vaultWriter'.step = "install"
      /\ Install => vaultWriter.step = "install" /\ vaultWriter'.step = "sweep"
  BY <1>1 DEF Stage, DropBackup, MoveAside, Install, Advance, Writers
<1>4. ASSUME ~stranded, Up PROVE (Quiet /\ Untouched /\ Cleared /\ MovedAside /\ Installed)'
  <2>1. Quiet'
    BY <1>2 DEF Quiet
  <2>2. CASE Stage
    <3>1. Holds(vaultWriter.before)
      BY <1>1, <1>3, <1>4, <2>2 DEF Rest, FilesFollow, Untouched
    <3>2. Holds(vaultWriter.before)'
      BY <1>2, <2>2, <3>1 DEF Stage, Holds
    <3> QED BY <1>3, <2>1, <2>2, <3>2 DEF Untouched, Cleared, MovedAside, Installed
  <2>3. CASE DropBackup
    <3>1. Holds(vaultWriter.before)
      BY <1>1, <1>3, <1>4, <2>3 DEF Rest, FilesFollow, Untouched
    <3>2. Holds(vaultWriter.before)' /\ backup' = NoFile
      BY <1>2, <2>3, <3>1 DEF DropBackup, Holds
    <3> QED BY <1>3, <2>1, <2>3, <3>2 DEF Untouched, Cleared, MovedAside, Installed
  <2>4. CASE MoveAside
    <3>1. Holds(vaultWriter.before) /\ backup = NoFile
      BY <1>1, <1>3, <1>4, <2>4 DEF Rest, FilesFollow, Cleared
    <3>2. /\ main' = NoFile
          /\ \/ backup' = vaultWriter'.before
             \/ backup' = NoFile /\ vaultWriter'.before = Empty
      BY <1>1, <1>2, <2>4, <3>1 DEF MoveAside, Holds
    <3> QED BY <1>3, <2>1, <2>4, <3>2 DEF Untouched, Cleared, MovedAside, Installed
  <2>5. CASE Install
    <3>1. main' = vaultData'
      BY <1>1, <2>5 DEF Install
    <3> QED BY <1>3, <2>1, <2>5, <3>1 DEF Untouched, Cleared, MovedAside, Installed
  <2> QED BY <2>2, <2>3, <2>4, <2>5
<1>5. FilesFollow'
  BY <1>1, <1>4 DEF FilesFollow, Up
<1>6. OneSecret' /\ WriterOfCommand'
  BY <1>1, <1>2 DEF Rest, OneSecret, WriterOfCommand
<1>7. Unlisted' /\ Paid' /\ MemoryHasListed'
  BY <1>1 DEF Rest, Unlisted, Paid, MemoryHasListed, Up
<1> QED BY <1>5, <1>6, <1>7 DEF Rest

LEMMA SweepStep ==
  ASSUME VaultAssumption, VaultTypeOK, Rest, Sweep
  PROVE  Rest'
<1>1. /\ vaultWriter # NoWriter /\ vaultWriter.step = "sweep" /\ vaultWriter' = NoWriter
      /\ UNCHANGED <<vaultData, main, listed, stranded, unpaid>>
      /\ Return(vaultWriter.ref, TRUE)
  BY DEF Sweep
<1>2. FilesFollow'
  <2>1. ASSUME ~stranded, Up PROVE main = vaultData
    BY <1>1, <2>1 DEF Rest, FilesFollow, Installed
  <2> QED
    BY <1>1, <2>1
    DEF FilesFollow, Up, Quiet, Holds, Untouched, Cleared, MovedAside, Installed
<1>3. OneSecret' /\ WriterOfCommand'
  BY <1>1 DEF OneSecret, WriterOfCommand
<1>4. MemoryHasListed'
  BY <1>1 DEF Rest, MemoryHasListed, Up
<1>5. CASE keeper # NoCommand /\ keeper.ref = vaultWriter.ref
  <2>1. /\ keeper \in VaultCommands /\ keeper' = AfterVault(keeper, TRUE)
        /\ keeper.step \in {"save", "resave", "erase", "clean"} /\ keeper.ref \notin listed
        /\ keeper.step \in {"save", "resave"} => vaultData[keeper.ref] # NoSecret
    <3>1. keeper \in VaultCommands /\ keeper.ref \notin Credentials
      BY <1>5 DEF VaultTypeOK, VaultCommands, VaultAssumption
    <3> QED BY <1>1, <1>5, <3>1 DEF Return, Rest, WriterOfCommand, Paid, OneSecret
  <2>2. \/ keeper' = NoCommand
        \/ /\ keeper'.ref = keeper.ref
           /\ \/ keeper'.step \in {"record", "relist"} /\ vaultData[keeper.ref] # NoSecret
              \/ keeper'.step = "keyring"
    BY <2>1 DEF AfterVault, Step, VaultCommands
  <2>3. Unlisted' /\ Paid'
    BY <1>1, <2>1, <2>2 DEF Unlisted, Paid
  <2> QED BY <1>2, <1>3, <1>4, <2>3 DEF Rest
<1>6. CASE ~(keeper # NoCommand /\ keeper.ref = vaultWriter.ref)
  <2>1. UNCHANGED keeper
    BY <1>1, <1>6 DEF Return
  <2>2. Unlisted' /\ Paid'
    BY <1>1, <2>1 DEF Rest, Unlisted, Paid
  <2> QED BY <1>2, <1>3, <1>4, <2>2 DEF Rest
<1> QED BY <1>5, <1>6

LEMMA FailStep ==
  ASSUME VaultAssumption, VaultTypeOK, Rest, FailReplace
  PROVE  Rest'
<1>1. /\ vaultWriter # NoWriter /\ vaultWriter \in Writers /\ vaultWriter' = NoWriter
      /\ vaultData' = vaultWriter.before /\ UNCHANGED <<listed, unpaid>>
      /\ Return(vaultWriter.ref, FALSE) /\ Up
  BY DEF FailReplace, VaultTypeOK
<1>2. \A r \in Refs : r # vaultWriter.ref => vaultData'[r] = vaultData[r]
  BY <1>1 DEF Rest, OneSecret
<1>3. stranded => stranded'
  BY DEF FailReplace
<1>4. ASSUME ~stranded' PROVE Holds(vaultData)'
  <2>1. ~stranded
    BY <1>3, <1>4
  <2>2. CASE vaultWriter.step \in {"stage", "drop", "aside"} /\ UNCHANGED <<main, backup>>
    <3>1. Holds(vaultWriter.before)
      BY <1>1, <2>1, <2>2 DEF Rest, FilesFollow, Untouched, Cleared
    <3> QED BY <1>1, <2>2, <3>1 DEF Holds
  <2>3. CASE /\ vaultWriter.step = "install" /\ backup # NoFile
             /\ main' = backup /\ backup' = NoFile
    <3>1. backup = vaultWriter.before
      BY <1>1, <2>1, <2>3 DEF Rest, FilesFollow, MovedAside
    <3> QED BY <1>1, <2>3, <3>1 DEF Holds
  <2>4. CASE /\ vaultWriter.step = "install" /\ stranded' = (stranded \/ backup # NoFile)
             /\ UNCHANGED <<main, backup>>
    <3>1. backup = NoFile
      BY <1>4, <2>4
    <3>2. main = NoFile /\ (backup = vaultWriter.before \/ vaultWriter.before = Empty)
      BY <1>1, <2>1, <2>4 DEF Rest, FilesFollow, MovedAside
    <3> QED BY <1>1, <2>4, <3>1, <3>2 DEF Holds
  <2> QED BY <2>2, <2>3, <2>4 DEF FailReplace
<1>5. FilesFollow'
  BY <1>1, <1>4 DEF FilesFollow, Quiet, Untouched, Cleared, MovedAside, Installed
<1>6. OneSecret' /\ WriterOfCommand'
  BY <1>1 DEF OneSecret, WriterOfCommand
<1>7. MemoryHasListed'
  BY <1>1, <1>2, <1>3 DEF Rest, MemoryHasListed, OneSecret, VaultTypeOK, Refs
<1>8. CASE keeper # NoCommand /\ keeper.ref = vaultWriter.ref
  <2>1. /\ keeper \in VaultCommands /\ keeper' = AfterVault(keeper, FALSE)
        /\ keeper.step \in {"save", "resave", "erase", "clean"} /\ keeper.ref \notin listed
    <3>1. keeper \in VaultCommands /\ keeper.ref \notin Credentials
      BY <1>8 DEF VaultTypeOK, VaultCommands, VaultAssumption
    <3> QED BY <1>1, <1>8, <3>1 DEF Return, Rest, WriterOfCommand, OneSecret
  <2>2. \/ keeper' = NoCommand
        \/ /\ keeper'.ref = keeper.ref
           /\ \/ keeper'.step = "relist" /\ keeper'.ref \notin Sources
              \/ keeper'.step = "resave" /\ keeper'.secret # NoSecret
    BY <2>1 DEF AfterVault, Undo, Step, VaultCommands, VaultAssumption
  <2>3. Unlisted' /\ Paid'
    BY <1>1, <2>1, <2>2 DEF Unlisted, Paid
  <2> QED BY <1>5, <1>6, <1>7, <2>3 DEF Rest
<1>9. CASE ~(keeper # NoCommand /\ keeper.ref = vaultWriter.ref)
  <2>1. UNCHANGED keeper
    BY <1>1, <1>9 DEF Return
  <2>2. keeper # NoCommand => keeper.ref \in Refs /\ vaultData'[keeper.ref] = vaultData[keeper.ref]
    BY <1>2, <1>9 DEF VaultTypeOK, VaultCommands, Refs
  <2>3. Unlisted' /\ Paid'
    BY <1>1, <1>3, <2>1, <2>2 DEF Rest, Unlisted, Paid
  <2> QED BY <1>5, <1>6, <1>7, <2>3 DEF Rest
<1> QED BY <1>8, <1>9

LEMMA OpenStep ==
  ASSUME VaultAssumption, VaultTypeOK, Rest, FilesHaveListed, OpenVault
  PROVE  Rest'
<1>1. /\ ~Up /\ vaultWriter = NoWriter /\ keeper = NoCommand
      /\ UNCHANGED <<vaultWriter, keeper, listed, stranded, unpaid>>
  BY DEF OpenVault, VaultTypeOK
<1>2. vaultData' = Recoverable
  BY DEF OpenVault, Recoverable
<1>3. Holds(vaultData)'
  BY DEF OpenVault, Holds
<1>4. FilesFollow' /\ OneSecret' /\ WriterOfCommand' /\ Unlisted' /\ Paid'
  BY <1>1, <1>3
  DEF FilesFollow, Quiet, Untouched, Cleared, MovedAside, Installed, OneSecret, WriterOfCommand,
      Unlisted, Paid
<1>5. MemoryHasListed'
  BY <1>1, <1>2 DEF MemoryHasListed, FilesHaveListed, ListedHasSecret
<1> QED BY <1>4, <1>5 DEF Rest

LEMMA CrashStep ==
  ASSUME CrashVault
  PROVE  Rest'
BY DEF CrashVault, Rest, FilesFollow, OneSecret, WriterOfCommand, Unlisted, Paid, MemoryHasListed, Up

LEMMA RestStep ==
  ASSUME VaultAssumption, VaultIInv, [VaultNext]_vaultVars
  PROVE  Rest'
<1>0. VaultTypeOK /\ Rest /\ FilesHaveListed
  BY DEF VaultIInv, Rest
<1>1. ASSUME NEW r \in Credentials, NEW s \in Secrets \cup {NoSecret}, CredentialWrites(r, s)
      PROVE  Rest'
  BY <1>0, <1>1, BeginStep DEF CredentialWrites, Refs
<1>2. CASE UNCHANGED vaultVars
  <2>1. FilesFollow'
    BY <1>0, <1>2, FilesUntouched DEF Rest, vaultVars
  <2>2. (OneSecret /\ Unlisted /\ Paid /\ WriterOfCommand /\ MemoryHasListed)'
    BY <1>0, <1>2
    DEF Rest, OneSecret, Unlisted, Paid, WriterOfCommand, MemoryHasListed, vaultVars, Up
  <2> QED BY <2>1, <2>2 DEF Rest
<1> QED
  BY <1>0, <1>1, <1>2, CreateStep, DeleteStep, WriteRecordStep, RebuildStep, KeyringStep, RelistStep,
     CommandWritesStep, AdvanceStep, SweepStep, FailStep, OpenStep, CrashStep DEF VaultNext

\* Only a crash ends the program, and it touches no file and no record.
LEMMA StaysDown ==
  ASSUME VaultAssumption, VaultTypeOK, [VaultNext]_vaultVars, ~Up'
  PROVE  UNCHANGED <<main, backup, listed, stranded, unpaid>>
<1>1. ASSUME NEW r \in Refs, NEW s \in Secrets \cup {NoSecret}, BeginReplace(r, s) PROVE FALSE
  BY <1>1, BeginReplaceType DEF Up, VaultAssumption
<1>2. ~(\E r \in Credentials, s \in Secrets \cup {NoSecret} : CredentialWrites(r, s))
  BY <1>1 DEF CredentialWrites, Refs
<1>3. CASE CommandWrites
  <2>1. /\ keeper # NoCommand /\ keeper.ref \in Refs
        /\ keeper.secret \in Secrets \cup {NoSecret} /\ Up
    BY <1>3 DEF CommandWrites, VaultTypeOK, VaultCommands, Refs
  <2>2. ~BeginReplace(keeper.ref, keeper.secret) /\ ~BeginReplace(keeper.ref, NoSecret)
    BY <1>1, <2>1
  <2>3. UNCHANGED vaultData
    BY <1>3, <2>2 DEF CommandWrites
  <2> QED BY <2>1, <2>3 DEF Up
<1>4. ~FailReplace
  BY UpType DEF FailReplace, Writers, Up, VaultAssumption
<1>5. ~OpenVault
  BY EmptyIsContents DEF OpenVault, Up, VaultAssumption
<1>6. /\ \A r \in Snapshots \cup Sources : ~DeleteRecord(r) /\ \A s \in Secrets : ~CreateRecord(r, s)
      /\ \A ok, undone \in BOOLEAN : ~Rebuild(ok, undone)
      /\ \A ok \in BOOLEAN : ~WriteRecord(ok) /\ ~DeleteFromKeyring(ok) /\ ~Relist(ok)
  BY UpType DEF CreateRecord, DeleteRecord, WriteRecord, Rebuild, DeleteFromKeyring, Relist, Up
<1>7. ~Stage /\ ~DropBackup /\ ~MoveAside /\ ~Install /\ ~Sweep
  BY UpType DEF Stage, DropBackup, MoveAside, Install, Advance, Sweep, Up
<1>8. CASE CrashVault
  BY <1>8 DEF CrashVault
<1>9. CASE UNCHANGED vaultVars
  BY <1>9 DEF vaultVars
<1> QED BY <1>2, <1>3, <1>4, <1>5, <1>6, <1>7, <1>8, <1>9 DEF VaultNext

\* The files alone, after a crash.
LEMMA FilesStep ==
  ASSUME VaultAssumption, VaultIInv, VaultTypeOK', Rest', [VaultNext]_vaultVars
  PROVE  FilesHaveListed'
<1>1. CASE Up'
  BY <1>1, FilesFromMemory DEF Rest
<1>2. CASE ~Up'
  <2>1. UNCHANGED <<main, backup, listed, stranded, unpaid>>
    BY <1>2, StaysDown DEF VaultIInv
  <2> QED BY <2>1 DEF VaultIInv, FilesHaveListed, ListedHasSecret, Recoverable
<1> QED BY <1>1, <1>2

-----------------------------------------------------------------------------
(* Theorems *)

LEMMA VaultStarts ==
  ASSUME VaultAssumption, VaultInit
  PROVE  VaultIInv
BY DEF VaultInit, VaultIInv, VaultTypeOK, Up, FilesFollow, OneSecret, Unlisted, Paid, WriterOfCommand,
       MemoryHasListed, FilesHaveListed, ListedHasSecret

\* The inductive invariant: the files follow memory step by step, one secret
\* changes at a time, and no record is listed while its own may be missing.
THEOREM VaultInvariant == VaultSpec => []VaultIInv
<1>1. VaultInit => VaultIInv
  BY VaultAssumption, VaultStarts
<1>2. VaultIInv /\ [VaultNext]_vaultVars => VaultIInv'
  <2> SUFFICES ASSUME VaultIInv, [VaultNext]_vaultVars PROVE VaultIInv'
    OBVIOUS
  <2>1. VaultTypeOK'
    BY VaultAssumption, TypeStep DEF VaultIInv
  <2>2. Rest'
    BY VaultAssumption, RestStep
  <2>3. FilesHaveListed'
    BY <2>1, <2>2, VaultAssumption, FilesStep
  <2> QED BY <2>1, <2>2, <2>3 DEF VaultIInv, Rest
<1> QED BY <1>1, <1>2, PTL DEF VaultSpec

\* Every variable of the vault has its type, and nobody writes the vault of a
\* program that ended (vault.rs).
THEOREM VaultTypeCorrect == VaultSpec => []VaultTypeOK
<1>1. VaultIInv => VaultTypeOK
  BY DEF VaultIInv
<1> QED BY <1>1, VaultInvariant, PTL

\* Wherever the program ends, and whichever call of the file system fails, the
\* next start reads what was in memory or what was there before the replacement
\* in progress, and every listed record has its secret (atomic_replace,
\* delete_with, delete_local_source).
THEOREM VaultAlwaysSurvives == VaultSpec => []VaultSurvives
<1>1. VaultIInv => VaultSurvives
  BY VaultAssumption, RecoverableFollows DEF VaultIInv, VaultSurvives, FilesHaveListed
<1> QED BY <1>1, VaultInvariant, PTL
=============================================================================
