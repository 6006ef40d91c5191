---------------------------- MODULE SecretVault ----------------------------
(***************************************************************************)
(* The encrypted vault (src-tauri/src/local_pool/store/vault.rs) and two   *)
(* kinds of records whose secret it holds: snapshots of profiles           *)
(* (profiles/snapshots.rs) and API sources (commands/connections/edit.rs). *)
(*                                                                         *)
(* The vault is one file, replaced as a whole under a mutex: the new       *)
(* contents are staged, the old file becomes the backup, the staged one    *)
(* takes its place.  Each call of the file system is a step; any of them   *)
(* may fail, and the program may end before any of them.  Records are      *)
(* created and deleted by commands, one at a time (setup_guard), while     *)
(* the credentials of accounts are saved in the background.                *)
(***************************************************************************)
EXTENDS FiniteSets

CONSTANTS
  Snapshots, Sources,   \* references of secrets that belong to a record
  Credentials,          \* references saved at any time, with no record here
  Secrets,              \* what may be saved
  NoSecret, NoFile, NoWriter, NoCommand

Refs == Snapshots \cup Sources \cup Credentials
Contents == [Refs -> Secrets \cup {NoSecret}]
Empty == [r \in Refs |-> NoSecret]

VARIABLES
  vaultData,    \* Vault.vault_data; NoFile while the program does not run
  main, backup, \* secrets.enc and secrets.enc.bak
  vaultWriter,  \* the replacement in progress, under the mutex of vault_data
  keeper,       \* the command that creates or deletes a record
  listed,       \* records that exist: snapshot files, sources of the store
  stranded,     \* history: installing failed, and so did moving the backup back
  unpaid        \* history: snapshots listed again after their secret was deleted

vaultVars == <<vaultData, main, backup, vaultWriter, keeper, listed, stranded, unpaid>>

WriteSteps == {"stage", "drop", "aside", "install", "sweep"}
Writers == [ref : Refs, before : Contents, step : WriteSteps]

CommandSteps ==
  {"save", "record", "start", "clean", "stop", "erase", "keyring", "resave", "relist", "restart"}
VaultCommands ==
  [ref : Snapshots \cup Sources, step : CommandSteps, secret : Secrets \cup {NoSecret}]

ASSUME VaultAssumption ==
  /\ NoSecret \notin Secrets
  /\ NoFile \notin Contents /\ NoWriter \notin Writers /\ NoCommand \notin VaultCommands
  /\ Snapshots \cap Sources = {}
  /\ Credentials \cap (Snapshots \cup Sources) = {}

VaultInit ==
  /\ vaultData = NoFile /\ main = NoFile /\ backup = NoFile
  /\ vaultWriter = NoWriter /\ keeper = NoCommand
  /\ listed = {} /\ stranded = FALSE /\ unpaid = {}

Up == vaultData # NoFile

-----------------------------------------------------------------------------
(* The commands *)

Step(command, step) == [command EXCEPT !.step = step]

\* delete_with writes the record of a snapshot again; delete_local_source first
\* saves the secret that it had read.
Undo(command) ==
  CASE command.ref \in Snapshots  -> Step(command, "relist")
    [] command.secret = NoSecret  -> NoCommand
    [] OTHER                      -> Step(command, "resave")

\* What a command does after a call of the vault.
AfterVault(command, ok) ==
  CASE command.step = "save"   -> IF ok THEN Step(command, "record") ELSE NoCommand
    [] command.step = "erase"  -> IF ok THEN Step(command, "keyring") ELSE Undo(command)
    [] command.step = "resave" -> IF ok THEN Step(command, "relist") ELSE NoCommand
    [] OTHER                   -> NoCommand

\* A vault call of reference r returns.
Return(r, ok) ==
  keeper' = IF keeper # NoCommand /\ keeper.ref = r THEN AfterVault(keeper, ok) ELSE keeper

\* The identifier of a new record is a fresh one.
CreateRecord(r, s) ==
  /\ Up /\ keeper = NoCommand
  /\ r \notin listed /\ vaultData[r] = NoSecret
  /\ keeper' = [ref |-> r, step |-> "save", secret |-> s]
  /\ unpaid' = unpaid \ {r}
  /\ UNCHANGED <<vaultData, main, backup, vaultWriter, listed, stranded>>

\* The record goes first.  The gateway is rebuilt without a source before its
\* secret goes.
DeleteRecord(r) ==
  /\ Up /\ keeper = NoCommand /\ r \in listed
  /\ listed' = listed \ {r}
  /\ keeper' = [ref |-> r, step |-> IF r \in Sources THEN "stop" ELSE "erase",
                secret |-> vaultData[r]]
  /\ UNCHANGED <<vaultData, main, backup, vaultWriter, stranded, unpaid>>

\* The secret of a new record is saved: the record is written, or the secret
\* taken back.
WriteRecord(ok) ==
  /\ keeper # NoCommand /\ keeper.step = "record"
  /\ listed' = IF ok THEN listed \cup {keeper.ref} ELSE listed
  /\ keeper' = IF ~ok THEN Step(keeper, "clean")
               ELSE IF keeper.ref \in Sources THEN Step(keeper, "start") ELSE NoCommand
  /\ UNCHANGED <<vaultData, main, backup, vaultWriter, stranded, unpaid>>

\* sync_records_or_rollback: when the gateway cannot be rebuilt, the records
\* are put back as they were, unless that fails too.
Rebuild(ok, undone) ==
  /\ keeper # NoCommand /\ keeper.step \in {"start", "stop", "restart"}
  /\ listed' = IF ok \/ ~undone THEN listed
               ELSE IF keeper.step = "stop" THEN listed \cup {keeper.ref}
               ELSE listed \ {keeper.ref}
  /\ keeper' = CASE keeper.step = "stop" /\ ok              -> Step(keeper, "erase")
                 [] keeper.step = "start" /\ ~ok /\ undone  -> Step(keeper, "clean")
                 [] OTHER                                   -> NoCommand
  /\ UNCHANGED <<vaultData, main, backup, vaultWriter, stranded, unpaid>>

\* secret_store::delete goes on to the copy in the keyring of the system, and
\* fails if that does.
DeleteFromKeyring(ok) ==
  /\ keeper # NoCommand /\ keeper.step = "keyring"
  /\ keeper' = IF ok THEN NoCommand ELSE Undo(keeper)
  /\ UNCHANGED <<vaultData, main, backup, vaultWriter, listed, stranded, unpaid>>

\* A deletion that failed restores the record.
Relist(ok) ==
  /\ keeper # NoCommand /\ keeper.step = "relist"
  /\ listed' = IF ok THEN listed \cup {keeper.ref} ELSE listed
  /\ keeper' = IF ok /\ keeper.ref \in Sources THEN Step(keeper, "restart") ELSE NoCommand
  /\ unpaid' = IF ok /\ keeper.ref \in Snapshots /\ vaultData[keeper.ref] = NoSecret
               THEN unpaid \cup {keeper.ref} ELSE unpaid
  /\ UNCHANGED <<vaultData, main, backup, vaultWriter, stranded>>

-----------------------------------------------------------------------------
(* The vault *)

\* save and delete change the data, then persist them.
BeginReplace(r, s) ==
  /\ Up /\ vaultWriter = NoWriter
  /\ vaultData' = [vaultData EXCEPT ![r] = s]
  /\ vaultWriter' = [ref |-> r, before |-> vaultData, step |-> "stage"]
  /\ UNCHANGED <<main, backup, listed, stranded, unpaid>>

CommandWrites ==
  /\ keeper # NoCommand
  /\ \/ /\ keeper.step \in {"save", "resave"}
        /\ BeginReplace(keeper.ref, keeper.secret)
        /\ UNCHANGED keeper
     \/ /\ keeper.step \in {"erase", "clean"} /\ vaultData[keeper.ref] # NoSecret
        /\ BeginReplace(keeper.ref, NoSecret)
        /\ UNCHANGED keeper
     \/ /\ keeper.step \in {"erase", "clean"} /\ vaultData[keeper.ref] = NoSecret
        /\ vaultWriter = NoWriter
        /\ Return(keeper.ref, TRUE)
        /\ UNCHANGED <<vaultData, main, backup, vaultWriter, listed, stranded, unpaid>>

CredentialWrites(r, s) ==
  /\ BeginReplace(r, s)
  /\ s = NoSecret => vaultData[r] # NoSecret
  /\ UNCHANGED keeper

Advance(from, to) ==
  /\ vaultWriter # NoWriter /\ vaultWriter.step = from
  /\ vaultWriter' = [vaultWriter EXCEPT !.step = to]
  /\ UNCHANGED <<vaultData, keeper, listed, stranded, unpaid>>

\* The staged file is written and synchronised.  It holds vaultData, which the
\* mutex protects, and is read by nobody else.
Stage == Advance("stage", "drop") /\ UNCHANGED <<main, backup>>

\* A stale backup goes before the current file becomes the backup.
DropBackup == Advance("drop", "aside") /\ backup' = NoFile /\ UNCHANGED main

\* A fault: the old file is deleted instead of kept.
MoveNothing ==
  /\ Advance("aside", "install")
  /\ main' = NoFile /\ UNCHANGED backup

MoveAside ==
  /\ Advance("aside", "install")
  /\ IF main # NoFile THEN backup' = main /\ main' = NoFile ELSE UNCHANGED <<main, backup>>

Install == Advance("install", "sweep") /\ main' = vaultData /\ UNCHANGED backup

\* The backup of a finished replacement may stay.
Sweep ==
  /\ vaultWriter # NoWriter /\ vaultWriter.step = "sweep"
  /\ backup' \in {NoFile, backup}
  /\ vaultWriter' = NoWriter
  /\ Return(vaultWriter.ref, TRUE)
  /\ UNCHANGED <<vaultData, main, listed, stranded, unpaid>>

\* A call of the file system fails: memory is as it was before.
FailReplace ==
  /\ vaultWriter # NoWriter
  /\ vaultData' = vaultWriter.before
  /\ vaultWriter' = NoWriter
  /\ Return(vaultWriter.ref, FALSE)
  /\ \/ vaultWriter.step \in {"stage", "drop", "aside"} /\ UNCHANGED <<main, backup, stranded>>
     \/ /\ vaultWriter.step = "install" /\ backup # NoFile
        /\ main' = backup /\ backup' = NoFile
        /\ UNCHANGED stranded
     \/ /\ vaultWriter.step = "install"
        /\ stranded' = (stranded \/ backup # NoFile)
        /\ UNCHANGED <<main, backup>>
  /\ UNCHANGED <<listed, unpaid>>

\* Vault::open.  A renaming that fails refuses the start.
OpenVault ==
  /\ ~Up
  /\ IF main = NoFile /\ backup # NoFile
     THEN main' = backup /\ backup' = NoFile
     ELSE UNCHANGED <<main, backup>>
  /\ vaultData' = IF main' = NoFile THEN Empty ELSE main'
  /\ UNCHANGED <<vaultWriter, keeper, listed, stranded, unpaid>>

CrashVault ==
  /\ Up
  /\ vaultData' = NoFile /\ vaultWriter' = NoWriter /\ keeper' = NoCommand
  /\ UNCHANGED <<main, backup, listed, stranded, unpaid>>

VaultNext ==
  \/ \E r \in Snapshots \cup Sources : DeleteRecord(r) \/ \E s \in Secrets : CreateRecord(r, s)
  \/ \E ok, undone \in BOOLEAN : Rebuild(ok, undone)
  \/ \E ok \in BOOLEAN : WriteRecord(ok) \/ DeleteFromKeyring(ok) \/ Relist(ok)
  \/ CommandWrites
  \/ \E r \in Credentials, s \in Secrets \cup {NoSecret} : CredentialWrites(r, s)
  \/ Stage \/ DropBackup \/ MoveAside \/ Install \/ Sweep \/ FailReplace
  \/ OpenVault \/ CrashVault

VaultSpec == VaultInit /\ [][VaultNext]_vaultVars

-----------------------------------------------------------------------------
(* Properties *)

VaultTypeOK ==
  /\ {vaultData, main, backup} \subseteq Contents \cup {NoFile}
  /\ vaultWriter \in Writers \cup {NoWriter}
  /\ keeper \in VaultCommands \cup {NoCommand}
  /\ listed \subseteq Snapshots \cup Sources
  /\ stranded \in BOOLEAN
  /\ unpaid \subseteq Snapshots
  /\ ~Up => vaultWriter = NoWriter /\ keeper = NoCommand

\* What the next start would read.
Recoverable == IF main # NoFile THEN main ELSE IF backup # NoFile THEN backup ELSE Empty

\* A crash at any point of a replacement leaves what is in memory or what was
\* there before the replacement (atomic_replace, Vault::open).
RecoversMemory ==
  Up => Recoverable \in {vaultData} \cup (IF vaultWriter = NoWriter THEN {} ELSE {vaultWriter.before})

\* A record that exists has its secret, whenever the program ends
\* (create_with and delete_with, add and delete_local_source).  Not so for a
\* snapshot that came back after its secret was deleted.
ListedHasSecret == \A r \in listed \ unpaid : Recoverable[r] # NoSecret

\* Both, as long as no replacement failed in its installation and again when
\* the old file was moved back: then the backup is the only copy, and the next
\* replacement deletes it before it has another one.
VaultSurvives == ~stranded => RecoversMemory /\ ListedHasSecret
=============================================================================
