------------------------------ MODULE TpmInit ------------------------------
(***************************************************************************)
(* --tpm-init (runTPMInit, tpm_linux.go): the vault moves from the disk    *)
(* passphrase to a passphrase sealed in the TPM, while crashes, failing    *)
(* writes and a daemon that is already running may come in between.        *)
(*                                                                         *)
(* A file is the passphrase it is encrypted with and the credentials in it.*)
(* Passphrase 0 is the owner's; passphrase n > 0 is the one the n-th init  *)
(* has generated, known only through the key file.  writeFileAtomic is one *)
(* step: what it leaves in .tmp is overwritten by its next call.  The      *)
(* backup is written in place.  A save of the daemon truncates the vault   *)
(* and writes it; here it is one step that may be cut short (VaultStore    *)
(* has the two).                                                           *)
(*                                                                         *)
(* The mishaps, which the properties name where they bite:                 *)
(*   "race"    the daemon has saved while an init was running, or with the *)
(*             disk passphrase after one had written a key                 *)
(*   "tear"    a save of the daemon has failed or was cut short            *)
(*   "blind"   the daemon has started empty, unable to read the vault      *)
(*   "unread"  an init was unable to read the vault and took it for none   *)
(***************************************************************************)
EXTENDS Naturals

CONSTANTS MaxCredentials,  \* bound on the credentials created
          MaxInits,        \* bound on the runs of --tpm-init
          MaxFaults        \* bound on crashes, failing reads, writes and TPM calls

ASSUME TpmInitAssumption == {MaxCredentials, MaxInits, MaxFaults} \subseteq Nat

VARIABLES
  key,       \* the passphrase sealed in vault.key.tpm; 0: there is no such file
  vault,     \* vault.json
  backup,    \* vault.json.pre-tpm.bak
  pc,        \* where the init is; "idle" when none runs
  source,    \* the vault the init has read
  outcome,   \* how the last init ended: "none", "done", "error" or "crash"
  daemon,    \* "off", "up" or "broken": it cannot decrypt the vault
  pass,      \* the daemon's passphrase
  memory,    \* the daemon's credentials
  inits, faults, created,   \* what the bounds count
  mishaps    \* what has come in between, of "race", "tear", "blind", "unread"

vars == <<key, vault, backup, pc, source, outcome, daemon, pass, memory,
          inits, faults, created, mishaps>>

Whole(by, creds) == [state |-> "whole", by |-> by, creds |-> creds]
Missing == [state |-> "missing", by |-> 0, creds |-> {}]
Torn    == [state |-> "torn", by |-> 0, creds |-> {}]
Empty   == [state |-> "empty", by |-> 0, creds |-> {}]

Init ==
  /\ key = 0
  /\ vault = Missing
  /\ backup = Missing
  /\ pc = "idle"
  /\ source = Missing
  /\ outcome = "none"
  /\ daemon = "off"
  /\ pass = 0
  /\ memory = {}
  /\ inits = 0
  /\ faults = 0
  /\ created = 0
  /\ mishaps = {}

\* DecryptFIDOState succeeds on the vault with this passphrase.
Decrypts(passphrase) == vault.state = "whole" /\ vault.by = passphrase

Faulty == faults < MaxFaults /\ faults' = faults + 1

-----------------------------------------------------------------------------
(* runTPMInit.  Before the backup it changes nothing, so its checks, the    *)
(* reading of the vault and the sealing are one step.                      *)

\* hasVault is FALSE: there is no vault, or it is empty, or reading it fails.
TakesForNone ==
  /\ source' = Missing
  /\ \/ vault.state \in {"missing", "empty"} /\ UNCHANGED <<faults, mishaps>>
     \/ /\ vault.state \in {"torn", "whole"}
        /\ Faulty
        /\ mishaps' = mishaps \union {"unread"}

\* The vault decrypts with the owner's passphrase.
TakesVault ==
  /\ Decrypts(0)
  /\ source' = vault
  /\ UNCHANGED <<faults, mishaps>>

\* Mutant: no backup is made.
InitReadsNoBackup ==
  /\ pc = "idle"
  /\ inits < MaxInits
  /\ key = 0
  /\ inits' = inits + 1
  /\ TakesForNone \/ TakesVault
  /\ pc' = "key"
  /\ UNCHANGED <<key, vault, backup, outcome, daemon, pass, memory, created>>

\* No sealed key yet; the vault, if the init sees one, is verified; the new
\* passphrase is sealed and unsealed again.
InitReads ==
  /\ pc = "idle"
  /\ inits < MaxInits
  /\ key = 0
  /\ inits' = inits + 1
  /\ \/ TakesForNone /\ pc' = "key"
     \/ TakesVault /\ pc' = "backup"
  /\ UNCHANGED <<key, vault, backup, outcome, daemon, pass, memory, created>>

\* A key exists, the vault does not decrypt, or sealing fails.
InitRefuses ==
  /\ pc = "idle"
  /\ inits < MaxInits
  /\ \/ (key # 0 \/ (vault.state \in {"torn", "whole"} /\ ~Decrypts(0))) /\ UNCHANGED faults
     \/ Faulty
  /\ inits' = inits + 1
  /\ outcome' = "error"
  /\ UNCHANGED <<key, vault, backup, pc, source, daemon, pass, memory, created, mishaps>>

\* os.WriteFile truncates an older backup,
OpenBackup ==
  /\ pc = "backup"
  /\ backup' = Torn
  /\ pc' = "writing"
  /\ UNCHANGED <<key, vault, source, outcome, daemon, pass, memory, inits, faults, created, mishaps>>

\* and writes the vault as it was read.
WriteBackup ==
  /\ pc = "writing"
  /\ backup' = source
  /\ pc' = "key"
  /\ UNCHANGED <<key, vault, source, outcome, daemon, pass, memory, inits, faults, created, mishaps>>

\* Mutant: the vault is written before the key it needs.
WriteKeyLate ==
  /\ pc = "key"
  /\ IF source.state = "whole"
     THEN vault' = Whole(inits, source.creds) /\ pc' = "vault" /\ UNCHANGED <<key, outcome>>
     ELSE key' = inits /\ pc' = "idle" /\ outcome' = "done" /\ UNCHANGED vault
  /\ UNCHANGED <<backup, source, daemon, pass, memory, inits, faults, created, mishaps>>

\* The sealed key first.
WriteKey ==
  /\ pc = "key"
  /\ key' = inits
  /\ IF source.state = "whole"
     THEN pc' = "vault" /\ UNCHANGED outcome
     ELSE pc' = "idle" /\ outcome' = "done"
  /\ UNCHANGED <<vault, backup, source, daemon, pass, memory, inits, faults, created, mishaps>>

\* Mutant: the vault is re-encrypted with the passphrase it had.
WriteVaultOldPass ==
  /\ pc = "vault"
  /\ vault' = source
  /\ pc' = "idle"
  /\ outcome' = "done"
  /\ UNCHANGED <<key, backup, source, daemon, pass, memory, inits, faults, created, mishaps>>

\* Then the vault that was read, under the new passphrase.
WriteVault ==
  /\ pc = "vault"
  /\ vault' = Whole(inits, source.creds)
  /\ pc' = "idle"
  /\ outcome' = "done"
  /\ UNCHANGED <<key, backup, source, daemon, pass, memory, inits, faults, created, mishaps>>

\* A write fails and the init returns its error, or the init is killed.
InitStops(how) ==
  /\ pc # "idle"
  /\ Faulty
  /\ pc' = "idle"
  /\ outcome' = how
  /\ UNCHANGED <<key, vault, backup, source, daemon, pass, memory, inits, created, mishaps>>

-----------------------------------------------------------------------------
(* The daemon: main() and the vault. *)

\* resolveVaultPassphrase chooses by the presence of the key file; loadData
\* decrypts the vault if there is one.
Start ==
  /\ daemon = "off"
  /\ vault.state = "missing" \/ Decrypts(key)
  /\ daemon' = "up"
  /\ pass' = key
  /\ memory' = vault.creds
  /\ UNCHANGED <<key, vault, backup, pc, source, outcome, inits, faults, created, mishaps>>

\* RetrieveData returns nil on an error too: the daemon starts as if there were
\* no vault.
StartBlind ==
  /\ daemon = "off"
  /\ vault.state # "missing"
  /\ Faulty
  /\ daemon' = "up"
  /\ pass' = key
  /\ memory' = {}
  /\ mishaps' = mishaps \union {"blind"}
  /\ UNCHANGED <<key, vault, backup, pc, source, outcome, inits, created>>

\* importData panics, on an empty file as well.
StartPanics ==
  /\ daemon = "off"
  /\ vault.state # "missing" /\ ~Decrypts(key)
  /\ daemon' = "broken"
  /\ UNCHANGED <<key, vault, backup, pc, source, outcome, pass, memory, inits, faults, created, mishaps>>

\* A save now runs beside an init, or against the key one has written.
Race == IF pc # "idle" \/ pass # key THEN {"race"} ELSE {}

\* A ceremony makes a credential,
MakesCredential ==
  /\ created < MaxCredentials
  /\ created' = created + 1
  /\ memory' = memory \union {created + 1}

\* and saves the vault under the passphrase the daemon started with.
CreateAndSave ==
  /\ daemon = "up"
  /\ MakesCredential
  /\ vault' = Whole(pass, memory')
  /\ mishaps' = mishaps \union Race
  /\ UNCHANGED <<key, backup, pc, source, outcome, daemon, pass, inits, faults>>

\* An assertion saves the vault again, and so does a registration for which the
\* TPM makes no key.
SaveAgain ==
  /\ daemon = "up"
  /\ (memory # {} /\ UNCHANGED faults) \/ (pass # 0 /\ Faulty)
  /\ vault' = Whole(pass, memory)
  /\ mishaps' = mishaps \union Race
  /\ UNCHANGED <<key, backup, pc, source, outcome, daemon, pass, memory, inits, created>>

\* os.WriteFile cannot open the vault, or truncates it and fails, which the
\* daemon logs, or dies with it.
SaveFails ==
  /\ daemon = "up"
  /\ Faulty
  /\ MakesCredential \/ (memory # {} /\ UNCHANGED <<memory, created>>)
  /\ vault' \in {vault, Empty, Torn}
  /\ daemon' \in {"up", "off"}
  /\ mishaps' = mishaps \union {"tear"} \union Race
  /\ UNCHANGED <<key, backup, pc, source, outcome, pass, inits>>

Stop ==
  /\ daemon \in {"up", "broken"}
  /\ daemon' = "off"
  /\ UNCHANGED <<key, vault, backup, pc, source, outcome, pass, memory, inits, faults, created, mishaps>>

\* External.  "Remove it first": the owner goes back to the disk passphrase,
\* which still opens the vault.
RemoveKey ==
  /\ pc = "idle"
  /\ key # 0
  /\ Decrypts(0)
  /\ key' = 0
  /\ UNCHANGED <<vault, backup, pc, source, outcome, daemon, pass, memory, inits, faults, created, mishaps>>

-----------------------------------------------------------------------------
Next ==
  \/ InitReads \/ InitRefuses \/ OpenBackup \/ WriteBackup \/ WriteKey \/ WriteVault
  \/ \E how \in {"error", "crash"} : InitStops(how)
  \/ Start \/ StartBlind \/ StartPanics
  \/ CreateAndSave \/ SaveAgain \/ SaveFails \/ Stop \/ RemoveKey

Spec == Init /\ [][Next]_vars

-----------------------------------------------------------------------------
(* Properties. *)

Passphrases == 0 .. MaxInits
Files == [state : {"missing", "torn", "empty", "whole"}, by : Passphrases, creds : SUBSET (1 .. created)]

\* Every variable has its type.
TypeOK ==
  /\ key \in Passphrases
  /\ vault \in Files
  /\ backup \in Files
  /\ pc \in {"idle", "backup", "writing", "key", "vault"}
  /\ source \in Files
  /\ outcome \in {"none", "done", "error", "crash"}
  /\ daemon \in {"off", "up", "broken"}
  /\ pass \in Passphrases
  /\ memory \subseteq 1 .. created
  /\ inits \in 0 .. MaxInits
  /\ faults \in 0 .. MaxFaults
  /\ created \in 0 .. MaxCredentials
  /\ mishaps \subseteq {"race", "tear", "blind", "unread"}

\* What is in a file can be had: with the owner's passphrase, or with the one
\* the key file holds.
Readable(f) == f.state = "whole" /\ f.by \in {0, key}

Spared(kinds) == mishaps \intersect kinds = {}

\* At every moment all credentials are in a file that can be decrypted by the
\* owner or by this machine, wherever an init is stopped and whatever it
\* fails at, and also when it takes the vault for none (the order of
\* runTPMInit).  What loses them is the daemon: a save beside an init, a save
\* cut short, or one after a blind start.
NothingLost ==
  Spared({"race", "tear", "blind"}) /\ created > 0
    => vault.creds = 1 .. created /\ Readable(vault)

\* Once the vault is under a sealed passphrase, the backup is whole and holds
\* what the migration has read: it is the way back when the TPM is cleared.
BackupIsWhole ==
  vault.state = "whole" /\ vault.by # 0 /\ Spared({"race"}) /\ source.state = "whole"
    => backup = source /\ backup.by = 0

\* A start of the daemon fails only while an init is between the key and the
\* vault, or after one has been stopped; on a vault that a save of the daemon
\* has left in pieces; or, the one way in which an init that ran to its end is
\* followed by it, after an init that took a vault it could not read for none.
StartFailsOnlyHalfway ==
  [][StartPanics /\ Spared({"race"})
       => \/ outcome \in {"error", "crash"} \/ pc = "vault"
          \/ vault.state \in {"torn", "empty"} /\ "tear" \in mishaps
          \/ "unread" \in mishaps]_vars

-----------------------------------------------------------------------------
(* What the documents say. *)

DaemonCanStart == vault.state = "missing" \/ Decrypts(key)

\* tpm_linux.go:49-50, docs/security.md:137-138: a failure never leaves the
\* vault unreadable.
FailureLeavesVaultReadable ==
  mishaps = {} /\ pc = "idle" => DaemonCanStart
=============================================================================
