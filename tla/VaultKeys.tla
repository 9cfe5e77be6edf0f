----------------------------- MODULE VaultKeys -----------------------------
(***************************************************************************)
(* The secrets that live in the vault beside the credentials, over starts, *)
(* saves and migrations (TpmInit): the device key, under which U2F key     *)
(* handles are sealed, and the attestation CA.  main() makes both anew at  *)
(* every start, the device key from the passphrase; a vault that is there  *)
(* replaces them by what was saved (importData), if it can be read.        *)
(* Registering with U2F saves nothing.  In TPM mode new credentials get    *)
(* keys of the TPM, else software keys; neither changes its kind when the  *)
(* vault migrates.                                                         *)
(*                                                                         *)
(* The key derived from a passphrase has the passphrase's number, the CA   *)
(* generated at a start that of the start.                                 *)
(***************************************************************************)
EXTENDS TpmInit, Sequences

CONSTANTS MaxStarts,  \* bound on the starts of the daemon
          MaxHandles  \* bound on the U2F registrations

ASSUME VaultKeysAssumption == {MaxStarts, MaxHandles} \subseteq Nat

VARIABLES
  secrets,   \* deviceEncryptionKey and certificateAuthority of the daemon
  stored,    \* those in vault.json
  read,      \* those in the vault the init has read
  cas,       \* the CA each start has come to use
  software,  \* credentials with a software key
  handles,   \* key handles given to relying parties: the keys they are under
  bare       \* an init has written a key while there was no vault

keyVars == <<secrets, stored, read, cas, software, handles, bare>>
allVars == <<vars, keyVars>>

Secrets(deviceKey, ca) == [deviceKey |-> deviceKey, ca |-> ca]
NoSecrets == Secrets(0, 0)

InitKeys ==
  /\ Init
  /\ secrets = NoSecrets
  /\ stored = NoSecrets
  /\ read = NoSecrets
  /\ cas = <<>>
  /\ software = {}
  /\ handles = <<>>
  /\ bare = FALSE

-----------------------------------------------------------------------------
(* The init: the state it has decrypted is what it encrypts again. *)

MigrationStep ==
  \/ /\ InitReads
     /\ read' = stored
     /\ UNCHANGED <<secrets, stored, cas, software, handles, bare>>
  \/ /\ WriteKey
     /\ bare' = (bare \/ vault.state = "missing")
     /\ UNCHANGED <<secrets, stored, read, cas, software, handles>>
  \/ /\ WriteVault
     /\ stored' = read
     /\ UNCHANGED <<secrets, read, cas, software, handles, bare>>
  \/ /\ \/ InitRefuses \/ OpenBackup \/ WriteBackup
        \/ \E how \in {"error", "crash"} : InitStops(how)
     /\ UNCHANGED keyVars

-----------------------------------------------------------------------------
(* The daemon. *)

Derived == Secrets(key, Len(cas) + 1)

\* Mutant: importData does not restore deviceEncryptionKey.
LoadDerives ==
  IF vault.state = "missing" THEN Derived ELSE [stored EXCEPT !.deviceKey = key]

\* Mutant: the CA is generated at every start, as docs/security.md:205 has it.
LoadNewCa == IF vault.state = "missing" THEN Derived ELSE [stored EXCEPT !.ca = Len(cas) + 1]

\* What main() and loadData come to: from the passphrase, or from the vault.
Load == IF vault.state = "missing" THEN Derived ELSE stored

StartWithKeys ==
  /\ Start
  /\ Len(cas) < MaxStarts
  /\ secrets' = Load
  /\ cas' = Append(cas, Load.ca)
  /\ UNCHANGED <<stored, read, software, handles, bare>>

StartBlindWithKeys ==
  /\ StartBlind
  /\ Len(cas) < MaxStarts
  /\ secrets' = Derived
  /\ cas' = Append(cas, Derived.ca)
  /\ UNCHANGED <<stored, read, software, handles, bare>>

\* Mutant: the hooks of the TPM are installed without a look at the mode.
MakesTpmKey == TRUE

\* main() installs TPMNewKey and TPMSign in TPM mode.
InTpmMode == pass # 0

\* NewIdentity: the keys of the credentials it has made.
MakesKey == software' = IF InTpmMode THEN software ELSE software \union (memory' \ memory)

\* NewIdentity and saveData.
CreateWithKey ==
  /\ CreateAndSave
  /\ stored' = secrets
  /\ MakesKey
  /\ UNCHANGED <<secrets, read, cas, handles, bare>>

SaveKeysAgain ==
  /\ SaveAgain
  /\ stored' = secrets
  /\ UNCHANGED <<secrets, read, cas, software, handles, bare>>

\* What was last saved stays in "stored", but the file is in pieces.
SaveFailsWithKey ==
  /\ SaveFails
  /\ MakesKey
  /\ UNCHANGED <<secrets, stored, read, cas, handles, bare>>

\* handleU2FRegister seals a new private key and gives it away.
RegisterU2F ==
  /\ daemon = "up"
  /\ Len(handles) < MaxHandles
  /\ handles' = Append(handles, secrets.deviceKey)
  /\ UNCHANGED <<vars, secrets, stored, read, cas, software, bare>>

\* handleU2FAuthenticate: openKeyHandle panics on a handle under another key,
\* on a goroutine of the HID layer, which ends the process.
AuthenticatePanics(h) ==
  /\ daemon = "up"
  /\ handles[h] # secrets.deviceKey
  /\ daemon' = "off"
  /\ UNCHANGED <<key, vault, backup, pc, source, outcome, pass, memory, inits, faults, created, mishaps, keyVars>>

NextKeys ==
  \/ MigrationStep
  \/ StartWithKeys \/ StartBlindWithKeys
  \/ CreateWithKey \/ SaveKeysAgain \/ SaveFailsWithKey \/ RegisterU2F
  \/ \E h \in DOMAIN handles : AuthenticatePanics(h)
  \/ (StartPanics \/ Stop \/ RemoveKey) /\ UNCHANGED keyVars

SpecKeys == InitKeys /\ [][NextKeys]_allVars

-----------------------------------------------------------------------------
(* Properties. *)

SecretValues == [deviceKey : Passphrases, ca : 0 .. MaxStarts]

TypeOKKeys ==
  /\ TypeOK
  /\ {secrets, stored, read} \subseteq SecretValues
  /\ cas \in Seq(1 .. MaxStarts) /\ Len(cas) <= MaxStarts
  /\ software \subseteq 1 .. created
  /\ handles \in Seq(Passphrases) /\ Len(handles) <= MaxHandles
  /\ bare \in BOOLEAN

\* A key handle that was given away opens in every later run, over restarts,
\* migrations, inits that stop half-way and saves that race with one or fail,
\* though registering saves nothing: a device key that was never saved is
\* derived again from the same passphrase (main.go:99).  Only an init that
\* finds no vault makes it another one, and a start that cannot read it.
HandlesOpen ==
  daemon = "up" /\ ~bare /\ Spared({"blind"})
    => \A h \in DOMAIN handles : handles[h] = secrets.deviceKey

\* Whenever the daemon holds a key of the TPM it can sign with it: no path of
\* migration, failure and way back brings such a key into disk mode, where
\* Sign returns nil and the ceremony succeeds (cose.go:116).
SignerForEveryKey == daemon = "up" => memory \subseteq software \/ pass # 0

\* Once saved, the CA and the device key stay what they are: no later save,
\* start or migration replaces them, not even one that races with another or
\* is cut short; only the first save after a blind start does.
SecretsStay ==
  [][stored # NoSecrets /\ Spared({"blind"}) => stored' = stored]_allVars

-----------------------------------------------------------------------------
(* What the documents say. *)

\* docs/security.md:205-206, main.go:92: the attestation CA is regenerated on
\* every run.
CaRegenerated == \A i, j \in DOMAIN cas : cas[i] = cas[j] => i = j

\* docs/security.md:130-134: in TPM mode even a fully decrypted vault yields no
\* usable private keys off this TPM.
NoUsableKeysInVault == vault.by # 0 => vault.creds \intersect software = {}
=============================================================================
