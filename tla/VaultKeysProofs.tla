-------------------------- MODULE VaultKeysProofs --------------------------
(***************************************************************************)
(* Theorems about the migration (TpmInit) and the secrets it carries       *)
(* (VaultKeys), for every number of inits, faults, starts, credentials and *)
(* handles.                                                                *)
(*                                                                         *)
(* The argument.  The order backup, key, vault shows in what each point of *)
(* an init knows of the files, whoever saves in between (Shapes): while    *)
(* there is a key, the backup is what the last init has read.  As long as  *)
(* no save has raced, the vault is the one the init has read until it is   *)
(* replaced, and it is under the owner's passphrase or the one in the key  *)
(* file (Undisturbed).  If no save was cut short either, and no daemon has *)
(* started blind, it holds all that was ever created (Intact).             *)
(***************************************************************************)
EXTENDS VaultKeys, TLAPS

\* What the points of an init know, whoever saves in between.
Shapes ==
  /\ vault.state = "missing" => vault.creds = {}
  /\ vault.state \in {"torn", "empty"} => "tear" \in mishaps
  /\ source.state \in {"missing", "whole"}
  /\ pc # "idle" => inits > 0
  /\ pc \in {"backup", "writing", "key"} => key = 0
  /\ pc = "vault" => key = inits
  /\ pc \in {"backup", "writing", "vault"} => source.state = "whole"
  /\ source.state = "whole" => source.by = 0 /\ vault.state # "missing"
  /\ pc = "key" \/ key # 0 => (source.state = "whole" => backup = source)

\* What holds as long as no save has raced with an init.
Undisturbed ==
  Spared({"race"}) =>
    /\ vault.state = "whole" => vault.by \in {0, key}
    /\ pc # "idle" /\ source.state = "whole" => source = vault
    /\ pc # "idle" /\ source.state = "missing" /\ vault.state = "whole" => "unread" \in mishaps
    /\ key # 0 /\ vault.state = "whole" /\ vault.by = 0
         => outcome \in {"error", "crash"} \/ pc = "vault" \/ "unread" \in mishaps

\* What holds as long as no save was cut short, and no daemon was blind.
Intact ==
  Spared({"race", "tear", "blind"}) =>
    /\ vault.creds = 1 .. created
    /\ created > 0 => vault.state = "whole"
    /\ daemon = "up" => memory = vault.creds

IInv == TypeOK /\ Shapes /\ Undisturbed /\ Intact

-----------------------------------------------------------------------------
(* Files. *)

LEMMA Bounds == MaxCredentials \in Nat /\ MaxInits \in Nat /\ MaxFaults \in Nat
  BY TpmInitAssumption

LEMMA FilesKept == UNCHANGED created => Files' = Files
  BY DEF Files, Passphrases

LEMMA NoFiles == {Missing, Torn, Empty} \subseteq Files
  BY Bounds DEF Files, Passphrases, Missing, Torn, Empty

LEMMA WholeFiles ==
  ASSUME NEW by \in Passphrases, NEW creds \in SUBSET (1 .. created)
  PROVE  Whole(by, creds) \in Files
  BY DEF Files, Passphrases, Whole

LEMMA FileParts ==
  ASSUME NEW f \in Files
  PROVE  /\ f.state \in {"missing", "torn", "empty", "whole"}
         /\ f.by \in Passphrases
         /\ f.creds \subseteq 1 .. created
  BY DEF Files, Passphrases

\* TypeOK in two: what is a file or comes from one, and the rest.
FileTypes ==
  /\ vault \in Files
  /\ backup \in Files
  /\ source \in Files
  /\ memory \subseteq 1 .. created

Scalars ==
  /\ key \in Passphrases
  /\ pc \in {"idle", "backup", "writing", "key", "vault"}
  /\ outcome \in {"none", "done", "error", "crash"}
  /\ daemon \in {"off", "up", "broken"}
  /\ pass \in Passphrases
  /\ inits \in 0 .. MaxInits
  /\ faults \in 0 .. MaxFaults
  /\ created \in 0 .. MaxCredentials
  /\ mishaps \subseteq {"race", "tear", "blind", "unread"}

LEMMA TypeSplit == (TypeOK <=> FileTypes /\ Scalars) /\ (TypeOK' <=> FileTypes' /\ Scalars')
  BY DEF TypeOK, FileTypes, Scalars

\* What the steps need of the types.
LEMMA Numbers ==
  ASSUME TypeOK
  PROVE  /\ key \in Nat /\ pass \in Nat /\ inits \in Nat /\ created \in Nat /\ vault.by \in Nat
         /\ pc \in {"idle", "backup", "writing", "key", "vault"}
         /\ vault.state \in {"missing", "torn", "empty", "whole"} /\ source.state \in {"missing", "torn", "empty", "whole"}
  <1>1. vault \in Files /\ source \in Files
    BY TypeSplit DEF FileTypes
  <1>2. /\ vault.by \in Passphrases
        /\ vault.state \in {"missing", "torn", "empty", "whole"}
        /\ source.state \in {"missing", "torn", "empty", "whole"}
    BY <1>1, FileParts
  <1>3. Scalars
    BY TypeSplit
  <1>4. Passphrases \subseteq Nat
    BY Bounds DEF Passphrases
  <1>5. vault.by \in Nat
    BY <1>2, <1>4
  <1>6. key \in Nat /\ pass \in Nat /\ inits \in Nat /\ created \in Nat
    BY <1>3, <1>4, Bounds DEF Scalars
  <1>7. pc \in {"idle", "backup", "writing", "key", "vault"}
    BY <1>3 DEF Scalars
  <1> QED
    BY <1>2, <1>5, <1>6, <1>7

LEMMA InitIInv == Init => IInv
  <1> SUFFICES ASSUME Init PROVE IInv
    OBVIOUS
  <1>1. TypeOK
    <2>1. FileTypes
      BY NoFiles DEF Init, FileTypes
    <2>2. mishaps \subseteq {"race", "tear", "blind", "unread"}
      BY DEF Init
    <2>3. Scalars
      BY <2>2, Bounds DEF Init, Scalars, Passphrases
    <2> QED
      BY <2>1, <2>3, TypeSplit
  <1>2. Shapes /\ Undisturbed /\ Intact
    BY DEF Init, Shapes, Undisturbed, Intact, Missing
  <1> QED
    BY <1>1, <1>2 DEF IInv

-----------------------------------------------------------------------------
(* The init. *)

LEMMA InitReadsIInv == IInv /\ InitReads => IInv'
  <1> SUFFICES ASSUME IInv, InitReads PROVE IInv'
    OBVIOUS
  <1> USE Bounds DEF IInv, InitReads, TakesForNone, TakesVault, Decrypts, Faulty
  <1>1. TypeOK'
    <2>1. FileTypes'
      BY TypeSplit, FilesKept, NoFiles DEF FileTypes
    <2>2. Scalars'
      <3>1. mishaps' \subseteq {"race", "tear", "blind", "unread"}
        BY TypeSplit DEF Scalars
      <3> QED
        BY <3>1, TypeSplit DEF Scalars, Passphrases
    <2> QED
      BY <2>1, <2>2, TypeSplit
  <1>2. Shapes'
    BY Numbers DEF Shapes, Missing
  <1>3. Undisturbed' /\ Intact'
    BY Numbers DEF Shapes, Undisturbed, Intact, Spared, Missing
  <1> QED
    BY <1>1, <1>2, <1>3

LEMMA RefusalsIInv ==
  IInv /\ (InitRefuses \/ \E how \in {"error", "crash"} : InitStops(how)) => IInv'
  <1> SUFFICES ASSUME IInv, InitRefuses \/ \E how \in {"error", "crash"} : InitStops(how)
               PROVE  IInv'
    OBVIOUS
  <1> USE Bounds DEF IInv, Decrypts, Faulty
  <1>1. CASE InitRefuses
    <2> USE <1>1 DEF InitRefuses
    <2>1. TypeOK'
      <3>1. FileTypes'
        BY TypeSplit, FilesKept, NoFiles DEF FileTypes
      <3>2. Scalars'
        <4>1. mishaps' \subseteq {"race", "tear", "blind", "unread"}
          BY TypeSplit DEF Scalars
        <4> QED
          BY <4>1, TypeSplit DEF Scalars, Passphrases
      <3> QED
        BY <3>1, <3>2, TypeSplit
    <2>2. Shapes'
      BY Numbers DEF Shapes
    <2>3. Undisturbed' /\ Intact'
      BY Numbers DEF Shapes, Undisturbed, Intact, Spared
    <2> QED
      BY <2>1, <2>2, <2>3
  <1>2. CASE \E how \in {"error", "crash"} : InitStops(how)
    <2> USE <1>2 DEF InitStops
    <2>1. TypeOK'
      <3>1. FileTypes'
        BY TypeSplit, FilesKept, NoFiles DEF FileTypes
      <3>2. Scalars'
        <4>1. mishaps' \subseteq {"race", "tear", "blind", "unread"}
          BY TypeSplit DEF Scalars
        <4> QED
          BY <4>1, TypeSplit DEF Scalars, Passphrases
      <3> QED
        BY <3>1, <3>2, TypeSplit
    <2>2. Shapes'
      BY Numbers DEF Shapes
    <2>3. Undisturbed' /\ Intact'
      BY Numbers DEF Shapes, Undisturbed, Intact, Spared
    <2> QED
      BY <2>1, <2>2, <2>3
  <1> QED
    BY <1>1, <1>2

LEMMA BackupIInv == IInv /\ (OpenBackup \/ WriteBackup) => IInv'
  <1> SUFFICES ASSUME IInv, OpenBackup \/ WriteBackup PROVE IInv'
    OBVIOUS
  <1> USE Bounds DEF IInv, OpenBackup, WriteBackup
  <1>1. TypeOK'
    <2>1. FileTypes'
      BY TypeSplit, FilesKept, NoFiles DEF FileTypes
    <2>2. Scalars'
      <3>1. mishaps' \subseteq {"race", "tear", "blind", "unread"}
        BY TypeSplit DEF Scalars
      <3> QED
        BY <3>1, TypeSplit DEF Scalars, Passphrases
    <2> QED
      BY <2>1, <2>2, TypeSplit
  <1>2. Shapes'
    BY Numbers DEF Shapes
  <1>3. Undisturbed' /\ Intact'
    BY Numbers DEF Shapes, Undisturbed, Intact, Spared
  <1> QED
    BY <1>1, <1>2, <1>3

LEMMA WriteKeyIInv == IInv /\ WriteKey => IInv'
  <1> SUFFICES ASSUME IInv, WriteKey PROVE IInv'
    OBVIOUS
  <1> USE Bounds DEF IInv, WriteKey
  <1>1. TypeOK'
    <2>1. FileTypes'
      BY TypeSplit, FilesKept, NoFiles DEF FileTypes
    <2>2. Scalars'
      <3>1. mishaps' \subseteq {"race", "tear", "blind", "unread"}
        BY TypeSplit DEF Scalars
      <3> QED
        BY <3>1, TypeSplit DEF Scalars, Passphrases
    <2> QED
      BY <2>1, <2>2, TypeSplit
  <1>2. Shapes'
    BY Numbers DEF Shapes
  <1>3. Undisturbed' /\ Intact'
    BY Numbers DEF Shapes, Undisturbed, Intact, Spared
  <1> QED
    BY <1>1, <1>2, <1>3

LEMMA WriteVaultIInv == IInv /\ WriteVault => IInv'
  <1> SUFFICES ASSUME IInv, WriteVault PROVE IInv'
    OBVIOUS
  <1> USE Bounds DEF IInv, WriteVault
  <1>1. TypeOK'
    <2>1. FileTypes'
      <3>1. inits \in Passphrases /\ source \in Files
        BY TypeSplit DEF Scalars, FileTypes, Passphrases
      <3>2. Whole(inits, source.creds) \in Files
        BY <3>1, FileParts, WholeFiles
      <3> QED
        BY <3>2, TypeSplit, FilesKept DEF FileTypes
    <2>2. Scalars'
      <3>1. mishaps' \subseteq {"race", "tear", "blind", "unread"}
        BY TypeSplit DEF Scalars
      <3> QED
        BY <3>1, TypeSplit DEF Scalars, Passphrases
    <2> QED
      BY <2>1, <2>2, TypeSplit
  <1>2. Shapes'
    BY Numbers DEF Shapes, Whole
  <1>3. Undisturbed' /\ Intact'
    BY Numbers DEF Shapes, Undisturbed, Intact, Spared, Whole
  <1> QED
    BY <1>1, <1>2, <1>3

-----------------------------------------------------------------------------
(* The daemon and the owner. *)

LEMMA Interval ==
  ASSUME NEW n \in Nat
  PROVE  1 .. n + 1 = (1 .. n) \union {n + 1}
  OBVIOUS

\* A save that is not marked has met no init, and no key but its own.
LEMMA Racing ==
  ASSUME "race" \notin Race
  PROVE  pc = "idle" /\ pass = key
  BY DEF Race

LEMMA CreateTypes ==
  ASSUME TypeOK, MakesCredential
  PROVE  /\ 1 .. created' = (1 .. created) \union {created + 1}
         /\ memory' \in SUBSET (1 .. created')
         /\ Files \subseteq Files'
         /\ created' \in 0 .. MaxCredentials
  <1> USE Bounds DEF MakesCredential
  <1>1. 1 .. created' = (1 .. created) \union {created + 1}
    BY Numbers, Interval
  <1>2. memory' \in SUBSET (1 .. created')
    BY <1>1, TypeSplit DEF FileTypes
  <1>3. Files \subseteq Files'
    BY <1>1 DEF Files, Passphrases
  <1>4. created' \in 0 .. MaxCredentials
    BY TypeSplit DEF Scalars
  <1> QED
    BY <1>1, <1>2, <1>3, <1>4

LEMMA CreateIInv == IInv /\ CreateAndSave => IInv'
  <1> SUFFICES ASSUME IInv, CreateAndSave PROVE IInv'
    OBVIOUS
  <1> USE Bounds DEF IInv, CreateAndSave
  <1>1. /\ 1 .. created' = (1 .. created) \union {created + 1}
        /\ memory' \in SUBSET (1 .. created')
        /\ Files \subseteq Files'
        /\ created' \in 0 .. MaxCredentials
    BY CreateTypes
  <1>2. Spared({"race"})' => Spared({"race"}) /\ pc = "idle" /\ pass = key
    BY Racing DEF Spared
  <1>3. TypeOK'
    <2>1. pass \in Passphrases
      BY TypeSplit DEF Scalars
    <2>2. vault' \in Files'
      BY <1>1, <2>1 DEF Files, Passphrases, Whole
    <2>3. FileTypes'
      BY <1>1, <2>2, TypeSplit DEF FileTypes
    <2>4. Scalars'
      <3>1. mishaps' \subseteq {"race", "tear", "blind", "unread"}
        BY TypeSplit DEF Scalars, Race
      <3> QED
        BY <1>1, <3>1, TypeSplit DEF Scalars, Passphrases
    <2> QED
      BY <2>3, <2>4, TypeSplit
  <1>4. Shapes'
    BY Numbers DEF Shapes, Whole
  <1>5. Undisturbed'
    BY <1>2, Numbers DEF Shapes, Undisturbed, Whole
  <1>6. Intact'
    BY <1>1, <1>2, Numbers DEF Shapes, Intact, Whole, Spared, MakesCredential
  <1> QED
    BY <1>3, <1>4, <1>5, <1>6

LEMMA SaveAgainIInv == IInv /\ SaveAgain => IInv'
  <1> SUFFICES ASSUME IInv, SaveAgain PROVE IInv'
    OBVIOUS
  <1> USE Bounds DEF IInv, SaveAgain, Faulty
  <1>1. TypeOK'
    <2>1. FileTypes'
      <3>1. pass \in Passphrases /\ memory \in SUBSET (1 .. created)
        BY TypeSplit DEF Scalars, FileTypes
      <3>2. Whole(pass, memory) \in Files
        BY <3>1, WholeFiles
      <3> QED
        BY <3>2, TypeSplit, FilesKept DEF FileTypes
    <2>2. Scalars'
      <3>1. mishaps' \subseteq {"race", "tear", "blind", "unread"}
        BY TypeSplit DEF Scalars, Race
      <3> QED
        BY <3>1, TypeSplit DEF Scalars, Passphrases
    <2> QED
      BY <2>1, <2>2, TypeSplit
  <1>2. Shapes'
    BY Numbers DEF Shapes, Whole
  <1>3. Spared({"race"})' => Spared({"race"}) /\ pc = "idle" /\ pass = key
    BY Racing DEF Spared
  <1>4. Undisturbed'
    BY <1>3, Numbers DEF Shapes, Undisturbed, Whole
  <1>5. Intact'
    BY <1>3, Numbers DEF Shapes, Intact, Whole, Spared
  <1> QED
    BY <1>1, <1>2, <1>4, <1>5

LEMMA SaveFailsIInv == IInv /\ SaveFails => IInv'
  <1> SUFFICES ASSUME IInv, SaveFails PROVE IInv'
    OBVIOUS
  <1> USE Bounds DEF IInv, SaveFails, Faulty
  <1>1. "tear" \in mishaps'
    OBVIOUS
  <1>2. Spared({"race"})' => Spared({"race"}) /\ pc = "idle" /\ pass = key
    BY Racing DEF Spared
  <1>3. /\ memory' \in SUBSET (1 .. created')
        /\ Files \subseteq Files'
        /\ created' \in 0 .. MaxCredentials
    <2>1. CASE MakesCredential
      BY <2>1, CreateTypes
    <2>2. CASE UNCHANGED <<memory, created>>
      BY <2>2, FilesKept, TypeSplit DEF FileTypes, Scalars
    <2> QED
      BY <2>1, <2>2
  <1>4. TypeOK'
    <2>1. vault' \in Files
      BY NoFiles, TypeSplit DEF FileTypes
    <2>2. FileTypes'
      BY <1>3, <2>1, TypeSplit DEF FileTypes
    <2>3. Scalars'
      <3>1. mishaps' \subseteq {"race", "tear", "blind", "unread"}
        BY TypeSplit DEF Scalars, Race
      <3> QED
        BY <1>3, <3>1, TypeSplit DEF Scalars, Passphrases
    <2> QED
      BY <2>2, <2>3, TypeSplit
  <1>5. Shapes'
    BY <1>1, Numbers DEF Shapes, Empty, Torn
  <1>6. Undisturbed'
    BY <1>2, Numbers DEF Shapes, Undisturbed, Empty, Torn
  <1>7. Intact'
    BY <1>1 DEF Intact, Spared
  <1> QED
    BY <1>4, <1>5, <1>6, <1>7

LEMMA ProcessIInv == IInv /\ (Start \/ StartBlind \/ StartPanics \/ Stop \/ RemoveKey) => IInv'
  <1> SUFFICES ASSUME IInv, Start \/ StartBlind \/ StartPanics \/ Stop \/ RemoveKey PROVE IInv'
    OBVIOUS
  <1> USE Bounds DEF IInv, Start, StartBlind, StartPanics, Stop, RemoveKey, Decrypts, Faulty
  <1>1. TypeOK'
    <2>1. FileTypes'
      BY TypeSplit, FilesKept, FileParts DEF FileTypes
    <2>2. Scalars'
      <3>1. mishaps' \subseteq {"race", "tear", "blind", "unread"}
        BY TypeSplit DEF Scalars
      <3> QED
        BY <3>1, TypeSplit DEF Scalars, Passphrases
    <2> QED
      BY <2>1, <2>2, TypeSplit
  <1>2. Shapes'
    BY Numbers DEF Shapes
  <1>3. Undisturbed' /\ Intact'
    BY Numbers DEF Shapes, Undisturbed, Intact, Spared
  <1> QED
    BY <1>1, <1>2, <1>3

LEMMA NextIInv == IInv /\ [Next]_vars => IInv'
  <1> SUFFICES ASSUME IInv, [Next]_vars PROVE IInv'
    OBVIOUS
  <1>1. CASE Next
    BY <1>1, InitReadsIInv, RefusalsIInv, BackupIInv, WriteKeyIInv, WriteVaultIInv,
       CreateIInv, SaveAgainIInv, SaveFailsIInv, ProcessIInv DEF Next
  <1>2. CASE UNCHANGED vars
    <2>1. TypeOK'
      BY <1>2, FilesKept DEF IInv, TypeOK, vars
    <2>2. Shapes' /\ Undisturbed' /\ Intact'
      BY <1>2 DEF IInv, Shapes, Undisturbed, Intact, Spared, vars
    <2> QED
      BY <2>1, <2>2 DEF IInv
  <1> QED
    BY <1>1, <1>2

\* The strengthened invariant of the migration holds in every reachable state.
THEOREM Invariance == Spec => []IInv
  BY InitIInv, NextIInv, PTL DEF Spec

-----------------------------------------------------------------------------
(* VaultKeys adds variables to TpmInit, and no step. *)

LEMMA NextMigrates == NextKeys => [Next]_vars
  <1> SUFFICES ASSUME NextKeys PROVE [Next]_vars
    OBVIOUS
  <1>1. CASE MigrationStep
    BY <1>1 DEF MigrationStep, Next
  <1>2. CASE StartWithKeys \/ StartBlindWithKeys \/ CreateWithKey \/ SaveKeysAgain \/ SaveFailsWithKey
    BY <1>2 DEF StartWithKeys, StartBlindWithKeys, CreateWithKey, SaveKeysAgain, SaveFailsWithKey, Next
  <1>3. CASE RegisterU2F
    BY <1>3 DEF RegisterU2F
  <1>4. CASE \E h \in DOMAIN handles : AuthenticatePanics(h)
    BY <1>4 DEF AuthenticatePanics, Stop, Next
  <1>5. CASE (StartPanics \/ Stop \/ RemoveKey) /\ UNCHANGED keyVars
    BY <1>5 DEF Next
  <1> QED
    BY <1>1, <1>2, <1>3, <1>4, <1>5 DEF NextKeys

\* The daemon with its keys is a daemon of TpmInit: whatever that keeps, this
\* keeps.
THEOREM KeysMigrate == SpecKeys => Spec
  <1>1. InitKeys => Init
    BY DEF InitKeys
  <1>2. [NextKeys]_allVars => [Next]_vars
    BY NextMigrates DEF allVars
  <1> QED
    BY <1>1, <1>2, PTL DEF SpecKeys, Spec

\* All credentials stay readable by the owner or by this machine, wherever an
\* init stops and whatever it takes the vault for, until a save of the daemon
\* races, is cut short or follows a blind start.
THEOREM NothingLostHolds == SpecKeys => []NothingLost
  <1>1. IInv => NothingLost
    BY DEF IInv, Undisturbed, Intact, NothingLost, Readable, Spared
  <1> QED
    BY <1>1, Invariance, KeysMigrate, PTL

\* Behind a vault that was migrated lies a whole backup under the owner's
\* passphrase.
THEOREM BackupIsWholeHolds == SpecKeys => []BackupIsWhole
  <1>1. IInv => BackupIsWhole
    BY DEF IInv, Shapes, Undisturbed, BackupIsWhole
  <1> QED
    BY <1>1, Invariance, KeysMigrate, PTL

\* The daemon fails to start only while an init is between key and vault, after
\* one that was stopped, on a vault that a save has left in pieces, or after an
\* init that could not read the vault.
THEOREM StartFailsOnlyHalfwayHolds == SpecKeys => StartFailsOnlyHalfway
  <1>1. IInv /\ [Next]_vars => 
          [StartPanics /\ Spared({"race"})
             => \/ outcome \in {"error", "crash"} \/ pc = "vault"
                \/ vault.state \in {"torn", "empty"} /\ "tear" \in mishaps
                \/ "unread" \in mishaps]_vars
    BY Numbers DEF IInv, Shapes, Undisturbed, StartPanics, Decrypts
  <1> QED
    BY <1>1, Invariance, KeysMigrate, PTL DEF Spec, StartFailsOnlyHalfway

-----------------------------------------------------------------------------
(* The secrets.  Derived from the owner's passphrase there is one device   *)
(* key, 0, and a vault carries it on (OneDeviceKey).  A vault under the    *)
(* owner's passphrase has not been saved in TPM mode (Signers).  What the  *)
(* daemon and the init hold is what the vault holds (Kept), unless a       *)
(* daemon has started blind.                                               *)

TypesKeys ==
  /\ {secrets, stored, read} \subseteq SecretValues
  /\ cas \in Seq(1 .. MaxStarts) /\ Len(cas) <= MaxStarts
  /\ software \subseteq 1 .. created
  /\ handles \in Seq(Passphrases) /\ Len(handles) <= MaxHandles
  /\ bare \in BOOLEAN

\* A vault has a CA, and so has a daemon.
Certified ==
  /\ vault.state = "missing" => stored = NoSecrets
  /\ daemon = "up" => secrets.ca > 0
  /\ vault.state = "whole" => stored.ca > 0
  /\ pc # "idle" /\ source.state = "whole" => read.ca > 0

OneDeviceKey ==
  ~bare /\ Spared({"blind"}) =>
    /\ vault.state = "missing" => key = 0
    /\ vault.state = "whole" => stored.deviceKey = 0
    /\ pc # "idle" /\ source.state = "whole" => read.deviceKey = 0
    /\ daemon = "up" => secrets.deviceKey = 0
    /\ \A h \in DOMAIN handles : handles[h] = 0

Signers ==
  /\ vault.state = "whole" /\ vault.by = 0 => vault.creds \subseteq software
  /\ daemon = "up" /\ pass = 0 => memory \subseteq software

Kept ==
  Spared({"blind"}) =>
    /\ daemon = "up" /\ stored # NoSecrets => secrets = stored
    /\ pc # "idle" /\ source.state = "whole" => read = stored

KInv == TypesKeys /\ Certified /\ OneDeviceKey /\ Signers /\ Kept

LEMMA InitKInv == InitKeys => KInv
  <1> SUFFICES ASSUME InitKeys PROVE KInv
    OBVIOUS
  <1> USE VaultKeysAssumption, Bounds DEF InitKeys, Init, Missing
  <1>1. TypesKeys
    <2>1. NoSecrets \in SecretValues
      BY DEF SecretValues, NoSecrets, Secrets, Passphrases
    <2>2. software \subseteq 1 .. created /\ bare \in BOOLEAN
      OBVIOUS
    <2>3. cas \in Seq(1 .. MaxStarts) /\ Len(cas) <= MaxStarts
      OBVIOUS
    <2>4. handles \in Seq(Passphrases) /\ Len(handles) <= MaxHandles
      OBVIOUS
    <2>5. {secrets, stored, read} \subseteq SecretValues
      BY <2>1
    <2> QED
      BY <2>2, <2>3, <2>4, <2>5 DEF TypesKeys
  <1>2. Certified /\ OneDeviceKey /\ Signers /\ Kept
    BY DEF Certified, OneDeviceKey, Signers, Kept, NoSecrets, Secrets
  <1> QED
    BY <1>1, <1>2 DEF KInv

LEMMA MigrationKInv == IInv /\ KInv /\ MigrationStep => KInv'
  <1> SUFFICES ASSUME IInv, KInv, MigrationStep PROVE KInv'
    OBVIOUS
  <1> USE DEF IInv, KInv
  <1>1. CASE InitReads /\ read' = stored /\ UNCHANGED <<secrets, stored, cas, software, handles, bare>>
    <2> USE <1>1 DEF InitReads, TakesForNone, TakesVault, Decrypts, Missing
    <2>1. TypesKeys'
      BY DEF TypesKeys, SecretValues, Passphrases
    <2>2. Certified' /\ OneDeviceKey' /\ Signers' /\ Kept'
      BY Numbers DEF Certified, OneDeviceKey, Signers, Kept, Shapes, Spared
    <2> QED
      BY <2>1, <2>2
  <1>2. CASE WriteKey /\ bare' = (bare \/ vault.state = "missing") /\ UNCHANGED <<secrets, stored, read, cas, software, handles>>
    <2> USE <1>2 DEF WriteKey
    <2>1. TypesKeys'
      BY DEF TypesKeys, SecretValues, Passphrases
    <2>2. Certified' /\ OneDeviceKey' /\ Signers' /\ Kept'
      BY Numbers DEF Certified, OneDeviceKey, Signers, Kept, Shapes, Spared, TypesKeys
    <2> QED
      BY <2>1, <2>2
  <1>3. CASE WriteVault /\ stored' = read /\ UNCHANGED <<secrets, read, cas, software, handles, bare>>
    <2> USE <1>3 DEF WriteVault, Whole
    <2>1. TypesKeys'
      BY DEF TypesKeys, SecretValues, Passphrases
    <2>2. Certified' /\ OneDeviceKey' /\ Signers'
      BY Numbers DEF Certified, OneDeviceKey, Signers, Shapes, Spared
    <2>3. Kept'
      BY Numbers DEF Kept, Shapes, Spared
    <2> QED
      BY <2>1, <2>2, <2>3
  <1>4. CASE /\ \/ InitRefuses \/ OpenBackup \/ WriteBackup
                \/ \E how \in {"error", "crash"} : InitStops(how)
             /\ UNCHANGED keyVars
    <2> USE <1>4 DEF InitRefuses, Faulty, OpenBackup, WriteBackup, InitStops, keyVars
    <2>1. TypesKeys'
      BY DEF TypesKeys, SecretValues, Passphrases
    <2>2. Certified' /\ OneDeviceKey' /\ Signers' /\ Kept'
      BY Numbers DEF Certified, OneDeviceKey, Signers, Kept, Shapes, Spared
    <2> QED
      BY <2>1, <2>2
  <1> QED
    BY <1>1, <1>2, <1>3, <1>4 DEF MigrationStep

\* What main() makes before it loads the vault.
LEMMA DerivedFacts ==
  ASSUME TypeOK, TypesKeys, Len(cas) < MaxStarts
  PROVE  Derived \in SecretValues /\ Derived.ca \in 1 .. MaxStarts /\ Derived.deviceKey = key
  <1>1. Derived = [deviceKey |-> key, ca |-> Len(cas) + 1]
    BY DEF Derived, Secrets
  <1>2. key \in Passphrases
    BY TypeSplit DEF Scalars
  <1>3. Len(cas) + 1 \in 1 .. MaxStarts
    BY VaultKeysAssumption DEF TypesKeys
  <1> QED
    BY <1>1, <1>2, <1>3 DEF SecretValues

\* What a daemon loads.
LEMMA LoadFacts ==
  ASSUME IInv, KInv, StartWithKeys
  PROVE  /\ Load \in SecretValues /\ Load.ca \in 1 .. MaxStarts
         /\ ~bare /\ Spared({"blind"}) => Load.deviceKey = 0
         /\ stored # NoSecrets => Load = stored
  <1> USE DEF IInv, KInv, StartWithKeys
  <1>1. vault.state \in {"missing", "whole"}
    BY DEF Start, Decrypts
  <1>2. Derived \in SecretValues /\ Derived.ca \in 1 .. MaxStarts /\ Derived.deviceKey = key
    BY DerivedFacts
  <1>3. CASE vault.state = "missing"
    <2>1. Load = Derived
      BY <1>3 DEF Load
    <2> QED
      BY <1>2, <1>3, <2>1 DEF OneDeviceKey, Certified
  <1>4. CASE vault.state = "whole"
    <2>1. Load = stored
      BY <1>4 DEF Load
    <2>2. stored \in SecretValues
      BY DEF TypesKeys
    <2>3. stored.ca \in 1 .. MaxStarts
      BY <1>4, <2>2, VaultKeysAssumption DEF Certified, SecretValues
    <2> QED
      BY <1>4, <2>1, <2>2, <2>3 DEF OneDeviceKey
  <1> QED
    BY <1>1, <1>3, <1>4

LEMMA StartKInv == IInv /\ KInv /\ StartWithKeys => KInv'
  <1> SUFFICES ASSUME IInv, KInv, StartWithKeys PROVE KInv'
    OBVIOUS
  <1> USE LoadFacts DEF IInv, KInv
  <1>1. UNCHANGED <<key, vault, pc, source, mishaps, created, stored, read, software, handles, bare>>
    BY DEF StartWithKeys, Start
  <1>2. secrets' = Load /\ cas' = Append(cas, Load.ca) /\ memory' = vault.creds /\ pass' = key
    BY DEF StartWithKeys, Start
  <1>3. vault.state = "missing" \/ (vault.state = "whole" /\ vault.by = key)
    BY DEF StartWithKeys, Start, Decrypts
  <1>4. Len(cas) < MaxStarts
    BY DEF StartWithKeys
  <1>5. TypesKeys'
    <2>1. cas' \in Seq(1 .. MaxStarts) /\ Len(cas') <= MaxStarts
      BY <1>2, <1>4, VaultKeysAssumption DEF TypesKeys
    <2> QED
      BY <1>1, <1>2, <2>1 DEF TypesKeys, SecretValues, Passphrases
  <1>6. Certified'
    BY <1>1, <1>2, VaultKeysAssumption DEF Certified
  <1>7. OneDeviceKey'
    BY <1>1, <1>2 DEF OneDeviceKey, Spared
  <1>8. Signers'
    BY <1>1, <1>2, <1>3 DEF Signers, Shapes
  <1>9. Kept'
    BY <1>1, <1>2 DEF Kept, Spared
  <1> QED
    BY <1>5, <1>6, <1>7, <1>8, <1>9

\* Blind, it holds nothing, and what it has derived is excused.
LEMMA StartBlindKInv == IInv /\ KInv /\ StartBlindWithKeys => KInv'
  <1> SUFFICES ASSUME IInv, KInv, StartBlindWithKeys PROVE KInv'
    OBVIOUS
  <1> USE DEF IInv, KInv
  <1>1. /\ secrets' = Derived /\ cas' = Append(cas, Derived.ca) /\ memory' = {}
        /\ "blind" \in mishaps' /\ UNCHANGED <<vault, pc, source, created, stored, read, software, handles, bare>>
    BY DEF StartBlindWithKeys, StartBlind
  <1>2. Derived \in SecretValues /\ Derived.ca \in 1 .. MaxStarts /\ Len(cas) < MaxStarts
    BY DerivedFacts DEF StartBlindWithKeys
  <1>3. TypesKeys'
    <2>1. cas' \in Seq(1 .. MaxStarts) /\ Len(cas') <= MaxStarts
      BY <1>1, <1>2, VaultKeysAssumption DEF TypesKeys
    <2> QED
      BY <1>1, <1>2, <2>1 DEF TypesKeys, SecretValues, Passphrases
  <1>4. Certified' /\ Signers'
    BY <1>1, <1>2, VaultKeysAssumption DEF Certified, Signers
  <1>5. OneDeviceKey' /\ Kept'
    BY <1>1 DEF OneDeviceKey, Kept, Spared
  <1> QED
    BY <1>3, <1>4, <1>5

\* NewIdentity adds a software key in disk mode.
LEMMA KeyFacts ==
  ASSUME IInv, KInv, daemon = "up", MakesKey,
         MakesCredential \/ UNCHANGED <<memory, created>>
  PROVE  software \subseteq software' /\ software' \subseteq 1 .. created' /\ (pass = 0 => memory' \subseteq software')
  <1> USE DEF IInv, KInv, MakesKey, InTpmMode
  <1>1. software' \subseteq 1 .. created'
    <2>1. CASE MakesCredential
      BY <2>1, CreateTypes DEF TypesKeys
    <2>2. CASE UNCHANGED <<memory, created>>
      BY <2>2 DEF TypesKeys
    <2> QED
      BY <2>1, <2>2
  <1> QED
    BY <1>1 DEF Signers

\* A save, with a new credential or without.
LEMMA SaveKInv == IInv /\ KInv /\ (CreateWithKey \/ SaveKeysAgain) => KInv'
  <1> SUFFICES ASSUME IInv, KInv, CreateWithKey \/ SaveKeysAgain PROVE KInv'
    OBVIOUS
  <1> USE DEF IInv, KInv
  <1>1. /\ daemon = "up" /\ stored' = secrets
        /\ UNCHANGED <<key, pc, source, daemon, pass, secrets, read, cas, handles, bare>>
    BY DEF CreateWithKey, CreateAndSave, SaveKeysAgain, SaveAgain
  <1>2. vault'.state = "whole" /\ vault'.by = pass /\ vault'.creds = memory'
    BY DEF CreateWithKey, CreateAndSave, SaveKeysAgain, SaveAgain, Whole
  <1>3. Spared({"blind"})' => Spared({"blind"})
    BY DEF CreateWithKey, CreateAndSave, SaveKeysAgain, SaveAgain, Spared
  <1>4. software' \subseteq 1 .. created' /\ (pass = 0 => memory' \subseteq software')
    <2>1. CASE CreateWithKey
      BY <1>1, <2>1, KeyFacts DEF CreateWithKey, CreateAndSave
    <2>2. CASE SaveKeysAgain
      BY <1>1, <2>2 DEF SaveKeysAgain, SaveAgain, Signers, TypesKeys
    <2> QED
      BY <2>1, <2>2
  <1>5. TypesKeys'
    BY <1>1, <1>4 DEF TypesKeys, SecretValues, Passphrases
  <1>6. Certified' /\ OneDeviceKey'
    BY <1>1, <1>2, <1>3 DEF Certified, OneDeviceKey
  <1>7. Signers'
    BY <1>1, <1>2, <1>4 DEF Signers
  <1>8. Kept'
    BY <1>1, <1>3, VaultKeysAssumption DEF Kept, Certified, NoSecrets, Secrets
  <1> QED
    BY <1>5, <1>6, <1>7, <1>8

LEMMA SaveFailsKInv == IInv /\ KInv /\ SaveFailsWithKey => KInv'
  <1> SUFFICES ASSUME IInv, KInv, SaveFailsWithKey PROVE KInv'
    OBVIOUS
  <1> USE DEF IInv, KInv
  <1>1. /\ daemon = "up" /\ vault' \in {vault, Empty, Torn}
        /\ UNCHANGED <<key, pc, source, pass, secrets, stored, read, cas, handles, bare>>
    BY DEF SaveFailsWithKey, SaveFails
  <1>2. Spared({"blind"})' => Spared({"blind"})
    BY DEF SaveFailsWithKey, SaveFails, Spared
  <1>3. software \subseteq software' /\ software' \subseteq 1 .. created' /\ (pass = 0 => memory' \subseteq software')
    BY <1>1, KeyFacts DEF SaveFailsWithKey, SaveFails
  <1>4. TypesKeys'
    BY <1>1, <1>3 DEF TypesKeys, SecretValues, Passphrases
  <1>5. Certified' /\ OneDeviceKey'
    BY <1>1, <1>2 DEF Certified, OneDeviceKey, Empty, Torn
  <1>6. Signers'
    <2>1. vault'.state = "whole" => vault' = vault
      BY <1>1 DEF Empty, Torn
    <2>2. vault'.state = "whole" /\ vault'.by = 0 => vault'.creds \subseteq software'
      BY <1>3, <2>1 DEF Signers
    <2>3. pass' = 0 => memory' \subseteq software'
      BY <1>1, <1>3
    <2> QED
      BY <2>2, <2>3 DEF Signers
  <1>7. Kept'
    BY <1>1, <1>2 DEF Kept
  <1> QED
    BY <1>4, <1>5, <1>6, <1>7

LEMMA OthersKInv ==
  ASSUME IInv, KInv,
         RegisterU2F \/ (\E h \in DOMAIN handles : AuthenticatePanics(h))
           \/ ((StartPanics \/ Stop \/ RemoveKey) /\ UNCHANGED keyVars)
  PROVE  KInv'
  <1> USE DEF IInv, KInv
  <1>1. CASE RegisterU2F
    <2> USE <1>1 DEF RegisterU2F, vars
    <2>1. secrets.deviceKey \in Passphrases
      BY DEF TypesKeys, SecretValues
    <2>2. handles' \in Seq(Passphrases) /\ Len(handles') <= MaxHandles
      BY <2>1, VaultKeysAssumption DEF TypesKeys
    <2>3. TypesKeys'
      BY <2>2 DEF TypesKeys, SecretValues, Passphrases
    <2>4. ~bare /\ Spared({"blind"}) => \A h \in DOMAIN handles' : handles'[h] = 0
      BY DEF OneDeviceKey, TypesKeys
    <2>5. Certified' /\ OneDeviceKey' /\ Signers' /\ Kept'
      BY <2>4 DEF Certified, OneDeviceKey, Signers, Kept, Spared
    <2> QED
      BY <2>3, <2>5
  <1>2. CASE \E h \in DOMAIN handles : AuthenticatePanics(h)
    <2> USE <1>2 DEF AuthenticatePanics, keyVars
    <2>1. TypesKeys'
      BY DEF TypesKeys, SecretValues, Passphrases
    <2>2. Certified' /\ OneDeviceKey' /\ Signers' /\ Kept'
      BY DEF Certified, OneDeviceKey, Signers, Kept, Spared
    <2> QED
      BY <2>1, <2>2
  <1>3. CASE (StartPanics \/ Stop \/ RemoveKey) /\ UNCHANGED keyVars
    <2> USE <1>3 DEF StartPanics, Stop, RemoveKey, keyVars
    <2>1. TypesKeys'
      BY DEF TypesKeys, SecretValues, Passphrases
    <2>2. Certified' /\ OneDeviceKey' /\ Signers' /\ Kept'
      BY DEF Certified, OneDeviceKey, Signers, Kept, Spared
    <2> QED
      BY <2>1, <2>2
  <1> QED
    BY <1>1, <1>2, <1>3

LEMMA NextKInv == IInv /\ KInv /\ [NextKeys]_allVars => KInv'
  <1> SUFFICES ASSUME IInv, KInv, [NextKeys]_allVars PROVE KInv'
    OBVIOUS
  <1>1. CASE NextKeys
    BY <1>1, MigrationKInv, StartKInv, StartBlindKInv, SaveKInv, SaveFailsKInv, OthersKInv DEF NextKeys
  <1>2. CASE UNCHANGED allVars
    BY <1>2 DEF allVars, vars, keyVars, KInv, TypesKeys, SecretValues, Passphrases,
       Certified, OneDeviceKey, Signers, Kept, Spared
  <1> QED
    BY <1>1, <1>2

\* The invariant of the secrets holds in every reachable state.
THEOREM KeysInvariance == SpecKeys => []KInv
  BY InitKInv, NextKInv, Invariance, KeysMigrate, PTL DEF SpecKeys

\* The variables of migration and secrets keep their types.
THEOREM TypeCorrect == SpecKeys => []TypeOKKeys
  <1>1. IInv /\ KInv => TypeOKKeys
    BY DEF IInv, KInv, TypesKeys, TypeOKKeys
  <1> QED
    BY <1>1, Invariance, KeysMigrate, KeysInvariance, PTL

\* A key handle that was given away opens in every later run, unless an init
\* found no vault or a start could not read it.
THEOREM HandlesOpenHolds == SpecKeys => []HandlesOpen
  <1>1. KInv => HandlesOpen
    BY DEF KInv, OneDeviceKey, HandlesOpen
  <1> QED
    BY <1>1, KeysInvariance, PTL

\* A daemon that holds a key of the TPM can sign with it.
THEOREM SignerForEveryKeyHolds == SpecKeys => []SignerForEveryKey
  <1>1. KInv => SignerForEveryKey
    BY DEF KInv, Signers, SignerForEveryKey
  <1> QED
    BY <1>1, KeysInvariance, PTL

\* Device key and CA stay what they are once they are saved, until a daemon
\* has started blind.
THEOREM SecretsStayHolds == SpecKeys => SecretsStay
  <1>1. IInv /\ KInv /\ [NextKeys]_allVars => [stored # NoSecrets /\ Spared({"blind"}) => stored' = stored]_allVars
    <2> SUFFICES ASSUME IInv, KInv, NextKeys, stored # NoSecrets, Spared({"blind"})
                 PROVE  stored' = stored
      OBVIOUS
    <2>1. CASE WriteVault /\ stored' = read
      BY <2>1 DEF WriteVault, IInv, Shapes, KInv, Kept
    <2>2. CASE CreateWithKey \/ SaveKeysAgain
      BY <2>2 DEF CreateWithKey, SaveKeysAgain, CreateAndSave, SaveAgain, KInv, Kept
    <2> QED
      BY <2>1, <2>2 DEF NextKeys, MigrationStep, StartWithKeys, StartBlindWithKeys, SaveFailsWithKey,
         RegisterU2F, AuthenticatePanics, keyVars
  <1> QED
    BY <1>1, Invariance, KeysMigrate, KeysInvariance, PTL DEF SpecKeys, SecretsStay
=============================================================================
