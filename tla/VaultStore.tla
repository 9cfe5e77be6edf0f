----------------------------- MODULE VaultStore -----------------------------
(***************************************************************************)
(* The credential vault: the sources in memory (identity_vault.go), the    *)
(* ceremonies that change them (fido_client.go, called by ctap.go), and    *)
(* the vault file (saved_state.go, approver.go).                           *)
(*                                                                         *)
(* Each CTAPHID channel runs one ceremony at a time, under its messageLock;*)
(* nothing orders the ceremonies of two channels.  The slice of sources,   *)
(* the counters and the file are shared without a lock, so an append, an   *)
(* increment and a save are two steps or more each.  A save exports the    *)
(* vault, opens the file with O_TRUNC and writes it; two writers that are  *)
(* both past the open write from offset zero, one over the other.          *)
(*                                                                         *)
(* The process may be killed at any point (crash, logout, systemctl stop)  *)
(* and is started again.  Encryption is left to TpmInit: here a file is    *)
(* whole, and decrypts, or it is torn.  The length of a file is that of    *)
(* its list of sources.                                                    *)
(***************************************************************************)
EXTENDS Naturals, Sequences, FiniteSets

CONSTANTS Channels,       \* CTAPHID channels, each with one client
          MaxCredentials, \* bound on the credentials created
          MaxAssertions,  \* bound on the assertions begun
          MaxCrashes,     \* bound on the times the process is killed
          MaxFailures     \* bound on failing file and TPM operations

ASSUME VaultAssumption == {MaxCredentials, MaxAssertions, MaxCrashes, MaxFailures} \subseteq Nat

Credentials == 1 .. MaxCredentials   \* random credential ids never collide

VARIABLES
  daemon,    \* "up", "down", or "broken": its start panics on the file
  vault,     \* ids in vault.CredentialSources
  counter,   \* SignatureCounter of each source in memory
  file,      \* the vault file
  pc,        \* where the ceremony of a channel is
  op,        \* and which one it is
  cred,      \* the credential it is about
  loaded,    \* the slice or the counter it has read and will write back
  image,     \* what it has exported
  created, asserted, crashes, failures,  \* what the bounds count
  acked,     \* credentials a relying party was told of
  signed,    \* per credential, the counters of its assertions in order
  excused    \* what has happened that may cost data

vars == <<daemon, vault, counter, file, pc, op, cred, loaded, image,
          created, asserted, crashes, failures, acked, signed, excused>>

ceremony == <<pc, op, cred, loaded, image>>
history  == <<acked, signed>>

NoCounters  == [c \in Credentials |-> 0]
File(state, creds, counters) == [state |-> state, creds |-> creds, counter |-> counters]
Torn        == File("torn", {}, NoCounters)
NoImage     == [creds |-> {}, counter |-> NoCounters]

Init ==
  /\ daemon = "down"
  /\ vault = {}
  /\ counter = NoCounters
  /\ file = File("missing", {}, NoCounters)
  /\ pc = [ch \in Channels |-> "idle"]
  /\ op = [ch \in Channels |-> "none"]
  /\ cred = [ch \in Channels |-> 0]
  /\ loaded = [ch \in Channels |-> 0]
  /\ image = [ch \in Channels |-> NoImage]
  /\ created = 0
  /\ asserted = 0
  /\ crashes = 0
  /\ failures = 0
  /\ acked = {}
  /\ signed = [c \in Credentials |-> <<>>]
  /\ excused = {}

Goto(ch, point) == pc' = [pc EXCEPT ![ch] = point]

Fails == failures < MaxFailures /\ failures' = failures + 1

\* Between reading the vault and having saved it, a ceremony must not meet
\* another one; between reading a counter and signing with it, not another one
\* on the same credential.
Updating == {"add", "increment", "export", "open", "write"}

Meets(ch, c) ==
  {reason \in {"lost_update", "shared_counter"} : \E other \in Channels \ {ch} :
     IF reason = "lost_update" THEN pc[other] \in Updating
     ELSE pc[other] = "answer" /\ op[other] = "assert" /\ cred[other] = c}

-----------------------------------------------------------------------------
(* MakeCredential, after Howdy's approval. *)

\* vault.NewIdentity has made a key and appends the source: it reads the slice,
Create(ch) ==
  /\ daemon = "up"
  /\ pc[ch] = "idle"
  /\ created < MaxCredentials
  /\ created' = created + 1
  /\ op' = [op EXCEPT ![ch] = "make"]
  /\ cred' = [cred EXCEPT ![ch] = created + 1]
  /\ loaded' = [loaded EXCEPT ![ch] = vault]
  /\ excused' = excused \union Meets(ch, created + 1)
  /\ Goto(ch, "add")
  /\ UNCHANGED <<daemon, vault, counter, file, image, asserted, crashes, failures, history>>

\* Mutant: NewCredentialSource does not save.
AddUnsaved(ch) ==
  /\ pc[ch] = "add"
  /\ vault' = loaded[ch] \union {cred[ch]}
  /\ counter' = [counter EXCEPT ![cred[ch]] = 0]
  /\ Goto(ch, "answer")
  /\ UNCHANGED <<daemon, file, op, cred, loaded, image, created, asserted, crashes, failures, history, excused>>

\* and writes the longer one back.
Add(ch) ==
  /\ pc[ch] = "add"
  /\ vault' = loaded[ch] \union {cred[ch]}
  /\ counter' = [counter EXCEPT ![cred[ch]] = 0]
  /\ Goto(ch, "export")
  /\ UNCHANGED <<daemon, file, op, cred, loaded, image, created, asserted, crashes, failures, history, excused>>

\* The TPM makes no key: nothing is appended, but the vault is saved.
KeyFails(ch) ==
  /\ daemon = "up"
  /\ pc[ch] = "idle"
  /\ Fails
  /\ op' = [op EXCEPT ![ch] = "refuse"]
  /\ cred' = [cred EXCEPT ![ch] = 0]
  /\ excused' = excused \union Meets(ch, 0)
  /\ Goto(ch, "export")
  /\ UNCHANGED <<daemon, vault, counter, file, loaded, image, created, asserted, crashes, history>>

-----------------------------------------------------------------------------
(* GetAssertion, before Howdy's approval. *)

\* GetAssertionSource picks a source; credentialSource.SignatureCounter++
\* reads the counter,
Select(ch, c) ==
  /\ daemon = "up"
  /\ pc[ch] = "idle"
  /\ c \in vault
  /\ asserted < MaxAssertions
  /\ asserted' = asserted + 1
  /\ op' = [op EXCEPT ![ch] = "assert"]
  /\ cred' = [cred EXCEPT ![ch] = c]
  /\ loaded' = [loaded EXCEPT ![ch] = counter[c]]
  /\ excused' = excused \union Meets(ch, c)
  /\ Goto(ch, "increment")
  /\ UNCHANGED <<daemon, vault, counter, file, image, created, crashes, failures, history>>

\* and writes it back.
Increment(ch) ==
  /\ pc[ch] = "increment"
  /\ counter' = [counter EXCEPT ![cred[ch]] = loaded[ch] + 1]
  /\ Goto(ch, "export")
  /\ UNCHANGED <<daemon, vault, file, op, cred, loaded, image, created, asserted, crashes, failures, history, excused>>

-----------------------------------------------------------------------------
(* saveData. *)

Export(ch) ==
  /\ pc[ch] = "export"
  /\ image' = [image EXCEPT ![ch] = [creds |-> vault, counter |-> counter]]
  /\ Goto(ch, "open")
  /\ UNCHANGED <<daemon, vault, counter, file, op, cred, loaded, created, asserted, crashes, failures, history, excused>>

\* os.WriteFile truncates the file,
Open(ch) ==
  /\ pc[ch] = "open"
  /\ file' = Torn
  /\ Goto(ch, "write")
  /\ UNCHANGED <<daemon, vault, counter, op, cred, loaded, image, created, asserted, crashes, failures, history, excused>>

\* and writes it.  Over a longer file of another writer the end of that stays.
Write(ch) ==
  /\ pc[ch] = "write"
  /\ file' = IF Cardinality(file.creds) > Cardinality(image[ch].creds) THEN Torn
             ELSE File("whole", image[ch].creds, image[ch].counter)
  /\ Goto(ch, "answer")
  /\ UNCHANGED <<daemon, vault, counter, op, cred, loaded, image, created, asserted, crashes, failures, history, excused>>

\* SaveData logs an error and returns: the ceremony goes on.
SaveFails(ch) ==
  /\ pc[ch] \in {"open", "write"}
  /\ Fails
  /\ excused' = excused \union {"save_failed"}
  /\ Goto(ch, "answer")
  /\ UNCHANGED <<daemon, vault, counter, file, op, cred, loaded, image, created, asserted, crashes, history>>

-----------------------------------------------------------------------------
(* The response. *)

Respond(ch) ==
  /\ pc[ch] = "answer"
  /\ Goto(ch, "idle")
  /\ UNCHANGED <<daemon, vault, counter, file, op, cred, loaded, image, created, asserted, crashes, failures, excused>>

Registered(ch) ==
  /\ op[ch] = "make"
  /\ Respond(ch)
  /\ acked' = acked \union {cred[ch]}
  /\ UNCHANGED signed

\* makeAuthData reads the counter once Howdy has approved.
Signed(ch) ==
  /\ op[ch] = "assert"
  /\ Respond(ch)
  /\ signed' = [signed EXCEPT ![cred[ch]] = Append(@, counter[cred[ch]])]
  /\ UNCHANGED acked

\* Howdy denies the assertion, or there was no key.
Refused(ch) ==
  /\ op[ch] \in {"assert", "refuse"}
  /\ Respond(ch)
  /\ UNCHANGED history

-----------------------------------------------------------------------------
(* The process. *)

Crash ==
  /\ daemon = "up"
  /\ crashes < MaxCrashes
  /\ crashes' = crashes + 1
  /\ daemon' = "down"
  /\ pc' = [ch \in Channels |-> "idle"]
  /\ excused' = IF \E ch \in Channels : pc[ch] = "write" THEN excused \union {"crash_in_save"} ELSE excused
  /\ UNCHANGED <<vault, counter, file, op, cred, loaded, image, created, asserted, failures, history>>

\* Mutant: Import does not restore SignatureCounter.
StartCountsAnew ==
  /\ daemon = "down"
  /\ file.state # "torn"
  /\ daemon' = "up"
  /\ vault' = file.creds
  /\ counter' = NoCounters
  /\ UNCHANGED <<file, ceremony, created, asserted, crashes, failures, history, excused>>

\* loadData: no file, or the vault in it.
Start ==
  /\ daemon = "down"
  /\ file.state # "torn"
  /\ daemon' = "up"
  /\ vault' = file.creds
  /\ counter' = file.counter
  /\ UNCHANGED <<file, ceremony, created, asserted, crashes, failures, history, excused>>

\* Mutant: loadData does not check for nil.
StartPanicsOnNil ==
  /\ daemon = "down"
  /\ file.state # "whole"
  /\ daemon' = "broken"
  /\ UNCHANGED <<vault, counter, file, ceremony, created, asserted, crashes, failures, history, excused>>

\* importData panics on what it cannot decrypt, at every start.
StartPanics ==
  /\ daemon = "down"
  /\ file.state = "torn"
  /\ daemon' = "broken"
  /\ UNCHANGED <<vault, counter, file, ceremony, created, asserted, crashes, failures, history, excused>>

\* RetrieveData returns nil when it cannot open or read the file: an empty
\* vault, as if there were none.
StartBlind ==
  /\ daemon = "down"
  /\ file.state # "missing"
  /\ Fails
  /\ daemon' = "up"
  /\ vault' = {}
  /\ counter' = NoCounters
  /\ excused' = excused \union {"read_failed"}
  /\ UNCHANGED <<file, ceremony, created, asserted, crashes, history>>

-----------------------------------------------------------------------------
Next ==
  \/ \E ch \in Channels :
       \/ Create(ch) \/ Add(ch) \/ KeyFails(ch) \/ Increment(ch)
       \/ \E c \in Credentials : Select(ch, c)
       \/ Export(ch) \/ Open(ch) \/ Write(ch) \/ SaveFails(ch)
       \/ Registered(ch) \/ Signed(ch) \/ Refused(ch)
  \/ Crash \/ Start \/ StartPanics \/ StartBlind

Spec == Init /\ [][Next]_vars

-----------------------------------------------------------------------------
(* Properties. *)

Counters == [Credentials -> 0 .. MaxAssertions]

TypeOK ==
  /\ daemon \in {"up", "down", "broken"}
  /\ vault \subseteq 1 .. created
  /\ counter \in Counters
  /\ file \in [state : {"missing", "torn", "whole"}, creds : SUBSET (1 .. created), counter : Counters]
  /\ pc \in [Channels -> Updating \union {"idle", "answer"}]
  /\ op \in [Channels -> {"none", "make", "assert", "refuse"}]
  /\ cred \in [Channels -> 0 .. created]
  /\ image \in [Channels -> [creds : SUBSET (1 .. created), counter : Counters]]
  /\ created \in 0 .. MaxCredentials
  /\ asserted \in 0 .. MaxAssertions
  /\ crashes \in 0 .. MaxCrashes
  /\ failures \in 0 .. MaxFailures
  /\ acked \subseteq 1 .. created
  /\ signed \in [Credentials -> Seq(0 .. MaxAssertions)]
  /\ excused \subseteq {"lost_update", "shared_counter", "save_failed", "read_failed", "crash_in_save"}

OnFile(c) ==
  IF file.state = "torn"
  THEN \E ch \in Channels : pc[ch] = "write" /\ c \in image[ch].creds
  ELSE c \in file.creds

\* A credential that a relying party was told of is in memory and on file, or
\* about to be rewritten: whatever crashes, denials and overlapping ceremonies
\* there were, except two overlapping updates, a failed read or save, and a
\* crash inside a save (NewCredentialSource, saveData, loadData).
AckedKept ==
  excused \subseteq {"shared_counter"} =>
    \A c \in acked : (daemon = "up" => c \in vault) /\ OnFile(c)

\* The assertions of one credential carry strictly increasing counters, also
\* across restarts: the increment is saved before anything is signed.  The
\* same exceptions, and two assertions of one credential at a time
\* (GetAssertionSource, makeAuthData).
CountersIncrease ==
  excused = {} =>
    \A c \in Credentials : \A i, j \in DOMAIN signed[c] : i < j => signed[c][i] < signed[c][j]

\* The daemon fails to start only after a crash inside a save, a failed one or
\* two that overlapped.
BrokenOnlyExcused ==
  daemon = "broken" => excused \intersect {"crash_in_save", "save_failed", "lost_update"} # {}

-----------------------------------------------------------------------------
(* The ledger a relying party may count on. *)

\* What the next start will find: what is on file, or being written.
Durable ==
  IF \E ch \in Channels : pc[ch] = "write"
  THEN image[CHOOSE ch \in Channels : pc[ch] = "write"]
  ELSE [creds |-> file.creds, counter |-> file.counter]

Ledger == INSTANCE CredentialLedger
  WITH creds <- Durable.creds, counter <- Durable.counter, void <- excused # {}

\* Until one of the accidents happens, the vault keeps the ledger's promise at
\* every step: each save extends what is durable, nobody is told of a
\* credential that is not, and nothing is signed with a counter that is not
\* (NewCredentialSource and GetAssertionSource save before they return).
ImplementsLedger == Ledger!Spec
=============================================================================
