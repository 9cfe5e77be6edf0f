---------------------------- MODULE Credentials ----------------------------
(***************************************************************************)
(* Which credential answers, and with which key: the list of sources       *)
(* (identity_vault.go), the ceremonies that extend it and select from it   *)
(* (ctap.go, fido_client.go), the form in which keys are saved (cose.go)   *)
(* and the demo's commands on the same file (demo.go).  VaultStore has the *)
(* interleavings of ceremonies and the failures of the file; here a        *)
(* ceremony and a save are one step.                                       *)
(*                                                                         *)
(* A key pair is a number, its private half and its public half; a TPM     *)
(* blob is the number of the key in it.  A credential id is random and has *)
(* its key's number.                                                       *)
(*                                                                         *)
(* External: the relying parties, which keep the credentials they were     *)
(* told of, drop some (an account is closed, a passkey removed in its      *)
(* settings) and accept no public key whose coordinates are not 32 bytes.  *)
(***************************************************************************)
EXTENDS Naturals, Sequences, FiniteSets

CONSTANTS RPs,
          NoRP,
          MaxCredentials  \* bound on the credentials created

ASSUME CredentialsAssumption == NoRP \notin RPs /\ MaxCredentials \in Nat

Ids == 1 .. MaxCredentials

VARIABLES
  up,       \* the server runs
  tpmMode,  \* TPMNewKey is installed: tpm-init has been run
  sources,  \* vault.CredentialSources
  saved,    \* the sources in the vault file
  cli,      \* sources a demo command has loaded, or Closed
  created,
  known,    \* credentials relying parties have, as [rp, id, pub]
  deleted,  \* ids the demo has deleted
  astray,   \* relying parties that do not have a credential made for them
  raced     \* a demo command and the server have used the file at a time

vars == <<up, tpmMode, sources, saved, cli, created, known, deleted, astray, raced>>

Nothing  == 0
Closed   == <<[id |-> 0, rp |-> NoRP, key |-> Nothing]>>
NoSource == [id |-> 0, rp |-> NoRP, key |-> Nothing]

\* SupportedCOSEPrivateKey, of which one field is set.
TPMKey(n)   == [kind |-> "TPM", public |-> n, secret |-> n]
ECDSAKey(n) == [kind |-> "ECDSA", public |-> n, secret |-> n]

Source(id, rp, key) == [id |-> id, rp |-> rp, key |-> key]

-----------------------------------------------------------------------------
(* The saved form of a key. *)

MarshalCOSEPrivateKey(key) ==
  IF key.kind = "TPM"
  THEN [format |-> "cbor", public |-> key.public, d |-> Nothing, blob |-> key.secret]
  ELSE [format |-> "cbor", public |-> key.public, d |-> key.secret, blob |-> Nothing]

\* What ParseECPrivateKey reads, written by versions before COSE.
MarshalOldFormat(n) == [format |-> "x509", public |-> n, d |-> n, blob |-> Nothing]

\* A blob marks a TPM key; anything else with ES256 is read as a software key,
\* and what is not CBOR as one of the old format (Import).
UnmarshalCOSEPrivateKey(bytes) ==
  IF bytes.format = "cbor" /\ bytes.blob # Nothing
  THEN [kind |-> "TPM", public |-> bytes.public, secret |-> bytes.blob]
  ELSE [kind |-> "ECDSA", public |-> bytes.public, secret |-> bytes.d]

Export(list) == [i \in DOMAIN list |-> [list[i] EXCEPT !.key = MarshalCOSEPrivateKey(@)]]

\* Mutant: the addresses of the loop variable are kept, as before Go 1.22.
ImportAliased(list) ==
  [i \in DOMAIN list |-> [list[i] EXCEPT !.key = UnmarshalCOSEPrivateKey(@), !.rp = list[Len(list)].rp]]

Import(list) == [i \in DOMAIN list |-> [list[i] EXCEPT !.key = UnmarshalCOSEPrivateKey(@)]]

-----------------------------------------------------------------------------
(* The list of sources. *)

\* Mutant: the last source is dropped, but not moved.
RemoveIdentityUnmoved(list, id) ==
  IF \E i \in DOMAIN list : list[i].id = id THEN SubSeq(list, 1, Len(list) - 1) ELSE list

\* DeleteIdentity: the last source takes the place of the one that goes.
RemoveIdentity(list, id) ==
  LET at == {i \in DOMAIN list : list[i].id = id}
  IN  IF at = {} THEN list
      ELSE SubSeq([list EXCEPT ![CHOOSE i \in at : TRUE] = list[Len(list)]], 1, Len(list) - 1)

AnyOf == {0}   \* no allow list

\* Mutant: the relying party is not compared.
MatchingAnyParty(rp, allow) == {i \in DOMAIN sources : allow = AnyOf \/ sources[i].id \in allow}

\* The places of the matching sources in the list.
GetMatchingCredentialSources(rp, allow) ==
  {i \in DOMAIN sources : sources[i].rp = rp /\ (allow = AnyOf \/ sources[i].id \in allow)}

\* GetAssertionSource takes the first.
Selected(rp, allow) ==
  LET matching == GetMatchingCredentialSources(rp, allow)
  IN  IF matching = {} THEN NoSource
      ELSE sources[CHOOSE i \in matching : \A j \in matching : i <= j]

Sign(key)         == key.secret
Verify(public, s) == s = public

-----------------------------------------------------------------------------
Init ==
  /\ up = FALSE
  /\ tpmMode \in BOOLEAN
  /\ sources = <<>>
  /\ \/ saved = <<>> /\ known = {} /\ created = 0
     \/ /\ MaxCredentials > 0
        /\ created = 1
        /\ \E rp \in RPs :
             /\ saved = <<Source(1, rp, MarshalOldFormat(1))>>
             /\ known = {[rp |-> rp, id |-> 1, pub |-> 1]}
  /\ cli = Closed
  /\ deleted = {}
  /\ astray = {}
  /\ raced = FALSE

\* tpm-init before a start may have switched to TPM keys for good.
Start ==
  /\ ~up
  /\ up' = TRUE
  /\ tpmMode' \in {tpmMode, TRUE}
  /\ sources' = Import(saved)
  /\ raced' = (raced \/ cli # Closed)
  /\ UNCHANGED <<saved, cli, created, known, deleted, astray>>

Stop ==
  /\ up
  /\ up' = FALSE
  /\ sources' = <<>>
  /\ UNCHANGED <<tpmMode, saved, cli, created, known, deleted, astray, raced>>

Saves(list) ==
  /\ sources' = list
  /\ saved' = Export(list)
  /\ raced' = (raced \/ cli # Closed)

\* Mutant: NewIdentity does not add the source it returns.
RegisterUnadded(rp, accepted, short) ==
  /\ up /\ created < MaxCredentials
  /\ created' = created + 1
  /\ Saves(sources)
  /\ known' = IF accepted THEN known \union {[rp |-> rp, id |-> created + 1, pub |-> created + 1]} ELSE known
  /\ astray' = IF accepted THEN astray ELSE astray \union {rp}
  /\ UNCHANGED <<up, tpmMode, cli, deleted>>

\* handleMakeCredential, approved: the source is added and saved whatever the
\* exclude list says, and then the answer is on its way.  It may never come to
\* the relying party, which does not accept it either if a coordinate lost its
\* leading zeros (encodeECDSAPublicKey).
Register(rp, accepted, short) ==
  LET id  == created + 1
      key == IF tpmMode THEN TPMKey(id) ELSE ECDSAKey(id)
  IN  /\ up /\ created < MaxCredentials
      /\ accepted => ~short
      /\ created' = id
      /\ Saves(Append(sources, Source(id, rp, key)))
      /\ known' = IF accepted THEN known \union {[rp |-> rp, id |-> id, pub |-> key.public]} ELSE known
      /\ astray' = IF accepted THEN astray ELSE astray \union {rp}
      /\ UNCHANGED <<up, tpmMode, cli, deleted>>

\* The TPM makes no key: the ceremony saves all the same.
RegisterFails ==
  /\ up /\ tpmMode
  /\ Saves(sources)
  /\ UNCHANGED <<up, tpmMode, cli, created, known, deleted, astray>>

\* handleGetAssertion: the counter is saved (VaultStore has its value).
Login(rp, allow) ==
  /\ up
  /\ Selected(rp, allow) # NoSource
  /\ Saves(sources)
  /\ UNCHANGED <<up, tpmMode, cli, created, known, deleted, astray>>

Forget(k) ==
  /\ k \in known
  /\ known' = known \ {k}
  /\ astray' = astray \union {k.rp}
  /\ UNCHANGED <<up, tpmMode, sources, saved, cli, created, deleted, raced>>

-----------------------------------------------------------------------------
(* The demo's commands, in a process of their own. *)

\* createClient loads the vault.
DemoOpens ==
  /\ cli = Closed
  /\ cli' = Import(saved)
  /\ raced' = (raced \/ up)
  /\ UNCHANGED <<up, tpmMode, sources, saved, created, known, deleted, astray>>

\* list, and a delete whose prefix is that of no source or of several.
DemoLeaves ==
  /\ cli # Closed
  /\ cli' = Closed
  /\ UNCHANGED <<up, tpmMode, sources, saved, created, known, deleted, astray, raced>>

\* A delete whose prefix is that of one source.
DemoDeletes(id) ==
  /\ cli # Closed
  /\ \E i \in DOMAIN cli : cli[i].id = id
  /\ saved' = Export(RemoveIdentity(cli, id))
  /\ deleted' = deleted \union {id}
  /\ cli' = Closed
  /\ raced' = (raced \/ up)
  /\ UNCHANGED <<up, tpmMode, sources, created, known, astray>>

\* pin enable, disable and set save what they have loaded.
DemoSaves ==
  /\ cli # Closed
  /\ saved' = Export(cli)
  /\ cli' = Closed
  /\ raced' = (raced \/ up)
  /\ UNCHANGED <<up, tpmMode, sources, created, known, deleted, astray>>

-----------------------------------------------------------------------------
Lists == {AnyOf} \union SUBSET Ids

Next ==
  \/ Start \/ Stop \/ RegisterFails
  \/ \E rp \in RPs, accepted, short \in BOOLEAN : Register(rp, accepted, short)
  \/ \E rp \in RPs, allow \in Lists : Login(rp, allow)
  \/ \E k \in known : Forget(k)
  \/ DemoOpens \/ DemoLeaves \/ DemoSaves \/ (\E id \in Ids : DemoDeletes(id))

Spec == Init /\ [][Next]_vars

-----------------------------------------------------------------------------
(* Properties. *)

Keys  == [kind : {"TPM", "ECDSA"}, public : Ids, secret : Ids]
Bytes == [format : {"cbor", "x509"}, public : Ids, d : Ids \union {Nothing}, blob : Ids \union {Nothing}]

TypeOK ==
  /\ {up, tpmMode, raced} \subseteq BOOLEAN
  /\ sources \in Seq([id : 1 .. created, rp : RPs, key : Keys])
  /\ saved \in Seq([id : 1 .. created, rp : RPs, key : Bytes])
  /\ cli = Closed \/ cli \in Seq([id : 1 .. created, rp : RPs, key : Keys])
  /\ created \in 0 .. MaxCredentials
  /\ known \subseteq [rp : RPs, id : 1 .. created, pub : Ids]
  /\ deleted \subseteq 1 .. created
  /\ astray \subseteq RPs

\* The vault as the server has it, or will have it at its next start.
Vault == IF up THEN sources ELSE Import(saved)

Kept == {k \in known : k.id \notin deleted}

\* A credential a relying party has still signs for it, through any sequence
\* of starts, TPM and old-format keys, selections and deletions of others: it
\* is in the vault once, under its party, with the key that was registered.
\* Unless a demo command was used while the server ran.
KnownStillSigns ==
  ~raced =>
    \A k \in Kept :
      /\ Cardinality({i \in DOMAIN Vault : Vault[i].id = k.id}) = 1
      /\ \E i \in DOMAIN Vault : Vault[i].id = k.id /\ Vault[i].rp = k.rp /\ Verify(k.pub, Sign(Vault[i].key))

\* A login is answered by a credential that may answer it: of the relying party
\* that asks and, if it sends an allow list, of that list; and it is answered
\* if the list has one that was not deleted (GetMatchingCredentialSources).
LoginFindsAllowed ==
  up =>
    \A rp \in RPs, allow \in Lists :
      LET s == Selected(rp, allow) IN
      /\ s # NoSource => (allow # AnyOf => s.id \in allow) /\ (\A k \in known : k.id = s.id => k.rp = rp)
      /\ ~raced /\ (\E k \in Kept : k.rp = rp /\ k.id \in allow) => s # NoSource

\* A login without an allow list is answered by a credential the relying party
\* has, if it has one and no answer or removal has left one astray: sources[0]
\* is the one there is (fido_client.go:115).
DiscoverableKnown ==
  up /\ ~raced =>
    \A k \in Kept : k.rp \notin astray => \E j \in known : j.rp = k.rp /\ j.id = Selected(k.rp, AnyOf).id

\* What the demo has deleted does not come back.
DeletedStaysDeleted ==
  ~raced => \A i \in DOMAIN Vault : Vault[i].id \notin deleted
=============================================================================
