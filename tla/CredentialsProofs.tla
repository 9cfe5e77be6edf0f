------------------------- MODULE CredentialsProofs -------------------------
(***************************************************************************)
(* Proofs about Credentials, for any set of relying parties and any number *)
(* of credentials: its types, that a credential a relying party has still  *)
(* signs for it, that a login is answered by a credential that may answer  *)
(* it, and that what was deleted stays deleted.                            *)
(*                                                                         *)
(* A list of sources is sound if its ids are those of created credentials, *)
(* no id is in it twice, and each source has the key of its id.  Import,   *)
(* Export, a registration and a deletion keep a list sound, whatever form  *)
(* its keys are in; and a deletion takes the one source it is asked for.   *)
(* A list keeps what it should if all credentials that are known and not   *)
(* deleted are in it, and none that is deleted.  The three lists of the    *)
(* system (the server's, the file's and a demo command's) keep it as long  *)
(* as no command is used while the server runs.                            *)
(*                                                                         *)
(* What a login selects is the least of the places that match.  That the   *)
(* party has what is selected needs that every source in a list, whoever   *)
(* wrote it last, is its party's under that id and is known to the party,  *)
(* unless an answer or a removal has left one of the party's astray.       *)
(***************************************************************************)
EXTENDS Credentials, SequenceTheorems, FiniteSetTheorems, WellFoundedInduction, TLAPS

Sources(Form, n) == [id : 1 .. n, rp : RPs, key : Form]

Unique(list) == \A i, j \in DOMAIN list : list[i].id = list[j].id => i = j

\* Two lists with the same credentials, be their keys loaded or saved.
Alike(a, b) ==
  /\ DOMAIN a = DOMAIN b
  /\ \A i \in DOMAIN a : a[i].id = b[i].id /\ a[i].rp = b[i].rp

\* A key as the server has it, and as it is on file.
OwnKey(s) == s.key.public = s.id /\ s.key.secret = s.id
OwnBytes(s) ==
  /\ s.key.public = s.id
  /\ IF s.key.format = "cbor" /\ s.key.blob # Nothing THEN s.key.blob = s.id ELSE s.key.d = s.id

Loaded(list, n) ==
  list \in Seq(Sources(Keys, n)) /\ Unique(list) /\ \A i \in DOMAIN list : OwnKey(list[i])
Stored(list, n) ==
  list \in Seq(Sources(Bytes, n)) /\ Unique(list) /\ \A i \in DOMAIN list : OwnBytes(list[i])

Keeps(list, has, gone) ==
  /\ \A k \in has : k.id \notin gone => \E i \in DOMAIN list : list[i].id = k.id /\ list[i].rp = k.rp
  /\ \A i \in DOMAIN list : list[i].id \notin gone

Simple ==
  /\ up \in BOOLEAN /\ tpmMode \in BOOLEAN /\ raced \in BOOLEAN
  /\ created \in 0 .. MaxCredentials
  /\ known \subseteq [rp : RPs, id : 1 .. created, pub : Ids]
  /\ deleted \subseteq 1 .. created /\ astray \subseteq RPs
  /\ \A k \in known : k.pub = k.id

SoundLists ==
  Loaded(sources, created) /\ Stored(saved, created) /\ (cli # Closed => Loaded(cli, created))

Kept3 ==
  ~raced =>
    /\ Keeps(saved, known, deleted)
    /\ up => Keeps(sources, known, deleted) /\ cli = Closed
    /\ cli # Closed => Keeps(cli, known, deleted)

CInv == Simple /\ SoundLists /\ Kept3

LEMMA Bounds == MaxCredentials \in Nat
  BY CredentialsAssumption

-----------------------------------------------------------------------------
(* Lists. *)

\* Import gives every source the key that was saved for it.
LEMMA ImportSound ==
  ASSUME NEW n \in 0 .. MaxCredentials, NEW list, Stored(list, n)
  PROVE  Loaded(Import(list), n) /\ Alike(list, Import(list))
  <1> DEFINE r == Import(list)
  <1>1. list \in Seq(Sources(Bytes, n)) /\ Len(list) \in Nat /\ DOMAIN list = 1 .. Len(list)
    BY DEF Stored
  <1>2. DOMAIN r = 1 .. Len(list)
    BY <1>1 DEF Import
  <1>3. ASSUME NEW i \in 1 .. Len(list)
        PROVE  r[i] \in Sources(Keys, n) /\ OwnKey(r[i]) /\ r[i].id = list[i].id /\ r[i].rp = list[i].rp
    <2>1. list[i] \in Sources(Bytes, n) /\ OwnBytes(list[i])
      BY <1>1 DEF Stored
    <2>2. r[i] = [list[i] EXCEPT !.key = UnmarshalCOSEPrivateKey(@)]
      BY <1>1 DEF Import
    <2>3. r[i].id = list[i].id /\ r[i].rp = list[i].rp /\ r[i].key = UnmarshalCOSEPrivateKey(list[i].key)
          /\ r[i] = [id |-> r[i].id, rp |-> r[i].rp, key |-> r[i].key]
      BY <2>1, <2>2 DEF Sources
    <2>4. list[i].id \in 1 .. n /\ list[i].id \in Ids /\ list[i].rp \in RPs
      BY <2>1, Bounds DEF Sources, Ids
    <2>5. UnmarshalCOSEPrivateKey(list[i].key) \in Keys
          /\ UnmarshalCOSEPrivateKey(list[i].key).public = list[i].id
          /\ UnmarshalCOSEPrivateKey(list[i].key).secret = list[i].id
      BY <2>1, <2>4 DEF UnmarshalCOSEPrivateKey, OwnBytes, Keys
    <2> QED
      BY <2>3, <2>4, <2>5 DEF Sources, OwnKey
  <1>4. r \in [1 .. Len(list) -> Sources(Keys, n)]
    BY <1>1, <1>3 DEF Import
  <1>5. r \in Seq(Sources(Keys, n))
    BY <1>1, <1>4, SeqDef
  <1>6. Unique(r)
    BY <1>1, <1>2, <1>3 DEF Unique, Stored
  <1> QED
    BY <1>1, <1>2, <1>3, <1>5, <1>6 DEF Loaded, Alike

\* Export writes what Import reads.
LEMMA ExportSound ==
  ASSUME NEW n \in 0 .. MaxCredentials, NEW list, Loaded(list, n)
  PROVE  Stored(Export(list), n) /\ Alike(list, Export(list))
  <1> DEFINE r == Export(list)
  <1>1. list \in Seq(Sources(Keys, n)) /\ Len(list) \in Nat /\ DOMAIN list = 1 .. Len(list)
    BY DEF Loaded
  <1>2. DOMAIN r = 1 .. Len(list)
    BY <1>1 DEF Export
  <1>3. ASSUME NEW i \in 1 .. Len(list)
        PROVE  r[i] \in Sources(Bytes, n) /\ OwnBytes(r[i]) /\ r[i].id = list[i].id /\ r[i].rp = list[i].rp
    <2>1. list[i] \in Sources(Keys, n) /\ OwnKey(list[i])
      BY <1>1 DEF Loaded
    <2>2. r[i] = [list[i] EXCEPT !.key = MarshalCOSEPrivateKey(@)]
      BY <1>1 DEF Export
    <2>3. r[i].id = list[i].id /\ r[i].rp = list[i].rp /\ r[i].key = MarshalCOSEPrivateKey(list[i].key)
          /\ r[i] = [id |-> r[i].id, rp |-> r[i].rp, key |-> r[i].key]
      BY <2>1, <2>2 DEF Sources
    <2>4. list[i].id \in 1 .. n /\ list[i].id \in Ids /\ list[i].rp \in RPs
      BY <2>1, Bounds DEF Sources, Ids
    <2>5. MarshalCOSEPrivateKey(list[i].key) \in Bytes
          /\ OwnBytes([id |-> list[i].id, key |-> MarshalCOSEPrivateKey(list[i].key)])
      BY <2>1, <2>4 DEF MarshalCOSEPrivateKey, OwnKey, OwnBytes, Bytes, Nothing
    <2> QED
      BY <2>3, <2>4, <2>5 DEF Sources, OwnBytes
  <1>4. r \in [1 .. Len(list) -> Sources(Bytes, n)]
    BY <1>1, <1>3 DEF Export
  <1>5. r \in Seq(Sources(Bytes, n))
    BY <1>1, <1>4, SeqDef
  <1>6. Unique(r)
    BY <1>1, <1>2, <1>3 DEF Unique, Loaded
  <1> QED
    BY <1>1, <1>2, <1>3, <1>5, <1>6 DEF Stored, Alike

LEMMA AlikeKeeps ==
  ASSUME NEW a, NEW b, Alike(a, b), NEW has, NEW gone, Keeps(a, has, gone)
  PROVE  Keeps(b, has, gone)
  BY DEF Alike, Keeps

\* A credential more has no effect on the soundness of a list.
LEMMA MoreCreated ==
  ASSUME NEW n \in Nat, NEW m \in Nat, n <= m, NEW list
  PROVE  (Loaded(list, n) => Loaded(list, m)) /\ (Stored(list, n) => Stored(list, m))
  <1>1. Sources(Keys, n) \subseteq Sources(Keys, m) /\ Sources(Bytes, n) \subseteq Sources(Bytes, m)
    BY DEF Sources
  <1> QED
    BY <1>1, SeqMonotonic DEF Loaded, Stored

\* NewIdentity: a new id, at the end.
LEMMA AppendSound ==
  ASSUME NEW n \in Nat, n + 1 <= MaxCredentials, NEW list, Loaded(list, n), NEW rp \in RPs,
         NEW key \in {TPMKey(n + 1), ECDSAKey(n + 1)}, NEW gone \in SUBSET (1 .. n)
  PROVE  /\ Loaded(Append(list, Source(n + 1, rp, key)), n + 1)
         /\ \A has : Keeps(list, has, gone) =>
              Keeps(Append(list, Source(n + 1, rp, key)), has \union {[rp |-> rp, id |-> n + 1, pub |-> n + 1]}, gone)
         /\ \A has : Keeps(list, has, gone) => Keeps(Append(list, Source(n + 1, rp, key)), has, gone)
  <1> DEFINE s == Source(n + 1, rp, key)
             r == Append(list, s)
  <1>1. s \in Sources(Keys, n + 1) /\ OwnKey(s) /\ s.id = n + 1 /\ s.rp = rp
    BY Bounds DEF Source, Sources, Keys, TPMKey, ECDSAKey, Ids, OwnKey
  <1>2. list \in Seq(Sources(Keys, n + 1)) /\ list \in Seq(Sources(Keys, n))
        /\ Len(list) \in Nat /\ DOMAIN list = 1 .. Len(list)
    BY MoreCreated DEF Loaded
  <1> HIDE DEF s
  <1>3. r \in Seq(Sources(Keys, n + 1)) /\ Len(r) = Len(list) + 1 /\ DOMAIN r = 1 .. Len(list) + 1
        /\ r[Len(list) + 1] = s /\ \A i \in 1 .. Len(list) : r[i] = list[i]
    BY <1>1, <1>2
  <1>4. ASSUME NEW i \in 1 .. Len(list) PROVE list[i].id \in 1 .. n
    <2>1. list[i] \in Sources(Keys, n)
      BY <1>2
    <2> QED
      BY <2>1 DEF Sources
  <1> HIDE DEF r
  <1>5. Unique(r)
    BY <1>1, <1>2, <1>3, <1>4 DEF Unique, Loaded
  <1>6. \A i \in DOMAIN r : OwnKey(r[i])
    BY <1>1, <1>2, <1>3 DEF Loaded
  <1>7. Loaded(r, n + 1)
    BY <1>3, <1>5, <1>6 DEF Loaded
  <1>8. ASSUME NEW has, Keeps(list, has, gone)
        PROVE  /\ Keeps(r, has, gone)
               /\ Keeps(r, has \union {[rp |-> rp, id |-> n + 1, pub |-> n + 1]}, gone)
    BY <1>1, <1>2, <1>3, <1>8 DEF Keeps
  <1> QED
    BY <1>7, <1>8 DEF r, s

\* DeleteIdentity takes one source, and keeps all others once.
LEMMA RemoveSound ==
  ASSUME NEW n \in 0 .. MaxCredentials, NEW list, Loaded(list, n), NEW id, \E i \in DOMAIN list : list[i].id = id
  PROVE  /\ Loaded(RemoveIdentity(list, id), n)
         /\ \A has, gone : Keeps(list, has, gone) => Keeps(RemoveIdentity(list, id), has, gone \union {id})
  <1> DEFINE S  == Sources(Keys, n)
             l  == Len(list)
             at == {i \in DOMAIN list : list[i].id = id}
             m  == CHOOSE i \in at : TRUE
             moved == [list EXCEPT ![m] = list[l]]
             r  == SubSeq(moved, 1, l - 1)
  <1>1. list \in Seq(S) /\ l \in Nat /\ DOMAIN list = 1 .. l
    BY DEF Loaded
  <1>2. m \in 1 .. l /\ list[m].id = id /\ at # {} /\ l >= 1
    BY <1>1
  <1>3. RemoveIdentity(list, id) = r
    BY <1>2 DEF RemoveIdentity
  <1>4. \A i \in 1 .. l : list[i].id = id => i = m
    BY <1>1, <1>2 DEF Loaded, Unique
  <1> HIDE DEF m, at, l
  <1>5. moved \in [1 .. l -> S] /\ \A i \in 1 .. l : moved[i] = IF i = m THEN list[l] ELSE list[i]
    BY <1>1, <1>2 DEF l
  <1> HIDE DEF moved, S
  <1>6. r \in Seq(S) /\ Len(r) = l - 1 /\ \A i \in 1 .. l - 1 : r[i] = moved[i]
    BY <1>1, <1>2, <1>5, SubSeqProperties
  <1>7. DOMAIN r = 1 .. l - 1
    BY <1>1, <1>2, <1>6
  <1> HIDE DEF r
  <1>8. \A i \in 1 .. l - 1 : r[i] = IF i = m THEN list[l] ELSE list[i]
    BY <1>1, <1>2, <1>5, <1>6
  <1>9. \A i, j \in 1 .. l : list[i].id = list[j].id => i = j
    BY <1>1 DEF Loaded, Unique
  <1>10. Unique(r)
    <2> SUFFICES ASSUME NEW i \in 1 .. l - 1, NEW j \in 1 .. l - 1, r[i].id = r[j].id PROVE i = j
      BY <1>7 DEF Unique
    <2> QED
      BY <1>1, <1>2, <1>8, <1>9
  <1>11. \A i \in DOMAIN r : OwnKey(r[i])
    BY <1>1, <1>2, <1>7, <1>8 DEF Loaded
  <1>12. \A i \in 1 .. l - 1 : r[i].id # id
    BY <1>1, <1>2, <1>4, <1>8
  <1>13. \A i \in 1 .. l : i # m => \E j \in 1 .. l - 1 : r[j] = list[i]
    <2> SUFFICES ASSUME NEW i \in 1 .. l, i # m PROVE \E j \in 1 .. l - 1 : r[j] = list[i]
      OBVIOUS
    <2>1. CASE i = l
      BY <1>1, <1>2, <1>8, <2>1
    <2>2. CASE i # l
      BY <1>1, <1>2, <1>8, <2>2
    <2> QED
      BY <2>1, <2>2
  <1>14. ASSUME NEW has, NEW gone, Keeps(list, has, gone)
         PROVE  Keeps(r, has, gone \union {id})
    <2>1. ASSUME NEW k \in has, k.id \notin gone \union {id}
          PROVE  \E j \in DOMAIN r : r[j].id = k.id /\ r[j].rp = k.rp
      <3>1. PICK i \in 1 .. l : list[i].id = k.id /\ list[i].rp = k.rp
        BY <1>1, <1>14, <2>1 DEF Keeps
      <3>2. i # m
        BY <1>2, <2>1, <3>1
      <3> QED
        BY <1>7, <1>13, <3>1, <3>2
    <2>2. \A i \in 1 .. l - 1 : r[i].id \notin gone
      BY <1>1, <1>2, <1>8, <1>14 DEF Keeps
    <2> QED
      BY <1>7, <1>12, <2>1, <2>2 DEF Keeps
  <1> QED
    BY <1>3, <1>6, <1>10, <1>11, <1>14 DEF Loaded, S

-----------------------------------------------------------------------------
(* The steps. *)

LEMMA InitSound == Init => CInv
  <1> SUFFICES ASSUME Init PROVE CInv
    OBVIOUS
  <1>1. Simple
    <2>1. created \in 0 .. MaxCredentials /\ \A k \in known : k.pub = k.id
      BY Bounds DEF Init
    <2>2. known \subseteq [rp : RPs, id : 1 .. created, pub : Ids]
      BY Bounds DEF Init, Ids
    <2> QED
      BY <2>1, <2>2 DEF Init, Simple
  <1>2. Loaded(sources, created)
    BY EmptySeq DEF Init, Loaded, Unique
  <1>3. Stored(saved, created) /\ Keeps(saved, known, deleted)
    <2>1. CASE saved = <<>> /\ known = {}
      BY <2>1, EmptySeq DEF Init, Stored, Unique, Keeps
    <2>2. CASE created = 1 /\ MaxCredentials > 0
               /\ \E rp \in RPs : /\ saved = <<Source(1, rp, MarshalOldFormat(1))>>
                                  /\ known = {[rp |-> rp, id |-> 1, pub |-> 1]}
      <3>1. PICK rp \in RPs : /\ saved = <<Source(1, rp, MarshalOldFormat(1))>>
                              /\ known = {[rp |-> rp, id |-> 1, pub |-> 1]}
        BY <2>2
      <3> DEFINE s == Source(1, rp, MarshalOldFormat(1))
      <3>2. s \in Sources(Bytes, 1) /\ OwnBytes(s) /\ s.id = 1 /\ s.rp = rp
        BY <2>2, Bounds DEF Source, MarshalOldFormat, Sources, Bytes, Ids, Nothing, OwnBytes
      <3> HIDE DEF s
      <3>3. saved \in Seq(Sources(Bytes, 1)) /\ DOMAIN saved = {1} /\ saved[1] = s
        BY <3>1, <3>2 DEF s
      <3>4. Stored(saved, 1)
        BY <3>2, <3>3 DEF Stored, Unique
      <3>5. Keeps(saved, known, {})
        BY <3>1, <3>2, <3>3 DEF Keeps
      <3> QED
        BY <2>2, <3>4, <3>5 DEF Init
    <2> QED
      BY <2>1, <2>2 DEF Init
  <1> QED
    BY <1>1, <1>2, <1>3 DEF Init, CInv, SoundLists, Kept3

LEMMA StartSound == CInv /\ Start => CInv'
  <1> SUFFICES ASSUME CInv, Start PROVE CInv'
    OBVIOUS
  <1> USE DEF CInv, Start
  <1>1. Loaded(Import(saved), created) /\ Alike(saved, Import(saved))
    BY ImportSound DEF Simple, SoundLists
  <1>2. ~raced => Keeps(Import(saved), known, deleted)
    BY <1>1, AlikeKeeps DEF Kept3
  <1>3. Simple'
    BY DEF Simple
  <1>4. SoundLists'
    BY <1>1 DEF SoundLists
  <1>5. Kept3'
    BY <1>2 DEF Kept3
  <1> QED
    BY <1>3, <1>4, <1>5

LEMMA StopSound == CInv /\ Stop => CInv'
  <1> SUFFICES ASSUME CInv, Stop PROVE CInv'
    OBVIOUS
  <1> USE DEF CInv, Stop
  <1>1. Loaded(<<>>, created)
    BY EmptySeq DEF Loaded, Unique
  <1>2. Simple' /\ SoundLists' /\ Kept3'
    BY <1>1 DEF Simple, SoundLists, Kept3
  <1> QED
    BY <1>2

\* A registration puts its credential into list and file before the relying
\* party is told of it.
LEMMA RegisterSound ==
  ASSUME CInv, NEW rp \in RPs, NEW accepted \in BOOLEAN, NEW short \in BOOLEAN, Register(rp, accepted, short)
  PROVE  CInv'
  <1> DEFINE id  == created + 1
             key == IF tpmMode THEN TPMKey(id) ELSE ECDSAKey(id)
             k   == [rp |-> rp, id |-> id, pub |-> id]
             list == Append(sources, Source(id, rp, key))
  <1>1. /\ up /\ created' = id /\ id \in 1 .. MaxCredentials /\ created \in Nat
        /\ sources' = list /\ saved' = Export(list) /\ raced' = (raced \/ cli # Closed)
        /\ known' \in {known, known \union {k}} /\ astray' \in {astray, astray \union {rp}}
        /\ UNCHANGED <<up, tpmMode, cli, deleted>>
    BY Bounds DEF CInv, Simple, Register, Saves, TPMKey, ECDSAKey
  <1>2. /\ Loaded(sources, created) /\ deleted \in SUBSET (1 .. created)
        /\ key \in {TPMKey(created + 1), ECDSAKey(created + 1)}
    BY DEF CInv, SoundLists, Simple
  <1> HIDE DEF key
  <1>3. /\ Loaded(list, id)
        /\ Keeps(sources, known, deleted) => Keeps(list, known, deleted) /\ Keeps(list, known \union {k}, deleted)
    <2>1. created \in Nat /\ created + 1 <= MaxCredentials
      BY <1>1, Bounds
    <2>2. /\ Loaded(list, id)
          /\ \A has : Keeps(sources, has, deleted) => Keeps(list, has \union {k}, deleted)
          /\ \A has : Keeps(sources, has, deleted) => Keeps(list, has, deleted)
      BY <1>2, <2>1, AppendSound
    <2> HIDE DEF list, k
    <2> QED
      BY <2>2
  <1> HIDE DEF list
  <1>4. Stored(Export(list), id) /\ Alike(list, Export(list))
    BY <1>1, <1>3, ExportSound
  <1>5. Simple'
    BY <1>1, Bounds DEF CInv, Simple, Ids
  <1>6. SoundLists'
    BY <1>1, <1>3, <1>4, MoreCreated DEF CInv, SoundLists
  <1>7. Kept3'
    <2> SUFFICES ASSUME ~raced' PROVE Keeps(list, known', deleted') /\ Keeps(Export(list), known', deleted') /\ cli' = Closed
      BY <1>1 DEF Kept3
    <2>1. Keeps(sources, known, deleted) /\ cli = Closed
      BY <1>1 DEF CInv, Kept3
    <2>2. Keeps(list, known', deleted')
      BY <1>1, <1>3, <2>1
    <2> QED
      BY <1>1, <1>4, <2>1, <2>2, AlikeKeeps
  <1> QED
    BY <1>5, <1>6, <1>7 DEF CInv

\* A ceremony that adds nothing rewrites the file from the server's list.
LEMMA SavesSound ==
  CInv /\ up /\ Saves(sources) /\ UNCHANGED <<up, tpmMode, cli, created, known, deleted, astray>> => CInv'
  <1> SUFFICES ASSUME CInv, up, Saves(sources), UNCHANGED <<up, tpmMode, cli, created, known, deleted, astray>>
               PROVE  CInv'
    OBVIOUS
  <1> USE DEF CInv, Saves
  <1>1. Stored(Export(sources), created) /\ Alike(sources, Export(sources))
    BY ExportSound DEF Simple, SoundLists
  <1>2. ~raced => Keeps(Export(sources), known, deleted)
    BY <1>1, AlikeKeeps DEF Kept3
  <1>3. Simple'
    BY DEF Simple
  <1>4. SoundLists'
    BY <1>1 DEF SoundLists
  <1>5. Kept3'
    BY <1>2 DEF Kept3
  <1> QED
    BY <1>3, <1>4, <1>5

LEMMA ForgetSound == ASSUME CInv, NEW k \in known, Forget(k) PROVE CInv'
  <1> USE DEF CInv, Forget
  <1>1. Simple'
    BY DEF Simple
  <1>2. SoundLists'
    BY DEF SoundLists
  <1>3. Kept3'
    BY DEF Kept3, Keeps
  <1> QED
    BY <1>1, <1>2, <1>3

LEMMA DemoReadsSound == CInv /\ (DemoOpens \/ DemoLeaves) => CInv'
  <1> SUFFICES ASSUME CInv, DemoOpens \/ DemoLeaves PROVE CInv'
    OBVIOUS
  <1> USE DEF CInv, DemoOpens, DemoLeaves
  <1>1. Loaded(Import(saved), created) /\ Alike(saved, Import(saved))
    BY ImportSound DEF Simple, SoundLists
  <1>2. ~raced => Keeps(Import(saved), known, deleted)
    BY <1>1, AlikeKeeps DEF Kept3
  <1>3. Simple'
    BY DEF Simple
  <1>4. SoundLists'
    BY <1>1 DEF SoundLists
  <1>5. Kept3'
    BY <1>2 DEF Kept3, Simple
  <1> QED
    BY <1>3, <1>4, <1>5

\* A command that saves what it has loaded, or that less one source.
LEMMA DemoWrites ==
  ASSUME CInv, NEW list, Loaded(list, created), NEW gone \in SUBSET (1 .. created),
         Keeps(cli, known, deleted) => Keeps(list, known, deleted \union gone),
         cli # Closed, saved' = Export(list), deleted' = deleted \union gone, cli' = Closed,
         raced' = (raced \/ up), UNCHANGED <<up, tpmMode, sources, created, known, astray>>
  PROVE  CInv'
  <1> USE DEF CInv
  <1>1. Stored(Export(list), created) /\ Alike(list, Export(list))
    BY ExportSound DEF Simple
  <1>2. ~raced => Keeps(Export(list), known, deleted')
    BY <1>1, AlikeKeeps DEF Kept3
  <1>3. Simple'
    BY DEF Simple
  <1>4. SoundLists'
    BY <1>1 DEF SoundLists
  <1>5. Kept3'
    BY <1>2 DEF Kept3, Simple
  <1> QED
    BY <1>3, <1>4, <1>5

LEMMA DemoDeletesSound == ASSUME CInv, NEW id \in Ids, DemoDeletes(id) PROVE CInv'
  <1>1. Loaded(cli, created) /\ \E i \in DOMAIN cli : cli[i].id = id
    BY DEF CInv, SoundLists, DemoDeletes
  <1>2. id \in 1 .. created
    <2>1. PICK i \in DOMAIN cli : cli[i].id = id
      BY <1>1
    <2>2. cli[i] \in Sources(Keys, created)
      BY <1>1 DEF Loaded
    <2> QED
      BY <2>1, <2>2 DEF Sources
  <1>3. created \in 0 .. MaxCredentials
    BY DEF CInv, Simple
  <1>4. /\ Loaded(RemoveIdentity(cli, id), created)
        /\ Keeps(cli, known, deleted) => Keeps(RemoveIdentity(cli, id), known, deleted \union {id})
    BY <1>1, <1>3, RemoveSound
  <1> QED
    BY <1>2, <1>4, DemoWrites DEF DemoDeletes

LEMMA DemoSavesSound == ASSUME CInv, DemoSaves PROVE CInv'
  <1>1. Loaded(cli, created)
    BY DEF CInv, SoundLists, DemoSaves
  <1>2. deleted \union {} = deleted
    OBVIOUS
  <1>3. \A gone \in SUBSET (1 .. created) : gone = {} => CInv'
    BY <1>1, <1>2, DemoWrites DEF DemoSaves
  <1>4. {} \in SUBSET (1 .. created)
    OBVIOUS
  <1> QED
    BY <1>3, <1>4, Zenon

LEMMA NextSound == CInv /\ [Next]_vars => CInv'
  <1> SUFFICES ASSUME CInv, [Next]_vars PROVE CInv'
    OBVIOUS
  <1>1. CASE Start \/ Stop
    BY <1>1, StartSound, StopSound
  <1>2. ASSUME NEW rp \in RPs, NEW accepted \in BOOLEAN, NEW short \in BOOLEAN, Register(rp, accepted, short)
        PROVE  CInv'
    BY <1>2, RegisterSound
  <1>3. ASSUME RegisterFails \/ \E rp \in RPs, allow \in Lists : Login(rp, allow)
        PROVE  CInv'
    BY <1>3, SavesSound DEF RegisterFails, Login
  <1>4. ASSUME NEW k \in known, Forget(k) PROVE CInv'
    BY <1>4, ForgetSound
  <1>5. CASE DemoOpens \/ DemoLeaves
    BY <1>5, DemoReadsSound
  <1>6. CASE DemoSaves \/ \E id \in Ids : DemoDeletes(id)
    BY <1>6, DemoDeletesSound, DemoSavesSound
  <1>7. CASE UNCHANGED vars
    BY <1>7 DEF vars, CInv, Simple, SoundLists, Kept3
  <1> QED
    BY <1>1, <1>2, <1>3, <1>4, <1>5, <1>6, <1>7 DEF Next

-----------------------------------------------------------------------------
(* Selection. *)

\* A set of places has a first.
LEMMA First ==
  ASSUME NEW S \in SUBSET Nat, S # {}
  PROVE  (CHOOSE i \in S : \A j \in S : i <= j) \in S
  <1>1. \E i \in S : \A j \in S : ~(<<j, i>> \in OpToRel(<, Nat))
    BY NatLessThanWellFounded, WFMin, Zenon
  <1>2. PICK i \in S : \A j \in S : ~(<<j, i>> \in OpToRel(<, Nat))
    BY <1>1, Zenon
  <1>3. ASSUME NEW j \in S PROVE i <= j
    <2>1. i \in Nat /\ j \in Nat
      OBVIOUS
    <2>2. ~(j < i)
      BY <1>2, <2>1, Zenon DEF OpToRel
    <2> QED
      BY <2>1, <2>2
  <1>4. \E m \in S : \A j \in S : m <= j
    BY <1>3
  <1> QED
    BY <1>4, Zenon

\* A list that speaks the truth of its parties: what has the id of a known
\* credential is of that party, and each source is known to its party unless
\* the party has lost one.
Truthful(list, has, lost) ==
  \A i \in DOMAIN list :
    /\ \A k \in has : k.id = list[i].id => k.rp = list[i].rp
    /\ list[i].rp \notin lost => \E k \in has : k.id = list[i].id /\ k.rp = list[i].rp

Parties ==
  /\ Truthful(sources, known, astray)
  /\ Truthful(saved, known, astray)
  /\ cli # Closed => Truthful(cli, known, astray)

LEMMA AlikeTruthful ==
  ASSUME NEW a, NEW b, Alike(a, b), NEW has, NEW lost, Truthful(a, has, lost)
  PROVE  Truthful(b, has, lost)
  BY DEF Alike, Truthful

LEMMA ImportTruthful ==
  CInv /\ Parties => Truthful(Import(saved), known, astray)
  BY ImportSound, AlikeTruthful DEF CInv, Simple, SoundLists, Parties

LEMMA ExportTruthful ==
  ASSUME CInv, NEW n \in 0 .. MaxCredentials, NEW list, Loaded(list, n), NEW has, NEW lost, Truthful(list, has, lost)
  PROVE  Truthful(Export(list), has, lost)
  BY ExportSound, AlikeTruthful

\* What DeleteIdentity leaves was in the list before.
LEMMA RemoveTruthful ==
  ASSUME NEW n \in 0 .. MaxCredentials, NEW list, Loaded(list, n), NEW id, \E i \in DOMAIN list : list[i].id = id,
         NEW has, NEW lost, Truthful(list, has, lost)
  PROVE  Truthful(RemoveIdentity(list, id), has, lost)
  <1> DEFINE S  == Sources(Keys, n)
             l  == Len(list)
             at == {i \in DOMAIN list : list[i].id = id}
             m  == CHOOSE i \in at : TRUE
             moved == [list EXCEPT ![m] = list[l]]
             r  == SubSeq(moved, 1, l - 1)
  <1>1. list \in Seq(S) /\ l \in Nat /\ DOMAIN list = 1 .. l
    BY DEF Loaded
  <1>2. m \in 1 .. l /\ at # {} /\ l >= 1
    BY <1>1
  <1>3. RemoveIdentity(list, id) = r
    BY <1>2 DEF RemoveIdentity
  <1> HIDE DEF m, at, l
  <1>4. moved \in [1 .. l -> S] /\ \A i \in 1 .. l : moved[i] = IF i = m THEN list[l] ELSE list[i]
    BY <1>1, <1>2 DEF l
  <1> HIDE DEF moved, S
  <1>5. r \in Seq(S) /\ Len(r) = l - 1 /\ \A i \in 1 .. l - 1 : r[i] = moved[i]
    BY <1>1, <1>2, <1>4, SubSeqProperties
  <1>6. DOMAIN r = 1 .. l - 1
    BY <1>1, <1>2, <1>5
  <1> HIDE DEF r
  <1>7. \A i \in DOMAIN r : \E j \in DOMAIN list : r[i] = list[j]
    BY <1>1, <1>2, <1>4, <1>5, <1>6
  <1> QED
    BY <1>3, <1>7 DEF Truthful

\* A registration: nobody knew the new id, and the party that asked for it has
\* it now or has one astray.
LEMMA RegisterTruthful ==
  ASSUME CInv, Parties, NEW rp \in RPs, NEW accepted \in BOOLEAN, NEW short \in BOOLEAN, Register(rp, accepted, short)
  PROVE  Parties'
  <1> DEFINE id  == created + 1
             key == IF tpmMode THEN TPMKey(id) ELSE ECDSAKey(id)
             k   == [rp |-> rp, id |-> id, pub |-> id]
             s   == Source(id, rp, key)
             list == Append(sources, s)
  <1>1. /\ id \in 1 .. MaxCredentials /\ created \in Nat /\ created \in 0 .. MaxCredentials
        /\ sources' = list /\ saved' = Export(list)
        /\ \/ known' = known \union {k} /\ astray' = astray
           \/ known' = known /\ astray' = astray \union {rp}
        /\ cli' = cli
    BY Bounds DEF CInv, Simple, Register, Saves, TPMKey, ECDSAKey
  <1>2. s.id = id /\ s.rp = rp
    BY DEF Source
  <1>3. Loaded(sources, created) /\ sources \in Seq(Sources(Keys, created)) /\ Len(sources) \in Nat
        /\ DOMAIN sources = 1 .. Len(sources)
    BY DEF CInv, SoundLists, Loaded
  <1>4. key \in {TPMKey(created + 1), ECDSAKey(created + 1)} /\ {} \in SUBSET (1 .. created)
    OBVIOUS
  <1> HIDE DEF key
  <1>5. Loaded(list, id)
    <2>1. created \in Nat /\ created + 1 <= MaxCredentials
      BY <1>1, Bounds
    <2>2. Loaded(Append(sources, Source(created + 1, rp, key)), created + 1)
      BY <1>3, <1>4, <2>1, AppendSound
    <2> QED
      BY <2>2
  <1>6. \A j \in known : j.id \in 1 .. created
    BY DEF CInv, Simple
  \* The lists of before hold nothing of the new id.
  <1>7. ASSUME NEW l, NEW Form, l \in Seq(Sources(Form, created)), Truthful(l, known, astray)
        PROVE  Truthful(l, known', astray')
    <2>1. \A i \in DOMAIN l : l[i].id \in 1 .. created
      <3>1. \A i \in DOMAIN l : l[i] \in Sources(Form, created)
        BY <1>7
      <3> QED
        BY <3>1 DEF Sources
    <2>2. k.id \notin 1 .. created /\ k.rp = rp
      BY <1>1
    <2> HIDE DEF k
    <2> QED
      BY <1>1, <1>7, <2>1, <2>2 DEF Truthful
  <1>8. Truthful(sources, known', astray')
    BY <1>3, <1>7 DEF Parties
  <1>9. Truthful(list, known', astray')
    <2>1. DOMAIN list = 1 .. Len(sources) + 1 /\ list[Len(sources) + 1] = s
          /\ \A i \in 1 .. Len(sources) : list[i] = sources[i]
      BY <1>3
    <2>2. k.id = id /\ k.rp = rp /\ \A j \in known : j.id # id
      BY <1>1, <1>6
    <2> HIDE DEF k, s, list, id
    <2> QED
      BY <1>1, <1>2, <1>3, <1>8, <2>1, <2>2 DEF Truthful
  <1>10. Truthful(Export(list), known', astray')
    BY <1>1, <1>5, <1>9, ExportTruthful
  <1>11. cli # Closed => Truthful(cli, known', astray')
    BY <1>7 DEF CInv, SoundLists, Loaded, Parties
  <1> QED
    BY <1>1, <1>9, <1>10, <1>11 DEF Parties

LEMMA InitParties == Init => Parties
  <1> SUFFICES ASSUME Init PROVE Parties
    OBVIOUS
  <1>1. DOMAIN sources = {}
    BY DEF Init
  <1>2. Truthful(saved, known, astray)
    <2>1. CASE saved = <<>>
      BY <2>1 DEF Truthful
    <2>2. CASE \E rp \in RPs : /\ saved = <<Source(1, rp, MarshalOldFormat(1))>>
                               /\ known = {[rp |-> rp, id |-> 1, pub |-> 1]}
      <3>1. PICK rp \in RPs : /\ saved = <<Source(1, rp, MarshalOldFormat(1))>>
                              /\ known = {[rp |-> rp, id |-> 1, pub |-> 1]}
        BY <2>2
      <3>2. DOMAIN saved = {1} /\ saved[1].id = 1 /\ saved[1].rp = rp
        BY <3>1 DEF Source
      <3> QED
        BY <3>1, <3>2 DEF Truthful
    <2> QED
      BY <2>1, <2>2 DEF Init
  <1> QED
    BY <1>1, <1>2 DEF Init, Parties, Truthful

LEMMA NextParties == CInv /\ Parties /\ [Next]_vars => Parties'
  <1> SUFFICES ASSUME CInv, Parties, [Next]_vars PROVE Parties'
    OBVIOUS
  <1>1. CASE Start \/ Stop
    <2>1. Truthful(<<>>, known, astray)
      BY DEF Truthful
    <2> QED
      BY <1>1, <2>1, ImportTruthful DEF Start, Stop, Parties
  <1>2. ASSUME NEW rp \in RPs, NEW accepted \in BOOLEAN, NEW short \in BOOLEAN, Register(rp, accepted, short)
        PROVE  Parties'
    BY <1>2, RegisterTruthful
  <1>3. ASSUME RegisterFails \/ \E rp \in RPs, allow \in Lists : Login(rp, allow)
        PROVE  Parties'
    <2>1. /\ sources' = sources /\ saved' = Export(sources)
          /\ UNCHANGED <<cli, known, astray>>
      BY <1>3 DEF RegisterFails, Login, Saves
    <2>2. Truthful(Export(sources), known, astray)
      BY ExportTruthful DEF CInv, Simple, SoundLists, Parties
    <2> QED
      BY <2>1, <2>2 DEF Parties
  <1>4. ASSUME NEW k \in known, Forget(k) PROVE Parties'
    <2>1. \A list : Truthful(list, known, astray) => Truthful(list, known', astray')
      BY <1>4 DEF Forget, Truthful
    <2> QED
      BY <1>4, <2>1 DEF Forget, Parties
  <1>5. CASE DemoOpens \/ DemoLeaves
    BY <1>5, ImportTruthful DEF DemoOpens, DemoLeaves, Parties
  <1>6. CASE DemoSaves
    BY <1>6, ExportTruthful DEF DemoSaves, CInv, Simple, SoundLists, Parties
  <1>7. ASSUME NEW id \in Ids, DemoDeletes(id) PROVE Parties'
    <2>1. Loaded(cli, created) /\ (\E i \in DOMAIN cli : cli[i].id = id) /\ created \in 0 .. MaxCredentials
          /\ Truthful(cli, known, astray)
      BY <1>7 DEF CInv, Simple, SoundLists, Parties, DemoDeletes
    <2>2. Loaded(RemoveIdentity(cli, id), created) /\ Truthful(RemoveIdentity(cli, id), known, astray)
      BY <2>1, RemoveSound, RemoveTruthful
    <2>3. Truthful(Export(RemoveIdentity(cli, id)), known, astray)
      BY <2>1, <2>2, ExportTruthful
    <2> QED
      BY <1>7, <2>3 DEF DemoDeletes, Parties
  <1>8. CASE UNCHANGED vars
    BY <1>8 DEF vars, Parties
  <1> QED
    BY <1>1, <1>2, <1>3, <1>4, <1>5, <1>6, <1>7, <1>8 DEF Next

\* What is selected is the first that matches, and there is one if any does.
LEMMA SelectedMatches ==
  ASSUME CInv, NEW rp, NEW allow
  PROVE  LET matching == GetMatchingCredentialSources(rp, allow) IN
         /\ matching = {} => Selected(rp, allow) = NoSource
         /\ matching # {} => /\ Selected(rp, allow) # NoSource
                             /\ \E i \in matching : Selected(rp, allow) = sources[i]
  <1> DEFINE matching == GetMatchingCredentialSources(rp, allow)
             i == CHOOSE i \in matching : \A j \in matching : i <= j
  <1>1. sources \in Seq(Sources(Keys, created)) /\ DOMAIN sources = 1 .. Len(sources) /\ Len(sources) \in Nat
    BY DEF CInv, SoundLists, Loaded
  <1>2. matching \in SUBSET Nat /\ matching \subseteq DOMAIN sources
    BY <1>1 DEF GetMatchingCredentialSources
  <1>3. Selected(rp, allow) = IF matching = {} THEN NoSource ELSE sources[i]
    BY DEF Selected
  <1> HIDE DEF matching
  <1>4. matching # {} => i \in matching
    BY <1>2, First
  <1> HIDE DEF i
  <1>5. matching # {} => sources[i].id \in 1 .. created
    <2> SUFFICES ASSUME matching # {} PROVE sources[i].id \in 1 .. created
      OBVIOUS
    <2>1. i \in 1 .. Len(sources)
      BY <1>1, <1>2, <1>4
    <2>2. sources[i] \in Sources(Keys, created)
      BY <1>1, <2>1, ElementOfSeq
    <2> QED
      BY <2>2 DEF Sources
  <1>6. NoSource.id \notin 1 .. created
    BY DEF NoSource
  <1> QED
    BY <1>3, <1>4, <1>5, <1>6 DEF matching

-----------------------------------------------------------------------------
(* Theorems. *)

\* The lists of the server, of the file and of a demo command are sound, and
\* keep what they should unless a command was used while the server ran.
THEOREM Invariance == Spec => []CInv
  <1> QED
    BY InitSound, NextSound, PTL DEF Spec

\* Types, for any set of relying parties and any number of credentials.
THEOREM TypeCorrect == Spec => []TypeOK
  <1>1. CInv => TypeOK
    <2> SUFFICES ASSUME CInv PROVE TypeOK
      OBVIOUS
    <2>1. Sources(Keys, created) = [id : 1 .. created, rp : RPs, key : Keys]
          /\ Sources(Bytes, created) = [id : 1 .. created, rp : RPs, key : Bytes]
      BY DEF Sources
    <2> QED
      BY <2>1 DEF CInv, Simple, SoundLists, Loaded, Stored, TypeOK
  <1> QED
    BY <1>1, Invariance, PTL

LEMMA VaultSound ==
  CInv => Loaded(Vault, created) /\ (~raced => Keeps(Vault, known, deleted))
  <1> SUFFICES ASSUME CInv PROVE Loaded(Vault, created) /\ (~raced => Keeps(Vault, known, deleted))
    OBVIOUS
  <1>1. Loaded(Import(saved), created) /\ Alike(saved, Import(saved))
    BY ImportSound DEF CInv, Simple, SoundLists
  <1>2. ~raced => Keeps(Import(saved), known, deleted)
    BY <1>1, AlikeKeeps DEF CInv, Kept3
  <1> QED
    BY <1>1, <1>2 DEF CInv, SoundLists, Kept3, Vault

\* A credential that a relying party has and that was not deleted signs for it
\* (Import, Export, DeleteIdentity, NewCredentialSource).
THEOREM KnownStillSignsHolds == Spec => []KnownStillSigns
  <1>1. CInv => KnownStillSigns
    <2> SUFFICES ASSUME CInv, ~raced, NEW k \in Kept
                 PROVE  /\ Cardinality({i \in DOMAIN Vault : Vault[i].id = k.id}) = 1
                        /\ \E i \in DOMAIN Vault :
                             Vault[i].id = k.id /\ Vault[i].rp = k.rp /\ Verify(k.pub, Sign(Vault[i].key))
      BY DEF KnownStillSigns
    <2>1. PICK i \in DOMAIN Vault : Vault[i].id = k.id /\ Vault[i].rp = k.rp
      BY VaultSound DEF Keeps, Kept
    <2>2. {j \in DOMAIN Vault : Vault[j].id = k.id} = {i}
      BY <2>1, VaultSound DEF Loaded, Unique
    <2>3. OwnKey(Vault[i]) /\ k.pub = k.id
      BY <2>1, VaultSound DEF Loaded, CInv, Simple, Kept
    <2> QED
      BY <2>1, <2>2, <2>3, FS_Singleton DEF Verify, Sign, OwnKey
  <1> QED
    BY <1>1, Invariance, PTL

\* What the demo has deleted does not come back, unless a command was used
\* while the server ran (main.go, demo.go).
THEOREM DeletedStaysDeletedHolds == Spec => []DeletedStaysDeleted
  <1>1. CInv => DeletedStaysDeleted
    BY VaultSound DEF DeletedStaysDeleted, Keeps
  <1> QED
    BY <1>1, Invariance, PTL

\* Whoever wrote the lists last, their sources are the parties' own.
THEOREM PartiesInvariance == Spec => [](CInv /\ Parties)
  <1> QED
    BY InitSound, NextSound, InitParties, NextParties, PTL DEF Spec

\* A login is answered by a credential that may answer it, and is answered if
\* one was not deleted (GetMatchingCredentialSources, GetAssertionSource).
THEOREM LoginFindsAllowedHolds == Spec => []LoginFindsAllowed
  <1>1. CInv /\ Parties => LoginFindsAllowed
    <2> SUFFICES ASSUME CInv, Parties, up, NEW rp \in RPs, NEW allow \in Lists
                 PROVE  LET s == Selected(rp, allow) IN
                        /\ s # NoSource =>
                             (allow # AnyOf => s.id \in allow) /\ (\A k \in known : k.id = s.id => k.rp = rp)
                        /\ ~raced /\ (\E k \in Kept : k.rp = rp /\ k.id \in allow) => s # NoSource
      BY DEF LoginFindsAllowed
    <2> DEFINE matching == GetMatchingCredentialSources(rp, allow)
               s == Selected(rp, allow)
    <2>1. /\ matching = {} => s = NoSource
          /\ matching # {} => s # NoSource /\ \E i \in matching : s = sources[i]
      BY SelectedMatches
    <2>2. matching = {i \in DOMAIN sources : sources[i].rp = rp /\ (allow = AnyOf \/ sources[i].id \in allow)}
      BY DEF GetMatchingCredentialSources
    <2> HIDE DEF matching, s
    <2>3. ASSUME s # NoSource
          PROVE  (allow # AnyOf => s.id \in allow) /\ (\A k \in known : k.id = s.id => k.rp = rp)
      <3>1. PICK i \in matching : s = sources[i]
        BY <2>1, <2>3
      <3> QED
        BY <2>2, <3>1 DEF Parties, Truthful
    <2>4. ASSUME ~raced, NEW k \in Kept, k.rp = rp, k.id \in allow
          PROVE  s # NoSource
      <3>1. PICK i \in DOMAIN sources : sources[i].id = k.id /\ sources[i].rp = k.rp
        BY <2>4 DEF CInv, Kept3, Keeps, Kept
      <3> QED
        BY <2>1, <2>2, <2>4, <3>1
    <2> QED
      BY <2>3, <2>4 DEF s
  <1> QED
    BY <1>1, PartiesInvariance, PTL

\* Without an allow list the party's own credential answers, unless one of the
\* party's is astray (fido_client.go, sources[0]).
THEOREM DiscoverableKnownHolds == Spec => []DiscoverableKnown
  <1>1. CInv /\ Parties => DiscoverableKnown
    <2> SUFFICES ASSUME CInv, Parties, up, ~raced, NEW k \in Kept, k.rp \notin astray
                 PROVE  \E j \in known : j.rp = k.rp /\ j.id = Selected(k.rp, AnyOf).id
      BY DEF DiscoverableKnown
    <2>1. PICK i \in DOMAIN sources : sources[i].id = k.id /\ sources[i].rp = k.rp
      BY DEF CInv, Kept3, Keeps, Kept
    <2>2. i \in GetMatchingCredentialSources(k.rp, AnyOf)
      BY <2>1 DEF GetMatchingCredentialSources
    <2>3. PICK m \in GetMatchingCredentialSources(k.rp, AnyOf) : Selected(k.rp, AnyOf) = sources[m]
      BY <2>2, SelectedMatches
    <2>4. m \in DOMAIN sources /\ sources[m].rp = k.rp
      BY DEF GetMatchingCredentialSources
    <2>5. PICK j \in known : j.id = sources[m].id /\ j.rp = sources[m].rp
      BY <2>4 DEF Parties, Truthful
    <2> QED
      BY <2>3, <2>4, <2>5
  <1> QED
    BY <1>1, PartiesInvariance, PTL
=============================================================================
