-------------------------- MODULE VaultStoreProofs --------------------------
(***************************************************************************)
(* Theorems about the credential vault, for any number of channels,        *)
(* credentials, assertions, crashes and failures.                          *)
(*                                                                         *)
(* The argument.  As long as no two updates have overlapped, one channel   *)
(* at most is between reading the vault and having saved it (Serial), so   *)
(* what it has exported is what the vault still holds, and the file is     *)
(* torn exactly while it writes (Torn).  A credential whose relying party  *)
(* is told, or about to be told, is then in what the next start will find, *)
(* and so is the counter that is signed (Entered, Counted).  With that     *)
(* every step is one of the ledger's.                                      *)
(***************************************************************************)
EXTENDS VaultStore, FiniteSetTheorems, TLAPS

LEMMA Bounds ==
  MaxCredentials \in Nat /\ MaxAssertions \in Nat /\ MaxCrashes \in Nat /\ MaxFailures \in Nat
  BY VaultAssumption

-----------------------------------------------------------------------------
(* Types. *)

\* What a ceremony has read, and what it is about.
Ceremony(ch) ==
  /\ pc[ch] = "add" => op[ch] = "make" /\ loaded[ch] \subseteq 1 .. created
  /\ pc[ch] = "increment" => op[ch] = "assert" /\ loaded[ch] \in 0 .. asserted - 1
  /\ pc[ch] # "idle" => daemon = "up" /\ op[ch] # "none"
  /\ pc[ch] # "idle" /\ op[ch] # "refuse" => cred[ch] \in 1 .. created
  /\ pc[ch] # "idle" /\ op[ch] = "refuse" => cred[ch] = 0

Ceremonies == \A ch \in Channels : Ceremony(ch)

\* A counter has been incremented at most once for each assertion.
Bounded ==
  \A c \in Credentials :
    /\ counter[c] <= asserted /\ file.counter[c] <= asserted
    /\ \A ch \in Channels : image[ch].counter[c] <= asserted

Images == [creds : SUBSET (1 .. created), counter : Counters]
VaultFiles == [state : {"missing", "torn", "whole"}, creds : SUBSET (1 .. created), counter : Counters]

Stores == vault \subseteq 1 .. created /\ counter \in Counters /\ file \in VaultFiles
Steps ==
  /\ pc \in [Channels -> Updating \union {"idle", "answer"}]
  /\ op \in [Channels -> {"none", "make", "assert", "refuse"}]
  /\ cred \in [Channels -> 0 .. created]
  /\ image \in [Channels -> Images]
Accidents == {"lost_update", "shared_counter", "save_failed", "read_failed", "crash_in_save"}
Tallies ==
  /\ daemon \in {"up", "down", "broken"}
  /\ created \in 0 .. MaxCredentials /\ asserted \in 0 .. MaxAssertions
  /\ crashes \in 0 .. MaxCrashes /\ failures \in 0 .. MaxFailures
  /\ excused \subseteq Accidents
Slices == loaded = [ch \in Channels |-> loaded[ch]]
Histories == acked \subseteq 1 .. created /\ signed \in [Credentials -> Seq(0 .. MaxAssertions)]

LEMMA TypeParts == TypeOK <=> Stores /\ Steps /\ Tallies /\ Histories
  BY DEF TypeOK, Stores, Steps, Tallies, Histories, Images, VaultFiles, Accidents

TInv == Stores /\ Steps /\ Slices /\ Tallies /\ Histories /\ Ceremonies /\ Bounded

LEMMA MeetsReasons ==
  ASSUME NEW ch, NEW c
  PROVE  Meets(ch, c) \subseteq Accidents
  BY DEF Meets, Accidents

LEMMA CounterRange ==
  ASSUME TInv, NEW c \in Credentials
  PROVE  counter[c] \in 0 .. asserted
  <1>1. counter[c] \in 0 .. MaxAssertions /\ counter[c] <= asserted
    BY DEF TInv, Stores, Counters, Bounded
  <1>2. asserted \in Nat
    BY Bounds DEF TInv, Tallies
  <1> QED
    BY <1>1, <1>2, Bounds

LEMMA InitTInv == Init => TInv
  <1> SUFFICES ASSUME Init PROVE TInv
    OBVIOUS
  <1> USE Bounds DEF Init
  <1>1. NoCounters \in Counters /\ \A c \in Credentials : NoCounters[c] = 0
    BY DEF NoCounters, Counters
  <1>2. Stores
    BY <1>1 DEF Stores, VaultFiles, File
  <1>3. Steps
    BY <1>1 DEF Steps, Images, NoImage, Updating
  <1>4. Tallies
    BY DEF Tallies
  <1>5. Histories
    BY DEF Histories
  <1>6. Ceremonies
    BY DEF Ceremonies, Ceremony
  <1>7. Bounded
    BY <1>1 DEF Bounded, File, NoImage
  <1>8. Slices
    BY DEF Slices
  <1> QED
    BY <1>2, <1>3, <1>4, <1>5, <1>6, <1>7, <1>8 DEF TInv

\* Beginning a ceremony.
LEMMA CreateTInv ==
  ASSUME TInv, NEW ch \in Channels, Create(ch)
  PROVE  TInv'
  <1> USE Bounds DEF TInv, Create, Goto, history
  <1>1. Stores'
    BY DEF Stores, Tallies, VaultFiles
  <1>2. Steps'
    BY DEF Steps, Tallies, Images, Updating
  <1>3. Tallies'
    BY MeetsReasons DEF Tallies
  <1>4. Histories' /\ Slices'
    <2>1. Histories'
      BY DEF Histories, Tallies
    <2>2. Slices'
      BY DEF Slices
    <2> QED
      BY <2>1, <2>2
  <1>5. Ceremonies'
    <2> SUFFICES ASSUME NEW d \in Channels PROVE Ceremony(d)'
      BY DEF Ceremonies
    <2>1. CASE d = ch
      BY <2>1 DEF Ceremony, Steps, Tallies, Stores, Slices
    <2>2. CASE d # ch
      BY <2>2 DEF Ceremonies, Ceremony, Steps, Tallies, Slices
    <2> QED
      BY <2>1, <2>2
  <1>6. Bounded'
    BY DEF Bounded
  <1> QED
    BY <1>1, <1>2, <1>3, <1>4, <1>5, <1>6

LEMMA KeyFailsTInv ==
  ASSUME TInv, NEW ch \in Channels, KeyFails(ch)
  PROVE  TInv'
  <1> USE Bounds DEF TInv, KeyFails, Fails, Goto, history
  <1>1. Stores'
    BY DEF Stores, VaultFiles
  <1>2. Steps'
    BY DEF Steps, Tallies, Images, Updating
  <1>3. Tallies'
    BY MeetsReasons DEF Tallies
  <1>4. Histories' /\ Slices'
    BY DEF Histories, Slices
  <1>5. Ceremonies'
    BY DEF Ceremonies, Ceremony, Steps, Tallies
  <1>6. Bounded'
    BY DEF Bounded
  <1> QED
    BY <1>1, <1>2, <1>3, <1>4, <1>5, <1>6

LEMMA SelectTInv ==
  ASSUME TInv, NEW ch \in Channels, NEW c \in Credentials, Select(ch, c)
  PROVE  TInv'
  <1> USE Bounds DEF TInv, Select, Goto, history
  <1>1. Stores'
    BY DEF Stores, VaultFiles
  <1>2. Steps'
    BY DEF Steps, Tallies, Stores, Images, Updating
  <1>3. Tallies'
    BY MeetsReasons DEF Tallies
  <1>4. Histories' /\ Slices'
    BY DEF Histories, Slices
  <1>5. Ceremonies'
    <2>1. counter[c] \in 0 .. asserted /\ asserted \in Nat
      BY CounterRange DEF Tallies
    <2> SUFFICES ASSUME NEW d \in Channels PROVE Ceremony(d)'
      BY DEF Ceremonies
    <2>2. CASE d = ch
      BY <2>1, <2>2 DEF Ceremony, Steps, Stores, Slices
    <2>3. CASE d # ch
      BY <2>1, <2>3 DEF Ceremonies, Ceremony, Steps, Slices
    <2> QED
      BY <2>2, <2>3
  <1>6. Bounded'
    BY DEF Bounded, Tallies, Stores, Steps, VaultFiles, Images, Counters
  <1> QED
    BY <1>1, <1>2, <1>3, <1>4, <1>5, <1>6

\* The append and the increment.
LEMMA AddTInv ==
  ASSUME TInv, NEW ch \in Channels, Add(ch)
  PROVE  TInv'
  <1> USE Bounds DEF TInv, Add, Goto, history
  <1>1. cred[ch] \in Credentials /\ cred[ch] \in 1 .. created /\ loaded[ch] \subseteq 1 .. created
    BY DEF Ceremonies, Ceremony, Steps, Tallies, Credentials
  <1>2. Stores'
    BY <1>1 DEF Stores, Counters, VaultFiles
  <1>3. Steps'
    BY DEF Steps, Images, Updating
  <1>4. Tallies' /\ Slices'
    BY DEF Tallies, Slices
  <1>5. Histories'
    BY DEF Histories
  <1>6. Ceremonies'
    BY DEF Ceremonies, Ceremony, Steps
  <1>7. Bounded'
    BY <1>1 DEF Bounded, Stores, Counters, Tallies
  <1> QED
    BY <1>2, <1>3, <1>4, <1>5, <1>6, <1>7

LEMMA IncrementTInv ==
  ASSUME TInv, NEW ch \in Channels, Increment(ch)
  PROVE  TInv'
  <1> USE Bounds DEF TInv, Increment, Goto, history
  <1>1. loaded[ch] + 1 \in 0 .. MaxAssertions /\ loaded[ch] + 1 <= asserted
    BY DEF Ceremonies, Ceremony, Tallies
  <1>2. Stores'
    BY <1>1 DEF Stores, Counters, VaultFiles
  <1>3. Steps'
    BY DEF Steps, Images, Updating
  <1>4. Tallies' /\ Slices'
    BY DEF Tallies, Slices
  <1>5. Histories'
    BY DEF Histories
  <1>6. Ceremonies'
    BY DEF Ceremonies, Ceremony, Steps
  <1>7. Bounded'
    BY <1>1 DEF Bounded, Stores, Counters, Tallies
  <1> QED
    BY <1>2, <1>3, <1>4, <1>5, <1>6, <1>7

\* The save.
LEMMA ExportTInv ==
  ASSUME TInv, NEW ch \in Channels, Export(ch)
  PROVE  TInv'
  <1> USE Bounds DEF TInv, Export, Goto, history
  <1>1. [creds |-> vault, counter |-> counter] \in Images
    BY DEF Stores, Images
  <1>2. Stores'
    BY DEF Stores, VaultFiles
  <1>3. Steps'
    <2>1. image' \in [Channels -> Images]
      BY <1>1 DEF Steps
    <2>2. Images' = Images
      BY DEF Images
    <2> QED
      BY <2>1, <2>2 DEF Steps, Updating
  <1>4. Tallies' /\ Slices'
    BY DEF Tallies, Slices
  <1>5. Histories'
    BY DEF Histories
  <1>6. Ceremonies'
    BY DEF Ceremonies, Ceremony, Steps
  <1>7. Bounded'
    BY DEF Bounded, Steps
  <1> QED
    BY <1>2, <1>3, <1>4, <1>5, <1>6, <1>7

LEMMA OpenWriteTInv ==
  ASSUME TInv, NEW ch \in Channels, Open(ch) \/ Write(ch)
  PROVE  TInv'
  <1> USE Bounds DEF TInv, Open, Write, Goto, history
  <1>1. file' = Torn \/ file' = File("whole", image[ch].creds, image[ch].counter)
    OBVIOUS
  <1>2. image[ch] \in Images /\ UNCHANGED <<vault, counter, created, asserted, image>>
    BY DEF Steps
  <1>3. Torn \in VaultFiles /\ \A c \in Credentials : Torn.counter[c] = 0
    BY DEF VaultFiles, Torn, File, Counters, NoCounters
  <1>4. file' \in VaultFiles
    BY <1>1, <1>2, <1>3 DEF VaultFiles, File, Images
  <1>5. Stores'
    BY <1>2, <1>4 DEF Stores, VaultFiles
  <1>6. Steps'
    BY DEF Steps, Images, Updating
  <1>7. Tallies' /\ Slices'
    BY DEF Tallies, Slices
  <1>8. Histories'
    BY DEF Histories
  <1>9. Ceremonies'
    BY DEF Ceremonies, Ceremony, Steps
  <1>10. Bounded'
    <2>1. \A c \in Credentials : file'.counter[c] <= asserted
      BY <1>1, <1>3 DEF Bounded, File, Tallies
    <2> QED
      BY <1>2, <2>1 DEF Bounded
  <1> QED
    BY <1>5, <1>6, <1>7, <1>8, <1>9, <1>10

LEMMA SaveFailsTInv ==
  ASSUME TInv, NEW ch \in Channels, SaveFails(ch)
  PROVE  TInv'
  <1> USE Bounds DEF TInv, SaveFails, Fails, Goto, history
  <1>1. Stores'
    BY DEF Stores, VaultFiles
  <1>2. Steps'
    BY DEF Steps, Images, Updating
  <1>3. Tallies' /\ Slices'
    BY DEF Tallies, Slices, Accidents
  <1>4. Histories'
    BY DEF Histories
  <1>5. Ceremonies'
    BY DEF Ceremonies, Ceremony, Steps
  <1>6. Bounded'
    BY DEF Bounded
  <1> QED
    BY <1>1, <1>2, <1>3, <1>4, <1>5, <1>6

\* The response.
LEMMA RespondTInv ==
  ASSUME TInv, NEW ch \in Channels, Registered(ch) \/ Signed(ch) \/ Refused(ch)
  PROVE  TInv'
  <1> USE Bounds DEF TInv
  <1>1. /\ pc[ch] = "answer" /\ pc' = [pc EXCEPT ![ch] = "idle"]
        /\ UNCHANGED <<daemon, vault, counter, file, op, cred, loaded, image, created, asserted, crashes, failures, excused>>
    BY DEF Registered, Signed, Refused, Respond, Goto
  <1>2. Stores'
    BY <1>1 DEF Stores, VaultFiles
  <1>3. Steps'
    BY <1>1 DEF Steps, Images, Updating
  <1>4. Tallies' /\ Slices'
    BY <1>1 DEF Tallies, Slices
  <1>5. Histories'
    <2>1. CASE Registered(ch)
      <3>1. cred[ch] \in 1 .. created
        BY <1>1, <2>1 DEF Registered, Ceremonies, Ceremony
      <3> QED
        BY <1>1, <2>1, <3>1 DEF Registered, Histories
    <2>2. CASE Signed(ch)
      <3>1. cred[ch] \in Credentials
        BY <1>1, <2>2 DEF Signed, Ceremonies, Ceremony, Tallies, Credentials
      <3>2. counter[cred[ch]] \in 0 .. MaxAssertions
        BY <3>1 DEF Stores, Counters
      <3>3. signed' \in [Credentials -> Seq(0 .. MaxAssertions)]
        BY <2>2, <3>1, <3>2 DEF Signed, Histories
      <3> QED
        BY <1>1, <2>2, <3>3 DEF Signed, Histories
    <2>3. CASE Refused(ch)
      BY <1>1, <2>3 DEF Refused, Histories, history
    <2> QED
      BY <2>1, <2>2, <2>3
  <1>6. Ceremonies'
    BY <1>1 DEF Ceremonies, Ceremony, Steps
  <1>7. Bounded'
    BY <1>1 DEF Bounded
  <1> QED
    BY <1>2, <1>3, <1>4, <1>5, <1>6, <1>7

\* The process.
LEMMA ProcessTInv ==
  ASSUME TInv, Crash \/ Start \/ StartPanics \/ StartBlind
  PROVE  TInv'
  <1> USE Bounds DEF TInv, Crash, Start, StartPanics, StartBlind, Fails, ceremony, history
  <1>1. NoCounters \in Counters /\ \A c \in Credentials : NoCounters[c] = 0
    BY DEF NoCounters, Counters
  <1>2. Stores'
    BY <1>1 DEF Stores, VaultFiles
  <1>3. Steps'
    BY DEF Steps, Images, Updating
  <1>4. Tallies' /\ Slices'
    BY DEF Tallies, Slices, Accidents
  <1>5. Histories'
    BY DEF Histories
  <1>6. Ceremonies'
    BY DEF Ceremonies, Ceremony, Steps
  <1>7. Bounded'
    BY <1>1 DEF Bounded, Tallies
  <1> QED
    BY <1>2, <1>3, <1>4, <1>5, <1>6, <1>7

LEMMA NextTInv == TInv /\ [Next]_vars => TInv'
  <1> SUFFICES ASSUME TInv, [Next]_vars PROVE TInv'
    OBVIOUS
  <1>1. CASE Next
    BY <1>1, CreateTInv, KeyFailsTInv, SelectTInv, AddTInv, IncrementTInv, ExportTInv,
       OpenWriteTInv, SaveFailsTInv, RespondTInv, ProcessTInv DEF Next
  <1>2. CASE UNCHANGED vars
    BY <1>2 DEF TInv, Stores, Steps, Slices, Tallies, Histories, Ceremonies, Ceremony, Bounded,
       VaultFiles, Images, vars, ceremony, history
  <1> QED
    BY <1>1, <1>2

\* Every variable has its type, for any number of channels and credentials.
THEOREM TypeCorrect == Spec => []TypeOK
  <1>1. TInv => TypeOK
    BY TypeParts DEF TInv
  <1> QED
    BY <1>1, InitTInv, NextTInv, PTL DEF Spec

-----------------------------------------------------------------------------
(* Overlaps, and the file. *)

\* One channel at a time is between reading the vault and having saved it.
Serial ==
  "lost_update" \notin excused =>
    \A c, d \in Channels : pc[c] \in Updating /\ pc[d] \in Updating => c = d

Tearing == {"crash_in_save", "save_failed", "lost_update"}

\* The file is torn exactly while it is being written.
WholeFile ==
  excused \intersect Tearing = {} =>
    /\ daemon # "broken"
    /\ \A ch \in Channels : pc[ch] = "write" => file = Torn
    /\ file.state = "torn" => \E ch \in Channels : pc[ch] = "write"

SInv == TInv /\ Serial /\ WholeFile

LEMMA MeetsUpdating ==
  ASSUME NEW ch \in Channels, NEW d \in Channels, d # ch, pc[d] \in Updating, NEW c
  PROVE  "lost_update" \in Meets(ch, c)
  BY DEF Meets

LEMMA MeetsSharer ==
  ASSUME NEW ch \in Channels, NEW d \in Channels, d # ch, NEW c,
         pc[d] = "answer", op[d] = "assert", cred[d] = c
  PROVE  "shared_counter" \in Meets(ch, c)
  BY DEF Meets

\* A single writer finds an empty file.
LEMMA WritesWhole ==
  ASSUME TInv, NEW ch \in Channels, Write(ch), file = Torn
  PROVE  file' = File("whole", image[ch].creds, image[ch].counter)
  <1>1. image[ch].creds \subseteq 1 .. created /\ created \in Nat
    BY Bounds DEF TInv, Steps, Images, Tallies
  <1>2. IsFiniteSet(image[ch].creds)
    <2>1. IsFiniteSet(1 .. created)
      BY <1>1, FS_Interval
    <2> QED
      BY <1>1, <2>1, FS_Subset
  <1>3. Cardinality(image[ch].creds) \in Nat
    BY <1>2, FS_CardinalityType
  <1>4. Cardinality(file.creds) = 0
    BY FS_EmptySet DEF Torn, File
  <1>5. ~(Cardinality(file.creds) > Cardinality(image[ch].creds))
    BY <1>3, <1>4
  <1> QED
    BY <1>5 DEF Write

LEMMA InitSInv == Init => SInv
  <1> SUFFICES ASSUME Init PROVE SInv
    OBVIOUS
  <1>1. Serial /\ WholeFile
    BY DEF Init, Serial, WholeFile, Updating, File
  <1> QED
    BY <1>1, InitTInv DEF SInv

\* A ceremony begins.
LEMMA BeginSInv ==
  ASSUME SInv, NEW ch \in Channels, NEW c, excused' = excused \union Meets(ch, c),
         NEW point \in Updating \ {"write"}, pc' = [pc EXCEPT ![ch] = point], pc[ch] = "idle",
         UNCHANGED <<daemon, file>>
  PROVE  Serial' /\ WholeFile'
  <1> USE DEF SInv, TInv
  <1>1. Serial'
    BY MeetsUpdating DEF Serial, Steps, Updating
  <1>2. WholeFile'
    BY DEF WholeFile, Steps
  <1> QED
    BY <1>1, <1>2

\* A channel goes on, without the file.
LEMMA GoOnSInv ==
  ASSUME SInv, NEW ch \in Channels, UNCHANGED <<daemon, file, excused>>, NEW point, point # "write",
         pc' = [pc EXCEPT ![ch] = point], pc[ch] # "write",
         point \in Updating => pc[ch] \in Updating
  PROVE  Serial' /\ WholeFile'
  <1> USE DEF SInv, TInv
  <1>1. Serial'
    BY DEF Serial, Steps, Updating
  <1>2. WholeFile'
    BY DEF WholeFile, Steps
  <1> QED
    BY <1>1, <1>2

LEMMA NextSInv == SInv /\ [Next]_vars => SInv'
  <1> SUFFICES ASSUME SInv, [Next]_vars PROVE Serial' /\ WholeFile'
    BY NextTInv DEF SInv
  <1>1. ASSUME NEW ch \in Channels, Create(ch) PROVE Serial' /\ WholeFile'
    BY <1>1, BeginSInv DEF Create, Goto, Updating
  <1>2. ASSUME NEW ch \in Channels, KeyFails(ch) PROVE Serial' /\ WholeFile'
    BY <1>2, BeginSInv DEF KeyFails, Goto, Updating
  <1>3. ASSUME NEW ch \in Channels, NEW c \in Credentials, Select(ch, c) PROVE Serial' /\ WholeFile'
    BY <1>3, BeginSInv DEF Select, Goto, Updating
  <1>4. ASSUME NEW ch \in Channels, Add(ch) \/ Increment(ch) PROVE Serial' /\ WholeFile'
    BY <1>4, GoOnSInv DEF Add, Increment, Goto, Updating
  <1>5. ASSUME NEW ch \in Channels, Export(ch) PROVE Serial' /\ WholeFile'
    BY <1>5, GoOnSInv DEF Export, Goto, Updating
  <1>6. ASSUME NEW ch \in Channels, Open(ch) PROVE Serial' /\ WholeFile'
    <2> USE <1>6 DEF SInv, TInv, Open, Goto
    <2>1. Serial'
      BY DEF Serial, Steps, Updating
    <2>2. WholeFile'
      BY DEF WholeFile, Steps
    <2> QED
      BY <2>1, <2>2
  <1>7. ASSUME NEW ch \in Channels, Write(ch) PROVE Serial' /\ WholeFile'
    <2> USE <1>7 DEF SInv, TInv
    <2>1. /\ pc[ch] = "write" /\ pc' = [pc EXCEPT ![ch] = "answer"]
          /\ UNCHANGED <<daemon, excused>>
      BY DEF Write, Goto
    <2>2. Serial'
      BY <2>1 DEF Serial, Steps, Updating
    <2>3. excused \intersect Tearing = {} => file'.state = "whole" /\ \A d \in Channels : pc'[d] # "write"
      <3> SUFFICES ASSUME excused \intersect Tearing = {}
                   PROVE  file'.state = "whole" /\ \A d \in Channels : pc'[d] # "write"
        OBVIOUS
      <3>1. file'.state = "whole"
        BY <2>1, WritesWhole DEF WholeFile, File
      <3>2. \A d \in Channels : pc'[d] # "write"
        BY <2>1 DEF Serial, Tearing, Steps, Updating
      <3> QED
        BY <3>1, <3>2
    <2>4. WholeFile'
      BY <2>1, <2>3 DEF WholeFile
    <2> QED
      BY <2>2, <2>4
  <1>8. ASSUME NEW ch \in Channels, SaveFails(ch) PROVE Serial' /\ WholeFile'
    <2> USE <1>8 DEF SInv, TInv, SaveFails, Goto
    <2>1. Serial'
      BY DEF Serial, Steps, Updating
    <2>2. WholeFile'
      BY DEF WholeFile, Tearing
    <2> QED
      BY <2>1, <2>2
  <1>9. ASSUME NEW ch \in Channels, Registered(ch) \/ Signed(ch) \/ Refused(ch) PROVE Serial' /\ WholeFile'
    BY <1>9, GoOnSInv DEF Registered, Signed, Refused, Respond, Goto, Updating
  <1>10. CASE Crash
    <2> USE <1>10 DEF SInv, TInv, Crash
    <2>1. Serial'
      BY DEF Serial, Updating
    <2>2. WholeFile'
      BY DEF WholeFile, Tearing
    <2> QED
      BY <2>1, <2>2
  <1>11. CASE Start \/ StartPanics \/ StartBlind
    <2> USE <1>11 DEF SInv, TInv, Start, StartPanics, StartBlind, ceremony
    <2>1. \A ch \in Channels : pc[ch] = "idle"
      BY DEF Ceremonies, Ceremony
    <2>2. Serial'
      BY <2>1 DEF Serial, Updating
    <2>3. WholeFile'
      BY <2>1 DEF WholeFile
    <2> QED
      BY <2>2, <2>3
  <1>12. CASE UNCHANGED vars
    BY <1>12 DEF SInv, Serial, WholeFile, vars
  <1> QED
    BY <1>1, <1>2, <1>3, <1>4, <1>5, <1>6, <1>7, <1>8, <1>9, <1>10, <1>11, <1>12 DEF Next

\* The daemon fails to start only after a crash inside a save, a failed save
\* or two that overlapped.
THEOREM BrokenOnlyExcusedHolds == Spec => []BrokenOnlyExcused
  <1>1. SInv => BrokenOnlyExcused
    BY DEF SInv, WholeFile, Tearing, BrokenOnlyExcused
  <1> QED
    BY <1>1, InitSInv, NextSInv, PTL DEF Spec

-----------------------------------------------------------------------------
(* What the next start will find (Durable). *)

NoWriter == \A ch \in Channels : pc[ch] # "write"
OnlyWriter(ch) == pc[ch] = "write" /\ \A d \in Channels : pc[d] = "write" => d = ch
OfFile == [creds |-> file.creds, counter |-> file.counter]

LEMMA DurableNow ==
  /\ NoWriter => Durable = OfFile
  /\ \A ch \in Channels : OnlyWriter(ch) => Durable = image[ch]
  BY DEF NoWriter, OnlyWriter, OfFile, Durable

LEMMA DurableThen ==
  /\ NoWriter' => Durable' = OfFile'
  /\ \A ch \in Channels : OnlyWriter(ch)' => Durable' = image'[ch]
  BY DEF NoWriter, OnlyWriter, OfFile, Durable

LEMMA Writers ==
  ASSUME Serial, "lost_update" \notin excused
  PROVE  /\ \A ch \in Channels : pc[ch] = "write" => OnlyWriter(ch)
         /\ \A ch \in Channels : pc[ch] \in Updating /\ pc[ch] # "write" => NoWriter
  BY DEF Serial, OnlyWriter, NoWriter, Updating

\* A step that touches neither the file nor a writer leaves it alone.
LEMMA DurableKept ==
  ASSUME Serial, "lost_update" \notin excused, UNCHANGED file,
         \A ch \in Channels : (pc'[ch] = "write" <=> pc[ch] = "write") /\ (pc[ch] = "write" => image'[ch] = image[ch])
  PROVE  Durable' = Durable
  <1>1. CASE NoWriter
    <2>1. NoWriter' /\ OfFile' = OfFile
      BY <1>1 DEF NoWriter, OfFile
    <2> QED
      BY <1>1, <2>1, DurableNow, DurableThen
  <1>2. CASE ~NoWriter
    <2>1. PICK ch \in Channels : pc[ch] = "write"
      BY <1>2 DEF NoWriter
    <2>2. OnlyWriter(ch) /\ OnlyWriter(ch)'
      BY <2>1, Writers DEF OnlyWriter
    <2> QED
      BY <2>1, <2>2, DurableNow, DurableThen
  <1> QED
    BY <1>1, <1>2

\* What a ceremony knows of the credentials.
EnteredBy(ch) ==
  /\ pc[ch] = "add" => loaded[ch] = vault
  /\ pc[ch] \in {"open", "write"} => image[ch].creds = vault
  /\ pc[ch] \in {"export", "open", "write"} /\ op[ch] = "make" => cred[ch] \in vault
  /\ pc[ch] = "answer" /\ op[ch] = "make" => cred[ch] \in Durable.creds

Calm == excused \subseteq {"shared_counter"}

Entered ==
  Calm =>
    /\ daemon = "up" => Durable.creds \subseteq vault
    /\ acked \subseteq Durable.creds
    /\ \A ch \in Channels : EnteredBy(ch)

CInv == SInv /\ Entered

LEMMA InitEntered == Init => Entered
  <1> SUFFICES ASSUME Init PROVE Entered
    OBVIOUS
  <1> QED
    BY DurableNow DEF Init, Entered, EnteredBy

\* Beginnings: nothing that counts is touched.
LEMMA BeginEntered ==
  ASSUME CInv, NEW ch \in Channels, NEW c, excused' = excused \union Meets(ch, c),
         NEW point \in {"add", "increment", "export"}, pc' = [pc EXCEPT ![ch] = point], pc[ch] = "idle",
         op' = [op EXCEPT ![ch] = op'[ch]], op'[ch] \in {"make", "assert", "refuse"},
         point = "export" => op'[ch] = "refuse",
         cred' = [cred EXCEPT ![ch] = cred'[ch]], loaded' = [loaded EXCEPT ![ch] = loaded'[ch]],
         point = "add" => loaded'[ch] = vault,
         UNCHANGED <<daemon, vault, file, image, acked>>
  PROVE  Entered'
  <1> USE DEF CInv, SInv, TInv
  <1> SUFFICES ASSUME Calm' PROVE Entered'
    BY DEF Entered
  <1>1. Calm /\ "lost_update" \notin excused
    BY DEF Calm
  <1>2. Durable' = Durable
    BY <1>1, DurableKept DEF Steps
  <1>3. \A d \in Channels : EnteredBy(d)'
    <2> SUFFICES ASSUME NEW d \in Channels PROVE EnteredBy(d)'
      OBVIOUS
    <2>1. CASE d = ch
      BY <2>1 DEF EnteredBy, Steps
    <2>2. CASE d # ch
      <3>1. pc'[d] = pc[d] /\ op'[d] = op[d] /\ cred'[d] = cred[d] /\ loaded'[d] = loaded[d] /\ image'[d] = image[d]
        BY <2>2 DEF Steps, Slices
      <3> QED
        BY <1>1, <1>2, <3>1 DEF Entered, EnteredBy
    <2> QED
      BY <2>1, <2>2
  <1> QED
    BY <1>1, <1>2, <1>3 DEF Entered

LEMMA NextEntered == CInv /\ [Next]_vars => Entered'
  <1> SUFFICES ASSUME CInv, [Next]_vars, Calm' PROVE Entered'
    BY DEF Entered
  <1> USE DEF CInv, SInv, TInv
  <1> DEFINE Old(d) == pc'[d] = pc[d] /\ op'[d] = op[d] /\ cred'[d] = cred[d] /\ loaded'[d] = loaded[d] /\ image'[d] = image[d]
  <1>1. ASSUME NEW ch \in Channels, Create(ch) PROVE Entered'
    <2>1. op'[ch] = "make" /\ loaded'[ch] = vault
      BY <1>1 DEF Create, Steps, Slices
    <2> QED
      BY <1>1, <2>1, BeginEntered DEF Create, Goto, history
  <1>2. ASSUME NEW ch \in Channels, KeyFails(ch) PROVE Entered'
    <2>1. op'[ch] = "refuse" /\ cred'[ch] = 0 /\ loaded' = [loaded EXCEPT ![ch] = loaded'[ch]]
      BY <1>2 DEF KeyFails, Steps, Slices
    <2> QED
      BY <1>2, <2>1, BeginEntered DEF KeyFails, Goto, history
  <1>3. ASSUME NEW ch \in Channels, NEW c \in Credentials, Select(ch, c) PROVE Entered'
    <2>1. op'[ch] = "assert" /\ cred'[ch] = c /\ loaded'[ch] = counter[c]
      BY <1>3 DEF Select, Steps, Slices
    <2> QED
      BY <1>3, <2>1, BeginEntered DEF Select, Goto, history
  <1>4. ASSUME NEW ch \in Channels, Add(ch) PROVE Entered'
    <2>1. Calm /\ "lost_update" \notin excused
      BY <1>4 DEF Add, Calm
    <2>2. pc[ch] = "add" /\ pc' = [pc EXCEPT ![ch] = "export"] /\ UNCHANGED <<daemon, file, op, cred, image, acked>>
      BY <1>4 DEF Add, Goto, history
    <2>3. vault' = vault \union {cred[ch]}
      BY <1>4, <2>1 DEF Add, Entered, EnteredBy
    <2>4. Durable' = Durable
      BY <2>1, <2>2, DurableKept DEF Steps
    <2>5. \A d \in Channels : EnteredBy(d)'
      <3> SUFFICES ASSUME NEW d \in Channels PROVE EnteredBy(d)'
        OBVIOUS
      <3>1. CASE d = ch
        BY <2>2, <2>3, <3>1 DEF EnteredBy, Steps
      <3>2. CASE d # ch
        <4>1. pc[d] \notin Updating /\ pc'[d] = pc[d]
          BY <2>1, <2>2, <3>2 DEF Serial, Updating, Steps
        <4> QED
          BY <2>1, <2>2, <2>4, <4>1 DEF Entered, EnteredBy, Updating
      <3> QED
        BY <3>1, <3>2
    <2> QED
      BY <2>1, <2>2, <2>3, <2>4, <2>5 DEF Entered
  <1>5. ASSUME NEW ch \in Channels, Increment(ch) PROVE Entered'
    <2>1. Calm /\ "lost_update" \notin excused
      BY <1>5 DEF Increment, Calm
    <2>2. /\ pc[ch] = "increment" /\ pc' = [pc EXCEPT ![ch] = "export"]
          /\ UNCHANGED <<daemon, vault, file, op, cred, loaded, image, acked>>
      BY <1>5 DEF Increment, Goto, history
    <2>3. op[ch] = "assert"
      BY <2>2 DEF Ceremonies, Ceremony
    <2>4. Durable' = Durable
      BY <2>1, <2>2, DurableKept DEF Steps
    <2>5. \A d \in Channels : EnteredBy(d)'
      BY <2>1, <2>2, <2>3, <2>4 DEF Entered, EnteredBy, Steps
    <2> QED
      BY <2>1, <2>2, <2>4, <2>5 DEF Entered
  <1>6. ASSUME NEW ch \in Channels, Export(ch) PROVE Entered'
    <2>1. Calm /\ "lost_update" \notin excused
      BY <1>6 DEF Export, Calm
    <2>2. /\ pc[ch] = "export" /\ pc' = [pc EXCEPT ![ch] = "open"]
          /\ image' = [image EXCEPT ![ch] = [creds |-> vault, counter |-> counter]]
          /\ UNCHANGED <<daemon, vault, file, op, cred, loaded, acked>>
      BY <1>6 DEF Export, Goto, history
    <2>3. Durable' = Durable
      BY <2>1, <2>2, DurableKept DEF Steps
    <2>4. \A d \in Channels : EnteredBy(d)'
      <3> SUFFICES ASSUME NEW d \in Channels PROVE EnteredBy(d)'
        OBVIOUS
      <3>1. CASE d = ch
        BY <2>1, <2>2, <3>1 DEF Entered, EnteredBy, Steps
      <3>2. CASE d # ch
        BY <2>1, <2>2, <2>3, <3>2 DEF Entered, EnteredBy, Steps
      <3> QED
        BY <3>1, <3>2
    <2> QED
      BY <2>1, <2>2, <2>3, <2>4 DEF Entered
  <1>7. ASSUME NEW ch \in Channels, Open(ch) PROVE Entered'
    <2>1. Calm /\ "lost_update" \notin excused
      BY <1>7 DEF Open, Calm
    <2>2. /\ pc[ch] = "open" /\ pc' = [pc EXCEPT ![ch] = "write"]
          /\ UNCHANGED <<daemon, vault, image, op, cred, loaded, acked>>
      BY <1>7 DEF Open, Goto, history
    <2>3. image[ch].creds = vault /\ daemon = "up"
      BY <2>1, <2>2 DEF Entered, EnteredBy, Ceremonies, Ceremony
    <2>4. NoWriter
      BY <2>1, <2>2, Writers DEF Updating
    <2>5. OnlyWriter(ch)'
      BY <2>2, <2>4 DEF NoWriter, OnlyWriter, Steps
    <2>6. Durable'.creds = vault /\ Durable.creds \subseteq vault
      BY <2>1, <2>2, <2>3, <2>5, DurableThen DEF Entered
    <2>7. \A d \in Channels : EnteredBy(d)'
      <3> SUFFICES ASSUME NEW d \in Channels PROVE EnteredBy(d)'
        OBVIOUS
      <3>1. CASE d = ch
        BY <2>1, <2>2, <2>3, <3>1 DEF Entered, EnteredBy, Steps
      <3>2. CASE d # ch
        BY <2>1, <2>2, <2>6, <3>2 DEF Entered, EnteredBy, Steps
      <3> QED
        BY <3>1, <3>2
    <2> QED
      BY <2>1, <2>2, <2>6, <2>7 DEF Entered
  <1>8. ASSUME NEW ch \in Channels, Write(ch) PROVE Entered'
    <2>1. Calm /\ "lost_update" \notin excused /\ excused \intersect Tearing = {}
      BY <1>8 DEF Write, Calm, Tearing
    <2>2. /\ pc[ch] = "write" /\ pc' = [pc EXCEPT ![ch] = "answer"]
          /\ UNCHANGED <<daemon, vault, image, op, cred, loaded, acked>>
      BY <1>8 DEF Write, Goto, history
    <2>3. image[ch].creds = vault /\ OnlyWriter(ch) /\ Durable = image[ch]
      BY <2>1, <2>2, Writers, DurableNow DEF Entered, EnteredBy
    <2>4. file' = File("whole", image[ch].creds, image[ch].counter)
      BY <1>8, <2>1, <2>2, WritesWhole DEF WholeFile
    <2>5. NoWriter'
      BY <2>2, <2>3 DEF NoWriter, OnlyWriter, Steps
    <2>6. Durable'.creds = vault
      BY <2>3, <2>4, <2>5, DurableThen DEF OfFile, File
    <2>7. \A d \in Channels : EnteredBy(d)'
      <3> SUFFICES ASSUME NEW d \in Channels PROVE EnteredBy(d)'
        OBVIOUS
      <3>1. CASE d = ch
        BY <2>1, <2>2, <2>6, <3>1 DEF Entered, EnteredBy, Steps
      <3>2. CASE d # ch
        BY <2>1, <2>2, <2>3, <2>6, <3>2 DEF Entered, EnteredBy, Steps
      <3> QED
        BY <3>1, <3>2
    <2> QED
      BY <2>1, <2>2, <2>3, <2>6, <2>7 DEF Entered
  <1>9. ASSUME NEW ch \in Channels, SaveFails(ch) PROVE Entered'
    BY <1>9 DEF SaveFails, Calm
  <1>10. ASSUME NEW ch \in Channels, Registered(ch) \/ Signed(ch) \/ Refused(ch) PROVE Entered'
    <2>1. /\ pc[ch] = "answer" /\ pc' = [pc EXCEPT ![ch] = "idle"]
          /\ UNCHANGED <<daemon, vault, file, op, cred, loaded, image, excused>>
          /\ acked' = acked \/ (acked' = acked \union {cred[ch]} /\ op[ch] = "make")
      BY <1>10 DEF Registered, Signed, Refused, Respond, Goto, history
    <2>2. Calm /\ "lost_update" \notin excused
      BY <2>1 DEF Calm
    <2>3. Durable' = Durable
      BY <2>1, <2>2, DurableKept DEF Steps
    <2>4. acked' \subseteq Durable.creds
      BY <2>1, <2>2 DEF Entered, EnteredBy
    <2>5. \A d \in Channels : EnteredBy(d)'
      BY <2>1, <2>2, <2>3 DEF Entered, EnteredBy, Steps
    <2> QED
      BY <2>1, <2>2, <2>3, <2>4, <2>5 DEF Entered
  <1>11. CASE Crash
    <2>1. NoWriter /\ Calm /\ "lost_update" \notin excused
      BY <1>11 DEF Crash, Calm, NoWriter
    <2>2. Durable' = Durable
      BY <1>11, <2>1, DurableKept DEF Crash, NoWriter
    <2>3. \A d \in Channels : EnteredBy(d)'
      BY <1>11 DEF Crash, EnteredBy
    <2> QED
      BY <1>11, <2>1, <2>2, <2>3 DEF Crash, Entered, history
  <1>12. CASE Start \/ StartPanics
    <2>1. Calm /\ "lost_update" \notin excused
      BY <1>12 DEF Start, StartPanics, Calm
    <2>2. /\ UNCHANGED <<file, acked, pc, op, cred, loaded, image>> /\ daemon = "down"
          /\ daemon' = "up" => vault' = file.creds
      BY <1>12 DEF Start, StartPanics, ceremony, history
    <2>3. \A d \in Channels : pc[d] = "idle"
      BY <2>2 DEF Ceremonies, Ceremony
    <2>4. Durable' = Durable /\ Durable = OfFile
      BY <2>1, <2>2, <2>3, DurableKept, DurableNow DEF NoWriter
    <2>5. \A d \in Channels : EnteredBy(d)'
      BY <2>2, <2>3 DEF EnteredBy
    <2> QED
      BY <2>1, <2>2, <2>4, <2>5 DEF Entered, OfFile
  <1>13. CASE StartBlind
    BY <1>13 DEF StartBlind, Calm
  <1>14. CASE UNCHANGED vars
    <2>1. Durable' = Durable /\ UNCHANGED <<excused, daemon, vault, acked, pc, op, cred, loaded, image>>
      BY <1>14 DEF vars, Durable, ceremony, history
    <2> QED
      BY <2>1 DEF Entered, EnteredBy, Calm
  <1> QED
    BY <1>1, <1>2, <1>3, <1>4, <1>5, <1>6, <1>7, <1>8, <1>9, <1>10, <1>11, <1>12, <1>13, <1>14 DEF Next

LEMMA Credited == Spec => []CInv
  <1>1. Init => CInv
    BY InitSInv, InitEntered DEF CInv
  <1>2. CInv /\ [Next]_vars => CInv'
    BY NextSInv, NextEntered DEF CInv
  <1> QED
    BY <1>1, <1>2, PTL DEF Spec

\* A credential a relying party was told of stays in memory and on file.
THEOREM AckedKeptHolds == Spec => []AckedKept
  <1>1. ASSUME CInv PROVE AckedKept
    <2> SUFFICES ASSUME Calm, NEW c \in acked PROVE (daemon = "up" => c \in vault) /\ OnFile(c)
      BY DEF AckedKept, Calm
    <2>1. c \in Durable.creds /\ (daemon = "up" => c \in vault)
      BY <1>1 DEF CInv, Entered
    <2>2. CASE \E ch \in Channels : pc[ch] = "write"
      <3>1. PICK ch \in Channels : pc[ch] = "write"
        BY <2>2
      <3>2. Durable = image[ch] /\ file = Torn
        BY <1>1, <3>1, Writers, DurableNow DEF CInv, SInv, WholeFile, Calm, Tearing
      <3> QED
        BY <2>1, <3>1, <3>2 DEF OnFile, Torn, File
    <2>3. CASE NoWriter
      <3>1. Durable = OfFile /\ file.state # "torn"
        BY <1>1, <2>3, DurableNow DEF CInv, SInv, WholeFile, Calm, Tearing, NoWriter
      <3> QED
        BY <2>1, <3>1 DEF OnFile, OfFile
    <2> QED
      BY <2>1, <2>2, <2>3 DEF NoWriter
  <1> QED
    BY <1>1, Credited, PTL

-----------------------------------------------------------------------------
(* Counters, as long as nothing has happened. *)

\* Values signed with a credential are below n.
Below(c, n) == \A i \in DOMAIN signed[c] : signed[c][i] < n

CountedBy(ch) ==
  /\ pc[ch] = "add" => cred[ch] \notin vault
  /\ pc[ch] \in {"open", "write"} => image[ch].counter = counter
  /\ pc[ch] # "idle" /\ op[ch] = "assert" => cred[ch] \in vault
  /\ pc[ch] = "increment" => loaded[ch] = counter[cred[ch]]
  /\ pc[ch] \in {"export", "open", "write", "answer"} /\ op[ch] = "assert" => Below(cred[ch], counter[cred[ch]])
  /\ pc[ch] = "answer" /\ op[ch] = "assert" => Durable.counter[cred[ch]] = counter[cred[ch]] /\ cred[ch] \in Durable.creds

\* Two assertions at a time are about different credentials.
Apart(ch, d) ==
  ch # d /\ pc[ch] # "idle" /\ op[ch] = "assert" /\ pc[d] # "idle" /\ op[d] = "assert" => cred[ch] # cred[d]

\* Of a credential: what the next start will find is not ahead of memory, and
\* not behind what was signed; and what is not there was not counted.
CountedOf(c) ==
  /\ daemon = "up" => Durable.counter[c] <= counter[c] /\ (c \notin vault => counter[c] = 0)
  /\ c \notin Durable.creds => Durable.counter[c] = 0
  /\ \A i \in DOMAIN signed[c] : signed[c][i] <= Durable.counter[c]
  /\ \A i, j \in DOMAIN signed[c] : i < j => signed[c][i] < signed[c][j]

Counted ==
  excused = {} =>
    /\ \A c \in Credentials : CountedOf(c)
    /\ \A ch \in Channels : CountedBy(ch)
    /\ \A ch, d \in Channels : Apart(ch, d)

LInv == CInv /\ Counted

LEMMA Known == TInv => 1 .. created \subseteq Credentials /\ vault \subseteq Credentials
  BY Bounds DEF TInv, Stores, Tallies, Credentials

LEMMA DurableCounts == TInv => \A c \in Credentials : Durable.counter[c] \in Nat
  <1> SUFFICES ASSUME TInv, NEW c \in Credentials PROVE Durable.counter[c] \in Nat
    OBVIOUS
  <1>1. CASE NoWriter
    BY <1>1, DurableNow, Bounds DEF TInv, Stores, VaultFiles, Counters, OfFile
  <1>2. CASE ~NoWriter
    <2>1. PICK ch \in Channels : Durable = image[ch]
      BY <1>2 DEF NoWriter, Durable
    <2> QED
      BY <2>1, Bounds DEF TInv, Steps, Images, Counters
  <1> QED
    BY <1>1, <1>2

LEMMA InitCounted == Init => Counted
  <1> SUFFICES ASSUME Init PROVE Counted
    OBVIOUS
  <1>1. Durable = OfFile /\ \A c \in Credentials : Durable.counter[c] = 0
    BY DurableNow DEF Init, NoWriter, OfFile, File, NoCounters
  <1>2. \A c \in Credentials : CountedOf(c)
    BY <1>1 DEF Init, CountedOf
  <1> QED
    BY <1>2 DEF Init, Counted, CountedBy, Apart

\* Nothing that CountedOf speaks of has changed.
LEMMA CountedOfKept ==
  ASSUME LInv, excused = {}, Durable' = Durable, UNCHANGED <<vault, counter, signed>>, daemon' = "up" => daemon = "up"
  PROVE  \A c \in Credentials : CountedOf(c)'
  BY DEF LInv, Counted, CountedOf

LEMMA BeginCounted ==
  ASSUME LInv, NEW ch \in Channels, NEW c, excused' = excused \union Meets(ch, c),
         NEW point \in {"add", "increment", "export"}, pc' = [pc EXCEPT ![ch] = point], pc[ch] = "idle",
         NEW what \in {"make", "assert", "refuse"}, op' = [op EXCEPT ![ch] = what],
         point = "export" => what = "refuse", point = "add" => what = "make" /\ c \notin vault,
         cred' = [cred EXCEPT ![ch] = c], loaded' = [loaded EXCEPT ![ch] = loaded'[ch]],
         point = "increment" => loaded'[ch] = counter[c], what = "assert" => c \in vault,
         UNCHANGED <<daemon, vault, counter, file, image, signed>>
  PROVE  Counted'
  <1> USE DEF LInv, CInv, SInv, TInv
  <1> SUFFICES ASSUME excused' = {} PROVE Counted'
    BY DEF Counted
  <1>1. excused = {} /\ Meets(ch, c) = {}
    OBVIOUS
  <1>2. Durable' = Durable
    BY <1>1, DurableKept DEF Steps
  <1>3. \A d \in Channels \ {ch} : UNCHANGED <<pc[d], op[d], cred[d], loaded[d], image[d]>>
    BY DEF Steps, Slices
  <1>4. pc'[ch] = point /\ op'[ch] = what /\ cred'[ch] = c
    BY DEF Steps
  <1>5. \A e \in Credentials : CountedOf(e)'
    BY <1>1, <1>2, CountedOfKept
  <1>6. \A d \in Channels : CountedBy(d)'
    <2> SUFFICES ASSUME NEW d \in Channels PROVE CountedBy(d)'
      OBVIOUS
    <2>1. CASE d = ch
      BY <2>1, <1>4 DEF CountedBy
    <2>2. CASE d # ch
      BY <1>1, <1>2, <1>3, <2>2 DEF Counted, CountedBy, Below
    <2> QED
      BY <2>1, <2>2
  <1>7. \A d \in Channels \ {ch} : pc[d] \notin Updating /\ ~(pc[d] = "answer" /\ op[d] = "assert" /\ cred[d] = c)
    BY <1>1, MeetsUpdating, MeetsSharer
  <1>8. \A d \in Channels \ {ch} : pc[d] # "idle" /\ op[d] = "assert" => cred[d] # c
    BY <1>7 DEF Steps
  <1>9. \A d, e \in Channels : Apart(d, e)'
    <2> SUFFICES ASSUME NEW d \in Channels, NEW e \in Channels PROVE Apart(d, e)'
      OBVIOUS
    <2>1. CASE d # ch /\ e # ch
      BY <1>1, <1>3, <2>1 DEF Counted, Apart
    <2>2. CASE d = ch \/ e = ch
      BY <1>3, <1>4, <1>8, <2>2 DEF Apart
    <2> QED
      BY <2>1, <2>2
  <1> QED
    BY <1>5, <1>6, <1>9 DEF Counted

\* The append: of a credential nobody has counted.
LEMMA AddCounted ==
  ASSUME LInv, NEW ch \in Channels, Add(ch), excused = {}
  PROVE  Counted' /\ Durable' = Durable
  <1> USE DEF LInv, CInv, SInv, TInv
  <1>1. /\ pc[ch] = "add" /\ pc' = [pc EXCEPT ![ch] = "export"]
        /\ counter' = [counter EXCEPT ![cred[ch]] = 0]
        /\ UNCHANGED <<daemon, file, op, cred, loaded, image, signed, excused>>
    BY DEF Add, Goto, history
  <1>2. vault' = vault \union {cred[ch]} /\ daemon = "up" /\ op[ch] = "make" /\ Durable.creds \subseteq vault
    BY <1>1 DEF Add, Entered, EnteredBy, Calm, Ceremonies, Ceremony
  <1>3. Durable' = Durable
    BY <1>1, DurableKept DEF Steps
  <1>4. cred[ch] \notin vault /\ cred[ch] \in Credentials
    <2>1. cred[ch] \in 1 .. created
      BY <1>1, <1>2 DEF Ceremonies, Ceremony
    <2>2. cred[ch] \notin vault
      BY <1>1 DEF Counted, CountedBy
    <2> QED
      BY <2>1, <2>2, Known
  <1>5. counter'[cred[ch]] = 0 /\ \A e \in Credentials \ {cred[ch]} : counter'[e] = counter[e]
    BY <1>1, <1>4 DEF Stores, Counters
  <1>6. \A e \in Credentials : CountedOf(e)'
    BY <1>1, <1>2, <1>3, <1>4, <1>5 DEF Counted, CountedOf
  <1>7. \A d \in Channels : CountedBy(d)'
    <2> SUFFICES ASSUME NEW d \in Channels PROVE CountedBy(d)'
      OBVIOUS
    <2>1. CASE d = ch
      BY <1>1, <1>2, <2>1 DEF CountedBy, Steps
    <2>2. CASE d # ch
      <3>1. pc[d] \notin Updating /\ pc'[d] = pc[d]
        BY <1>1, <2>2 DEF Serial, Updating, Steps
      <3>2. pc[d] \in {"idle", "answer"}
        BY <3>1 DEF Steps
      <3>3. CASE pc[d] = "answer" /\ op[d] = "assert"
        <4>1. cred[d] \in vault /\ cred[d] \in Credentials
          BY <3>3, Known DEF Counted, CountedBy
        <4>2. counter'[cred[d]] = counter[cred[d]]
          BY <4>1, <1>4, <1>5
        <4> QED
          BY <1>1, <1>2, <1>3, <3>1, <3>3, <4>2 DEF Counted, CountedBy, Below
      <3> QED
        BY <1>1, <3>1, <3>2, <3>3 DEF CountedBy
    <2> QED
      BY <2>1, <2>2
  <1>8. \A d, e \in Channels : Apart(d, e)'
    BY <1>1, <1>2 DEF Counted, Apart, Steps
  <1> QED
    BY <1>3, <1>6, <1>7, <1>8 DEF Counted

\* The increment: of a counter nobody else has read.
LEMMA IncrementCounted ==
  ASSUME LInv, NEW ch \in Channels, Increment(ch), excused = {}
  PROVE  Counted' /\ Durable' = Durable
  <1> USE DEF LInv, CInv, SInv, TInv
  <1>1. /\ pc[ch] = "increment" /\ pc' = [pc EXCEPT ![ch] = "export"]
        /\ counter' = [counter EXCEPT ![cred[ch]] = loaded[ch] + 1]
        /\ UNCHANGED <<daemon, vault, file, op, cred, loaded, image, signed, excused>>
    BY DEF Increment, Goto, history
  <1>2. daemon = "up" /\ op[ch] = "assert" /\ cred[ch] \in vault /\ cred[ch] \in Credentials /\ loaded[ch] = counter[cred[ch]]
    <2>1. daemon = "up" /\ op[ch] = "assert"
      BY <1>1 DEF Ceremonies, Ceremony
    <2>2. cred[ch] \in vault /\ loaded[ch] = counter[cred[ch]]
      BY <1>1, <2>1 DEF Counted, CountedBy
    <2> QED
      BY <2>1, <2>2, Known
  <1>3. Durable' = Durable
    BY <1>1, DurableKept DEF Steps
  <1>4. /\ counter'[cred[ch]] = counter[cred[ch]] + 1 /\ counter[cred[ch]] \in Nat
        /\ \A e \in Credentials \ {cred[ch]} : counter'[e] = counter[e]
    BY <1>1, <1>2, Bounds DEF Stores, Counters
  <1>5. \A e \in Credentials : CountedOf(e)'
    <2> SUFFICES ASSUME NEW e \in Credentials PROVE CountedOf(e)'
      OBVIOUS
    <2>1. CountedOf(e) /\ Durable.counter[e] \in Nat
      BY DurableCounts DEF Counted
    <2>2. CASE e = cred[ch]
      BY <1>1, <1>2, <1>3, <1>4, <2>1, <2>2 DEF CountedOf
    <2>3. CASE e # cred[ch]
      BY <1>1, <1>2, <1>3, <1>4, <2>1, <2>3 DEF CountedOf
    <2> QED
      BY <2>2, <2>3
  <1>6. \A i \in DOMAIN signed[cred[ch]] : signed[cred[ch]][i] < counter[cred[ch]] + 1
    <2> SUFFICES ASSUME NEW i \in DOMAIN signed[cred[ch]]
                 PROVE  signed[cred[ch]][i] < counter[cred[ch]] + 1
      OBVIOUS
    <2>1. signed[cred[ch]][i] <= Durable.counter[cred[ch]] /\ Durable.counter[cred[ch]] <= counter[cred[ch]]
      BY <1>2 DEF Counted, CountedOf
    <2>2. signed[cred[ch]][i] \in Nat /\ Durable.counter[cred[ch]] \in Nat
      BY <1>2, DurableCounts, Bounds DEF Histories
    <2> QED
      BY <1>4, <2>1, <2>2
  <1>7. \A d \in Channels : CountedBy(d)'
    <2> SUFFICES ASSUME NEW d \in Channels PROVE CountedBy(d)'
      OBVIOUS
    <2>1. CASE d = ch
      BY <1>1, <1>2, <1>4, <1>6, <2>1 DEF CountedBy, Below, Steps
    <2>2. CASE d # ch
      <3>1. pc[d] \notin Updating /\ pc'[d] = pc[d]
        BY <1>1, <2>2 DEF Serial, Updating, Steps
      <3>2. pc[d] \in {"idle", "answer"}
        BY <3>1 DEF Steps
      <3>3. CASE pc[d] = "answer" /\ op[d] = "assert"
        <4>1. cred[d] \in Credentials /\ cred[d] # cred[ch]
          BY <1>1, <1>2, <2>2, <3>3, Known DEF Counted, CountedBy, Apart
        <4>2. counter'[cred[d]] = counter[cred[d]]
          BY <4>1, <1>4
        <4> QED
          BY <1>1, <1>3, <3>1, <3>3, <4>2 DEF Counted, CountedBy, Below
      <3> QED
        BY <1>1, <3>1, <3>2, <3>3 DEF CountedBy
    <2> QED
      BY <2>1, <2>2
  <1>8. \A d, e \in Channels : Apart(d, e)'
    BY <1>1, <1>2 DEF Counted, Apart, Steps
  <1> QED
    BY <1>3, <1>5, <1>7, <1>8 DEF Counted

LEMMA ExportCounted ==
  ASSUME LInv, NEW ch \in Channels, Export(ch), excused = {}
  PROVE  Counted' /\ Durable' = Durable
  <1> USE DEF LInv, CInv, SInv, TInv
  <1>1. /\ pc[ch] = "export" /\ pc' = [pc EXCEPT ![ch] = "open"]
        /\ image' = [image EXCEPT ![ch] = [creds |-> vault, counter |-> counter]]
        /\ UNCHANGED <<daemon, vault, counter, file, op, cred, loaded, signed, excused>>
    BY DEF Export, Goto, history
  <1>2. Durable' = Durable
    BY <1>1, DurableKept DEF Steps
  <1>3. \A e \in Credentials : CountedOf(e)'
    BY <1>1, <1>2, CountedOfKept
  <1>4. \A d \in Channels : CountedBy(d)'
    <2> SUFFICES ASSUME NEW d \in Channels PROVE CountedBy(d)'
      OBVIOUS
    <2>1. CASE d = ch
      BY <1>1, <2>1 DEF Counted, CountedBy, Below, Steps
    <2>2. CASE d # ch
      BY <1>1, <1>2, <2>2 DEF Counted, CountedBy, Below, Steps
    <2> QED
      BY <2>1, <2>2
  <1>5. \A d, e \in Channels : Apart(d, e)'
    BY <1>1 DEF Counted, Apart, Steps
  <1> QED
    BY <1>2, <1>3, <1>4, <1>5 DEF Counted

\* From the truncation on, the next start will find what was exported, and that
\* is what memory holds.
LEMMA SaveCounted ==
  ASSUME LInv, NEW ch \in Channels, Open(ch) \/ Write(ch), excused = {}
  PROVE  Counted' /\ Durable'.creds = vault /\ Durable'.counter = counter
  <1> USE DEF LInv, CInv, SInv, TInv
  <1>1. /\ UNCHANGED <<daemon, vault, counter, op, cred, loaded, image, signed, excused>>
        /\ pc[ch] \in {"open", "write"} /\ pc' = [pc EXCEPT ![ch] = pc'[ch]]
        /\ Open(ch) => pc[ch] = "open" /\ pc'[ch] = "write"
        /\ Write(ch) => pc[ch] = "write" /\ pc'[ch] = "answer"
    BY DEF Open, Write, Goto, history, Steps
  <1>2. image[ch].creds = vault /\ image[ch].counter = counter /\ daemon = "up"
    BY <1>1 DEF Counted, CountedBy, Entered, EnteredBy, Calm, Ceremonies, Ceremony
  <1>3. Durable'.creds = vault /\ Durable'.counter = counter
    <2>1. CASE Open(ch)
      <3>1. NoWriter
        BY <1>1, <2>1, Writers DEF Updating
      <3>2. OnlyWriter(ch)'
        BY <1>1, <2>1, <3>1 DEF NoWriter, OnlyWriter, Steps
      <3> QED
        BY <1>1, <1>2, <3>2, DurableThen
    <2>2. CASE Write(ch)
      <3>1. OnlyWriter(ch) /\ file = Torn
        BY <1>1, <2>2, Writers DEF WholeFile
      <3>2. file' = File("whole", image[ch].creds, image[ch].counter)
        BY <2>2, <3>1, WritesWhole
      <3>3. NoWriter'
        BY <1>1, <2>2, <3>1 DEF NoWriter, OnlyWriter, Steps
      <3> QED
        BY <1>2, <3>2, <3>3, DurableThen DEF OfFile, File
    <2> QED
      BY <2>1, <2>2
  <1>4. \A e \in Credentials : CountedOf(e)'
    <2> SUFFICES ASSUME NEW e \in Credentials PROVE CountedOf(e)'
      OBVIOUS
    <2>1. CountedOf(e) /\ Durable.counter[e] \in Nat /\ counter[e] \in Nat
      BY DurableCounts, Bounds DEF Counted, Stores, Counters
    <2>2. \A i \in DOMAIN signed[e] : signed[e][i] \in Nat
      BY Bounds DEF Histories
    <2>3. \A i \in DOMAIN signed[e] : signed[e][i] <= counter[e]
      BY <1>2, <2>1, <2>2 DEF CountedOf
    <2> QED
      BY <1>1, <1>2, <1>3, <2>1, <2>3 DEF CountedOf
  <1>5. \A d \in Channels : CountedBy(d)'
    <2> SUFFICES ASSUME NEW d \in Channels PROVE CountedBy(d)'
      OBVIOUS
    <2>1. CASE d = ch
      BY <1>1, <1>2, <1>3, <2>1 DEF Counted, CountedBy, Below
    <2>2. CASE d # ch
      <3>1. pc'[d] = pc[d]
        BY <1>1, <2>2 DEF Steps
      <3> QED
        BY <1>1, <1>3, <3>1 DEF Counted, CountedBy, Below
    <2> QED
      BY <2>1, <2>2
  <1>6. \A d, e \in Channels : Apart(d, e)'
    BY <1>1 DEF Counted, Apart, Steps
  <1> QED
    BY <1>3, <1>4, <1>5, <1>6 DEF Counted

\* The signature carries the counter that is on file.
LEMMA SignedCounted ==
  ASSUME LInv, NEW ch \in Channels, Signed(ch), excused = {}
  PROVE  /\ Counted' /\ Durable' = Durable
         /\ cred[ch] \in Durable.creds /\ cred[ch] \in Credentials
         /\ Durable.counter[cred[ch]] = counter[cred[ch]] /\ Below(cred[ch], counter[cred[ch]])
         /\ signed' = [signed EXCEPT ![cred[ch]] = Append(@, counter[cred[ch]])]
  <1> USE DEF LInv, CInv, SInv, TInv
  <1>1. /\ pc[ch] = "answer" /\ op[ch] = "assert" /\ pc' = [pc EXCEPT ![ch] = "idle"]
        /\ signed' = [signed EXCEPT ![cred[ch]] = Append(@, counter[cred[ch]])]
        /\ UNCHANGED <<daemon, vault, counter, file, op, cred, loaded, image, excused>>
    BY DEF Signed, Respond, Goto
  <1>2. Durable' = Durable
    BY <1>1, DurableKept DEF Steps
  <1>3. /\ cred[ch] \in Durable.creds /\ cred[ch] \in Credentials
        /\ Durable.counter[cred[ch]] = counter[cred[ch]] /\ Below(cred[ch], counter[cred[ch]])
    BY <1>1, Known DEF Counted, CountedBy
  <1>4. /\ \A e \in Credentials \ {cred[ch]} : signed'[e] = signed[e]
        /\ signed'[cred[ch]] = Append(signed[cred[ch]], counter[cred[ch]])
        /\ signed[cred[ch]] \in Seq(0 .. MaxAssertions) /\ counter[cred[ch]] \in 0 .. MaxAssertions
    BY <1>1, <1>3 DEF Histories, Stores, Counters
  <1>5. \A e \in Credentials : CountedOf(e)'
    <2> SUFFICES ASSUME NEW e \in Credentials PROVE CountedOf(e)'
      OBVIOUS
    <2>1. CASE e # cred[ch]
      BY <1>1, <1>2, <1>4, <2>1 DEF Counted, CountedOf
    <2>2. CASE e = cred[ch]
      <3> DEFINE old == signed[e]
                 n == counter[e]
      <3>1. /\ signed'[e] = Append(old, n) /\ old \in Seq(0 .. MaxAssertions) /\ n \in 0 .. MaxAssertions
            /\ \A i \in DOMAIN old : old[i] < n
            /\ \A i, j \in DOMAIN old : i < j => old[i] < old[j]
        BY <1>3, <1>4, <2>2 DEF Counted, CountedOf, Below
      <3>2. /\ DOMAIN signed'[e] = 1 .. Len(old) + 1 /\ signed'[e][Len(old) + 1] = n
            /\ DOMAIN old = 1 .. Len(old) /\ Len(old) \in Nat
            /\ \A i \in 1 .. Len(old) : signed'[e][i] = old[i]
        BY <3>1
      <3>3. \A i \in DOMAIN signed'[e] : signed'[e][i] <= n
        <4> SUFFICES ASSUME NEW i \in 1 .. Len(old) + 1 PROVE signed'[e][i] <= n
          BY <3>2
        <4>1. CASE i = Len(old) + 1
          BY <3>1, <3>2, <4>1, Bounds
        <4>2. CASE i \in 1 .. Len(old)
          <5>1. i \in DOMAIN old /\ signed'[e][i] = old[i]
            BY <3>2, <4>2
          <5>2. old[i] < n
            BY <3>1, <5>1
          <5>3. old[i] \in Nat /\ n \in Nat
            BY <3>1, <5>1, Bounds
          <5> HIDE DEF old, n
          <5> QED
            BY <5>1, <5>2, <5>3
        <4> QED
          BY <3>2, <4>1, <4>2
      <3>4. \A i, j \in DOMAIN signed'[e] : i < j => signed'[e][i] < signed'[e][j]
        <4> SUFFICES ASSUME NEW i \in 1 .. Len(old) + 1, NEW j \in 1 .. Len(old) + 1, i < j
                     PROVE  signed'[e][i] < signed'[e][j]
          BY <3>2
        <4>1. i \in 1 .. Len(old)
          BY <3>2
        <4>2. CASE j = Len(old) + 1
          BY <3>1, <3>2, <4>1, <4>2
        <4>3. CASE j \in 1 .. Len(old)
          BY <3>1, <3>2, <4>1, <4>3
        <4> QED
          BY <3>2, <4>2, <4>3
      <3> HIDE DEF old, n
      <3> QED
        BY <1>1, <1>2, <1>3, <2>2, <3>3, <3>4 DEF Counted, CountedOf, n
    <2> QED
      BY <2>1, <2>2
  <1>6. \A d \in Channels : CountedBy(d)'
    <2> SUFFICES ASSUME NEW d \in Channels PROVE CountedBy(d)'
      OBVIOUS
    <2>1. CASE d = ch
      BY <1>1, <2>1 DEF CountedBy, Steps
    <2>2. CASE d # ch
      <3>1. pc'[d] = pc[d]
        BY <1>1, <2>2 DEF Steps
      <3>2. CASE pc[d] # "idle" /\ op[d] = "assert"
        <4>1. cred[d] \in Credentials /\ cred[d] # cred[ch]
          BY <1>1, <2>2, <3>2, Known DEF Counted, CountedBy, Apart
        <4>2. signed'[cred[d]] = signed[cred[d]]
          BY <1>4, <4>1
        <4> QED
          BY <1>1, <1>2, <3>1, <3>2, <4>2 DEF Counted, CountedBy, Below
      <3>3. CASE ~(pc[d] # "idle" /\ op[d] = "assert")
        BY <1>1, <1>2, <3>1, <3>3 DEF Counted, CountedBy, Ceremonies, Ceremony
      <3> QED
        BY <3>2, <3>3
    <2> QED
      BY <2>1, <2>2
  <1>7. \A d, e \in Channels : Apart(d, e)'
    BY <1>1 DEF Counted, Apart, Steps
  <1> QED
    BY <1>1, <1>2, <1>3, <1>5, <1>6, <1>7 DEF Counted

LEMMA AnswerCounted ==
  ASSUME LInv, NEW ch \in Channels, Registered(ch) \/ Refused(ch), excused = {}
  PROVE  Counted' /\ Durable' = Durable
  <1> USE DEF LInv, CInv, SInv, TInv
  <1>1. /\ pc[ch] = "answer" /\ pc' = [pc EXCEPT ![ch] = "idle"]
        /\ UNCHANGED <<daemon, vault, counter, file, op, cred, loaded, image, signed, excused>>
    BY DEF Registered, Refused, Respond, Goto, history
  <1>2. Durable' = Durable
    BY <1>1, DurableKept DEF Steps
  <1>3. \A e \in Credentials : CountedOf(e)'
    BY <1>1, <1>2, CountedOfKept
  <1>4. \A d \in Channels : CountedBy(d)'
    BY <1>1, <1>2 DEF Counted, CountedBy, Below, Steps
  <1>5. \A d, e \in Channels : Apart(d, e)'
    BY <1>1 DEF Counted, Apart, Steps
  <1> QED
    BY <1>2, <1>3, <1>4, <1>5 DEF Counted

\* Stops and starts.
LEMMA ProcessCounted ==
  ASSUME LInv, Crash \/ Start \/ StartPanics, excused' = {}
  PROVE  Counted' /\ Durable' = Durable
  <1> USE DEF LInv, CInv, SInv, TInv
  <1>1. /\ excused = {} /\ UNCHANGED <<file, image, signed>>
        /\ \A d \in Channels : pc'[d] = "idle"
        /\ \A d \in Channels : pc[d] # "write"
        /\ daemon' = "up" => vault' = file.creds /\ counter' = file.counter
    BY DEF Crash, Start, StartPanics, ceremony, history, Ceremonies, Ceremony
  <1>2. Durable' = Durable /\ Durable = OfFile
    BY <1>1, DurableKept, DurableNow DEF NoWriter
  <1>3. \A e \in Credentials : CountedOf(e)'
    BY <1>1, <1>2, DurableCounts DEF Counted, CountedOf, OfFile
  <1>4. \A d \in Channels : CountedBy(d)'
    BY <1>1 DEF CountedBy
  <1>5. \A d, e \in Channels : Apart(d, e)'
    BY <1>1 DEF Apart
  <1> QED
    BY <1>2, <1>3, <1>4, <1>5 DEF Counted

\* A step after which nothing has happened keeps the counters.
LEMMA NextCounted == LInv /\ [Next]_vars => Counted'
  <1> SUFFICES ASSUME LInv, [Next]_vars, excused' = {} PROVE Counted'
    BY DEF Counted
  <1>1. ASSUME NEW ch \in Channels, Create(ch) PROVE Counted'
    <2>1. created + 1 \notin vault /\ loaded'[ch] = vault
      BY <1>1, Bounds DEF Create, LInv, CInv, SInv, TInv, Stores, Tallies, Slices
    <2> QED
      BY <1>1, <2>1, BeginCounted DEF Create, Goto, history
  <1>2. ASSUME NEW ch \in Channels, KeyFails(ch) PROVE Counted'
    <2>1. loaded' = [loaded EXCEPT ![ch] = loaded'[ch]]
      BY <1>2 DEF KeyFails, LInv, CInv, SInv, TInv, Slices
    <2> QED
      BY <1>2, <2>1, BeginCounted DEF KeyFails, Goto, history
  <1>3. ASSUME NEW ch \in Channels, NEW c \in Credentials, Select(ch, c) PROVE Counted'
    <2>1. loaded'[ch] = counter[c]
      BY <1>3 DEF Select, LInv, CInv, SInv, TInv, Slices
    <2> QED
      BY <1>3, <2>1, BeginCounted DEF Select, Goto, history
  <1>4. ASSUME NEW ch \in Channels, Add(ch) \/ Increment(ch) \/ Export(ch) \/ Open(ch) \/ Write(ch) PROVE Counted'
    <2>1. excused = {}
      BY <1>4 DEF Add, Increment, Export, Open, Write
    <2> QED
      BY <1>4, <2>1, AddCounted, IncrementCounted, ExportCounted, SaveCounted
  <1>5. ASSUME NEW ch \in Channels, SaveFails(ch) PROVE Counted'
    BY <1>5 DEF SaveFails
  <1>6. ASSUME NEW ch \in Channels, Registered(ch) \/ Signed(ch) \/ Refused(ch) PROVE Counted'
    <2>1. excused = {}
      BY <1>6 DEF Registered, Signed, Refused, Respond
    <2> QED
      BY <1>6, <2>1, SignedCounted, AnswerCounted
  <1>7. CASE Crash \/ Start \/ StartPanics
    BY <1>7, ProcessCounted
  <1>8. CASE StartBlind
    BY <1>8 DEF StartBlind
  <1>9. CASE UNCHANGED vars
    <2>1. Durable' = Durable
          /\ UNCHANGED <<excused, daemon, vault, counter, signed, pc, op, cred, loaded, image>>
      BY <1>9 DEF vars, Durable, ceremony, history
    <2> QED
      BY <2>1 DEF LInv, Counted, CountedOf, CountedBy, Apart, Below
  <1> QED
    BY <1>1, <1>2, <1>3, <1>4, <1>5, <1>6, <1>7, <1>8, <1>9 DEF Next

\* The strengthened invariant of the vault holds in every reachable state.
THEOREM Invariance == Spec => []LInv
  <1>1. Init => LInv
    BY InitSInv, InitEntered, InitCounted DEF CInv, LInv
  <1>2. LInv /\ [Next]_vars => LInv'
    BY NextSInv, NextEntered, NextCounted DEF CInv, LInv
  <1> QED
    BY <1>1, <1>2, PTL DEF Spec

\* The assertions of one credential carry increasing counters, over restarts.
THEOREM CountersIncreaseHolds == Spec => []CountersIncrease
  <1>1. LInv => CountersIncrease
    BY DEF LInv, Counted, CountedOf, CountersIncrease
  <1> QED
    BY <1>1, Invariance, PTL

-----------------------------------------------------------------------------
(* The ledger. *)

\* Nothing is entered, told or signed.
LEMMA Silent ==
  ASSUME Durable' = Durable, UNCHANGED <<acked, signed, excused>>
  PROVE  UNCHANGED Ledger!vars
  BY DEF Ledger!vars

LEMMA NextLedger == LInv /\ [Next]_vars => [Ledger!Next]_(Ledger!vars)
  <1> SUFFICES ASSUME LInv, [Next]_vars, excused' = {} PROVE [Ledger!Next]_(Ledger!vars)
    BY DEF Ledger!Next
  <1> USE DEF LInv, CInv, SInv, TInv
  <1>1. ASSUME NEW ch \in Channels, NEW c, excused' = excused \union Meets(ch, c), excused = {},
               UNCHANGED <<file, image, acked, signed>>, pc[ch] = "idle",
               NEW point \in {"add", "increment", "export"}, pc' = [pc EXCEPT ![ch] = point]
        PROVE  UNCHANGED Ledger!vars
    BY <1>1, DurableKept, Silent DEF Steps
  <1>2. ASSUME NEW ch \in Channels, Create(ch) \/ KeyFails(ch) \/ \E c \in Credentials : Select(ch, c)
        PROVE  UNCHANGED Ledger!vars
    BY <1>1, <1>2 DEF Create, KeyFails, Select, Goto, history
  <1>3. ASSUME NEW ch \in Channels, Add(ch) \/ Increment(ch) \/ Export(ch)
        PROVE  UNCHANGED Ledger!vars
    <2>1. excused = {} /\ UNCHANGED <<acked, signed, excused>>
      BY <1>3 DEF Add, Increment, Export, history
    <2> QED
      BY <1>3, <2>1, AddCounted, IncrementCounted, ExportCounted, Silent
  <1>4. ASSUME NEW ch \in Channels, Open(ch) \/ Write(ch)
        PROVE  Ledger!Enter
    <2>1. excused = {} /\ UNCHANGED <<acked, signed, excused>> /\ pc[ch] \in {"open", "write"}
      BY <1>4 DEF Open, Write, history
    <2>2. Durable'.creds = vault /\ Durable'.counter = counter
      BY <1>4, <2>1, SaveCounted
    <2>3. daemon = "up"
      BY <2>1 DEF Ceremonies, Ceremony
    <2>4. Durable.creds \subseteq vault /\ \A c \in Credentials : Durable.counter[c] <= counter[c]
      BY <2>1, <2>3 DEF Entered, Calm, Counted, CountedOf
    <2> QED
      BY <2>1, <2>2, <2>4 DEF Ledger!Enter
  <1>5. ASSUME NEW ch \in Channels, Registered(ch)
        PROVE  \E c \in Credentials : Ledger!Acknowledge(c)
    <2>1. excused = {} /\ acked' = acked \union {cred[ch]} /\ UNCHANGED <<signed, excused>> /\ pc[ch] = "answer" /\ op[ch] = "make"
      BY <1>5 DEF Registered, Respond
    <2>2. Durable' = Durable
      BY <1>5, <2>1, AnswerCounted
    <2>3. cred[ch] \in Durable.creds
      BY <2>1 DEF Entered, EnteredBy, Calm
    <2>4. cred[ch] \in Credentials
      BY <2>1, Known DEF Ceremonies, Ceremony
    <2> QED
      BY <2>1, <2>2, <2>3, <2>4 DEF Ledger!Acknowledge
  <1>6. ASSUME NEW ch \in Channels, Signed(ch)
        PROVE  \E c \in Credentials : \E n \in 0 .. Durable.counter[c] : Ledger!Sign(c, n)
    <2>1. excused = {} /\ UNCHANGED <<acked, excused>>
      BY <1>6 DEF Signed, Respond
    <2> DEFINE c == cred[ch]
               n == counter[c]
    <2>2. /\ Durable' = Durable /\ c \in Durable.creds /\ c \in Credentials
          /\ Durable.counter[c] = n /\ \A i \in DOMAIN signed[c] : signed[c][i] < n
          /\ signed' = [signed EXCEPT ![c] = Append(@, n)]
      BY <1>6, <2>1, SignedCounted DEF Below
    <2>3. n \in Nat
      BY <2>2, DurableCounts
    <2> HIDE DEF c, n
    <2>4. Ledger!Sign(c, n)
      BY <2>1, <2>2, <2>3 DEF Ledger!Sign
    <2> QED
      BY <2>2, <2>3, <2>4
  <1>7. ASSUME NEW ch \in Channels, Refused(ch)
        PROVE  UNCHANGED Ledger!vars
    <2>1. excused = {} /\ UNCHANGED <<acked, signed, excused>>
      BY <1>7 DEF Refused, Respond, history
    <2> QED
      BY <1>7, <2>1, AnswerCounted, Silent
  <1>8. ASSUME NEW ch \in Channels, SaveFails(ch) PROVE FALSE
    BY <1>8 DEF SaveFails
  <1>9. CASE StartBlind
    BY <1>9 DEF StartBlind
  <1>10. CASE Crash \/ Start \/ StartPanics
    <2>1. UNCHANGED <<acked, signed, excused>>
      BY <1>10 DEF Crash, Start, StartPanics, history
    <2> QED
      BY <1>10, <2>1, ProcessCounted, Silent
  <1>11. CASE UNCHANGED vars
    BY <1>11, Silent DEF vars, Durable, ceremony, history
  <1> QED
    BY <1>2, <1>3, <1>4, <1>5, <1>6, <1>7, <1>8, <1>9, <1>10, <1>11 DEF Next, Ledger!Next

\* Until an accident happens, the vault with its memory, its file and its
\* ceremonies is a write-ahead ledger.
THEOREM Refinement == Spec => ImplementsLedger
  <1>1. Init => Ledger!Init
    BY DurableNow DEF Init, Ledger!Init, NoWriter, OfFile, File, NoCounters
  <1> QED
    BY <1>1, NextLedger, Invariance, PTL DEF Spec, ImplementsLedger, Ledger!Spec
=============================================================================
