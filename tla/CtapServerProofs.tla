-------------------------- MODULE CtapServerProofs --------------------------
(***************************************************************************)
(* Theorems about CtapServer, for every set of channels and PINs and every *)
(* number of tries.                                                        *)
(*                                                                         *)
(* The argument.  FlagsEarned speaks of the signature, so its invariant    *)
(* says the same of every command on its way to one (CmdOK): flags are     *)
(* added in the steps that match a face or admit a pinToken and travel     *)
(* with the command.  TriesAddUp needs that without an overlap one command *)
(* at most is at the retry counter, and that the value it has read is      *)
(* still the value of the counter when it writes (Serial).                 *)
(* NumbersRepeatOnlyExcused needs the same of the U2F counter, and that    *)
(* all numbers signed are below it (Alone).                                *)
(***************************************************************************)
EXTENDS CtapServer, TLAPS

\* What is true of a command whose client was given the pinToken for k.
CmdOK(r, k) ==
  /\ r \in Commands
  /\ "UP" \in r.flags => r.faced \/ r.op = "unenforced"
  /\ "UV" \in r.flags => r.faced \/ (r.op # "unenforced" /\ k # "no")
  /\ r.at = "spent" => r.read \in 1 .. Tries
  /\ r.at = "bump" => r.read + 1 \in 1 .. MaxNumbers /\ r.read \in 1 .. MaxNumbers
  /\ r.at \in {"reset", "store"} => r.want \in Pins
  /\ r.op = "change" /\ r.at \in PinPoints => r.want \in Pins \union {Short}

CmdsOK ==
  /\ cmd \in [Channels -> Commands]
  /\ known \in [Channels -> Given]
  /\ \A c \in Channels : CmdOK(cmd[c], known[c])

\* Without an overlap the retry counter has one user at a time.
Serial ==
  /\ ~raced =>
       /\ \A c, d \in Channels : cmd[c].at \in PinPoints /\ cmd[d].at \in PinPoints => c = d
       /\ \A c \in Channels : cmd[c].at = "spent" => cmd[c].read = retries
       /\ retries + used = Tries
  /\ retries \in 0 .. Tries
  /\ used \in 0 .. Tries

\* The rest of TypeOK.
Rest ==
  /\ enabled \in BOOLEAN /\ up \in BOOLEAN /\ raced \in BOOLEAN /\ rewound \in BOOLEAN
  /\ pin \in Pins \union {NoPin}
  /\ counter \in 1 .. MaxNumbers
  /\ file \in State
  /\ cause \in {"none", "malformed", "retries", "stopped"}
  /\ boots \in 0 .. MaxBoots
  /\ issued \subseteq 1 .. MaxNumbers
  /\ signature \in Signatures

IInv == CmdsOK /\ Serial /\ Rest /\ FlagsEarned

-----------------------------------------------------------------------------
(* Commands. *)

LEMMA FreshFact == Fresh \in State
  BY CtapAssumption DEF Fresh, State

LEMMA IdleFacts ==
  /\ Idle \in Commands
  /\ Idle.flags = {} /\ Idle.at = "idle" /\ Idle.op = "none"
  /\ \A k \in Given : CmdOK(Idle, k)
  <1>1. Idle \in Commands
    BY FreshFact DEF Idle, Commands, Points
  <1> QED
    BY <1>1 DEF Idle, CmdOK

\* A command that becomes r, while its client loses no token.
LEMMA BecomeOK ==
  ASSUME CmdsOK, NEW c \in Channels, NEW r, Become(c, r), CmdOK(r, known[c]), known' = known
  PROVE  CmdsOK' /\ \A d \in Channels : cmd'[d] = IF d = c THEN r ELSE cmd[d]
  <1>1. r \in Commands
    BY DEF CmdOK
  <1>2. \A d \in Channels : cmd'[d] = IF d = c THEN r ELSE cmd[d]
    BY DEF Become, CmdsOK
  <1>3. cmd' \in [Channels -> Commands]
    BY <1>1 DEF Become, CmdsOK
  <1> QED
    BY <1>2, <1>3 DEF CmdsOK

\* Steps that leave the retry counter alone and put nobody at it.
LEMMA SerialKept ==
  ASSUME Serial, NEW c \in Channels, NEW r, r.at \notin PinPoints,
         \A d \in Channels : cmd'[d] = IF d = c THEN r ELSE cmd[d],
         retries' = retries, used' = used, raced' = raced
  PROVE  Serial'
  <1>1. r.at # "spent"
    BY DEF PinPoints
  <1> QED
    BY <1>1 DEF Serial

LEMMA SerialIdle ==
  ASSUME Serial, cmd' = cmd, retries' = retries, used' = used, raced' = raced
  PROVE  Serial'
  BY DEF Serial

\* A signature takes the flags of its command along.
LEMMA SignOK ==
  ASSUME CmdsOK, NEW c \in Channels, NEW flags \in SUBSET {"UP", "UV"}, NEW faced \in BOOLEAN,
         "UP" \in flags => faced \/ cmd[c].op = "unenforced",
         "UV" \in flags => faced \/ (cmd[c].op # "unenforced" /\ known[c] # "no"),
         Sign(c, flags, faced)
  PROVE  /\ FlagsEarned'
         /\ signature' \in Signatures
         /\ Become(c, Idle)
  <1>1. known[c] \in Given
    BY DEF CmdsOK
  <1>2. signature' = [flags |-> flags,
                      by |-> IF faced THEN "face"
                             ELSE IF cmd[c].op = "unenforced" THEN "waiver" ELSE known[c]]
    BY DEF Sign
  <1>3. CASE faced
    <2>1. signature' = [flags |-> flags, by |-> "face"]
      BY <1>2, <1>3
    <2> QED
      BY <2>1 DEF FlagsEarned, Sign, Signatures
  <1>4. CASE ~faced /\ cmd[c].op = "unenforced"
    <2>1. signature' = [flags |-> flags, by |-> "waiver"]
      BY <1>2, <1>4
    <2> QED
      BY <1>4, <2>1 DEF FlagsEarned, Sign, Signatures
  <1>5. CASE ~faced /\ cmd[c].op # "unenforced"
    <2>1. signature' = [flags |-> flags, by |-> known[c]]
      BY <1>2, <1>5
    <2> QED
      BY <1>1, <1>5, <2>1 DEF FlagsEarned, Sign, Signatures, Given
  <1> QED
    BY <1>3, <1>4, <1>5

LEMMA AnswerOK ==
  ASSUME IInv, NEW c \in Channels, Answer(c), known' = known
  PROVE  /\ CmdsOK' /\ FlagsEarned' /\ signature' = signature
         /\ \A d \in Channels : cmd'[d] = IF d = c THEN Idle ELSE cmd[d]
  <1>1. CmdOK(Idle, known[c])
    BY IdleFacts DEF IInv, CmdsOK
  <1> QED
    BY <1>1, BecomeOK DEF IInv, Answer, FlagsEarned

-----------------------------------------------------------------------------
LEMMA InitIInv == Init => IInv
  <1> SUFFICES ASSUME Init PROVE IInv
    OBVIOUS
  <1>1. CmdsOK
    BY IdleFacts DEF Init, CmdsOK, Given
  <1>2. \A c \in Channels : cmd[c].at = "idle"
    BY IdleFacts DEF Init
  <1>3. Serial
    BY <1>2, CtapAssumption DEF Init, Serial, PinPoints
  <1>4. signature \in Signatures
    BY DEF Init, Signatures, Given
  <1>5. counter \in 1 .. MaxNumbers /\ boots \in 0 .. MaxBoots
    BY CtapAssumption DEF Init
  <1>6. file \in State
    BY FreshFact DEF Init
  <1>7. Rest
    BY <1>4, <1>5, <1>6 DEF Init, Rest
  <1>8. FlagsEarned
    BY DEF Init, FlagsEarned
  <1> QED
    BY <1>1, <1>3, <1>7, <1>8 DEF IInv

\* Steps of a command that neither signs nor touches a shared field.
LEMMA PrivateIInv ==
  ASSUME IInv, NEW c \in Channels, NEW r, Become(c, r), CmdOK(r, known[c]), r.at \notin PinPoints,
         UNCHANGED <<pinState, u2fState, process, file, known, signature>>
  PROVE  IInv'
  <1> USE DEF IInv, pinState, u2fState, process
  <1>1. CmdsOK' /\ \A d \in Channels : cmd'[d] = IF d = c THEN r ELSE cmd[d]
    BY BecomeOK
  <1>2. Serial'
    BY <1>1, SerialKept
  <1> QED
    BY <1>1, <1>2 DEF Rest, FlagsEarned

LEMMA EarnedOK ==
  ASSUME IInv, NEW c \in Channels, NEW o, NEW auth \in {"none", "good"}, Admitted(c, o, auth)
  PROVE  Earned(auth) \in SUBSET {"UP", "UV"} /\ "UP" \notin Earned(auth)
         /\ ("UV" \in Earned(auth) => known[c] # "no")
  BY DEF Earned, Admitted

LEMMA RequestIInv ==
  ASSUME IInv, NEW c \in Channels,
         \/ \E auth \in {"none", "good"} : MakeCredential(c, auth)
         \/ \E auth \in {"none", "good"} : \E silent \in BOOLEAN : GetAssertion(c, auth, silent)
         \/ Register(c)
         \/ Authenticate(c)
         \/ AuthenticateUnenforced(c)
  PROVE  IInv'
  <1> USE IdleFacts DEF PinPoints
  <1>1. ASSUME NEW auth \in {"none", "good"}, MakeCredential(c, auth) PROVE IInv'
    <2> DEFINE r == [Idle EXCEPT !.op = "make", !.at = "approve", !.flags = Earned(auth)]
    <2>1. Earned(auth) \in SUBSET {"UP", "UV"} /\ "UP" \notin Earned(auth)
          /\ ("UV" \in Earned(auth) => known[c] # "no")
      BY <1>1, EarnedOK DEF MakeCredential
    <2>2. r.flags = Earned(auth) /\ r.at = "approve" /\ r.op = "make"
      BY DEF Idle
    <2>3. r \in Commands
      BY <2>1, <2>2, FreshFact DEF Commands, Points, Idle
    <2>4. CmdOK(r, known[c])
      BY <2>1, <2>2, <2>3 DEF CmdOK
    <2> QED
      BY <1>1, <2>2, <2>4, PrivateIInv DEF MakeCredential
  <1>2. ASSUME NEW auth \in {"none", "good"}, NEW silent \in BOOLEAN, GetAssertion(c, auth, silent) PROVE IInv'
    <2> DEFINE r == [Idle EXCEPT !.op = IF silent THEN "silent" ELSE "assert",
                                 !.at = "export", !.flags = Earned(auth)]
    <2>1. Earned(auth) \in SUBSET {"UP", "UV"} /\ "UP" \notin Earned(auth)
          /\ ("UV" \in Earned(auth) => known[c] # "no")
      BY <1>2, EarnedOK DEF GetAssertion
    <2>2. r.flags = Earned(auth) /\ r.at = "export" /\ r.op \in {"assert", "silent"}
      BY DEF Idle
    <2>3. r \in Commands
      BY <2>1, <2>2, FreshFact DEF Commands, Points, Idle
    <2>4. CmdOK(r, known[c])
      BY <2>1, <2>2, <2>3 DEF CmdOK
    <2> QED
      BY <1>2, <2>2, <2>4, PrivateIInv DEF GetAssertion
  <1>3. ASSUME Register(c) PROVE IInv'
    <2> DEFINE r == [Idle EXCEPT !.op = "register", !.at = "approve"]
    <2>1. CmdOK(r, known[c]) /\ r.at = "approve"
      BY DEF CmdOK, Commands, Points, Idle
    <2> QED
      BY <1>3, <2>1, PrivateIInv DEF Register
  <1>4. ASSUME Authenticate(c) PROVE IInv'
    <2> DEFINE r == [Idle EXCEPT !.op = "authenticate", !.at = "approve"]
    <2>1. CmdOK(r, known[c]) /\ r.at = "approve"
      BY DEF CmdOK, Commands, Points, Idle
    <2> QED
      BY <1>4, <2>1, PrivateIInv DEF Authenticate
  <1>5. ASSUME AuthenticateUnenforced(c) PROVE IInv'
    <2> DEFINE r == [Idle EXCEPT !.op = "unenforced", !.at = "count", !.flags = {"UP"}]
    <2>1. r \in Commands /\ r.flags = {"UP"} /\ r.op = "unenforced" /\ r.at = "count"
      BY FreshFact DEF Commands, Points, Idle
    <2>2. CmdOK(r, known[c])
      BY <2>1 DEF CmdOK
    <2> QED
      BY <1>5, <2>1, <2>2, PrivateIInv DEF AuthenticateUnenforced
  <1> QED
    BY <1>1, <1>2, <1>3, <1>4, <1>5

\* The process ends, and what else there is stays as it is.
LEMMA EndsIInv ==
  ASSUME IInv, NEW why \in {"malformed", "retries", "stopped"}, Ends(why),
         UNCHANGED <<enabled, boots, pinState, u2fState, file, signature>>
  PROVE  IInv'
  <1> USE DEF IInv, Ends, pinState, u2fState
  <1>1. \A c \in Channels : cmd'[c] = Idle
    OBVIOUS
  <1>2. CmdsOK'
    BY IdleFacts DEF CmdsOK, Given
  <1>3. Serial'
    BY <1>1, IdleFacts DEF Serial, PinPoints
  <1> QED
    BY <1>2, <1>3 DEF Rest, FlagsEarned

-----------------------------------------------------------------------------
(* Approval and saving. *)

LEMMA ApprovedOK ==
  ASSUME IInv, NEW c \in Channels, cmd[c].at = "approve", Approved(c, TRUE),
         UNCHANGED <<pinState, u2fState, process, file, known>>
  PROVE  IInv'
  <1> DEFINE claims == IF cmd[c].op \in {"make", "assert"} THEN {"UP", "UV"} ELSE {"UP"}
             flags == cmd[c].flags \union claims
             at(point) == [cmd[c] EXCEPT !.at = point, !.flags = flags, !.faced = TRUE]
  <1>1. cmd[c] \in Commands /\ CmdOK(cmd[c], known[c]) /\ flags \in SUBSET {"UP", "UV"}
    BY DEF IInv, CmdsOK, Commands
  <1>2. ASSUME NEW point \in {"export", "count"}, Become(c, at(point)), UNCHANGED signature PROVE IInv'
    <2>1. CmdOK(at(point), known[c]) /\ at(point).at = point
      BY <1>1 DEF CmdOK, Commands, Points, PinPoints
    <2>2. point \notin PinPoints
      BY DEF PinPoints
    <2> QED
      BY <1>2, <2>1, <2>2, PrivateIInv
  <1>3. ASSUME Sign(c, flags, TRUE) PROVE IInv'
    <2>1. FlagsEarned' /\ Become(c, Idle)
          /\ signature' \in Signatures
      BY <1>1, <1>3, SignOK DEF IInv
    <2>2. CmdsOK' /\ \A d \in Channels : cmd'[d] = IF d = c THEN Idle ELSE cmd[d]
      BY <2>1, BecomeOK, IdleFacts DEF IInv, CmdsOK
    <2>3. Serial'
      BY <2>2, SerialKept, IdleFacts DEF IInv, pinState, PinPoints
    <2> QED
      BY <2>1, <2>2, <2>3 DEF IInv, Rest, pinState, u2fState, process
  <1> QED
    BY <1>2, <1>3 DEF Approved

LEMMA CheckIInv ==
  ASSUME IInv, NEW c \in Channels, Matched(c) \/ Denied(c) \/ TimedOut(c) \/ Held(c) \/ LetsGo(c)
  PROVE  IInv'
  <1>1. CASE Matched(c)
    BY <1>1, ApprovedOK DEF Matched, At
  <1>2. CASE Denied(c) \/ TimedOut(c) \/ LetsGo(c)
    <2>1. Become(c, Idle) /\ UNCHANGED <<pinState, u2fState, process, file, known, signature>>
      BY <1>2 DEF Denied, TimedOut, LetsGo, Answer
    <2>2. CmdOK(Idle, known[c]) /\ Idle.at \notin PinPoints
      BY IdleFacts DEF IInv, CmdsOK, PinPoints
    <2> QED
      BY <2>1, <2>2, PrivateIInv
  <1>3. CASE Held(c)
    <2> DEFINE r == [cmd[c] EXCEPT !.at = "held"]
    <2>1. cmd[c] \in Commands /\ CmdOK(cmd[c], known[c])
      BY DEF IInv, CmdsOK
    <2>2. CmdOK(r, known[c]) /\ r.at = "held"
      BY <2>1 DEF CmdOK, Commands, Points, PinPoints
    <2>3. r.at \notin PinPoints
      BY <2>2 DEF PinPoints
    <2> QED
      BY <1>3, <2>2, <2>3, PrivateIInv DEF Held, Goto
  <1> QED
    BY <1>1, <1>2, <1>3

\* A signature at the end of a command that leaves the retry counter alone.
LEMMA SignIInv ==
  ASSUME IInv, NEW c \in Channels, Sign(c, cmd[c].flags, cmd[c].faced),
         UNCHANGED <<pinState, known>>
  PROVE  /\ CmdsOK' /\ Serial' /\ FlagsEarned'
         /\ signature' \in Signatures
  <1>1. cmd[c] \in Commands /\ CmdOK(cmd[c], known[c])
    BY DEF IInv, CmdsOK
  <1>2. cmd[c].flags \in SUBSET {"UP", "UV"} /\ cmd[c].faced \in BOOLEAN
    BY <1>1 DEF Commands
  <1>3. FlagsEarned' /\ Become(c, Idle)
        /\ signature' \in Signatures
    BY <1>1, <1>2, SignOK DEF IInv, CmdOK
  <1>4. CmdsOK' /\ \A d \in Channels : cmd'[d] = IF d = c THEN Idle ELSE cmd[d]
    BY <1>3, BecomeOK, IdleFacts DEF IInv, CmdsOK
  <1>5. Serial'
    BY <1>4, SerialKept, IdleFacts DEF IInv, pinState, PinPoints
  <1> QED
    BY <1>3, <1>4, <1>5

LEMMA SaveIInv ==
  ASSUME IInv, NEW c \in Channels, Export(c) \/ Write(c)
  PROVE  IInv'
  <1>1. cmd[c] \in Commands /\ CmdOK(cmd[c], known[c]) /\ cmd[c].data \in State
    BY DEF IInv, CmdsOK, Commands
  <1>2. CASE Export(c)
    <2> DEFINE r == [cmd[c] EXCEPT !.at = "write", !.data = [pin |-> pin, counter |-> counter]]
    <2>1. [pin |-> pin, counter |-> counter] \in State
      BY DEF IInv, Rest, State
    <2>2. r \in Commands /\ r.at = "write" /\ r.flags = cmd[c].flags /\ r.faced = cmd[c].faced
          /\ r.op = cmd[c].op /\ r.want = cmd[c].want
      BY <1>1, <2>1 DEF Commands, Points
    <2>3. CmdOK(r, known[c]) /\ r.at \notin PinPoints
      BY <1>1, <2>2 DEF CmdOK, PinPoints
    <2>4. Become(c, r) /\ UNCHANGED <<pinState, u2fState, process, file, known, signature>>
      BY <1>2 DEF Export
    <2> QED
      BY <2>3, <2>4, PrivateIInv
  <1>3. CASE Write(c)
    <2>1. UNCHANGED <<pinState, u2fState, process, known>> /\ file' \in State
      BY <1>1, <1>3 DEF Write
    <2>2. CASE Sign(c, cmd[c].flags, cmd[c].faced)
      <3>1. /\ CmdsOK' /\ Serial' /\ FlagsEarned'
            /\ signature' \in Signatures
        BY <2>1, <2>2, SignIInv
      <3> QED
        BY <2>1, <3>1 DEF IInv, Rest, pinState, u2fState, process
    <2>3. CASE Answer(c)
      <3>1. CmdsOK' /\ FlagsEarned' /\ signature' = signature
            /\ \A d \in Channels : cmd'[d] = IF d = c THEN Idle ELSE cmd[d]
        BY <2>1, <2>3, AnswerOK
      <3>2. Serial'
        BY <2>1, <3>1, SerialKept, IdleFacts DEF IInv, pinState, PinPoints
      <3> QED
        BY <2>1, <3>1, <3>2 DEF IInv, Rest, pinState, u2fState, process
    <2>4. CASE Become(c, [cmd[c] EXCEPT !.at = "approve", !.data = Fresh]) /\ UNCHANGED signature
      <3> DEFINE r == [cmd[c] EXCEPT !.at = "approve", !.data = Fresh]
      <3>0. r \in Commands /\ r.at = "approve" /\ r.flags = cmd[c].flags /\ r.faced = cmd[c].faced
            /\ r.op = cmd[c].op /\ r.want = cmd[c].want
        BY <1>1, FreshFact DEF Commands, Points
      <3>1. CmdOK(r, known[c]) /\ r.at \notin PinPoints
        BY <1>1, <3>0 DEF CmdOK, PinPoints
      <3>2. CmdsOK' /\ \A d \in Channels : cmd'[d] = IF d = c THEN r ELSE cmd[d]
        BY <2>1, <2>4, <3>1, BecomeOK DEF IInv
      <3>3. Serial'
        BY <2>1, <3>1, <3>2, SerialKept DEF IInv, pinState
      <3> QED
        BY <2>1, <2>4, <3>2, <3>3 DEF IInv, Rest, FlagsEarned, pinState, u2fState, process
    <2> QED
      BY <1>3, <2>2, <2>3, <2>4 DEF Write
  <1> QED
    BY <1>2, <1>3

-----------------------------------------------------------------------------
(* The U2F counter. *)

LEMMA NumberIInv ==
  ASSUME IInv, NEW c \in Channels, TakeNumber(c) \/ BumpNumber(c)
  PROVE  IInv'
  <1>1. cmd[c] \in Commands /\ CmdOK(cmd[c], known[c])
    BY DEF IInv, CmdsOK
  <1>2. CASE TakeNumber(c)
    <2> DEFINE r == [cmd[c] EXCEPT !.at = "bump", !.read = counter]
    <2>1. counter \in Nat /\ counter \in 1 .. MaxNumbers /\ counter + 1 \in 1 .. MaxNumbers
      BY <1>2, CtapAssumption DEF TakeNumber, IInv, Rest
    <2>2. r.at = "bump" /\ r.read = counter /\ r \in Commands
      BY <1>1, <2>1 DEF Commands, Points
    <2>3. CmdOK(r, known[c]) /\ r.at \notin PinPoints
      BY <1>1, <2>1, <2>2 DEF CmdOK, PinPoints, Commands
    <2>4. CmdsOK' /\ \A d \in Channels : cmd'[d] = IF d = c THEN r ELSE cmd[d]
      BY <1>2, <2>3, BecomeOK DEF TakeNumber, IInv
    <2>5. Serial'
      BY <1>2, <2>3, <2>4, SerialKept DEF TakeNumber, IInv, pinState
    <2>6. rewound' \in BOOLEAN
      BY <1>2 DEF TakeNumber
    <2> QED
      BY <1>2, <2>4, <2>5, <2>6 DEF TakeNumber, IInv, Rest, FlagsEarned, pinState, process
  <1>3. CASE BumpNumber(c)
    <2>1. /\ CmdsOK' /\ Serial' /\ FlagsEarned'
          /\ signature' \in Signatures
      BY <1>3, SignIInv DEF BumpNumber
    <2>2. counter' \in 1 .. MaxNumbers /\ issued' \subseteq 1 .. MaxNumbers
      BY <1>1, <1>3 DEF BumpNumber, At, CmdOK, IInv, Rest
    <2> QED
      BY <1>3, <2>1, <2>2 DEF BumpNumber, IInv, Rest, pinState, process
  <1> QED
    BY <1>2, <1>3

-----------------------------------------------------------------------------
(* The PIN. *)

\* A command comes to the retry counter: alone, or the overlap is noted.
LEMMA EnterIInv ==
  ASSUME IInv, NEW c \in Channels, At(c, "idle"), NEW r, Become(c, r), CmdOK(r, known[c]),
         r.at \in {"spend", "reset"}, Race(c),
         UNCHANGED <<pin, retries, used, u2fState, process, file, known, signature>>
  PROVE  IInv'
  <1>1. CmdsOK' /\ \A d \in Channels : cmd'[d] = IF d = c THEN r ELSE cmd[d]
    BY BecomeOK DEF IInv
  <1>2. raced' \in BOOLEAN /\ (~raced' => ~raced /\ \A d \in Channels \ {c} : cmd[d].at \notin PinPoints)
    BY DEF Race, IInv, Rest
  <1>3. Serial'
    BY <1>1, <1>2 DEF Serial, IInv, PinPoints
  <1> QED
    BY <1>1, <1>2, <1>3 DEF IInv, Rest, FlagsEarned, u2fState, process

LEMMA PinRequestIInv ==
  ASSUME IInv, NEW c \in Channels,
         \/ \E want \in Pins : SetPin(c, want)
         \/ \E try \in Pins \union {NoPin} :
              \/ TryPin(c, "token", try, NoPin)
              \/ \E want \in Pins \union {Short} : TryPin(c, "change", try, want)
  PROVE  IInv'
  <1> USE IdleFacts
  <1>1. ASSUME NEW want \in Pins, SetPin(c, want) PROVE IInv'
    <2> DEFINE r == [Idle EXCEPT !.op = "set", !.at = "reset", !.want = want]
    <2>1. CmdOK(r, known[c]) /\ r.at \in {"spend", "reset"}
      BY DEF CmdOK, Commands, Points, PinPoints, Idle
    <2> QED
      BY <1>1, <2>1, EnterIInv DEF SetPin
  <1>2. ASSUME NEW try \in Pins \union {NoPin}, NEW o \in {"token", "change"},
               NEW want \in Pins \union {NoPin, Short}, o = "change" => want \in Pins \union {Short},
               TryPin(c, o, try, want)
        PROVE  IInv'
    <2> DEFINE r == [Idle EXCEPT !.op = o, !.at = "spend", !.try = try, !.want = want]
    <2>1. CmdOK(r, known[c]) /\ r.at \in {"spend", "reset"}
      BY <1>2 DEF CmdOK, Commands, Points, PinPoints, Idle
    <2> QED
      BY <1>2, <2>1, EnterIInv DEF TryPin
  <1> QED
    BY <1>1, <1>2

LEMMA PinRunIInv ==
  ASSUME IInv, NEW c \in Channels,
         Reset(c) \/ StorePin(c) \/ Spend(c) \/ Spent(c) \/ WrongPin(c)
  PROVE  IInv'
  <1>1. cmd[c] \in Commands /\ CmdOK(cmd[c], known[c])
    BY DEF IInv, CmdsOK
  <1>2. CASE Reset(c)
    <2> DEFINE r == [cmd[c] EXCEPT !.at = "store"]
    <2>1. CmdOK(r, known[c]) /\ r.at = "store"
      BY <1>1, <1>2 DEF Reset, At, CmdOK, Commands, Points
    <2>2. CmdsOK' /\ \A d \in Channels : cmd'[d] = IF d = c THEN r ELSE cmd[d]
      BY <1>2, <2>1, BecomeOK DEF Reset, Goto, IInv
    <2>3. cmd[c].at \in PinPoints /\ r.at \notin PinPoints
      BY <1>2, <2>1 DEF Reset, At, PinPoints
    <2>4. ~raced => \A d \in Channels \ {c} : cmd[d].at \notin PinPoints
      BY <2>3 DEF IInv, Serial
    <2>5. Serial'
      <3>1. retries' = Tries /\ used' = 0 /\ raced' = raced
        BY <1>2 DEF Reset
      <3>2. ~raced => \A d \in Channels : cmd'[d].at \notin PinPoints
        BY <2>2, <2>3, <2>4
      <3> QED
        BY <3>1, <3>2, CtapAssumption DEF Serial, PinPoints
    <2> QED
      BY <1>2, <2>2, <2>5 DEF Reset, IInv, Rest, FlagsEarned, u2fState, process
  <1>3. CASE StorePin(c)
    <2> DEFINE r == [cmd[c] EXCEPT !.at = "export", !.try = NoPin, !.want = NoPin]
    <2>1. CmdOK(r, known[c]) /\ r.at = "export"
      BY <1>1 DEF CmdOK, Commands, Points, PinPoints
    <2>2. CmdsOK' /\ \A d \in Channels : cmd'[d] = IF d = c THEN r ELSE cmd[d]
      BY <1>3, <2>1, BecomeOK DEF StorePin, IInv
    <2>3. Serial'
      BY <1>3, <2>1, <2>2, SerialKept DEF StorePin, IInv, PinPoints
    <2>4. pin' \in Pins
      BY <1>1, <1>3 DEF StorePin, At, CmdOK
    <2> QED
      BY <1>3, <2>2, <2>3, <2>4 DEF StorePin, IInv, Rest, FlagsEarned, u2fState, process
  <1>4. CASE Spend(c)
    <2>1. CASE retries > 0
      <3> DEFINE r == [cmd[c] EXCEPT !.at = "spent", !.read = retries]
      <3>1. retries \in 1 .. Tries /\ retries \in Nat
        BY <2>1, CtapAssumption DEF IInv, Serial
      <3>2. r \in Commands /\ r.at = "spent" /\ r.read = retries
        BY <1>1, <3>1 DEF Commands, Points, PinPoints
      <3>3. CmdOK(r, known[c])
        <4>1. r.flags = cmd[c].flags /\ r.faced = cmd[c].faced /\ r.op = cmd[c].op /\ r.want = cmd[c].want
          BY <1>1 DEF Commands
        <4>2. cmd[c].at \in PinPoints
          BY <1>4 DEF Spend, At, PinPoints
        <4> QED
          BY <1>1, <3>1, <3>2, <4>1, <4>2 DEF CmdOK
      <3>4. CmdsOK' /\ \A d \in Channels : cmd'[d] = IF d = c THEN r ELSE cmd[d]
        BY <1>4, <2>1, <3>3, BecomeOK DEF Spend, IInv
      <3>5. cmd[c].at \in PinPoints
        BY <1>4 DEF Spend, At, PinPoints
      <3>6. Serial'
        BY <1>4, <3>2, <3>4, <3>5 DEF Spend, IInv, Serial, pinState
      <3> QED
        BY <1>4, <2>1, <3>4, <3>6 DEF Spend, IInv, Rest, FlagsEarned, pinState, u2fState
    <2>2. CASE ~(retries > 0)
      BY <1>4, <2>2, EndsIInv DEF Spend
    <2> QED
      BY <2>1, <2>2
  <1>5. CASE Spent(c)
    <2> DEFINE r == [cmd[c] EXCEPT !.at = "compare", !.read = 0]
    <2>1. cmd[c].read \in 1 .. Tries /\ cmd[c].at \in PinPoints
      BY <1>1, <1>5 DEF Spent, At, CmdOK, PinPoints
    <2>2. CmdOK(r, known[c]) /\ r.at = "compare"
      <3>1. r \in Commands /\ r.at = "compare" /\ r.flags = cmd[c].flags /\ r.faced = cmd[c].faced
            /\ r.op = cmd[c].op /\ r.want = cmd[c].want
        BY <1>1 DEF Commands, Points, PinPoints
      <3> QED
        BY <1>1, <2>1, <3>1 DEF CmdOK
    <2>3. CmdsOK' /\ \A d \in Channels : cmd'[d] = IF d = c THEN r ELSE cmd[d]
      BY <1>5, <2>2, BecomeOK DEF Spent, IInv
    <2>4. retries' \in 0 .. Tries
      BY <1>5, <2>1, CtapAssumption DEF Spent
    <2>5. ASSUME ~raced
          PROVE  /\ \A d \in Channels \ {c} : cmd[d].at \notin PinPoints
                 /\ retries' = retries - 1 /\ used' = used + 1
                 /\ retries + used = Tries /\ retries >= 1
      BY <1>5, <2>1, <2>5 DEF Spent, At, IInv, Serial
    <2>6. used' \in 0 .. Tries
      <3>1. CASE raced
        BY <1>5, <3>1 DEF Spent, IInv, Serial
      <3>2. CASE ~raced
        BY <2>5, <3>2, CtapAssumption DEF IInv, Serial
      <3> QED
        BY <3>1, <3>2
    <2>7. Serial'
      <3>1. raced' = raced
        BY <1>5 DEF Spent
      <3>2. ASSUME ~raced
            PROVE  /\ \A d, e \in Channels : cmd'[d].at \in PinPoints /\ cmd'[e].at \in PinPoints => d = e
                   /\ \A d \in Channels : cmd'[d].at = "spent" => cmd'[d].read = retries'
        BY <2>2, <2>3, <2>5, <3>2 DEF PinPoints
      <3>3. ASSUME ~raced PROVE retries' + used' = Tries
        BY <2>5, <3>3, CtapAssumption DEF IInv, Serial
      <3> QED
        BY <2>4, <2>6, <3>1, <3>2, <3>3 DEF Serial
    <2> QED
      BY <1>5, <2>3, <2>7 DEF Spent, IInv, Rest, FlagsEarned, u2fState, process
  <1>6. CASE WrongPin(c)
    <2>1. Become(c, Idle) /\ UNCHANGED <<pinState, u2fState, process, file, known, signature>>
      BY <1>6 DEF WrongPin, Answer
    <2>2. CmdOK(Idle, known[c]) /\ Idle.at \notin PinPoints
      BY IdleFacts DEF IInv, CmdsOK, PinPoints
    <2> QED
      BY <2>1, <2>2, PrivateIInv
  <1> QED
    BY <1>2, <1>3, <1>4, <1>5, <1>6

LEMMA RightPinIInv ==
  ASSUME IInv, NEW c \in Channels, RightPin(c)
  PROVE  IInv'
  <1> DEFINE r == IF cmd[c].op = "change" /\ cmd[c].want # Short
                  THEN [cmd[c] EXCEPT !.at = "store"] ELSE Idle
  <1>1. cmd[c] \in Commands /\ CmdOK(cmd[c], known[c]) /\ cmd[c].at \in PinPoints
    BY DEF IInv, CmdsOK, RightPin, At, PinPoints
  <1>2. cmd' = [cmd EXCEPT ![c] = r] /\ signature' = signature
    BY DEF RightPin, Goto, Become, Answer
  <1>3. \A k \in Given : (known[c] # "no" => k # "no") => CmdOK(r, k)
    <2>1. CASE cmd[c].op = "change" /\ cmd[c].want # Short
      BY <1>1, <2>1 DEF CmdOK, Commands, Points
    <2>2. CASE ~(cmd[c].op = "change" /\ cmd[c].want # Short)
      BY <2>2, IdleFacts
    <2> QED
      BY <2>1, <2>2
  <1>4. r.at \notin PinPoints
    BY IdleFacts, <1>1 DEF PinPoints, Commands
  <1>5. known' \in [Channels -> Given] /\ \A d \in Channels : known[d] # "no" => known'[d] # "no"
    BY DEF RightPin, IInv, CmdsOK, Given
  <1>6. \A d \in Channels : cmd'[d] = IF d = c THEN r ELSE cmd[d]
    BY <1>2 DEF IInv, CmdsOK
  <1>7. r \in Commands
    BY <1>3 DEF CmdOK, IInv, CmdsOK
  <1>8. \A d \in Channels : CmdOK(cmd'[d], known'[d])
    <2> TAKE d \in Channels
    <2>1. CASE d = c
      BY <1>3, <1>5, <1>6, <2>1
    <2>2. CASE d # c
      BY <1>5, <1>6, <2>2 DEF IInv, CmdsOK, CmdOK
    <2> QED
      BY <2>1, <2>2
  <1>9. CmdsOK'
    <2>1. cmd' \in [Channels -> Commands]
      BY <1>2, <1>7 DEF IInv, CmdsOK
    <2> QED
      BY <1>5, <1>8, <2>1 DEF CmdsOK
  <1>10. ~raced => \A d \in Channels \ {c} : cmd[d].at \notin PinPoints
    BY <1>1 DEF IInv, Serial
  <1>11. Serial'
    <2>1. retries' = Tries /\ used' = 0 /\ raced' = raced
      BY DEF RightPin
    <2>2. ~raced => \A d \in Channels : cmd'[d].at \notin PinPoints
      BY <1>4, <1>6, <1>10
    <2> QED
      BY <2>1, <2>2, CtapAssumption DEF Serial, PinPoints
  <1> QED
    BY <1>2, <1>9, <1>11 DEF RightPin, IInv, Rest, FlagsEarned, u2fState, process

-----------------------------------------------------------------------------
(* The process. *)

LEMMA BootIInv ==
  ASSUME IInv, NEW on \in BOOLEAN, Boot(on)
  PROVE  IInv'
  <1>1. file.pin \in Pins \union {NoPin} /\ file.counter \in 1 .. MaxNumbers
    BY DEF IInv, Rest, State
  <1>2. boots' \in 0 .. MaxBoots /\ rewound' \in BOOLEAN
    BY CtapAssumption DEF Boot, IInv, Rest
  <1>3. \A c \in Channels : cmd'[c] = Idle
    BY DEF Boot
  <1>4. CmdsOK'
    BY IdleFacts DEF Boot, CmdsOK, Given
  <1>5. Serial'
    BY <1>3, IdleFacts, CtapAssumption DEF Boot, Serial, PinPoints
  <1> QED
    BY <1>1, <1>2, <1>4, <1>5 DEF Boot, IInv, Rest, FlagsEarned

LEMMA NextIInv == IInv /\ [Next]_vars => IInv'
  <1> SUFFICES ASSUME IInv, [Next]_vars PROVE IInv'
    OBVIOUS
  <1>1. ASSUME NEW c \in Channels, Client(c) PROVE IInv'
    <2>1. CASE Malformed(c)
      BY <2>1, EndsIInv DEF Malformed
    <2>2. CASE RetriesExhausted(c)
      BY <2>2, EndsIInv DEF RetriesExhausted
    <2> QED
      BY <1>1, <2>1, <2>2, RequestIInv, PinRequestIInv DEF Client
  <1>2. ASSUME NEW c \in Channels, Run(c) PROVE IInv'
    BY <1>2, SaveIInv, NumberIInv, PinRunIInv, RightPinIInv DEF Run
  <1>3. CASE Stop
    BY <1>3, EndsIInv DEF Stop
  <1>4. CASE UNCHANGED vars
    <2>1. CmdsOK' /\ Serial'
      BY <1>4, SerialIdle DEF IInv, CmdsOK, vars
    <2> QED
      BY <1>4, <2>1 DEF IInv, Rest, FlagsEarned, vars
  <1> QED
    BY <1>1, <1>2, <1>3, <1>4, CheckIInv, BootIInv DEF Next

\* The strengthened invariant holds in every reachable state.
THEOREM Invariance == Spec => []IInv
  BY InitIInv, NextIInv, PTL DEF Spec

\* The authenticator's state keeps its types.
THEOREM TypeCorrect == Spec => []TypeOK
  <1>1. IInv => TypeOK
    BY DEF IInv, CmdsOK, Serial, Rest, TypeOK
  <1> QED
    BY <1>1, Invariance, PTL

\* No signature claims a presence or a verification that was not performed.
THEOREM FlagsEarnedHolds == Spec => []FlagsEarned
  <1>1. IInv => FlagsEarned
    BY DEF IInv
  <1> QED
    BY <1>1, Invariance, PTL

\* Tries charged and tries left add up as long as PIN commands do not overlap.
THEOREM TriesAddUpHolds == Spec => []TriesAddUp
  <1>1. IInv => TriesAddUp
    BY DEF IInv, Serial, TriesAddUp
  <1> QED
    BY <1>1, Invariance, PTL

-----------------------------------------------------------------------------
(* The numbers of U2F signatures.  Until two commands take the counter at   *)
(* once, or a start finds an older one on file, whoever has taken a number  *)
(* is alone and holds the counter's value, and all numbers issued are below.*)

Alone ==
  ~rewound =>
    /\ \A n \in issued : n < counter
    /\ \A c, d \in Channels : cmd[c].at = "bump" /\ cmd[d].at = "bump" => c = d
    /\ \A c \in Channels : cmd[c].at = "bump" => cmd[c].read = counter

NInv == IInv /\ Alone

\* Steps after which nobody is at the counter who was not there before.
LEMMA AloneKept ==
  ASSUME Alone, UNCHANGED u2fState,
         \A d \in Channels : cmd'[d] = cmd[d] \/ cmd'[d].at # "bump"
  PROVE  Alone'
  <1>1. counter' = counter /\ issued' = issued /\ rewound' = rewound
    BY DEF u2fState
  <1> QED
    BY <1>1 DEF Alone

\* A command that goes elsewhere.
LEMMA AloneAway ==
  ASSUME NInv, NEW c \in Channels, NEW r, Become(c, r), r.at # "bump", UNCHANGED u2fState
  PROVE  Alone'
  <1>1. \A d \in Channels : cmd'[d] = IF d = c THEN r ELSE cmd[d]
    BY DEF NInv, IInv, CmdsOK, Become
  <1> QED
    BY <1>1, AloneKept DEF NInv

LEMMA AloneGoto ==
  ASSUME NInv, NEW c \in Channels, NEW point \in Points \ {"bump"}, Goto(c, point), UNCHANGED u2fState
  PROVE  Alone'
  <1> DEFINE r == [cmd[c] EXCEPT !.at = point]
  <1>1. r.at = point
    BY DEF NInv, IInv, CmdsOK, Commands
  <1> QED
    BY <1>1, AloneAway DEF Goto

LEMMA AloneAnswer ==
  ASSUME NInv, NEW c \in Channels, Become(c, Idle), UNCHANGED u2fState
  PROVE  Alone'
  BY IdleFacts, AloneAway

LEMMA AloneEnds ==
  ASSUME NInv, NEW why, Ends(why), UNCHANGED u2fState
  PROVE  Alone'
  <1>1. \A d \in Channels : cmd'[d].at # "bump"
    BY IdleFacts DEF Ends
  <1> QED
    BY <1>1, AloneKept DEF NInv

LEMMA AloneClient ==
  ASSUME NInv, NEW c \in Channels, Client(c)
  PROVE  Alone'
  <1>1. ASSUME NEW r, Become(c, r), r.at # "bump", UNCHANGED u2fState
        PROVE  Alone'
    BY <1>1, AloneAway
  <1>2. ASSUME NEW auth, MakeCredential(c, auth) PROVE Alone'
    BY <1>1, <1>2 DEF MakeCredential, Idle
  <1>3. ASSUME NEW auth, NEW silent, GetAssertion(c, auth, silent) PROVE Alone'
    BY <1>1, <1>3 DEF GetAssertion, Idle
  <1>4. CASE Register(c)
    BY <1>1, <1>4 DEF Register, Idle
  <1>5. CASE Authenticate(c) \/ AuthenticateUnenforced(c)
    BY <1>1, <1>5 DEF Authenticate, AuthenticateUnenforced, Idle
  <1>6. CASE RetriesExhausted(c) \/ Malformed(c)
    BY <1>6, AloneEnds DEF RetriesExhausted, Malformed
  <1>7. ASSUME NEW want, SetPin(c, want) PROVE Alone'
    BY <1>1, <1>7 DEF SetPin, Idle
  <1>8. ASSUME NEW o, NEW try, NEW want, TryPin(c, o, try, want) PROVE Alone'
    BY <1>1, <1>8 DEF TryPin, Idle
  <1> QED
    BY <1>2, <1>3, <1>4, <1>5, <1>6, <1>7, <1>8 DEF Client

LEMMA AloneCheck ==
  ASSUME NInv, NEW c \in Channels, Matched(c) \/ Denied(c) \/ TimedOut(c) \/ Held(c) \/ LetsGo(c)
  PROVE  Alone'
  <1>1. CASE Matched(c)
    <2> DEFINE claims == IF cmd[c].op \in {"make", "assert"} THEN {"UP", "UV"} ELSE {"UP"}
               r(point) == [cmd[c] EXCEPT !.at = point,
                              !.flags = cmd[c].flags \union claims, !.faced = TRUE]
    <2>1. \A point \in {"export", "count"} : r(point).at = point
      BY DEF NInv, IInv, CmdsOK, Commands
    <2>2. Become(c, r("export")) \/ Become(c, r("count")) \/ Become(c, Idle)
      BY <1>1 DEF Matched, Approved, Sign
    <2>3. UNCHANGED u2fState
      BY <1>1 DEF Matched
    <2> QED
      BY <2>1, <2>2, <2>3, AloneAway, AloneAnswer
  <1>2. CASE Denied(c) \/ TimedOut(c) \/ LetsGo(c)
    BY <1>2, AloneAnswer DEF Denied, TimedOut, LetsGo, Answer
  <1>3. CASE Held(c)
    BY <1>3, AloneGoto DEF Held, Points
  <1> QED
    BY <1>1, <1>2, <1>3

LEMMA AloneSave ==
  ASSUME NInv, NEW c \in Channels, Export(c) \/ Write(c)
  PROVE  Alone'
  <1>1. cmd[c] \in Commands
    BY DEF NInv, IInv, CmdsOK
  <1>2. CASE Export(c)
    <2> DEFINE r == [cmd[c] EXCEPT !.at = "write", !.data = [pin |-> pin, counter |-> counter]]
    <2>1. r.at # "bump"
      BY <1>1 DEF Commands
    <2> QED
      BY <1>2, <2>1, AloneAway DEF Export
  <1>3. CASE Write(c)
    <2> DEFINE r == [cmd[c] EXCEPT !.at = "approve", !.data = Fresh]
    <2>1. r.at # "bump"
      BY <1>1 DEF Commands
    <2>2. (Become(c, Idle) \/ Become(c, r)) /\ UNCHANGED u2fState
      BY <1>3 DEF Write, Sign, Answer
    <2> QED
      BY <2>1, <2>2, AloneAway, AloneAnswer
  <1> QED
    BY <1>2, <1>3

LEMMA AloneNumber ==
  ASSUME NInv, NEW c \in Channels, TakeNumber(c) \/ BumpNumber(c)
  PROVE  Alone'
  <1>1. counter \in Nat /\ \A n \in issued : n \in Nat
    BY CtapAssumption DEF NInv, IInv, Rest
  <1>2. CASE TakeNumber(c)
    <2> DEFINE r == [cmd[c] EXCEPT !.at = "bump", !.read = counter]
    <2>1. r.read = counter
      BY DEF NInv, IInv, CmdsOK, Commands
    <2>2. \A d \in Channels : cmd'[d] = IF d = c THEN r ELSE cmd[d]
      BY <1>2 DEF NInv, IInv, CmdsOK, TakeNumber, Become
    <2>3. ~rewound' => ~rewound /\ \A d \in Channels : cmd[d].at # "bump"
      BY <1>2 DEF TakeNumber
    <2>4. counter' = counter /\ issued' = issued
      BY <1>2 DEF TakeNumber
    <2> QED
      BY <2>1, <2>2, <2>3, <2>4 DEF NInv, Alone
  <1>3. CASE BumpNumber(c)
    <2>1. \A d \in Channels : cmd'[d] = IF d = c THEN Idle ELSE cmd[d]
      BY <1>3 DEF NInv, IInv, CmdsOK, BumpNumber, Sign, Become
    <2>2. Idle.at # "bump"
      BY IdleFacts
    <2>3. ASSUME ~rewound
          PROVE  /\ counter' = counter + 1 /\ issued' = issued \union {counter}
                 /\ \A d \in Channels : cmd'[d].at # "bump"
      <3>1. cmd[c].at = "bump" /\ cmd[c].read = counter
        BY <1>3, <2>3 DEF BumpNumber, At, NInv, Alone
      <3>2. \A d \in Channels : cmd[d].at = "bump" => d = c
        BY <2>3, <3>1 DEF NInv, Alone
      <3> QED
        BY <1>3, <2>1, <2>2, <3>1, <3>2 DEF BumpNumber
    <2>4. rewound' = rewound
      BY <1>3 DEF BumpNumber
    <2>5. ASSUME ~rewound PROVE \A n \in issued' : n < counter'
      BY <1>1, <2>3, <2>5 DEF NInv, Alone
    <2> QED
      BY <2>3, <2>4, <2>5 DEF Alone
  <1> QED
    BY <1>2, <1>3

LEMMA AlonePin ==
  ASSUME NInv, NEW c \in Channels,
         Reset(c) \/ StorePin(c) \/ Spend(c) \/ Spent(c) \/ WrongPin(c) \/ RightPin(c)
  PROVE  Alone'
  <1>1. cmd[c] \in Commands
    BY DEF NInv, IInv, CmdsOK
  <1>2. CASE Reset(c)
    BY <1>2, AloneGoto DEF Reset, Points, PinPoints
  <1>3. CASE StorePin(c)
    <2> DEFINE r == [cmd[c] EXCEPT !.at = "export", !.try = NoPin, !.want = NoPin]
    <2>1. r.at # "bump"
      BY <1>1 DEF Commands
    <2> QED
      BY <1>3, <2>1, AloneAway DEF StorePin
  <1>4. CASE Spend(c)
    <2> DEFINE r == [cmd[c] EXCEPT !.at = "spent", !.read = retries]
    <2>1. r.at # "bump"
      BY <1>1 DEF Commands
    <2>2. Become(c, r) \/ Ends("retries")
      BY <1>4 DEF Spend
    <2>3. UNCHANGED u2fState
      BY <1>4 DEF Spend
    <2> QED
      BY <2>1, <2>2, <2>3, AloneAway, AloneEnds
  <1>5. CASE Spent(c)
    <2> DEFINE r == [cmd[c] EXCEPT !.at = "compare", !.read = 0]
    <2>1. r.at # "bump"
      BY <1>1 DEF Commands
    <2> QED
      BY <1>5, <2>1, AloneAway DEF Spent
  <1>6. CASE WrongPin(c)
    BY <1>6, AloneAnswer DEF WrongPin, Answer
  <1>7. CASE RightPin(c)
    <2>1. (Goto(c, "store") \/ Become(c, Idle)) /\ UNCHANGED u2fState
      BY <1>7 DEF RightPin, Answer
    <2> QED
      BY <2>1, AloneGoto, AloneAnswer DEF Points, PinPoints
  <1> QED
    BY <1>2, <1>3, <1>4, <1>5, <1>6, <1>7

LEMMA AloneBoot ==
  ASSUME NInv, NEW on \in BOOLEAN, Boot(on)
  PROVE  Alone'
  <1>1. ~rewound' => ~rewound /\ counter' = counter
    BY DEF Boot
  <1>2. \A c \in Channels : cmd'[c].at # "bump"
    BY IdleFacts DEF Boot
  <1>3. issued' = issued
    BY DEF Boot
  <1> QED
    BY <1>1, <1>2, <1>3 DEF NInv, Alone

LEMMA InitNInv == Init => NInv
  <1> SUFFICES ASSUME Init PROVE Alone
    BY InitIInv DEF NInv
  <1> QED
    BY IdleFacts DEF Init, Alone

LEMMA NextNInv == NInv /\ [Next]_vars => NInv'
  <1> SUFFICES ASSUME NInv, [Next]_vars PROVE Alone'
    BY NextIInv DEF NInv
  <1>1. ASSUME NEW c \in Channels, Run(c) PROVE Alone'
    BY <1>1, AloneSave, AloneNumber, AlonePin DEF Run
  <1>2. CASE Stop
    BY <1>2, AloneEnds DEF Stop
  <1>3. CASE UNCHANGED vars
    BY <1>3, AloneKept DEF NInv, vars, u2fState
  <1> QED
    BY <1>1, <1>2, <1>3, AloneClient, AloneCheck, AloneBoot DEF Next

\* Whoever has taken a U2F number holds it alone, and all that were signed are
\* below it, until two take one at once or a start finds an older counter.
THEOREM NumbersInOrder == Spec => []NInv
  BY InitNInv, NextNInv, PTL DEF Spec

\* A U2F number is signed a second time only with one of those excuses.
THEOREM NumbersRepeatOnlyExcusedHolds == Spec => NumbersRepeatOnlyExcused
  <1>1. ASSUME NInv, NEW c \in Channels, At(c, "bump")
        PROVE  cmd[c].read \notin issued \/ rewound
    <2>1. counter \in Nat /\ \A n \in issued : n \in Nat
      BY <1>1, CtapAssumption DEF NInv, IInv, Rest
    <2>2. ASSUME ~rewound PROVE cmd[c].read = counter /\ \A n \in issued : n < counter
      BY <1>1, <2>2 DEF NInv, Alone, At
    <2> QED
      BY <2>1, <2>2
  <1>2. NInv /\ [Next]_vars =>
          [\A c \in Channels : At(c, "bump") /\ cmd'[c] = Idle /\ up'
             => cmd[c].read \notin issued \/ rewound]_vars
    BY <1>1
  <1> QED
    BY <1>2, NumbersInOrder, PTL DEF Spec, NumbersRepeatOnlyExcused
=============================================================================
