----------------------------- MODULE CtapServer -----------------------------
(***************************************************************************)
(* What a finished message makes the authenticator do: ctap.go and u2f.go  *)
(* with the user verification of approver.go and the PIN and the U2F       *)
(* counter of fido_client.go.  Every CTAP HID channel runs one command at  *)
(* a time (CtapHid); commands of different channels run side by side on    *)
(* the one DefaultFIDOClient, which has no lock.                           *)
(*                                                                         *)
(* Each step touches the shared fields once.  Which credential is made or  *)
(* found, and what a save can lose or tear, is VaultStore's subject: here  *)
(* a save is the PIN and the U2F counter exported, then written.  Commands *)
(* that change nothing (GetInfo, Version, an empty or unknown command,     *)
(* getKeyAgreement) are left out.                                          *)
(***************************************************************************)
EXTENDS Naturals

CONSTANTS Channels,   \* the data channels of CTAP HID
          Pins,       \* the PINs a client may try or set
          NoPin,      \* pinHash is nil
          Served,     \* the commands the clients of a run send
          Tries,      \* pinRetries after a right PIN (8 in the code)
          MaxNumbers, \* bound on the U2F counter
          MaxBoots    \* bound on the times the process is started again

ASSUME CtapAssumption ==
  /\ NoPin \notin Pins
  /\ Tries \in Nat \ {0}
  /\ MaxNumbers \in Nat \ {0}
  /\ MaxBoots \in Nat

VARIABLES
  enabled,   \* pinEnabled
  pin,       \* pinHash
  retries,   \* pinRetries
  counter,   \* authenticationCounter
  file,      \* the PIN and the counter in the vault file
  cmd,       \* the command each channel runs
  up,        \* the process runs
  cause,     \* what has ended it
  boots,     \* times it was started again
  \* History the properties read:
  known,     \* what the client of the channel was given the pinToken of this
             \* run for: "no" (not given), "pin" (the PIN), "free" (see RightPin)
  used,      \* tries charged since the retry counter was reset
  raced,     \* two PIN commands have overlapped in this run
  issued,    \* U2F counter values put under signatures
  rewound,   \* two took the counter at once, or it came back older from the file
  signature  \* the last one made: what it claims, and what that rests on

vars == <<enabled, pin, retries, counter, file, cmd, up, cause, boots,
          known, used, raced, issued, rewound, signature>>

pinState == <<pin, retries, used, raced>>
u2fState == <<counter, issued, rewound>>
process  == <<enabled, up, cause, boots>>

Short == "short"   \* a PIN below four bytes

\* A command that is between its first and last access to the retry counter.
PinPoints == {"spend", "spent", "compare", "reset"}
Points    == {"idle", "approve", "held", "export", "write", "count", "bump", "store"} \union PinPoints

State == [pin : Pins \union {NoPin}, counter : 1 .. MaxNumbers]

\* at and op say how far the command is and which; try and want are the PINs
\* it carries; read and data are the value it works on and the state it has
\* exported; flags what it claims under its signature; faced is history: a
\* face was matched in time for it.
Fresh == [pin |-> NoPin, counter |-> 1]
Idle  == [at |-> "idle", op |-> "none", try |-> NoPin, want |-> NoPin, read |-> 0,
          data |-> Fresh, flags |-> {}, faced |-> FALSE]

Init ==
  /\ enabled \in BOOLEAN
  /\ pin = NoPin
  /\ retries = Tries
  /\ counter = 1
  /\ file = Fresh
  /\ cmd = [c \in Channels |-> Idle]
  /\ up = TRUE
  /\ cause = "none"
  /\ boots = 0
  /\ known = [c \in Channels |-> "no"]
  /\ used = 0
  /\ raced = FALSE
  /\ issued = {}
  /\ rewound = FALSE
  /\ signature = [flags |-> {}, by |-> "no"]

At(c, point) == up /\ cmd[c].at = point

Become(c, r)  == cmd' = [cmd EXCEPT ![c] = r]
Goto(c, point) == Become(c, [cmd[c] EXCEPT !.at = point])

\* The command is answered without a signature, or with one.
Answer(c) == Become(c, Idle) /\ UNCHANGED signature
Sign(c, flags, faced) ==
  /\ Become(c, Idle)
  /\ signature' = [flags |-> flags,
                   by |-> IF faced THEN "face"
                          ELSE IF cmd[c].op = "unenforced" THEN "waiver" ELSE known[c]]

\* The process ends, by a panic on the goroutine of a message for instance, and
\* all commands with it.
Ends(why) ==
  /\ up' = FALSE
  /\ cause' = why
  /\ cmd' = [c \in Channels |-> Idle]
  /\ known' = [c \in Channels |-> "no"]

-----------------------------------------------------------------------------
(* The first step of a command: decode, check, refuse. *)

\* What the PIN parameter of a request makes of it.  One that checks out takes
\* the pinToken of this run.
Admitted(c, o, auth) ==
  \/ ~enabled
  \/ auth = "good" /\ known[c] # "no"
  \/ auth = "none" /\ (o = "make" => pin = NoPin)

Earned(auth) == IF enabled /\ auth = "good" THEN {"UV"} ELSE {}

\* handleMakeCredential asks for approval, unless the algorithm is unsupported
\* or the PIN parameter will not do.
MakeCredential(c, auth) ==
  /\ At(c, "idle")
  /\ Admitted(c, "make", auth)
  /\ Become(c, [Idle EXCEPT !.op = "make", !.at = "approve", !.flags = Earned(auth)])
  /\ UNCHANGED <<pinState, u2fState, process, file, known, signature>>

\* handleGetAssertion finds the source, counts it up and saves.  With up=false
\* nobody will be asked.
GetAssertion(c, auth, silent) ==
  /\ At(c, "idle")
  /\ Admitted(c, "assert", auth)
  /\ Become(c, [Idle EXCEPT !.op = IF silent THEN "silent" ELSE "assert",
                            !.at = "export", !.flags = Earned(auth)])
  /\ UNCHANGED <<pinState, u2fState, process, file, known, signature>>

Register(c) ==
  /\ At(c, "idle")
  /\ Become(c, [Idle EXCEPT !.op = "register", !.at = "approve"])
  /\ UNCHANGED <<pinState, u2fState, process, file, known, signature>>

\* handleU2FAuthenticate with a handle that opens; check-only is refused.
Authenticate(c) ==
  /\ At(c, "idle")
  /\ Become(c, [Idle EXCEPT !.op = "authenticate", !.at = "approve"])
  /\ UNCHANGED <<pinState, u2fState, process, file, known, signature>>

\* u2f_AUTH_CONTROL_SIGN: nobody is asked, and presence is signed all the same.
AuthenticateUnenforced(c) ==
  /\ At(c, "idle")
  /\ Become(c, [Idle EXCEPT !.op = "unenforced", !.at = "count", !.flags = {"UP"}])
  /\ UNCHANGED <<pinState, u2fState, process, file, known, signature>>

\* handleMakeCredential cannot decode its CBOR (CheckErr), a U2F message is
\* cut short, or getPINToken comes without a key: a panic.
Malformed(c) ==
  /\ At(c, "idle")
  /\ Ends("malformed")
  /\ UNCHANGED <<enabled, boots, pinState, u2fState, file, signature>>

-----------------------------------------------------------------------------
(* verify of approver.go, on the goroutine of the command. *)

\* Where an approved command goes on: NewCredentialSource saves, U2F counts; and
\* what it claims from now on, CTAP2 in authData, U2F by its response.
Approved(c, faced) ==
  LET claims == IF cmd[c].op \in {"make", "assert"} THEN {"UP", "UV"} ELSE {"UP"}
      flags == cmd[c].flags \union claims
      on(point) == /\ Become(c, [cmd[c] EXCEPT !.at = point, !.flags = flags, !.faced = faced])
                   /\ UNCHANGED signature
  IN CASE cmd[c].op = "make"         -> on("export")
       [] cmd[c].op = "authenticate" -> on("count")
       [] OTHER                      -> Sign(c, flags, faced)

\* pamtester succeeds within howdyVerifyTimeout.
Matched(c) ==
  /\ At(c, "approve")
  /\ Approved(c, TRUE)
  /\ UNCHANGED <<pinState, u2fState, process, file, known>>

\* pamtester fails or cannot be run.
Denied(c) ==
  /\ At(c, "approve")
  /\ Answer(c)
  /\ UNCHANGED <<pinState, u2fState, process, file, known>>

\* Mutant: the result of the killed check counts.
TimedOutTrusts(c) ==
  /\ At(c, "approve")
  /\ Approved(c, FALSE)
  /\ UNCHANGED <<pinState, u2fState, process, file, known>>

\* Mutant: the check is run without a deadline.
TimedOutNever(c) ==
  /\ At(c, "approve")
  /\ FALSE
  /\ Answer(c)
  /\ UNCHANGED <<pinState, u2fState, process, file, known>>

\* The deadline passes first: denied, whatever the killed check returned.
TimedOut(c) ==
  /\ At(c, "approve")
  /\ Answer(c)
  /\ UNCHANGED <<pinState, u2fState, process, file, known>>

\* The deadline passes, or pamtester ends, but a process it has started lives
\* on and holds its output: CombinedOutput, without a WaitDelay, waits for it,
\* past the deadline.
Held(c) ==
  /\ At(c, "approve")
  /\ Goto(c, "held")
  /\ UNCHANGED <<pinState, u2fState, process, file, known, signature>>

\* It lets go of it at last: denied, the deadline has passed.
LetsGo(c) ==
  /\ At(c, "held")
  /\ Answer(c)
  /\ UNCHANGED <<pinState, u2fState, process, file, known>>

-----------------------------------------------------------------------------
(* saveData, and how the commands that save go on. *)

Export(c) ==
  /\ At(c, "export")
  /\ Become(c, [cmd[c] EXCEPT !.at = "write", !.data = [pin |-> pin, counter |-> counter]])
  /\ UNCHANGED <<pinState, u2fState, process, file, known, signature>>

Write(c) ==
  /\ At(c, "write")
  /\ file' = cmd[c].data
  /\ CASE cmd[c].op \in {"make", "silent"} -> Sign(c, cmd[c].flags, cmd[c].faced)
       [] cmd[c].op \in {"set", "change"}  -> Answer(c)
       [] OTHER -> /\ Become(c, [cmd[c] EXCEPT !.at = "approve", !.data = Fresh])
                   /\ UNCHANGED signature
  /\ UNCHANGED <<pinState, u2fState, process, known>>

-----------------------------------------------------------------------------
(* NewAuthenticationCounterId. *)

TakeNumber(c) ==
  /\ At(c, "count")
  /\ counter < MaxNumbers
  /\ Become(c, [cmd[c] EXCEPT !.at = "bump", !.read = counter])
  /\ rewound' = (rewound \/ \E d \in Channels : cmd[d].at = "bump")
  /\ UNCHANGED <<pinState, process, counter, issued, file, known, signature>>

\* Mutant: the counter is not advanced.
BumpNumberNot(c) ==
  /\ At(c, "bump")
  /\ issued' = issued \union {cmd[c].read}
  /\ Sign(c, cmd[c].flags, cmd[c].faced)
  /\ UNCHANGED <<pinState, process, counter, rewound, file, known>>

\* The counter is advanced, and the number goes under the signature.
BumpNumber(c) ==
  /\ At(c, "bump")
  /\ counter' = cmd[c].read + 1
  /\ issued' = issued \union {cmd[c].read}
  /\ Sign(c, cmd[c].flags, cmd[c].faced)
  /\ UNCHANGED <<pinState, process, rewound, file, known>>

-----------------------------------------------------------------------------
(* handleClientPIN; it is refused at once when PIN support is off, or a     *)
(* parameter is missing or does not check out.                             *)

\* PINRetries() asserts that there is a try left; getRetries, changePIN and
\* getPINToken all call it, and the last two test for 0 what it returns.
RetriesExhausted(c) ==
  /\ enabled
  /\ At(c, "idle")
  /\ retries = 0
  /\ Ends("retries")
  /\ UNCHANGED <<pinState, u2fState, enabled, boots, file, signature>>

Race(c) == raced' = (raced \/ \E d \in Channels \ {c} : cmd[d].at \in PinPoints)

\* handleSetPIN up to the assignments: no PIN is set, the new one is long enough.
SetPin(c, want) ==
  /\ enabled
  /\ At(c, "idle")
  /\ pin = NoPin
  /\ Become(c, [Idle EXCEPT !.op = "set", !.at = "reset", !.want = want])
  /\ Race(c)
  /\ UNCHANGED <<pin, retries, used, u2fState, process, file, known, signature>>

\* SetPINRetries(8) comes before the PIN.
Reset(c) ==
  /\ At(c, "reset")
  /\ retries' = Tries
  /\ used' = 0
  /\ Goto(c, "store")
  /\ UNCHANGED <<pin, raced, u2fState, process, file, known, signature>>

\* SetPINHash, which saves.
StorePin(c) ==
  /\ At(c, "store")
  /\ pin' = cmd[c].want
  /\ Become(c, [cmd[c] EXCEPT !.at = "export", !.try = NoPin, !.want = NoPin])
  /\ UNCHANGED <<retries, used, raced, u2fState, process, file, known, signature>>

\* handleChangePIN and handleGetPINToken once PINRetries() has returned.
TryPin(c, o, try, want) ==
  /\ enabled
  /\ At(c, "idle")
  /\ retries > 0
  /\ Become(c, [Idle EXCEPT !.op = o, !.at = "spend", !.try = try, !.want = want])
  /\ Race(c)
  /\ UNCHANGED <<pin, retries, used, u2fState, process, file, known, signature>>

\* SetPINRetries(PINRetries() - 1): the read, with the assertion.
Spend(c) ==
  /\ At(c, "spend")
  /\ IF retries > 0
     THEN Become(c, [cmd[c] EXCEPT !.at = "spent", !.read = retries]) /\ UNCHANGED <<up, cause, known>>
     ELSE Ends("retries")
  /\ UNCHANGED <<pinState, u2fState, enabled, boots, file, signature>>

\* Mutant: the try is not charged.
SpentNot(c) ==
  /\ At(c, "spent")
  /\ used' = IF raced THEN used ELSE used + 1
  /\ Become(c, [cmd[c] EXCEPT !.at = "compare", !.read = 0])
  /\ UNCHANGED <<pin, retries, raced, u2fState, process, file, known, signature>>

\* ... and the write.
Spent(c) ==
  /\ At(c, "spent")
  /\ retries' = cmd[c].read - 1
  /\ used' = IF raced THEN used ELSE used + 1
  /\ Become(c, [cmd[c] EXCEPT !.at = "compare", !.read = 0])
  /\ UNCHANGED <<pin, raced, u2fState, process, file, known, signature>>

WrongPin(c) ==
  /\ At(c, "compare")
  /\ cmd[c].try # pin
  /\ Answer(c)
  /\ UNCHANGED <<pinState, u2fState, process, file, known>>

\* The retries are reset; the token is given out, or the new PIN is set
\* unless it is too short.  An empty attempt equals a PIN that was never set
\* (bytes.Equal), so the token may be given for nothing.
RightPin(c) ==
  /\ At(c, "compare")
  /\ cmd[c].try = pin
  /\ retries' = Tries
  /\ used' = 0
  /\ IF cmd[c].op = "change" /\ cmd[c].want # Short
     THEN Goto(c, "store") /\ UNCHANGED signature
     ELSE Answer(c)
  /\ known' = [known EXCEPT ![c] = IF cmd[c].op # "token" THEN @
                                  ELSE IF pin = NoPin THEN "free" ELSE "pin"]
  /\ UNCHANGED <<pin, raced, u2fState, process, file>>

-----------------------------------------------------------------------------
(* The process. *)

\* It is stopped from outside.
Stop ==
  /\ up
  /\ boots < MaxBoots
  /\ Ends("stopped")
  /\ UNCHANGED <<pinState, u2fState, enabled, boots, file, signature>>

\* systemd starts it again: NewDefaultClient, then loadData.  The retries
\* start from 8 and the pinToken is new; PIN support may have been switched
\* in the file by the demo's command.
Boot(on) ==
  /\ ~up
  /\ boots < MaxBoots
  /\ up' = TRUE
  /\ cause' = "none"
  /\ boots' = boots + 1
  /\ enabled' = on
  /\ pin' = file.pin
  /\ retries' = Tries
  /\ counter' = file.counter
  /\ rewound' = (rewound \/ file.counter # counter)
  /\ used' = 0
  /\ raced' = FALSE
  /\ cmd' = [c \in Channels |-> Idle]
  /\ known' = [c \in Channels |-> "no"]
  /\ UNCHANGED <<file, issued, signature>>

-----------------------------------------------------------------------------
\* A client sends a command.  It may try any PIN, and an empty encoding of its
\* hash (NoPin), which is wrong once a PIN is set.
Client(c) ==
  \/ \E auth \in {"none", "good"} :
       \/ "make" \in Served /\ MakeCredential(c, auth)
       \/ "assert" \in Served /\ \E silent \in BOOLEAN : GetAssertion(c, auth, silent)
  \/ "register" \in Served /\ Register(c)
  \/ "authenticate" \in Served /\ (Authenticate(c) \/ AuthenticateUnenforced(c))
  \/ "retries" \in Served /\ RetriesExhausted(c)
  \/ "set" \in Served /\ \E want \in Pins : SetPin(c, want)
  \/ \E try \in Pins \union {NoPin} :
       \/ "token" \in Served /\ TryPin(c, "token", try, NoPin)
       \/ "change" \in Served /\ \E want \in Pins \union {Short} : TryPin(c, "change", try, want)
  \/ Malformed(c)

\* The goroutine of the command goes on.
Run(c) ==
  \/ Export(c) \/ Write(c)
  \/ TakeNumber(c) \/ BumpNumber(c)
  \/ Reset(c) \/ StorePin(c) \/ Spend(c) \/ Spent(c) \/ WrongPin(c) \/ RightPin(c)

Next ==
  \/ \E c \in Channels :
       Client(c) \/ Run(c) \/ Matched(c) \/ Denied(c) \/ TimedOut(c) \/ Held(c) \/ LetsGo(c)
  \/ Stop
  \/ \E on \in BOOLEAN : Boot(on)

Spec == Init /\ [][Next]_vars

\* Goroutines run and the deadline of the context fires, unless the output is
\* held; PAM and its children owe nothing.
Fairness == \A c \in Channels : WF_vars(Run(c)) /\ WF_vars(TimedOut(c))

FairSpec == Spec /\ Fairness

-----------------------------------------------------------------------------
(* Properties. *)

Commands ==
  [at : Points,
   op : {"none", "make", "assert", "silent", "register", "authenticate", "unenforced",
         "set", "change", "token"},
   try : Pins \union {NoPin}, want : Pins \union {NoPin, Short},
   read : Nat, data : State,
   flags : SUBSET {"UP", "UV"}, faced : BOOLEAN]

Given == {"no", "pin", "free"}
Signatures == [flags : SUBSET {"UP", "UV"}, by : Given \union {"face", "waiver"}]

TypeOK ==
  /\ enabled \in BOOLEAN /\ up \in BOOLEAN /\ raced \in BOOLEAN /\ rewound \in BOOLEAN
  /\ pin \in Pins \union {NoPin}
  /\ retries \in 0 .. Tries
  /\ counter \in 1 .. MaxNumbers
  /\ file \in State
  /\ cmd \in [Channels -> Commands]
  /\ cause \in {"none", "malformed", "retries", "stopped"}
  /\ boots \in 0 .. MaxBoots
  /\ known \in [Channels -> Given]
  /\ used \in 0 .. Tries
  /\ issued \subseteq 1 .. MaxNumbers
  /\ signature \in Signatures

\* What a signature claims was performed for this very command: presence comes
\* from a face matched in time while the command ran, and verification from
\* that or from the pinToken this run of the process gave the client, over
\* every order of PIN commands, ceremonies, deadlines and restarts
\* (ctap.go:230-252, 357-386; approver.go:44-46).  The exceptions: U2F signs
\* presence without asking when the control byte says so (u2f.go:199-205), and
\* the token is given for an empty attempt while no PIN is set ("free").
FlagsEarned ==
  /\ "UP" \in signature.flags => signature.by \in {"face", "waiver"}
  /\ "UV" \in signature.flags => signature.by \in {"face", "pin", "free"}

\* As long as PIN commands of two channels do not overlap, the tries charged
\* and the tries left add up: no order of right and wrong PINs, refusals and
\* changes gives a try away (ctap.go:480-609, fido_client.go:168-175).
TriesAddUp == ~raced => retries + used = Tries

\* A U2F counter value is signed a second time only if two commands took it at
\* once or the process was started again with an older one (the counter is
\* not saved when it is taken, fido_client.go:197-201).
NumbersRepeatOnlyExcused ==
  [][\A c \in Channels : At(c, "bump") /\ cmd'[c] = Idle /\ up'
       => cmd[c].read \notin issued \/ rewound]_vars

\* Every command is answered, whatever other commands do and however PAM
\* answers, unless the process ends: a check that does not answer is cut off by
\* the deadline.  The exception is a check whose output is held by a process
\* that outlives it.
CommandsEnd ==
  \A c \in Channels :
    cmd[c].at # "idle" ~> cmd[c].at \in {"idle", "held"} \/ counter = MaxNumbers

-----------------------------------------------------------------------------
(* What the assertions say. *)

\* fido_client.go:169: PINRetries() is called with a try left.
RetriesAsserted == cause # "retries"

\* approver.go:15-16: a wedged check can never hang the authenticator.
WedgedCheckEnds ==
  \A c \in Channels : cmd[c].at = "approve" ~> cmd[c].at \notin {"approve", "held"}

\* approver.go:30-31, 75: every ceremony is gated on a live face match; the four
\* types include the U2F authentication.
PresenceGated == "UP" \in signature.flags => signature.by = "face"

\* approver.go:46: we never assert verification we did not perform.
VerificationPerformed ==
  "UV" \in signature.flags => signature.by \in {"face", "pin"}
=============================================================================
