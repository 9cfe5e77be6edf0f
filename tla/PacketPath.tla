----------------------------- MODULE PacketPath -----------------------------
(***************************************************************************)
(* One session from the first control transfer to the last byte of a       *)
(* message: the host enumerates the device, then sends PINGs.  A PING is   *)
(* cut into packets, each packet is an OUT transfer on the TCP stream, the *)
(* server reads it with a single Read (usbip_server.go:202), the HID layer *)
(* joins the packets (transaction.go), and what it answers, here the same  *)
(* payload, is cut again (createResponsePackets) and joined by the host.   *)
(*                                                                         *)
(* A unit of the stream is a header, which binary.Read reads in full, or a *)
(* unit of a packet: a byte, of which the first stands for what is said in *)
(* the HID header (its other bytes are left zero). TCP keeps the order and *)
(* may deliver a transfer in pieces. What comes after the server has taken *)
(* payload for a header is not modelled. In which order packets are        *)
(* handled is left to CtapHid, how a report finds a request to             *)
(* RequestBuffer. (Some names begin with Path, so that one module can      *)
(* extend this and RequestBuffer.)                                         *)
(*                                                                         *)
(* External: the host, Linux's usbcore, usbhid and vhci and a client that  *)
(* keeps to CTAPHID.  It waits for each transfer to end before the next.   *)
(***************************************************************************)
EXTENDS UsbDevice

CONSTANTS InitData,  \* payload units of a first packet, 57
          ContData,  \* payload units of a continuation packet, 59
          SeqLimit,  \* sequence numbers are below it, 128
          MaxPings   \* bound on the messages

ASSUME PacketAssumption ==
  /\ {ReportSize, InitData, ContData, SeqLimit} \subseteq Nat \ {0} /\ MaxPings \in Nat
  /\ InitData < ReportSize /\ ContData < ReportSize

MaxPayload == InitData + SeqLimit * ContData   \* 7609 bytes

VARIABLES
  host,         \* what the host is at
  todo,         \* control transfers it has yet to make
  known,        \* descriptors it has got
  packets,      \* packets of the message it has yet to send
  stream,       \* sent, and not read by the server
  arrived,      \* how much of it the server could read
  server,       \* what the server reads next
  transaction,  \* the message being joined, or Nothing
  reports,      \* packets on their way to the host
  heard,        \* what the host has joined of the answer
  pings,        \* length of each message, in order
  pongs,        \* the answers, in order
  short         \* history: a Read has come up short

pathVars == <<host, todo, known, packets, stream, arrived, server, transaction, reports, heard, pings, pongs, short>>
usb  == <<stream, arrived, server, transaction, reports, short>>

Submit(endpoint, setup, length) ==
  [unit |-> "submit", endpoint |-> endpoint, setup |-> setup, length |-> length]
Data(of, at)  == [unit |-> "data", of |-> of, at |-> at]
Zero          == Data(0, 0)
First(length) == [unit |-> "first", n |-> length]
Next_(seq)    == [unit |-> "next", n |-> seq]

Padded(units, size) == units \o [i \in 1 .. size - Len(units) |-> Zero]

\* A packet: a header, payload in the room behind it, and padding.
Packet(header, payload, room) == Padded(<<header>>, ReportSize - room) \o Padded(payload, room)
Room(packet)    == IF packet[1].unit = "first" THEN InitData ELSE ContData
Carried(packet) == SubSeq(packet, ReportSize - Room(packet) + 1, ReportSize)

Ping(k)    == [i \in 1 .. pings[k] |-> Data(k, i)]
NoSetup    == Setup(0, 0, 0, 0)
Nothing    == [length |-> 0, sequence |-> 0, payload |-> <<>>]
Descriptor(to, type, index, wLength) == Setup(128 + to, GET_DESCRIPTOR, 256 * type + index, wLength)

PathInit ==
  /\ host = "enumerating"
  /\ todo = <<Descriptor(ToDevice, DEVICE, 0, 18)>>
  /\ known = {}
  /\ packets = <<>>
  /\ stream = <<>>
  /\ arrived = 0
  /\ server = "command"
  /\ transaction = Nothing
  /\ reports = <<>>
  /\ heard = Nothing
  /\ pings = <<>>
  /\ pongs = <<>>
  /\ short = FALSE

-----------------------------------------------------------------------------
(* The host. *)

NoTransfer == server = "command" /\ \A k \in DOMAIN stream : stream[k].unit # "submit"

Control ==
  /\ host = "enumerating"
  /\ todo # <<>>
  /\ NoTransfer
  /\ stream' = Append(stream, Submit(ControlEndpoint, Head(todo), 0))
  /\ UNCHANGED <<host, todo, known, packets, arrived, server, transaction, reports, heard, pings, pongs, short>>

Strings(d) == [k \in DOMAIN d.strings |-> Descriptor(ToDevice, STRING_DESCRIPTOR, d.strings[k], 255)]

\* What usbcore and usbhid ask for next.  A device of USB 2.0 is asked for its
\* qualifier (type 6), which this one does not have.
FollowUps(got) ==
  IF got = <<>> THEN <<>> ELSE
  CASE got[1].type = DEVICE ->
         (IF got[1].bcdUSB >= 512 THEN <<Descriptor(ToDevice, 6, 0, 10)>> ELSE <<>>)
           \o <<Descriptor(ToDevice, CONFIGURATION, 0, 9), Descriptor(ToDevice, STRING_DESCRIPTOR, 0, 255)>> \o Strings(got[1])
    [] got[1].type = CONFIGURATION /\ Len(got) = 1 ->
         <<Descriptor(ToDevice, CONFIGURATION, 0, got[1].wTotalLength)>>
    [] got[1].type = CONFIGURATION /\ Len(got) > 1 ->
         <<Setup(ToDevice, SET_CONFIGURATION, 0, 0)>> \o Strings(got[1]) \o Strings(got[2])
           \o <<Setup(128 + ToDevice, GET_STATUS, 0, 2), Setup(32 + ToInterface, SET_IDLE, 0, 0)>>
           \o (IF Len(got) > 2 THEN <<Descriptor(ToInterface, HID_REPORT, 0, got[3].reportLength)>> ELSE <<>>)
    [] OTHER -> <<>>

\* How much of a message lies before continuation packet k.
Before(k) == InitData + k * ContData

\* The packets of a message, cut as CTAPHID has it.
Cut(payload) ==
  LET n == Len(payload)
      piece(k, m) == SubSeq(payload, k + 1, IF m < n THEN m ELSE n)
      more == Cardinality({k \in 0 .. SeqLimit : Before(k) < n})
  IN  <<Packet(First(n), piece(0, InitData), InitData)>>
        \o [k \in 1 .. more |-> Packet(Next_(k - 1), piece(Before(k - 1), Before(k)), ContData)]

SendPing(n) ==
  /\ host = "ready"
  /\ Len(pings) < MaxPings
  /\ host' = "talking"
  /\ pings' = Append(pings, n)
  /\ packets' = Cut([i \in 1 .. n |-> Data(Len(pings) + 1, i)])
  /\ UNCHANGED <<todo, known, usb, heard, pongs>>

SendPacket ==
  /\ packets # <<>>
  /\ NoTransfer
  /\ stream' = stream \o <<Submit(InputEndpoint, NoSetup, ReportSize)>> \o Head(packets)
  /\ packets' = Tail(packets)
  /\ UNCHANGED <<host, todo, known, arrived, server, transaction, reports, heard, pings, pongs, short>>

\* The host joins the answer as CTAPHID has it.
Hear ==
  LET p == Head(reports)
      now == IF p[1].unit = "first" THEN [length |-> p[1].n, sequence |-> 0, payload |-> Carried(p)]
             ELSE [heard EXCEPT !.sequence = @ + 1, !.payload = @ \o Carried(p)]
      fits == p[1].unit = "first" \/ (p[1].unit = "next" /\ p[1].n = heard.sequence)
  IN  /\ reports # <<>>
      /\ reports' = Tail(reports)
      /\ IF fits /\ Len(now.payload) < now.length
         THEN heard' = now /\ UNCHANGED <<host, pongs>>
         ELSE /\ heard' = Nothing
              /\ host' = "ready"
              /\ pongs' = Append(pongs, IF fits THEN SubSeq(now.payload, 1, now.length) ELSE <<>>)
      /\ UNCHANGED <<todo, known, packets, stream, arrived, server, transaction, pings, short>>

-----------------------------------------------------------------------------
(* The stream and the server. *)

\* TCP delivers as much as it likes.
Arrive ==
  /\ arrived' \in arrived + 1 .. Len(stream)
  /\ UNCHANGED <<host, todo, known, packets, stream, server, transaction, reports, heard, pings, pongs, short>>

Consumed(n) == stream' = SubSeq(stream, n + 1, Len(stream)) /\ arrived' = arrived - n

\* handleCommandSubmit of a control transfer.
ReadControl ==
  LET setup  == stream[1].setup
      answer == handleControlMessage(setup)
      got    == Copied(answer, setup.wLength)
  IN  /\ server = "command" /\ arrived > 0
      /\ stream[1].unit = "submit" /\ stream[1].endpoint = ControlEndpoint
      /\ Consumed(1)
      /\ IF answer = Panic
         THEN server' = "ended" /\ UNCHANGED <<host, todo, known>>
         ELSE /\ known' = known \union ToSet(got)
              /\ todo' = Tail(todo) \o FollowUps(got)
              /\ host' = IF todo' = <<>> THEN "ready" ELSE host
              /\ UNCHANGED server
      /\ UNCHANGED <<packets, transaction, reports, heard, pings, pongs, short>>

\* The header of an OUT transfer: its buffer is read next.
ReadOut ==
  /\ server = "command" /\ arrived > 0
  /\ stream[1].unit = "submit" /\ stream[1].endpoint = InputEndpoint
  /\ server' = "buffer"
  /\ Consumed(1)
  /\ UNCHANGED <<host, todo, known, packets, transaction, reports, heard, pings, pongs, short>>

\* Payload where a header should be.
ReadStray ==
  /\ server = "command" /\ arrived > 0
  /\ stream[1].unit # "submit"
  /\ server' = "stray"
  /\ UNCHANGED <<host, todo, known, packets, stream, arrived, transaction, reports, heard, pings, pongs, short>>

-----------------------------------------------------------------------------
(* The HID layer. *)

\* Mutant: continuation packets count from 1.
createResponsePacketsFromOne(payload) ==
  [k \in 1 .. Len(Cut(payload)) |-> IF k = 1 THEN Cut(payload)[1] ELSE [Cut(payload)[k] EXCEPT ![1] = Next_(k - 1)]]

\* No packet at all for an empty payload.
createResponsePackets(payload) == IF payload = <<>> THEN <<>> ELSE Cut(payload)

Error == Padded(<<[unit |-> "error", n |-> 0]>>, ReportSize)

\* newCTAPHIDTransaction, addMessage: the message so far, or none if the packet
\* does not belong here.  (There is a transaction when a payload has begun.)
Joins(p) ==
  IF transaction = Nothing THEN p[1].unit = "first"
  ELSE p[1].unit = "next" /\ p[1].n < SeqLimit /\ p[1].n = transaction.sequence

Join(p) ==
  IF transaction = Nothing THEN [length |-> p[1].n, sequence |-> 0, payload |-> Carried(p)]
  ELSE [transaction EXCEPT !.sequence = @ + 1, !.payload = @ \o Carried(p)]

\* Mutant: a message that fills its last packet waits for one more.
CompleteLate(t) == Len(t.payload) > t.length

Complete(t) == Len(t.payload) >= t.length

\* The single Read takes what has arrived, one unit or more; the rest of the
\* buffer stays zero.  The packet goes to the HID layer, which joins it and
\* answers a message that is complete.
ReadBuffer ==
  LET n == IF arrived < ReportSize THEN arrived ELSE ReportSize
      p == Padded(SubSeq(stream, 1, n), ReportSize)
      t == Join(p)
  IN  /\ server = "buffer" /\ arrived > 0
      /\ Consumed(n)
      /\ server' = "command"
      /\ short' = (short \/ n < ReportSize)
      /\ CASE ~Joins(p) -> transaction' = Nothing /\ reports' = Append(reports, Error)
           [] Joins(p) /\ Complete(t) ->
                /\ transaction' = Nothing
                /\ reports' = reports \o createResponsePackets(SubSeq(t.payload, 1, t.length))
           [] OTHER -> transaction' = t /\ UNCHANGED reports
      /\ UNCHANGED <<host, todo, known, packets, heard, pings, pongs>>

-----------------------------------------------------------------------------
Serve == ReadControl \/ ReadOut \/ ReadBuffer \/ ReadStray
Listen == Control \/ SendPacket \/ Hear

PathNext == Listen \/ Arrive \/ Serve \/ (\E n \in 0 .. MaxPayload : SendPing(n))

PathSpec == PathInit /\ [][PathNext]_pathVars

\* Goroutines and TCP go on, and so does a host that is not waiting.
FairPathSpec == PathSpec /\ WF_pathVars(Listen) /\ WF_pathVars(Arrive) /\ WF_pathVars(Serve)

-----------------------------------------------------------------------------
(* Properties. *)

Message == [length : 0 .. MaxPayload, sequence : 0 .. SeqLimit, payload : Seq(UNION {{Zero}, {Data(k, i) : k \in 1 .. MaxPings, i \in 1 .. MaxPayload}})]

PathTypeOK ==
  /\ host \in {"enumerating", "ready", "talking"}
  /\ server \in {"command", "buffer", "stray", "ended"}
  /\ arrived \in 0 .. Len(stream)
  /\ {transaction, heard} \subseteq Message
  /\ \A k \in DOMAIN reports : Len(reports[k]) = ReportSize
  /\ \A k \in DOMAIN packets : Len(packets[k]) = ReportSize
  /\ pings \in Seq(0 .. MaxPayload)
  /\ Len(pongs) <= Len(pings) /\ Len(pings) <= MaxPings
  /\ short \in BOOLEAN

\* Whatever one descriptor makes the host ask for, the device serves: no
\* request of the enumeration panics and ends the session (getDescriptor,
\* getStringDescriptor, handleInterfaceRequest).
EnumerationServed == server # "ended"

\* When the host is done it has every endpoint the interface announces, the
\* report descriptor in full, and drives the endpoints in the direction in
\* which HandleMessage serves their numbers, with reports of the HID layer's
\* packet size.
ConfiguredAsServed ==
  host # "enumerating" =>
    /\ \A i \in known : i.type = INTERFACE => Cardinality({e \in known : e.type = ENDPOINT}) = i.endpoints
    /\ {e.address : e \in {d \in known : d.type = ENDPOINT}} = {128 + OutputEndpoint, InputEndpoint}
    /\ \E r \in known : r.type = HID_REPORT /\ \A h \in known : h.type = HID => h.reportLength = r.length

\* A message of any length CTAPHID allows comes back as it was sent, unless a
\* Read was short.
PongsIntact == ~short => \A k \in DOMAIN pongs : pongs[k] = Ping(k)

\* Unless a Read was short, the server takes nothing for a header but headers
\* (handleCommandSubmit reads exactly the buffer of an OUT transfer).
InStep == server = "stray" => short

\* Every message is answered, unless it has no payload or a Read was short.
PingsAnswered ==
  host = "talking" ~> host = "ready" \/ short \/ (Len(pings) > 0 /\ pings[Len(pings)] = 0)
=============================================================================
