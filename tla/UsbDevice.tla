----------------------------- MODULE UsbDevice -----------------------------
(***************************************************************************)
(* What the device answers on its control endpoint (usb_device.go), with   *)
(* the structures of usb.go: a descriptor is its type, its length and the  *)
(* fields that make the host come back for more.  Numbers are the bytes of *)
(* the wire; setup packets are decoded as the code does.                   *)
(***************************************************************************)
EXTENDS Naturals, SequencesExt

CONSTANT ReportSize   \* ctapHIDMaxPacketSize, 64

\* bRequest of standard and of HID class requests.
GET_STATUS        == 0
GET_DESCRIPTOR    == 6
SET_CONFIGURATION == 9
SET_IDLE          == 10
SET_PROTOCOL      == 11

\* Descriptor types.
DEVICE            == 1
CONFIGURATION     == 2
STRING_DESCRIPTOR == 3
INTERFACE         == 4
ENDPOINT          == 5
HID               == 33
HID_REPORT        == 34

\* Recipients; and endpoint numbers, in the device's view.
ToDevice        == 0
ToInterface     == 1
ControlEndpoint == 0
OutputEndpoint  == 1
InputEndpoint   == 2

Setup(bmRequestType, bRequest, wValue, wLength) ==
  [bmRequestType |-> bmRequestType, bRequest |-> bRequest, wValue |-> wValue, wLength |-> wLength]

recipient(setup)        == setup.bmRequestType % 16
DescriptorType(wValue)  == wValue \div 256
DescriptorIndex(wValue) == wValue % 256

TotalLength(descriptors) == FoldSeq(LAMBDA d, n : d.length + n, 0, descriptors)

-----------------------------------------------------------------------------
(* The descriptors. *)

DeviceDescriptor == [type |-> DEVICE, length |-> 18, bcdUSB |-> 272, strings |-> <<2, 1, 3>>]

InterfaceDescriptor == [type |-> INTERFACE, length |-> 9, endpoints |-> 2, strings |-> <<5>>]

HIDReport == [type |-> HID_REPORT, length |-> 30, input |-> 64, output |-> 64]

HIDDescriptor == [type |-> HID, length |-> 9, reportLength |-> HIDReport.length]

\* An IN endpoint has bit 7 set.
EndpointDescriptors ==
  LET at(address) == [type |-> ENDPOINT, length |-> 7, address |-> address, packet |-> 64]
  IN  <<at(129), at(2)>>

Configuration ==
  LET rest == <<InterfaceDescriptor, HIDDescriptor>> \o EndpointDescriptors
  IN  <<[type |-> CONFIGURATION, length |-> 9, wTotalLength |-> 9 + TotalLength(rest), strings |-> <<4>>]>> \o rest

\* The language id and the five strings, in UTF-16.
StringLengths == <<2, 20, 24, 32, 16, 34>>

\* Mutant: the string of the interface is missing.
StringDescriptorsFour == [index \in 0 .. 4 |-> [type |-> STRING_DESCRIPTOR, length |-> 2 + StringLengths[index + 1]]]

StringDescriptors == [index \in 0 .. 5 |-> [type |-> STRING_DESCRIPTOR, length |-> 2 + StringLengths[index + 1]]]

-----------------------------------------------------------------------------
(* handleControlMessage: what it answers, or a panic. *)

Panic == <<[type |-> 0, length |-> 0]>>

getDescriptor(type, index) ==
  CASE type = DEVICE -> <<DeviceDescriptor>>
    [] type = CONFIGURATION -> Configuration
    [] type = STRING_DESCRIPTOR /\ index \in DOMAIN StringDescriptors -> <<StringDescriptors[index]>>
    [] OTHER -> Panic

handleDeviceRequest(setup) ==
  CASE setup.bRequest = GET_DESCRIPTOR ->
         getDescriptor(DescriptorType(setup.wValue), DescriptorIndex(setup.wValue))
    [] setup.bRequest \in {SET_CONFIGURATION, GET_STATUS} -> <<>>
    [] OTHER -> Panic

handleInterfaceRequest(setup) ==
  CASE setup.bRequest \in {SET_IDLE, SET_PROTOCOL} -> <<>>
    [] setup.bRequest = GET_DESCRIPTOR /\ DescriptorType(setup.wValue) = HID_REPORT -> <<HIDReport>>
    [] OTHER -> Panic

handleControlMessage(setup) ==
  CASE recipient(setup) = ToDevice -> handleDeviceRequest(setup)
    [] recipient(setup) = ToInterface -> handleInterfaceRequest(setup)
    [] OTHER -> Panic

\* onReturnSubmit copies the answer into a buffer of TransferBufferLength: the
\* host gets the descriptors that lie in it as a whole.
Copied(answer, wLength) ==
  LET fits == {n \in 0 .. Len(answer) : TotalLength(SubSeq(answer, 1, n)) <= wLength}
  IN  SubSeq(answer, 1, CHOOSE n \in fits : \A m \in fits : m <= n)
=============================================================================
