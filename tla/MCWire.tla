------------------------------- MODULE MCWire -------------------------------
(***************************************************************************)
(* The wire side of the device, one part at a time (focus): the frame      *)
(* parser, a WTP connection, the control functions of the USB cable, and   *)
(* the settings API that every carrier shares.                             *)
(***************************************************************************)
EXTENDS Integers, Sequences

CONSTANTS Bytes, MaxPayload, MaxDiscard, MaxInvalid, MaxChunk, MaxStream,
          Sessions, QueueCap, QueueBytes, Wait, LastEvent, BadFrames, MaxRequests, MaxRestarts,
          MaxTime, Timeout, Hold, Delay, SampleAge, MaxSeq, MaxSessions, MaxChanges, UsbTime,
          Clients, Kinds, LateKinds, Resources, Faults, Profiles, MaxSteps

VARIABLES focus, clk, p, stream, cut, e, s, got, asked, sent, u, mt, x, sv, r, others, changes, acked,
          a, held, h

FrameOnly == <<p, stream, cut>>

EndpointOnly == <<e, s, got, asked, sent>>

UsbOnly == <<u, mt, x, sv, r, others, changes, acked>>

ApiOnly == <<a, held, h>>

vars == <<focus, clk, FrameOnly, EndpointOnly, UsbOnly, ApiOnly>>

Frame == INSTANCE FrameParser

End == INSTANCE Endpoint

Usb == INSTANCE UsbControl WITH MaxTime <- UsbTime

Settings == INSTANCE Api

NoFrame == p = 0 /\ stream = 0 /\ cut = 0

NoEnd == e = 0 /\ s = 0 /\ got = 0 /\ asked = 0 /\ sent = 0

NoUsb == u = 0 /\ mt = 0 /\ x = 0 /\ sv = 0 /\ r = 0 /\ others = 0 /\ changes = 0 /\ acked = 0

NoApi == a = 0 /\ held = 0 /\ h = 0

Init ==
    \/ focus = "frame" /\ Frame!Init /\ clk = 0 /\ NoEnd /\ NoUsb /\ NoApi
    \/ focus = "endpoint" /\ End!Init /\ NoFrame /\ NoUsb /\ NoApi
    \/ focus = "usb" /\ Usb!Init /\ NoFrame /\ NoEnd /\ NoApi
    \/ focus = "settings" /\ Settings!Init /\ clk = 0 /\ NoFrame /\ NoEnd /\ NoUsb

Next ==
    \/ focus = "frame" /\ Frame!Next /\ UNCHANGED <<focus, clk, EndpointOnly, UsbOnly, ApiOnly>>
    \/ focus = "endpoint" /\ End!Next /\ UNCHANGED <<focus, FrameOnly, UsbOnly, ApiOnly>>
    \/ focus = "usb" /\ Usb!Next /\ UNCHANGED <<focus, FrameOnly, EndpointOnly, ApiOnly>>
    \/ focus = "settings" /\ Settings!Next /\ UNCHANGED <<focus, clk, FrameOnly, EndpointOnly, UsbOnly>>

Spec == Init /\ [][Next]_vars

\* The chunks of the transport do not matter, and a frame after noise is received.
FramesFound == focus = "frame" => Frame!FramesFound

\* A request that was acted on is answered or the connection is closed, a client
\* without a gap in its event ids has missed nothing, and a retained request is
\* carried out in time or not at all (Endpoint).
NothingLost == focus = "endpoint" => End!Answered /\ End!LossVisible /\ End!InTime

\* No failure on the cable leaves the maintenance hold behind; a restart for an
\* update follows the acknowledgement of its reply, and a time sample counts
\* once (UsbControl).
CableSafe == focus = "usb" => Usb!HoldAccounted /\ Usb!AskedFor

\* A change is made on the settings as they are, never on ones a client saw before
\* another change, and a reading serves one change (Api).
RevisionsSound == focus = "settings" => Settings!NoLostUpdate /\ Settings!RevisionSpent

=============================================================================
