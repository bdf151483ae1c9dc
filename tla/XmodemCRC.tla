------------------------------ MODULE XmodemCRC ------------------------------
(***************************************************************************)
(* xmodemcrc.py: the XMODEM-CRC sender, run against the XMODEM receiver of  *)
(* the bootloader over a serial line that damages and loses packets.        *)
(*                                                                         *)
(* The sender is one coroutine, send_xmodem128_crc, which calls             *)
(* send_xmodem128_crc_data once per packet.  Its actions are the stretches  *)
(* of code between two awaits.  The receiver is not part of the repository: *)
(* it is modelled from the bytes the sender acts on.                        *)
(***************************************************************************)
EXTENDS Naturals, Sequences, FiniteSets

CONSTANTS
  NumBlocks,            \* blocks of 128 bytes in the image
  MaxFailures,          \* max_failures: NAKs of one packet that are forgiven
  NumberMod,            \* packet numbers wrap at this value (256 in the code)
  MaxFaults,            \* bound: packets and answers the line spoils
  MaxReady              \* bound: "C"s on the line when no further one is sent

ASSUME XmodemAssumption ==
  /\ NumBlocks \in Nat
  /\ MaxFailures \in Nat
  /\ NumberMod \in Nat /\ NumberMod >= 2
  /\ MaxFaults \in Nat
  /\ MaxReady \in Nat

VARIABLES
  \* the sender
  xpc,                  \* where send_xmodem128_crc stands
  index,                \* packets acknowledged: the loop variable of the code
  attempt,              \* transmissions of the current packet before this one
  failure,              \* why the call raised, "none" while it has not
  \* the line
  toDev,                \* packets on their way to the receiver
  toHost,               \* bytes on their way to, or in the buffer of, the reader
  faults,               \* how many packets and answers the line has spoilt
  \* the receiver
  rmode,                \* what the receiver is doing
  stored                \* the blocks it has stored

senderVars   == <<xpc, index, attempt, failure>>
lineVars     == <<toDev, toHost, faults>>
receiverVars == <<rmode, stored>>
vars == <<senderVars, lineVars, receiverVars>>

Ended == {"returned", "raised"}
Failures == {"none", "unaligned", "failures", "cancelled", "invalid",
             "timeout", "connection"}
Answers == {"C", "ACK", "NAK", "CAN", "noise"}

(***************************************************************************)
(* Packets.  A packet carries its number and the block it was cut from; a  *)
(* damaged one has lost both, which its CRC tells the receiver.             *)
(***************************************************************************)
\* Bug: the packet number is not advanced.
NumberStays(i) == 1

Number(i) == (i + 1) % NumberMod

Block(i) == [kind |-> "SOH", num |-> Number(i), data |-> i + 1]
EOT      == [kind |-> "EOT", num |-> 0, data |-> 0]
Damaged  == [kind |-> "damaged", num |-> 0, data |-> 0]

\* The packet sent when `index` packets have been acknowledged.
Outgoing(i) == IF i < NumBlocks THEN Block(i) ELSE EOT

Packets == [kind : {"SOH", "EOT", "damaged"}, num : Nat, data : Nat]

Init ==
  /\ xpc = "idle"
  /\ index = 0
  /\ attempt = 0
  /\ failure = "none"
  /\ toDev = << >>
  /\ toHost = << >>
  /\ faults = 0
  /\ rmode = "idle"
  /\ stored = << >>

-----------------------------------------------------------------------------
(***************************************************************************)
(* The sender.                                                             *)
(***************************************************************************)

\* The call raises; nothing more is sent.
Raise(why) ==
  /\ xpc' = "raised"
  /\ failure' = why
  /\ UNCHANGED <<index, attempt, toDev>>

\* Write the packet for i and wait for its answer.
Transmit(i, n) ==
  /\ index' = i
  /\ attempt' = n
  /\ toDev' = Append(toDev, Outgoing(i))
  /\ xpc' = "awaitReply"
  /\ UNCHANGED failure

\* An image whose length is no multiple of the block size is refused.
\* Otherwise the reader takes the transport over and waits for a "C".
Start(aligned) ==
  /\ xpc = "idle"
  /\ IF aligned
     THEN /\ xpc' = "readC"
          /\ UNCHANGED <<index, attempt, failure, toDev>>
     ELSE Raise("unaligned")
  /\ UNCHANGED <<toHost, faults, receiverVars>>

\* The first "C" is here.  The reader's buffer is cleared, which drops the
\* k bytes that have arrived, not those still on the line, and the first
\* packet is written before the next await.
ReadC ==
  /\ xpc = "readC"
  /\ \E k \in 1..Len(toHost) :
       /\ \E j \in 1..k : toHost[j] = "C"
       /\ toHost' = SubSeq(toHost, k + 1, Len(toHost))
  /\ Transmit(0, 0)
  /\ UNCHANGED <<faults, receiverVars>>

\* The next byte is read while an answer is awaited.
Answered(answer) ==
  /\ xpc = "awaitReply"
  /\ toHost # << >>
  /\ answer = Head(toHost)
  /\ toHost' = Tail(toHost)
  /\ UNCHANGED <<faults, receiverVars>>

\* Bug: the loop over the packets is the last thing done, no EOT is sent.
ReplyAckWithoutEOT ==
  /\ Answered("ACK")
  /\ IF index + 1 < NumBlocks
     THEN Transmit(index + 1, 0)
     ELSE /\ xpc' = "returned"
          /\ UNCHANGED <<index, attempt, failure, toDev>>

\* ACK: on to the next packet, or the call returns once EOT is acknowledged.
ReplyAck ==
  /\ Answered("ACK")
  /\ IF index < NumBlocks
     THEN Transmit(index + 1, 0)
     ELSE /\ xpc' = "returned"
          /\ UNCHANGED <<index, attempt, failure, toDev>>

\* Bug: one failure too many is forgiven.
ReplyNakOffByOne ==
  /\ Answered("NAK")
  /\ IF attempt > MaxFailures
     THEN Raise("failures")
     ELSE Transmit(index, attempt + 1)

\* Bug: the next packet is sent after a NAK.
ReplyNakMovesOn ==
  /\ Answered("NAK")
  /\ IF attempt >= MaxFailures \/ index = NumBlocks
     THEN Raise("failures")
     ELSE Transmit(index + 1, attempt + 1)

\* NAK: the same packet again, while failures remain.
ReplyNak ==
  /\ Answered("NAK")
  /\ IF attempt >= MaxFailures
     THEN Raise("failures")
     ELSE Transmit(index, attempt + 1)

\* CAN: the receiver gave up.
ReplyCan ==
  /\ Answered("CAN")
  /\ Raise("cancelled")

\* Bug: any byte but an ACK counts as a failure.
ReplyInvalidRetries ==
  /\ Answered(Head(toHost))
  /\ Head(toHost) \notin {"ACK", "NAK", "CAN"}
  /\ IF attempt >= MaxFailures
     THEN Raise("failures")
     ELSE Transmit(index, attempt + 1)

\* Any other byte ends the transfer, a late "C" included.
ReplyInvalid ==
  /\ Answered(Head(toHost))
  /\ Head(toHost) \notin {"ACK", "NAK", "CAN"}
  /\ Raise("invalid")

\* Bug: the packet is sent again when its answer is late.
ReplyTimeoutResends ==
  /\ xpc = "awaitReply"
  /\ attempt < MaxFailures
  /\ Transmit(index, attempt + 1)
  /\ UNCHANGED <<toHost, faults, receiverVars>>

\* Bug: the wait for an answer has no timeout.
ReplyTimeoutIgnored ==
  /\ xpc = "awaitReply"
  /\ UNCHANGED vars

\* No answer in RECEIVE_TIMEOUT: the transfer ends.  Nothing is sent again.
ReplyTimeout ==
  /\ xpc = "awaitReply"
  /\ Raise("timeout")
  /\ UNCHANGED <<toHost, faults, receiverVars>>

\* The serial port disappears: both reads fail.
ConnectionLost ==
  /\ xpc \in {"readC", "awaitReply"}
  /\ Raise("connection")
  /\ UNCHANGED <<toHost, faults, receiverVars>>

-----------------------------------------------------------------------------
(***************************************************************************)
(* The receiver (external).                                                *)
(***************************************************************************)

\* "upload gbl" was chosen in the menu.
EnterXmodem ==
  /\ rmode = "idle"
  /\ rmode' = "sendC"
  /\ UNCHANGED <<senderVars, lineVars, stored>>

\* "C" is offered again and again until the first packet arrives.
OfferC ==
  /\ rmode = "sendC"
  /\ Cardinality({k \in DOMAIN toHost : toHost[k] = "C"}) < MaxReady
  /\ toHost' = Append(toHost, "C")
  /\ UNCHANGED <<senderVars, toDev, faults, receiverVars>>

Expects(p)  == p.kind = "SOH" /\ p.num = (Len(stored) + 1) % NumberMod
Repeats(p)  == p.kind = "SOH" /\ ~Expects(p) /\ stored # << >>
                              /\ p.num = Len(stored) % NumberMod

Accept(p) ==
  /\ Expects(p)
  /\ stored' = Append(stored, p.data)
  /\ rmode' = "receiving"
  /\ toHost' = Append(toHost, "ACK")

\* A block that is already stored is acknowledged and dropped.
Drop(p) ==
  /\ Repeats(p)
  /\ toHost' = Append(toHost, "ACK")
  /\ UNCHANGED receiverVars

Complete(p) ==
  /\ p.kind = "EOT"
  /\ rmode' = "complete"
  /\ toHost' = Append(toHost, "ACK")
  /\ UNCHANGED stored

\* The CRC does not match.
Refuse(p) ==
  /\ p.kind = "damaged"
  /\ toHost' = Append(toHost, "NAK")
  /\ UNCHANGED receiverVars

\* The receiver gives up: for a number that is neither the next nor the last
\* one, or for a block it refuses (it parses the image while it arrives).
Cancel(p) ==
  /\ p.kind = "SOH"
  /\ rmode' = "cancelled"
  /\ toHost' = Append(toHost, "CAN")
  /\ UNCHANGED stored

\* One packet is taken off the line; it gets exactly one answer, or none
\* when no transfer is running.
Receive ==
  /\ toDev # << >>
  /\ LET p == Head(toDev) IN
       IF rmode \in {"sendC", "receiving"}
       THEN Accept(p) \/ Drop(p) \/ Complete(p) \/ Refuse(p) \/ Cancel(p)
       ELSE UNCHANGED <<toHost, receiverVars>>
  /\ toDev' = Tail(toDev)
  /\ UNCHANGED <<senderVars, faults>>

-----------------------------------------------------------------------------
(***************************************************************************)
(* The line (external): it damages or loses what it carries.  A damaged    *)
(* answer is some other byte, never a forged ACK, NAK or CAN.  Losing a "C" *)
(* is the same as its not being sent.                                       *)
(***************************************************************************)
Spoil ==
  /\ faults < MaxFaults
  /\ faults' = faults + 1
  /\ UNCHANGED <<senderVars, receiverVars>>

DamagePacket ==
  /\ toDev # << >>
  /\ Head(toDev) # Damaged
  /\ toDev' = <<Damaged>> \o Tail(toDev)
  /\ UNCHANGED toHost
  /\ Spoil

LosePacket ==
  /\ toDev # << >>
  /\ toDev' = Tail(toDev)
  /\ UNCHANGED toHost
  /\ Spoil

DamageAnswer ==
  /\ toHost # << >>
  /\ Head(toHost) \in {"ACK", "NAK", "CAN"}
  /\ toHost' = <<"noise">> \o Tail(toHost)
  /\ UNCHANGED toDev
  /\ Spoil

LoseAnswer ==
  /\ toHost # << >>
  /\ toHost' = Tail(toHost)
  /\ UNCHANGED toDev
  /\ Spoil

\* The call has ended and the receiver has nothing left to read.
Done ==
  /\ xpc \in Ended
  /\ toDev = << >>
  /\ UNCHANGED vars

Sender ==
  \/ \E aligned \in BOOLEAN : Start(aligned)
  \/ ReadC
  \/ ReplyAck
  \/ ReplyNak
  \/ ReplyCan
  \/ ReplyInvalid
  \/ ReplyTimeout

Receiver == EnterXmodem \/ OfferC \/ Receive

Line == DamagePacket \/ LosePacket \/ DamageAnswer \/ LoseAnswer

Next == Sender \/ ConnectionLost \/ Receiver \/ Line \/ Done

\* The event loop runs a coroutine that can go on, and its timers.  Nothing
\* is assumed of the receiver, which may fall silent at any point, nor of the
\* line, which need not spoil anything.
Fairness == WF_vars(Sender)

Spec == Init /\ [][Next]_vars /\ Fairness

-----------------------------------------------------------------------------
(***************************************************************************)
(* Properties.                                                             *)
(***************************************************************************)

\* Every variable keeps its type; no packet is sent more than MaxFailures + 1
\* times.
TypeOK ==
  /\ xpc \in {"idle", "readC", "awaitReply"} \cup Ended
  /\ index \in 0..NumBlocks
  /\ attempt \in 0..MaxFailures
  /\ failure \in Failures
  /\ toDev \in Seq(Packets)
  /\ toHost \in Seq(Answers)
  /\ faults \in 0..MaxFaults
  /\ rmode \in {"idle", "sendC", "receiving", "complete", "cancelled"}
  /\ stored \in Seq(Nat)

\* A call that returns has delivered the image: the receiver stored every
\* block once and in order, whatever was damaged, lost or sent again, and
\* has seen the end of the transmission.
DeliveredOnReturn ==
  xpc = "returned" => /\ stored = [k \in 1..NumBlocks |-> k]
                      /\ rmode = "complete"

\* The offset given to progress_callback is true: the receiver holds every
\* block that was reported, and at most the one being sent beyond them.
ProgressTruthful ==
  Len(stored) \in index..(index + 1)

\* Stop and wait: while an answer is awaited at most one packet or answer
\* is under way, so no answer can be taken for that of another packet.
Replies == {k \in DOMAIN toHost : toHost[k] # "C"}

StopAndWait ==
  xpc = "awaitReply" =>
    /\ Len(toDev) <= 1
    /\ Replies # {} => toDev = << >>
    /\ \A j, k \in Replies : j = k

\* A transfer is given up for too many failures only if the line spoilt more
\* than MaxFailures packets: a late "C" or a repeated ACK is never counted.
RetryBudget ==
  failure = "failures" => faults > MaxFailures

\* The sender implements the transfer its caller relies on.
Result == CASE xpc = "returned" -> "ok"
            [] xpc = "raised"   -> "failed"
            [] OTHER            -> "running"

BT == INSTANCE BlockTransfer WITH result <- Result

Transfer == BT!BTSpec

\* Every answer is waited for with a timer, the first "C" without one: a
\* transfer ends, or comes to rest in the wait for that "C" and nowhere else,
\* whatever the receiver does, falling silent between two blocks included.
WaitsOnlyForReady == <>(xpc \in Ended) \/ <>[](xpc = "readC")

\* With a receiver that goes on, offering "C" and answering what it gets,
\* every transfer ends: no number of NAKs keeps it going for ever.
Terminates == WF_vars(Receiver) => <>(xpc \in Ended)

\* The comment on clearing the buffer (xmodemcrc.py:116) says that no later
\* "C" interferes: over a line that spoils nothing, no answer is invalid.
LateReadyIsHarmless == failure # "invalid"
==============================================================================
