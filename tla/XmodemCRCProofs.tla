--------------------------- MODULE XmodemCRCProofs ---------------------------
(***************************************************************************)
(* What XmodemCRC guarantees for every image length, every number of       *)
(* forgiven failures, every modulus of the packet numbers (256 among them)  *)
(* and every number of faults of the line.                                 *)
(***************************************************************************)
EXTENDS XmodemCRC, Integers, SequenceTheorems, TLAPS

(***************************************************************************)
(* The inductive invariant.                                                *)
(***************************************************************************)

\* Block k is stored at place k, and none beyond the image.
StoredInOrder ==
  /\ Len(stored) <= NumBlocks
  /\ \A k \in 1..Len(stored) : stored[k] = k

\* Until the first packet is sent only "C"s are on the line.
BeforeFirst ==
  xpc \in {"idle", "readC"} =>
    /\ index = 0
    /\ toDev = << >>
    /\ stored = << >>
    /\ rmode \in {"idle", "sendC"}
    /\ Replies = {}

\* The only packet under way is the current one, whole or damaged.
OnTheLine ==
  /\ Len(toDev) <= 1
  /\ \A k \in 1..Len(toDev) : toDev[k] \in {Outgoing(index), Damaged}

\* The receiver completes only once every block has been acknowledged.
CompleteAtEnd ==
  /\ rmode = "complete" => index = NumBlocks
  /\ xpc = "returned" => index = NumBlocks /\ rmode = "complete"

\* An ACK is on its way only if the current packet has been taken.
AnswersTrue ==
  xpc = "awaitReply" =>
    \A k \in 1..Len(toHost) :
      toHost[k] = "ACK" => IF index < NumBlocks
                           THEN Len(stored) = index + 1
                           ELSE rmode = "complete"

\* Every transmission but the first one of a packet, and every NAK yet to
\* be read, was paid for with a fault of the line.
PaidFor ==
  /\ xpc = "awaitReply" =>
       /\ attempt <= faults
       /\ \/ \E k \in 1..Len(toDev) : toDev[k] = Damaged
          \/ \E k \in 1..Len(toHost) : toHost[k] = "NAK"
          => attempt < faults
  /\ RetryBudget

IInv ==
  /\ TypeOK
  /\ StoredInOrder
  /\ BeforeFirst
  /\ OnTheLine
  /\ ProgressTruthful
  /\ CompleteAtEnd
  /\ AnswersTrue
  /\ StopAndWait
  /\ PaidFor

-----------------------------------------------------------------------------
(***************************************************************************)
(* Packets.                                                                *)
(***************************************************************************)

\* Two consecutive packet numbers are different, also where they wrap.
LEMMA NextNumberDiffers ==
  ASSUME NEW a \in Nat, NEW m \in Nat, m >= 2
  PROVE  (a + 1) % m # a % m
<1>1. (a % m) \in 0..(m - 1) /\ a = m * (a \div m) + (a % m)
  OBVIOUS
<1>2. ((a + 1) % m) \in 0..(m - 1) /\ a + 1 = m * ((a + 1) \div m) + ((a + 1) % m)
  OBVIOUS
<1>3. a \div m \in Nat /\ (a + 1) \div m \in Nat
  OBVIOUS
<1>4. SUFFICES ASSUME (a + 1) % m = a % m PROVE FALSE
  OBVIOUS
<1> DEFINE d == ((a + 1) \div m) - (a \div m)
<1>5. m * d = 1
  BY <1>1, <1>2, <1>3, <1>4
<1>6. CASE d <= 0
  BY <1>3, <1>5, <1>6
<1>7. CASE d >= 1
  BY <1>3, <1>5, <1>7
<1> QED
  BY <1>3, <1>6, <1>7

\* A sequence of at most one element that is not empty.
LEMMA SingleElement ==
  ASSUME NEW S, NEW s \in Seq(S), s # << >>, Len(s) <= 1
  PROVE  Len(s) = 1 /\ Head(s) = s[1] /\ Tail(s) = << >>
<1>1. Len(s) \in Nat \ {0}
  BY EmptySeq
<1>2. Len(s) = 1
  BY <1>1
<1>3. Tail(s) \in Seq(S) /\ Len(Tail(s)) = 0 /\ Head(s) = s[1]
  BY <1>2
<1> QED
  BY <1>2, <1>3, EmptySeq

\* What is sent is a packet, and not a damaged one.
LEMMA OutgoingType ==
  ASSUME NEW i \in 0..NumBlocks
  PROVE  /\ Outgoing(i) \in Packets
         /\ Damaged \in Packets
         /\ Outgoing(i) # Damaged
<1>1. Number(i) \in Nat
  BY XmodemAssumption DEF Number
<1> QED
  BY <1>1, XmodemAssumption DEF Outgoing, Block, EOT, Damaged, Packets

\* The receiver takes the current packet for what it is: the next block if
\* it is not stored yet, a repetition if it is.
LEMMA CurrentBlock ==
  ASSUME NEW i \in Nat, i < NumBlocks, stored \in Seq(Nat),
         Len(stored) \in i..(i + 1)
  PROVE  /\ Outgoing(i).kind = "SOH" /\ Outgoing(i).data = i + 1
         /\ Expects(Outgoing(i)) <=> Len(stored) = i
         /\ Len(stored) = i + 1 => Repeats(Outgoing(i))
<1>1. Outgoing(i) = [kind |-> "SOH", num |-> (i + 1) % NumberMod, data |-> i + 1]
  BY DEF Outgoing, Block, Number
<1>2. (i + 2) % NumberMod # (i + 1) % NumberMod
  BY NextNumberDiffers, XmodemAssumption, i + 1 \in Nat, (i + 1) + 1 = i + 2
<1>3. Len(stored) = i \/ (Len(stored) = i + 1 /\ Len(stored) + 1 = i + 2 /\ stored # << >>)
  OBVIOUS
<1> QED
  BY <1>1, <1>2, <1>3 DEF Expects, Repeats

-----------------------------------------------------------------------------
(***************************************************************************)
(* The invariant is inductive: one lemma per group of actions.             *)
(***************************************************************************)
LEMMA InitIInv == Init => IInv
  BY XmodemAssumption
  DEF Init, IInv, TypeOK, Ended, Failures, StoredInOrder, BeforeFirst, Replies,
      OnTheLine, ProgressTruthful, CompleteAtEnd, AnswersTrue, StopAndWait,
      PaidFor, RetryBudget

LEMMA RaiseKeeps ==
  ASSUME IInv, NEW why \in Failures, Raise(why),
         UNCHANGED <<faults, rmode, stored>>, toHost' \in Seq(Answers),
         why = "failures" => faults > MaxFailures
  PROVE  IInv'
<1> USE XmodemAssumption DEF IInv
<1>1. TypeOK'
  BY DEF TypeOK, Raise, Ended, Failures
<1>2. StoredInOrder'
  BY DEF StoredInOrder
<1>3. OnTheLine' /\ ProgressTruthful' /\ CompleteAtEnd'
  BY DEF OnTheLine, ProgressTruthful, CompleteAtEnd, Raise, TypeOK
<1>4. BeforeFirst' /\ AnswersTrue' /\ StopAndWait' /\ PaidFor'
  BY DEF Raise, BeforeFirst, AnswersTrue, StopAndWait, PaidFor, RetryBudget
<1> QED
  BY <1>1, <1>2, <1>3, <1>4

LEMMA StartKeeps ==
  ASSUME IInv, NEW aligned \in BOOLEAN, Start(aligned)
  PROVE  IInv'
<1>1. CASE aligned
  BY <1>1 DEF Start, IInv, TypeOK, Ended, StoredInOrder, BeforeFirst, Replies,
       OnTheLine, ProgressTruthful, CompleteAtEnd, AnswersTrue, StopAndWait,
       PaidFor, RetryBudget, receiverVars
<1>2. CASE ~aligned
  BY <1>2, RaiseKeeps DEF Start, Failures, receiverVars, IInv, TypeOK
<1> QED
  BY <1>1, <1>2

\* A transmission starts with nothing else under way.
LEMMA TransmitKeeps ==
  ASSUME IInv, NEW i \in 0..NumBlocks, NEW n \in 0..MaxFailures, Transmit(i, n),
         UNCHANGED <<faults, rmode, stored>>,
         toDev = << >>, toHost' \in Seq(Answers),
         \A k \in 1..Len(toHost') : toHost'[k] = "C",
         Len(stored) \in i..(i + 1),
         rmode = "complete" => i = NumBlocks,
         xpc # "returned",
         n <= faults
  PROVE  IInv'
<1> USE XmodemAssumption
<1>1. /\ toDev' = <<Outgoing(i)>> /\ xpc' = "awaitReply" /\ index' = i
      /\ attempt' = n /\ failure' = failure
  BY DEF Transmit, IInv, TypeOK
<1>2. Outgoing(i) \in Packets /\ Outgoing(i) # Damaged
  BY OutgoingType
<1>3. TypeOK'
  BY <1>1, <1>2 DEF IInv, TypeOK
<1>4. StoredInOrder' /\ ProgressTruthful' /\ CompleteAtEnd'
  BY <1>1 DEF IInv, TypeOK, StoredInOrder, ProgressTruthful, CompleteAtEnd
<1>5. OnTheLine' /\ BeforeFirst'
  BY <1>1 DEF OnTheLine, BeforeFirst
<1>6. AnswersTrue' /\ StopAndWait'
  BY <1>1 DEF AnswersTrue, StopAndWait, Replies
<1>7. PaidFor'
  BY <1>1, <1>2 DEF IInv, PaidFor, RetryBudget
<1> QED
  BY <1>3, <1>4, <1>5, <1>6, <1>7 DEF IInv

LEMMA ReadCKeeps ==
  ASSUME IInv, ReadC
  PROVE  IInv'
<1>1. PICK k \in 1..Len(toHost) : toHost' = SubSeq(toHost, k + 1, Len(toHost))
  BY DEF ReadC
<1>2. /\ toHost \in Seq(Answers) /\ index = 0 /\ toDev = << >> /\ stored = << >>
      /\ rmode \in {"idle", "sendC"} /\ faults \in Nat
      /\ \A j \in 1..Len(toHost) : toHost[j] = "C"
  BY XmodemAssumption DEF ReadC, IInv, TypeOK, BeforeFirst, Replies
<1>3. toHost' \in Seq(Answers) /\ \A j \in 1..Len(toHost') : toHost'[j] = "C"
  BY <1>1, <1>2
<1>4. UNCHANGED <<faults, rmode, stored>> /\ Transmit(0, 0) /\ xpc # "returned"
  BY DEF ReadC, receiverVars
<1> QED
  BY <1>2, <1>3, <1>4, TransmitKeeps, XmodemAssumption

\* What holds when the sender reads an answer: nothing is under way after it.
LEMMA AnsweredClears ==
  ASSUME IInv, NEW answer \in Answers, Answered(answer)
  PROVE  /\ toHost' \in Seq(Answers)
         /\ UNCHANGED <<faults, rmode, stored>>
         /\ answer # "C" => /\ toDev = << >>
                            /\ \A k \in 1..Len(toHost') : toHost'[k] = "C"
         /\ answer = "ACK" => IF index < NumBlocks
                              THEN Len(stored) = index + 1
                              ELSE rmode = "complete"
         /\ attempt <= faults
         /\ answer = "NAK" => attempt < faults
<1>1. /\ xpc = "awaitReply" /\ toHost \in Seq(Answers) /\ toHost # << >>
      /\ answer = toHost[1] /\ 1 \in 1..Len(toHost) /\ 1 \in DOMAIN toHost /\ toHost' = Tail(toHost)
  BY DEF Answered, IInv, TypeOK
<1>2. toHost' \in Seq(Answers) /\ UNCHANGED <<faults, rmode, stored>>
  BY <1>1 DEF Answered, receiverVars
<1>3. ASSUME answer # "C"
      PROVE  toDev = << >> /\ \A k \in 1..Len(toHost') : toHost'[k] = "C"
  <2>1. 1 \in Replies
    BY <1>1, <1>3 DEF Replies
  <2>2. \A k \in 2..Len(toHost) : toHost[k] = "C"
    BY <1>1, <2>1 DEF Replies, IInv, StopAndWait
  <2>3. \A k \in 1..Len(toHost') : toHost'[k] = toHost[k + 1] /\ k + 1 \in 2..Len(toHost)
    BY <1>1
  <2> QED
    BY <1>1, <2>1, <2>2, <2>3 DEF IInv, StopAndWait
<1>4. answer = "ACK" => IF index < NumBlocks THEN Len(stored) = index + 1
                                             ELSE rmode = "complete"
  BY <1>1 DEF IInv, AnswersTrue
<1>5. attempt <= faults /\ (answer = "NAK" => attempt < faults)
  BY <1>1 DEF IInv, PaidFor
<1> QED
  BY <1>2, <1>3, <1>4, <1>5

LEMMA ReplyAckKeeps ==
  ASSUME IInv, ReplyAck
  PROVE  IInv'
<1> USE XmodemAssumption
<1>1. Answered("ACK") /\ "ACK" \in Answers /\ xpc = "awaitReply"
  BY DEF ReplyAck, Answered, Answers
<1>2. /\ toHost' \in Seq(Answers) /\ UNCHANGED <<faults, rmode, stored>>
      /\ toDev = << >> /\ \A k \in 1..Len(toHost') : toHost'[k] = "C"
      /\ IF index < NumBlocks THEN Len(stored) = index + 1 ELSE rmode = "complete"
  BY <1>1, AnsweredClears
<1>3. CASE index < NumBlocks
  <2>1. Transmit(index + 1, 0) /\ index + 1 \in 0..NumBlocks /\ 0 <= faults
    BY <1>3 DEF ReplyAck, IInv, TypeOK
  <2>2. rmode # "complete" /\ Len(stored) \in (index + 1)..(index + 2)
    BY <1>2, <1>3 DEF IInv, CompleteAtEnd, TypeOK
  <2> QED
    BY <1>1, <1>2, <2>1, <2>2, TransmitKeeps
<1>4. CASE ~(index < NumBlocks)
  <2>1. /\ xpc' = "returned" /\ UNCHANGED <<index, attempt, failure, toDev>>
        /\ index = NumBlocks /\ rmode = "complete"
    BY <1>2, <1>4 DEF ReplyAck, IInv, TypeOK
  <2> QED
    BY <1>2, <2>1 DEF IInv, TypeOK, Ended, StoredInOrder, BeforeFirst, OnTheLine,
       ProgressTruthful, CompleteAtEnd, AnswersTrue, StopAndWait, PaidFor,
       RetryBudget
<1> QED
  BY <1>3, <1>4

LEMMA ReplyNakKeeps ==
  ASSUME IInv, ReplyNak
  PROVE  IInv'
<1> USE XmodemAssumption
<1>1. Answered("NAK") /\ "NAK" \in Answers /\ xpc = "awaitReply"
  BY DEF ReplyNak, Answered, Answers
<1>2. /\ toHost' \in Seq(Answers) /\ UNCHANGED <<faults, rmode, stored>>
      /\ toDev = << >> /\ \A k \in 1..Len(toHost') : toHost'[k] = "C"
      /\ attempt < faults
  BY <1>1, AnsweredClears
<1>3. attempt \in Nat /\ faults \in Nat /\ index \in 0..NumBlocks
  BY DEF IInv, TypeOK
<1>4. CASE attempt >= MaxFailures
  BY <1>2, <1>3, <1>4, RaiseKeeps DEF ReplyNak, Failures
<1>5. CASE ~(attempt >= MaxFailures)
  BY <1>1, <1>2, <1>3, <1>5, TransmitKeeps
     DEF ReplyNak, IInv, ProgressTruthful, CompleteAtEnd
<1> QED
  BY <1>4, <1>5

\* The other ways in which the call raises.
LEMMA GiveUpKeeps ==
  ASSUME IInv, ReplyCan \/ ReplyInvalid \/ ReplyTimeout \/ ConnectionLost
  PROVE  IInv'
<1>1. CASE ReplyCan
  BY <1>1, AnsweredClears, RaiseKeeps DEF ReplyCan, Answers, Failures
<1>2. CASE ReplyInvalid
  <2>1. Answered(Head(toHost)) /\ Head(toHost) \in Answers /\ Raise("invalid")
    BY <1>2 DEF ReplyInvalid, Answered, IInv, TypeOK
  <2> QED
    BY <2>1, AnsweredClears, RaiseKeeps DEF Failures
<1>3. CASE ReplyTimeout \/ ConnectionLost
  <2>1. toHost' \in Seq(Answers) /\ UNCHANGED <<faults, rmode, stored>>
    BY <1>3 DEF ReplyTimeout, ConnectionLost, receiverVars, IInv, TypeOK
  <2> QED
    BY <1>3, <2>1, RaiseKeeps DEF ReplyTimeout, ConnectionLost, Failures
<1> QED
  BY <1>1, <1>2, <1>3

\* Before the first packet the receiver only changes mode and offers "C".
LEMMA ReadyKeeps ==
  ASSUME IInv, EnterXmodem \/ OfferC
  PROVE  IInv'
<1> USE XmodemAssumption
<1>1. UNCHANGED <<xpc, index, attempt, failure, toDev, faults, stored>>
  BY DEF EnterXmodem, OfferC, senderVars, lineVars, receiverVars
<1>2. CASE EnterXmodem
  <2>1. rmode = "idle" /\ rmode' = "sendC" /\ UNCHANGED toHost
    BY <1>2 DEF EnterXmodem, lineVars
  <2> QED
    BY <1>1, <2>1 DEF IInv, TypeOK, StoredInOrder, BeforeFirst, Replies,
       OnTheLine, ProgressTruthful, CompleteAtEnd, AnswersTrue, StopAndWait,
       PaidFor, RetryBudget
<1>3. CASE OfferC
  <2>1. /\ toHost \in Seq(Answers) /\ toHost' = Append(toHost, "C")
        /\ rmode = "sendC" /\ UNCHANGED rmode /\ "C" \in Answers
    BY <1>3 DEF OfferC, receiverVars, IInv, TypeOK, Answers
  <2>2. toHost' \in Seq(Answers) /\ Replies' = Replies
    BY <2>1 DEF Replies
  <2>3. \A k \in 1..Len(toHost') :
          toHost'[k] # "C" => k \in 1..Len(toHost) /\ toHost[k] = toHost'[k]
    BY <2>1
  <2>4. TypeOK' /\ StoredInOrder' /\ BeforeFirst' /\ OnTheLine'
    BY <1>1, <2>1, <2>2 DEF IInv, TypeOK, StoredInOrder, BeforeFirst, OnTheLine
  <2>5. ProgressTruthful' /\ CompleteAtEnd' /\ AnswersTrue' /\ StopAndWait'
    BY <1>1, <2>1, <2>2, <2>3
    DEF IInv, ProgressTruthful, CompleteAtEnd, AnswersTrue, StopAndWait
  <2>6. PaidFor'
    BY <1>1, <2>3 DEF IInv, PaidFor, RetryBudget
  <2> QED
    BY <2>4, <2>5, <2>6 DEF IInv
<1> QED
  BY <1>2, <1>3

\* What the receiver finds when it takes the packet off the line.
LEMMA PacketTaken ==
  ASSUME IInv, Receive
  PROVE  /\ Len(toDev) = 1 /\ toDev[1] = Head(toDev) /\ toDev' = << >>
         /\ Head(toDev) \in {Outgoing(index), Damaged}
         /\ UNCHANGED <<xpc, index, attempt, failure, faults>>
         /\ xpc \notin {"idle", "readC"}
         /\ xpc = "awaitReply" => \A k \in 1..Len(toHost) : toHost[k] = "C"
         /\ toHost \in Seq(Answers)
         /\ index \in Nat /\ index <= NumBlocks
         /\ stored \in Seq(Nat) /\ Len(stored) \in index..(index + 1)
<1>1. toDev \in Seq(Packets) /\ toDev # << >> /\ Len(toDev) <= 1
  BY DEF Receive, IInv, TypeOK, OnTheLine
<1>2. Len(toDev) = 1 /\ Head(toDev) = toDev[1] /\ Tail(toDev) = << >>
  BY <1>1, SingleElement
<1>3. toDev' = << >> /\ UNCHANGED <<xpc, index, attempt, failure, faults>>
  <2>1. toDev' = Tail(toDev) /\ UNCHANGED senderVars /\ UNCHANGED faults
    BY DEF Receive
  <2> QED
    BY <1>2, <2>1 DEF senderVars
<1>4. xpc = "awaitReply" => \A k \in 1..Len(toHost) : toHost[k] = "C"
  BY <1>1 DEF IInv, StopAndWait, Replies, TypeOK
<1> QED
  BY <1>1, <1>2, <1>3, <1>4, XmodemAssumption
  DEF IInv, OnTheLine, BeforeFirst, TypeOK, ProgressTruthful

\* The receiver's answer keeps the invariant if it is true and is paid for.
LEMMA AnswerKeeps ==
  ASSUME IInv, Receive,
         NEW answer \in Answers, toHost' = Append(toHost, answer),
         TypeOK', StoredInOrder', ProgressTruthful',
         rmode' = "complete" => index = NumBlocks,
         xpc = "returned" => rmode' = "complete",
         answer = "ACK" => IF index < NumBlocks THEN Len(stored') = index + 1
                                                ELSE rmode' = "complete",
         answer = "NAK" => Head(toDev) = Damaged
  PROVE  IInv'
<1>1. /\ Len(toDev) = 1 /\ toDev[1] = Head(toDev) /\ toDev' = << >>
      /\ UNCHANGED <<xpc, index, attempt, failure, faults>>
      /\ xpc \notin {"idle", "readC"}
      /\ xpc = "awaitReply" => \A k \in 1..Len(toHost) : toHost[k] = "C"
      /\ toHost \in Seq(Answers)
  BY PacketTaken
<1>2. /\ xpc = "awaitReply" =>
           \A k \in 1..Len(toHost') : toHost'[k] # "C" => k = Len(toHost)+1
      /\ toHost'[Len(toHost) + 1] = answer
  BY <1>1
<1>3. BeforeFirst' /\ OnTheLine'
  BY <1>1 DEF BeforeFirst, OnTheLine
<1>4. CompleteAtEnd'
  BY <1>1 DEF IInv, CompleteAtEnd
<1>5. AnswersTrue'
  BY <1>1, <1>2 DEF AnswersTrue
<1>6. StopAndWait'
  <2>1. Len(toDev') <= 1 /\ toDev' = << >>
    BY <1>1
  <2>2. xpc = "awaitReply" => \A k \in Replies' : k = Len(toHost) + 1
    BY <1>1, <1>2 DEF Replies
  <2> QED
    BY <1>1, <2>1, <2>2 DEF StopAndWait
<1>7. PaidFor'
  <2>1. 1 \in 1..Len(toDev) /\ Len(toDev') = 0
    BY <1>1
  <2>2. xpc = "awaitReply" /\ answer = "NAK" => attempt < faults
    BY <1>1, <2>1 DEF IInv, PaidFor
  <2> QED
    BY <1>1, <1>2, <2>1, <2>2 DEF IInv, PaidFor, RetryBudget
<1> QED
  BY <1>3, <1>4, <1>5, <1>6, <1>7 DEF IInv

LEMMA ReceiveKeeps ==
  ASSUME IInv, Receive
  PROVE  IInv'
<1> USE XmodemAssumption
<1> DEFINE p == Head(toDev)
<1>1. /\ Len(toDev) = 1 /\ toDev[1] = p /\ toDev' = << >>
      /\ p \in {Outgoing(index), Damaged}
      /\ UNCHANGED <<xpc, index, attempt, failure, faults>>
      /\ xpc \notin {"idle", "readC"}
      /\ toHost \in Seq(Answers)
      /\ index \in Nat /\ index <= NumBlocks
      /\ stored \in Seq(Nat) /\ Len(stored) \in index..(index + 1)
  BY PacketTaken
<1>2. /\ {"ACK", "NAK", "CAN"} \subseteq Answers
      /\ xpc = "returned" => rmode = "complete"
      /\ rmode = "complete" => index = NumBlocks
      /\ << >> \in Seq(Packets)
      /\ Damaged.kind = "damaged"
  BY DEF Answers, IInv, CompleteAtEnd, Damaged
<1>3. \/ /\ index < NumBlocks /\ p.kind = "SOH" /\ p.data = index + 1
         /\ Expects(p) <=> Len(stored) = index
         /\ Len(stored) = index + 1 => Repeats(p)
      \/ index = NumBlocks /\ p.kind = "EOT"
      \/ p = Damaged /\ p.kind = "damaged"
  BY <1>1, <1>2, CurrentBlock DEF Outgoing, EOT
<1>4. CASE rmode \notin {"sendC", "receiving"}
  <2>1. UNCHANGED <<toHost, rmode, stored>>
    BY <1>4 DEF Receive, receiverVars
  <2>2. TypeOK' /\ StoredInOrder' /\ BeforeFirst' /\ OnTheLine' /\ ProgressTruthful'
    BY <1>1, <1>2, <2>1
    DEF IInv, TypeOK, StoredInOrder, BeforeFirst, OnTheLine, ProgressTruthful
  <2>3. CompleteAtEnd' /\ AnswersTrue' /\ StopAndWait' /\ PaidFor'
    BY <1>1, <1>2, <2>1
    DEF IInv, CompleteAtEnd, AnswersTrue, StopAndWait, Replies, PaidFor, RetryBudget
  <2> QED
    BY <2>2, <2>3 DEF IInv
<1>5. CASE rmode \in {"sendC", "receiving"}
  <2>1. Accept(p) \/ Drop(p) \/ Complete(p) \/ Refuse(p) \/ Cancel(p)
    BY <1>5 DEF Receive
  <2>2. xpc # "returned"
    BY <1>2, <1>5
  <2>3. CASE Accept(p)
    <3>1. /\ index < NumBlocks /\ Len(stored) = index /\ p.data = index + 1
          /\ stored' = Append(stored, index + 1) /\ rmode' = "receiving"
          /\ toHost' = Append(toHost, "ACK")
      BY <1>1, <1>3, <2>3 DEF Accept, Expects
    <3>2. TypeOK' /\ StoredInOrder' /\ ProgressTruthful'
      BY <1>1, <1>2, <3>1 DEF IInv, TypeOK, StoredInOrder, ProgressTruthful
    <3> QED
      BY <1>1, <1>2, <2>2, <3>1, <3>2, AnswerKeeps
  <2>4. CASE Drop(p)
    <3>1. /\ index < NumBlocks /\ Len(stored) = index + 1
          /\ toHost' = Append(toHost, "ACK") /\ UNCHANGED <<rmode, stored>>
      BY <1>1, <1>3, <2>4 DEF Drop, Repeats, receiverVars
    <3>2. TypeOK' /\ StoredInOrder' /\ ProgressTruthful'
      BY <1>1, <1>2, <3>1 DEF IInv, TypeOK, StoredInOrder, ProgressTruthful
    <3> QED
      BY <1>1, <1>2, <2>2, <3>1, <3>2, AnswerKeeps
  <2>5. CASE Complete(p)
    <3>1. /\ index = NumBlocks /\ toHost' = Append(toHost, "ACK")
          /\ rmode' = "complete" /\ UNCHANGED stored
      BY <1>1, <1>3, <2>5 DEF Complete
    <3>2. TypeOK' /\ StoredInOrder' /\ ProgressTruthful'
      BY <1>1, <1>2, <3>1 DEF IInv, TypeOK, StoredInOrder, ProgressTruthful
    <3> QED
      BY <1>1, <1>2, <2>2, <3>1, <3>2, AnswerKeeps
  <2>6. CASE Refuse(p)
    <3>1. /\ p = Damaged /\ toHost' = Append(toHost, "NAK")
          /\ UNCHANGED <<rmode, stored>>
      BY <1>1, <1>3, <2>6 DEF Refuse, receiverVars
    <3>2. TypeOK' /\ StoredInOrder' /\ ProgressTruthful'
      BY <1>1, <1>2, <3>1 DEF IInv, TypeOK, StoredInOrder, ProgressTruthful
    <3> QED
      BY <1>1, <1>2, <2>2, <3>1, <3>2, AnswerKeeps
  <2>7. CASE Cancel(p)
    <3>1. /\ toHost' = Append(toHost, "CAN") /\ rmode' = "cancelled"
          /\ UNCHANGED stored
      BY <2>7 DEF Cancel
    <3>2. TypeOK' /\ StoredInOrder' /\ ProgressTruthful'
      BY <1>1, <1>2, <3>1 DEF IInv, TypeOK, StoredInOrder, ProgressTruthful
    <3> QED
      BY <1>1, <1>2, <2>2, <3>1, <3>2, AnswerKeeps
  <2> QED
    BY <2>1, <2>3, <2>4, <2>5, <2>6, <2>7
<1> QED
  BY <1>4, <1>5

\* The line: what it takes away or spoils leaves the invariant true, and a
\* fault pays for the retransmission it may cause.
LEMMA LineKeeps ==
  ASSUME IInv, Line
  PROVE  IInv'
<1> USE XmodemAssumption
<1>1. /\ UNCHANGED <<xpc, index, attempt, failure, rmode, stored>>
      /\ faults \in Nat /\ faults' = faults + 1 /\ faults' \in 0..MaxFaults
  BY DEF Line, DamagePacket, LosePacket, DamageAnswer, LoseAnswer, Spoil,
         senderVars, receiverVars, IInv, TypeOK
<1>2. StoredInOrder' /\ ProgressTruthful' /\ CompleteAtEnd'
  BY <1>1 DEF IInv, StoredInOrder, ProgressTruthful, CompleteAtEnd
<1>3. toDev \in Seq(Packets) /\ toHost \in Seq(Answers) /\ Len(toDev) <= 1
  BY DEF IInv, TypeOK, OnTheLine
<1>4. CASE DamagePacket \/ LosePacket
  <2>1. /\ toDev # << >> /\ UNCHANGED toHost
        /\ toDev' = <<Damaged>> \/ toDev' = << >>
    <3>1. toDev # << >> /\ UNCHANGED toHost
      BY <1>4 DEF DamagePacket, LosePacket
    <3>2. Tail(toDev) = << >>
      BY <1>3, <3>1, SingleElement
    <3> QED
      BY <1>4, <3>1, <3>2 DEF DamagePacket, LosePacket
  <2>2. TypeOK' /\ OnTheLine' /\ BeforeFirst' /\ Len(toDev') <= 1
    <3>1. Damaged \in Packets
      BY DEF Damaged, Packets
    <3>2. /\ toDev' \in Seq(Packets) /\ Len(toDev') <= 1
          /\ \A k \in 1..Len(toDev') : toDev'[k] = Damaged
      <4>1. CASE toDev' = <<Damaged>>
        BY <3>1, <4>1
      <4>2. CASE toDev' = << >>
        BY <4>2
      <4> QED
        BY <2>1, <4>1, <4>2
    <3>3. TypeOK' /\ OnTheLine'
      BY <1>1, <2>1, <3>2 DEF IInv, TypeOK, OnTheLine
    <3> QED
      BY <1>1, <2>1, <3>2, <3>3 DEF IInv, BeforeFirst, Replies
  <2>3. AnswersTrue' /\ StopAndWait'
    <3>1. Replies' = Replies
      BY <2>1 DEF Replies
    <3> QED
      BY <1>1, <2>1, <2>2, <3>1 DEF IInv, AnswersTrue, StopAndWait
  <2>4. PaidFor'
    BY <1>1, <2>1 DEF IInv, PaidFor, RetryBudget, TypeOK
  <2> QED
    BY <1>2, <2>2, <2>3, <2>4 DEF IInv
<1>5. CASE DamageAnswer
  <2>1. /\ toHost # << >> /\ UNCHANGED toDev /\ Head(toHost) # "C"
        /\ toHost' = <<"noise">> \o Tail(toHost)
    BY <1>5 DEF DamageAnswer
  <2>2. /\ toHost' \in Seq(Answers) /\ Len(toHost') = Len(toHost)
        /\ 1 \in 1..Len(toHost) /\ toHost[1] # "C" /\ toHost'[1] = "noise"
        /\ \A k \in 2..Len(toHost) : toHost'[k] = toHost[k]
    BY <1>3, <2>1 DEF Answers
  <2>3. Replies' = Replies /\ \A k \in 1..Len(toHost') :
                                toHost'[k] = toHost[k] \/ toHost'[k] = "noise"
    BY <1>3, <2>2 DEF Replies
  <2>4. TypeOK' /\ OnTheLine' /\ BeforeFirst'
    BY <1>1, <2>1, <2>2, <2>3 DEF IInv, TypeOK, OnTheLine, BeforeFirst
  <2>5. AnswersTrue' /\ StopAndWait'
    BY <1>1, <2>1, <2>2, <2>3 DEF IInv, AnswersTrue, StopAndWait
  <2>6. PaidFor'
    BY <1>1, <2>1, <2>2, <2>3 DEF IInv, PaidFor, RetryBudget, TypeOK
  <2> QED
    BY <1>2, <2>4, <2>5, <2>6 DEF IInv
<1>6. CASE LoseAnswer
  <2>1. toHost # << >> /\ UNCHANGED toDev /\ toHost' = Tail(toHost)
    BY <1>6 DEF LoseAnswer
  <2>2. /\ toHost' \in Seq(Answers) /\ Len(toHost') = Len(toHost) - 1
        /\ \A k \in 1..Len(toHost') :
              k + 1 \in 1..Len(toHost) /\ toHost'[k] = toHost[k + 1]
    BY <1>3, <2>1
  <2>3. \A k \in Replies' : k + 1 \in Replies /\ k \in Nat
    BY <1>3, <2>2 DEF Replies
  <2>4. TypeOK' /\ OnTheLine' /\ BeforeFirst'
    BY <1>1, <2>1, <2>2, <2>3 DEF IInv, TypeOK, OnTheLine, BeforeFirst
  <2>5. AnswersTrue'
    BY <1>1, <2>2 DEF IInv, AnswersTrue
  <2>6. StopAndWait'
    BY <1>1, <2>1, <2>3 DEF IInv, StopAndWait
  <2>7. PaidFor'
    BY <1>1, <2>1, <2>2 DEF IInv, PaidFor, RetryBudget, TypeOK
  <2> QED
    BY <1>2, <2>4, <2>5, <2>6, <2>7 DEF IInv
<1> QED
  BY <1>4, <1>5, <1>6 DEF Line

LEMMA NextIInv == IInv /\ [Next]_vars => IInv'
<1> SUFFICES ASSUME IInv, [Next]_vars PROVE IInv'
  OBVIOUS
<1>1. CASE Sender
  BY <1>1, StartKeeps, ReadCKeeps, ReplyAckKeeps, ReplyNakKeeps, GiveUpKeeps
  DEF Sender
<1>2. CASE ConnectionLost
  BY <1>2, GiveUpKeeps
<1>3. CASE Receiver
  BY <1>3, ReadyKeeps, ReceiveKeeps DEF Receiver
<1>4. CASE Line
  BY <1>4, LineKeeps
<1>5. CASE Done \/ UNCHANGED vars
  <2>1. UNCHANGED <<xpc, index, attempt, failure, toDev, toHost, faults, rmode, stored>>
    BY <1>5 DEF Done, vars, senderVars, lineVars, receiverVars
  <2> QED
    BY <2>1 DEF IInv, TypeOK, StoredInOrder, BeforeFirst, Replies, OnTheLine,
       ProgressTruthful, CompleteAtEnd, AnswersTrue, StopAndWait, PaidFor,
       RetryBudget
<1> QED
  BY <1>1, <1>2, <1>3, <1>4, <1>5 DEF Next

-----------------------------------------------------------------------------
(***************************************************************************)
(* The theorems.                                                           *)
(***************************************************************************)
THEOREM Invariance == Spec => []IInv
  BY InitIInv, NextIInv, PTL DEF Spec

\* Every variable of the transfer keeps its type.
THEOREM TypeCorrect == Spec => []TypeOK
<1>1. IInv => TypeOK
  BY DEF IInv
<1> QED
  BY <1>1, Invariance, PTL

\* send_xmodem128_crc returns only when the receiver holds the whole image.
THEOREM Delivered == Spec => []DeliveredOnReturn
<1>1. IInv => DeliveredOnReturn
  <2>1. SUFFICES ASSUME IInv, xpc = "returned"
                 PROVE  stored = [k \in 1..NumBlocks |-> k] /\ rmode = "complete"
    BY DEF DeliveredOnReturn
  <2>2. /\ stored \in Seq(Nat) /\ Len(stored) = NumBlocks /\ rmode = "complete"
        /\ \A k \in 1..Len(stored) : stored[k] = k
    BY <2>1, XmodemAssumption
    DEF IInv, TypeOK, StoredInOrder, ProgressTruthful, CompleteAtEnd
  <2> QED
    BY <2>2
<1> QED
  BY <1>1, Invariance, PTL

\* The offset given to progress_callback is true (xmodemcrc.py:126-136).
THEOREM ProgressTrue == Spec => []ProgressTruthful
<1>1. IInv => ProgressTruthful
  BY DEF IInv
<1> QED
  BY <1>1, Invariance, PTL

\* While an answer is awaited at most one packet or answer is under way.
THEOREM OneExchange == Spec => []StopAndWait
<1>1. IInv => StopAndWait
  BY DEF IInv
<1> QED
  BY <1>1, Invariance, PTL

\* No transfer is given up for failures the line did not cause.
THEOREM Budget == Spec => []RetryBudget
<1>1. IInv => RetryBudget
  BY DEF IInv, PaidFor
<1> QED
  BY <1>1, Invariance, PTL

\* The sender implements the abstract transfer.
THEOREM ImplementsTransfer == Spec => Transfer
<1>1. Init => BT!BTInit
  BY DEF Init, BT!BTInit, Result
<1>2. IInv /\ IInv' /\ [Next]_vars => [BT!BTNext]_(BT!btVars)
  <2> SUFFICES ASSUME IInv, IInv', [Next]_vars
               PROVE  [BT!BTNext]_(BT!btVars)
    OBVIOUS
  <2> USE XmodemAssumption
  <2>1. CASE UNCHANGED <<xpc, stored>>
    BY <2>1 DEF BT!btVars, Result
  <2>2. CASE Sender \/ ConnectionLost
    <3>1. UNCHANGED stored
      BY <2>2 DEF Sender, Start, ReadC, ReplyAck, ReplyNak, ReplyCan, ReplyInvalid,
         ReplyTimeout, ConnectionLost, Answered, receiverVars
    <3>2. xpc \notin Ended
      BY <2>2 DEF Sender, Start, ReadC, ReplyAck, ReplyNak, ReplyCan, ReplyInvalid,
         ReplyTimeout, ConnectionLost, Answered, Ended
    <3>3. CASE xpc' = "returned"
      BY <3>1, <3>2, <3>3
      DEF IInv, CompleteAtEnd, ProgressTruthful, StoredInOrder, TypeOK, Ended,
          BT!BTNext, BT!Finish, Result
    <3>4. CASE xpc' = "raised"
      BY <3>1, <3>2, <3>4 DEF Ended, BT!BTNext, BT!Fail, Result
    <3>5. CASE xpc' \notin Ended
      BY <3>1, <3>2, <3>5 DEF Ended, BT!btVars, Result
    <3> QED
      BY <3>3, <3>4, <3>5 DEF Ended
  <2>3. CASE Receive /\ ~UNCHANGED stored
    <3> DEFINE p == Head(toDev)
    <3>1. Accept(p) /\ rmode \in {"sendC", "receiving"}
      BY <2>3 DEF Receive, Accept, Drop, Complete, Refuse, Cancel, receiverVars
    <3>2. /\ p \in {Outgoing(index), Damaged} /\ UNCHANGED xpc
          /\ index \in Nat /\ index <= NumBlocks
          /\ stored \in Seq(Nat) /\ Len(stored) \in index..(index + 1)
      BY <2>3, PacketTaken
    <3>3. p.kind = "SOH" /\ stored' = Append(stored, p.data) /\ Expects(p)
      BY <3>1 DEF Accept, Expects
    <3>4. p = Outgoing(index) /\ index < NumBlocks
      BY <3>2, <3>3 DEF Damaged, Outgoing, EOT
    <3>5. Len(stored) = index /\ stored' = Append(stored, Len(stored) + 1)
      BY <3>2, <3>3, <3>4, CurrentBlock
    <3>6. Result # "ok" /\ UNCHANGED Result
      BY <3>1, <3>2 DEF Result, IInv, CompleteAtEnd
    <3> QED
      BY <3>4, <3>5, <3>6 DEF BT!BTNext, BT!Deliver
  <2>4. Receiver \/ Line \/ Done \/ UNCHANGED vars => UNCHANGED xpc
    BY DEF Receiver, EnterXmodem, OfferC, Receive, Line, DamagePacket, LosePacket,
       DamageAnswer, LoseAnswer, Spoil, Done, vars, senderVars
  <2>5. EnterXmodem \/ OfferC \/ Line \/ Done \/ UNCHANGED vars => UNCHANGED stored
    BY DEF EnterXmodem, OfferC, Line, DamagePacket, LosePacket,
       DamageAnswer, LoseAnswer, Spoil, Done, vars, receiverVars
  <2> QED
    BY <2>1, <2>2, <2>3, <2>4, <2>5 DEF Next, Receiver
<1> QED
  BY <1>1, <1>2, Invariance, PTL DEF Spec, Transfer, BT!BTSpec
==============================================================================
