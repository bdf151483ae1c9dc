------------------------- MODULE GeckoBootloaderProofs -------------------------
(***************************************************************************)
(* What an upload guarantees for every image length, number of retries,     *)
(* modulus of the packet numbers, number of faults and probes, every        *)
(* chunking of what the bootloader prints, and timers that fire whenever.   *)
(***************************************************************************)
EXTENDS GeckoBootloader, Integers, SequenceTheorems, WellFoundedInduction, TLAPS

\* For what is proved there of the packet numbers.
transfer == INSTANCE XmodemCRCProofs

(***************************************************************************)
(* The inductive invariant.  A call goes through four phases, told by xpc:  *)
(* before the transfer, waiting for the first "C", transferring (which may  *)
(* end with an error) and after the transfer.                              *)
(***************************************************************************)
Texts == Printed \cup xmodem!Answers
Wire  == Commands \cup {xmodem!Outgoing(i) : i \in 0..NumBlocks} \cup {xmodem!Damaged}

Typed ==
  /\ xpc \in {"idle", "readC", "awaitReply", "returned", "raised"}
  /\ index \in 0..NumBlocks /\ attempt \in 0..MaxFailures
  /\ failure \in xmodem!Failures
  /\ toDev \in Seq(Wire) /\ toHost \in Seq(Texts) /\ faults \in 0..MaxFaults
  /\ rmode \in {"idle", "sendC", "receiving", "complete", "cancelled"}
  /\ stored \in Seq(1..NumBlocks)
  /\ pc \in Waiting \cup Sleeping \cup {"xmodem", "end"}
  /\ probes \in 0..MaxProbes /\ outcome \in Outcomes
  /\ sm \in States /\ buf \in Seq(Printed)
  /\ uploadStatus \in {"none", "complete", "aborted"}
  /\ connected \in BOOLEAN
  /\ dmode \in {"starting", "menu", "xmodem", "app"}
  /\ image \in {"bootable", "unbootable", "refused"}

OnlyCs == \A k \in 1..Len(toHost) : toHost[k] = "C"

\* What the device prints after the transfer is true, wherever it is by now.
StatusTrue ==
  /\ rmode = "cancelled" => image = "refused"
  /\ Contains(toHost, "COMPLETE") \/ Contains(buf, "COMPLETE") \/ uploadStatus = "complete"
     => image # "refused" /\ dmode \in {"menu", "app"}
  /\ Contains(toHost, "ABORTED") \/ Contains(buf, "ABORTED") \/ uploadStatus = "aborted"
     => image = "refused" /\ dmode \in {"menu", "app"}

\* Before the transfer there are menus and commands on the line.  "1" is the
\* last of the commands; once it is obeyed, nothing is sent and "C"s arrive,
\* after whatever else is still coming.
BeforeTransfer ==
  xpc = "idle" =>
    /\ index = 0 /\ stored = << >> /\ uploadStatus = "none"
    /\ ~Contains(buf, "COMPLETE") /\ ~Contains(buf, "ABORTED")
    /\ pc \in {"settle", "backoff", "probing", "selecting", "selecting2", "ready", "end"}
    /\ outcome \in {"running", "timeout", "connection"}
    /\ pc # "end" => outcome = "running"
    /\ pc \in {"settle", "backoff"} => probes < MaxProbes
    /\ sm \in {"WAITING_FOR_MENU", "IN_MENU", "WAITING_XMODEM_READY", "XMODEM_READY"}
    /\ sm \in {"WAITING_XMODEM_READY", "XMODEM_READY"} => pc \in {"ready", "end"}
    /\ \A k \in 1..Len(toHost) : toHost[k] \in {"MENU", "C"}
    /\ \A j, k \in 1..Len(toHost) : j < k /\ toHost[j] = "C" => toHost[k] = "C"
    /\ \A k \in 1..Len(toDev) : toDev[k] \in {Newline, EblInfo, UploadFw}
    /\ \A k \in 1..Len(toDev) : toDev[k] = UploadFw =>
                                  k = Len(toDev) /\ pc \in {"ready", "end"}
    /\ \/ /\ dmode \in {"starting", "menu"} /\ rmode = "idle"
          /\ ~Contains(toHost, "C") /\ sm # "XMODEM_READY"
       \/ /\ dmode = "xmodem" /\ rmode = "sendC"
          /\ toDev = << >> /\ pc \in {"ready", "end"}
    /\ sm = "XMODEM_READY" => OnlyCs

\* The reader has the protocol's place: nothing is parsed meanwhile.
Transferring ==
  xpc \in {"readC", "awaitReply"} =>
    /\ pc = "xmodem" /\ outcome = "running"
    /\ sm = "WAITING_UPLOAD_DONE" /\ uploadStatus = "none"

ReadyPhase ==
  xpc = "readC" =>
    /\ index = 0 /\ stored = << >> /\ toDev = << >> /\ OnlyCs
    /\ dmode = "xmodem" /\ rmode = "sendC"

\* Once the transfer has begun there is at most one packet on the line, the
\* current one, and none once the receiver is through.
OnTheLine ==
  xpc \in {"awaitReply", "raised"} =>
    /\ pc \in {"xmodem", "end"}
    /\ outcome \in {"running", "transfer", "connection"}
    /\ Len(toDev) <= 1
    /\ \A k \in 1..Len(toDev) : toDev[k] \in {xmodem!Outgoing(index), xmodem!Damaged}
    /\ rmode \in {"complete", "cancelled"} => toDev = << >>
    /\ rmode # "idle"
    /\ \/ dmode = "xmodem"
       \/ dmode = "menu" /\ rmode \in {"complete", "cancelled"}

\* The receiver stores in order and is at most one block ahead.
Storing ==
  /\ Len(stored) \in index..(index + 1) /\ Len(stored) <= NumBlocks
  /\ \A k \in 1..Len(stored) : stored[k] = k
  /\ rmode = "complete" => index = NumBlocks
  /\ rmode = "sendC" => stored = << >>

\* The only answer under way is that to the current packet, and true.  Apart from
\* "C"s only what is printed comes after it; after an ACK no "C" comes either.
AnswersTrue ==
  xpc = "awaitReply" =>
    /\ toDev # << >> => OnlyCs
    /\ \A j, k \in 1..Len(toHost) : j < k =>
         \/ toHost[j] = "C"
         \/ toHost[k] \in IF toHost[j] = "ACK" THEN Printed ELSE Printed \cup {"C"}
    /\ \A k \in 1..Len(toHost) : toHost[k] \in Printed => dmode = "menu"
    /\ \A k \in 1..Len(toHost) : toHost[k] = "ACK" =>
         IF index < NumBlocks THEN Len(stored) = index + 1 /\ rmode = "receiving"
                              ELSE rmode = "complete"
    /\ \A k \in 1..Len(toHost) : toHost[k] = "NAK" => rmode \in {"sendC", "receiving"}

\* After the transfer the device has the image, and the menu gets commands
\* only once the status has been read.
AfterTransfer ==
  xpc = "returned" =>
    /\ index = NumBlocks /\ rmode = "complete"
    /\ dmode \in {"xmodem", "menu", "app"}
    /\ \A k \in 1..Len(toDev) : toDev[k] \in {Newline, EblInfo, RunFw}
    /\ \A k \in 1..Len(toHost) : toHost[k] \in Printed
    /\ pc \in {"xmodem", "status"} \/ dmode = "xmodem" => toDev = << >>
    /\ pc \in {"xmodem", "status", "menu", "menuinfo", "menuinfo2", "run", "recheck",
               "rerun", "end"}
    /\ pc = "xmodem" => sm = "WAITING_UPLOAD_DONE" /\ uploadStatus = "none"
    /\ sm = "UPLOAD_DONE" => uploadStatus # "none"
    /\ pc \in {"menu", "menuinfo", "menuinfo2"} => uploadStatus # "none"
    /\ pc \in {"menu", "menuinfo", "menuinfo2", "run", "recheck", "rerun"} =>
         sm \in {"WAITING_FOR_MENU", "IN_MENU"}
    /\ pc \in {"run", "recheck", "rerun"} \/ outcome = "ok" => uploadStatus = "complete"
    /\ pc # "end" => outcome = "running"
    /\ outcome = "rejected" => image = "refused"

IInv ==
  /\ Typed /\ StatusTrue
  /\ BeforeTransfer /\ Transferring /\ ReadyPhase
  /\ OnTheLine /\ Storing /\ AnswersTrue
  /\ AfterTransfer

-----------------------------------------------------------------------------
(***************************************************************************)
(* Sequences.                                                              *)
(***************************************************************************)

\* A set of natural numbers that is not empty has a least element.
LEMMA LeastNat ==
  ASSUME NEW S, S \subseteq Nat, S # {}
  PROVE  \E m \in S : \A k \in S : m <= k
<1> DEFINE R == {p \in Nat \X Nat : p[1] < p[2]}
<1>1. IsWellFoundedOn(R, Nat)
  BY NatLessThanWellFounded DEF OpToRel
<1>2. PICK m \in S : \A k \in S : <<k, m>> \notin R
  <2> HIDE DEF R
  <2> QED BY <1>1, WFMin
<1>3. \A k \in S : ~(k < m)
  BY <1>2
<1>4. \A k \in S : m <= k
  BY <1>3
<1> QED BY <1>4

\* A chunk and what is left.
LEMMA Chunk ==
  ASSUME NEW S, NEW s \in Seq(S), NEW k \in 0..Len(s)
  PROVE  /\ SubSeq(s, 1, k) \in Seq(S) /\ Len(SubSeq(s, 1, k)) = k
         /\ \A i \in 1..k : SubSeq(s, 1, k)[i] = s[i]
         /\ SubSeq(s, k + 1, Len(s)) \in Seq(S)
         /\ Len(SubSeq(s, k + 1, Len(s))) = Len(s) - k
         /\ \A i \in 1..(Len(s) - k) : SubSeq(s, k + 1, Len(s))[i] = s[i + k]
BY SMTT(30)

\* One element is taken off a sequence, or added to it.
LEMMA TailOf ==
  ASSUME NEW S, NEW s \in Seq(S), s # << >>
  PROVE  /\ Tail(s) \in Seq(S) /\ Len(Tail(s)) = Len(s) - 1
         /\ \A i \in 1..Len(Tail(s)) : i + 1 \in 1..Len(s) /\ Tail(s)[i] = s[i + 1]
         /\ \A i \in 1..Len(Tail(s)) : i + 1 = Len(s) => i = Len(Tail(s))
         /\ Head(s) = s[1] /\ 1 \in 1..Len(s)
         /\ \A t : Contains(Tail(s), t) => Contains(s, t)
<1>1. Len(s) \in Nat \ {0}
  BY EmptySeq
<1>2. /\ Tail(s) \in Seq(S) /\ Len(Tail(s)) = Len(s) - 1
      /\ \A i \in 1..Len(Tail(s)) : i + 1 \in 1..Len(s) /\ Tail(s)[i] = s[i + 1]
      /\ \A i \in 1..Len(Tail(s)) : i + 1 = Len(s) => i = Len(Tail(s))
      /\ Head(s) = s[1] /\ 1 \in 1..Len(s)
  BY <1>1
<1> QED BY <1>2 DEF Contains

LEMMA AppendOf ==
  ASSUME NEW S, NEW s \in Seq(S), NEW e \in S
  PROVE  /\ Append(s, e) \in Seq(S) /\ Len(Append(s, e)) = Len(s) + 1
         /\ \A i \in 1..Len(Append(s, e)) :
              \/ i \in 1..Len(s) /\ Append(s, e)[i] = s[i]
              \/ i = Len(s) + 1 /\ Append(s, e)[i] = e
         /\ \A t : Contains(Append(s, e), t) => Contains(s, t) \/ t = e
<1>1. /\ Append(s, e) \in Seq(S) /\ Len(Append(s, e)) = Len(s) + 1
      /\ \A i \in 1..Len(Append(s, e)) :
           \/ i \in 1..Len(s) /\ Append(s, e)[i] = s[i]
           \/ i = Len(s) + 1 /\ Append(s, e)[i] = e
  OBVIOUS
<1> QED BY <1>1 DEF Contains

LEMMA PairOf ==
  ASSUME NEW S, NEW a \in S, NEW b \in S
  PROVE  <<a>> \o <<b>> = <<a, b>>
<1>1. /\ <<a>> \o <<b>> \in Seq(S) /\ <<a, b>> \in Seq(S)
      /\ Len(<<a>> \o <<b>>) = 2 /\ Len(<<a, b>>) = 2
      /\ (<<a>> \o <<b>>)[1] = a /\ (<<a>> \o <<b>>)[2] = b
  OBVIOUS
<1>2. \A i \in 1..2 : (<<a>> \o <<b>>)[i] = <<a, b>>[i]
  BY <1>1
<1> QED BY <1>1, <1>2, SeqEqual

\* What is kept of a chunk is its beginning, up to the last text printed in it.
LEMMA KeptUpToPrinted ==
  ASSUME NEW S, NEW data \in Seq(S)
  PROVE  \E n \in 0..Len(data) :
           /\ Kept(data) = SubSeq(data, 1, n)
           /\ n # 0 => data[n] \in Printed
           /\ \A i \in 1..Len(data) : data[i] \in Printed => i <= n
<1> DEFINE I == {i \in 1..Len(data) : data[i] \in Printed}
<1>1. Kept(data) = SubSeq(data, 1, IF I # {} THEN Max(I) ELSE 0)
  BY DEF Kept, SelectLastInSeq
<1>2. CASE I # {}
  <2> DEFINE J == {j \in Nat : \E i \in I : j = Len(data) - i}
  <2>1. J # {}
    <3>1. PICK i \in I : TRUE
      BY <1>2
    <3>2. Len(data) - i \in J
      BY <3>1
    <3> QED BY <3>2
  <2>2. PICK m \in J : \A j \in J : m <= j
    <3>1. J \subseteq Nat
      OBVIOUS
    <3> HIDE DEF J
    <3> QED BY <2>1, <3>1, LeastNat
  <2>3. PICK i \in I : m = Len(data) - i
    OBVIOUS
  <2>4. \A j \in I : i >= j
    <3>1. SUFFICES ASSUME NEW j \in I PROVE i >= j
      OBVIOUS
    <3>2. Len(data) - j \in J
      OBVIOUS
    <3>3. Len(data) - i <= Len(data) - j
      <4> HIDE DEF J
      <4> QED BY <2>2, <2>3, <3>2
    <3>4. i \in Int /\ j \in Int /\ Len(data) \in Int
      OBVIOUS
    <3> QED BY <3>3, <3>4
  <2>5. Max(I) \in I /\ \A j \in I : Max(I) >= j
    <3>1. \E n \in I : \A j \in I : n >= j
      BY <2>4
    <3> HIDE DEF I
    <3> QED BY <3>1 DEF Max
  <2>6. PICK n \in I : n = Max(I) /\ \A j \in I : n >= j
    BY <2>5
  <2>7. Kept(data) = SubSeq(data, 1, n)
    <3> HIDE DEF I
    <3> QED BY <1>1, <1>2, <2>6
  <2>8. /\ n \in 0..Len(data) /\ data[n] \in Printed
        /\ \A l \in 1..Len(data) : data[l] \in Printed => l <= n
    BY <2>6
  <2> QED BY <2>7, <2>8
<1>3. CASE I = {}
  BY <1>1, <1>3
<1> QED BY <1>2, <1>3

\* The first status in the buffer is one of the statuses in it, if there is one.
LEMMA FirstStatusFound ==
  ASSUME NEW S, NEW b \in Seq(S)
  PROVE  /\ FirstStatus(b) \in 0..Len(b)
         /\ \A i \in 1..Len(b) : b[i] \in Statuses => FirstStatus(b) # 0
         /\ FirstStatus(b) # 0 => b[FirstStatus(b)] \in Statuses
<1> DEFINE I == {i \in 1..Len(b) : b[i] \in Statuses}
<1>1. FirstStatus(b) = IF I # {} THEN Min(I) ELSE 0
  BY DEF FirstStatus, SelectInSeq
<1>2. CASE I # {}
  <2>1. Min(I) \in I
    <3>1. I \subseteq Nat
      OBVIOUS
    <3> HIDE DEF I
    <3> QED BY <1>2, <3>1, LeastNat DEF Min
  <2>2. FirstStatus(b) \in I
    <3> HIDE DEF I
    <3> QED BY <1>1, <1>2, <2>1
  <2> QED BY <2>2
<1>3. CASE I = {}
  BY <1>1, <1>3
<1> QED BY <1>2, <1>3

-----------------------------------------------------------------------------
(***************************************************************************)
(* The parser.                                                             *)
(***************************************************************************)
\* Nothing is printed after something that is not.
PrintedFirst(s) ==
  \A j, k \in 1..Len(s) : j < k /\ s[k] \in Printed => s[j] \in Printed

\* What is kept of a chunk is printed text that was in the chunk.
LEMMA KeptIsPrinted ==
  ASSUME NEW data \in Seq(Texts), PrintedFirst(data)
  PROVE  /\ Kept(data) \in Seq(Printed)
         /\ \A t : Contains(Kept(data), t) => Contains(data, t)
<1>1. PICK n \in 0..Len(data) : /\ Kept(data) = SubSeq(data, 1, n)
                                /\ n # 0 => data[n] \in Printed
  BY KeptUpToPrinted
<1>2. /\ Kept(data) \in Seq(Texts) /\ Len(Kept(data)) = n
      /\ \A i \in 1..n : Kept(data)[i] = data[i]
  BY <1>1, Chunk
<1>3. \A i \in 1..n : Kept(data)[i] \in Printed
  BY <1>1, <1>2 DEF PrintedFirst
<1>4. Kept(data) \in Seq(Printed)
  BY <1>2, <1>3
<1>5. \A t : Contains(Kept(data), t) => Contains(data, t)
  BY <1>2 DEF Contains
<1> QED BY <1>4, <1>5

\* What a chunk may change: at most the state awaited is reached, by the text
\* it stands for, and an upload is done only with a status that was received.
ParsedAs(p, text, last) ==
  /\ p.buf \in Seq(Printed)
  /\ \A t : Contains(p.buf, t) => Contains(buf, t) \/ Contains(text, t)
  /\ \/ p.sm = sm /\ p.status = uploadStatus
     \/ sm = "WAITING_FOR_MENU" /\ p.sm = "IN_MENU" /\ p.status = uploadStatus
     \/ /\ sm = "WAITING_XMODEM_READY" /\ p.sm = "XMODEM_READY"
        /\ p.status = uploadStatus /\ last = "C"
     \/ /\ sm = "WAITING_UPLOAD_DONE" /\ p.sm = "UPLOAD_DONE"
        /\ \/ /\ p.status = "complete"
              /\ Contains(buf, "COMPLETE") \/ Contains(text, "COMPLETE")
           \/ /\ p.status = "aborted"
              /\ Contains(buf, "ABORTED") \/ Contains(text, "ABORTED")

LEMMA ParseFacts ==
  ASSUME NEW data \in Seq(Texts), data # << >>, PrintedFirst(data),
         buf \in Seq(Printed)
  PROVE  ParsedAs(Parse(data), data, data[Len(data)])
<1> DEFINE b == buf \o Kept(data)
           found == FirstStatus(b)
           Stay == [sm |-> sm, buf |-> b, status |-> uploadStatus]
           Done1 == [Stay EXCEPT !.sm = "UPLOAD_DONE",
                                 !.buf = SubSeq(b, found + 1, Len(b)),
                                 !.status = IF b[found] = "COMPLETE" THEN "complete"
                                                                     ELSE "aborted"]
<1>1. Kept(data) \in Seq(Printed) /\ \A t : Contains(Kept(data), t) => Contains(data, t)
  BY KeptIsPrinted
<1>2. b \in Seq(Printed)
  BY <1>1
<1>3. \A t : Contains(b, t) => Contains(buf, t) \/ Contains(data, t)
  <2>1. SUFFICES ASSUME NEW t, Contains(b, t)
                 PROVE  Contains(buf, t) \/ Contains(Kept(data), t)
    BY <1>1
  <2>2. PICK i \in 1..Len(b) : b[i] = t
    BY <2>1 DEF Contains
  <2>3. Len(b) = Len(buf) + Len(Kept(data)) /\ Len(buf) \in Nat /\ Len(Kept(data)) \in Nat
    BY <1>1
  <2>4. CASE i <= Len(buf)
    BY <2>2, <2>3, <2>4, <1>1 DEF Contains
  <2>5. CASE i > Len(buf)
    <3>1. i - Len(buf) \in 1..Len(Kept(data)) /\ Kept(data)[i - Len(buf)] = b[i]
      BY <2>3, <2>5, <1>1
    <3> QED BY <2>2, <3>1 DEF Contains
  <2> QED BY <2>3, <2>4, <2>5
<1>4. found \in 0..Len(b) /\ (found # 0 => b[found] \in Statuses)
  BY <1>2, FirstStatusFound
<1>5. /\ SubSeq(b, found + 1, Len(b)) \in Seq(Printed)
      /\ \A t : Contains(SubSeq(b, found + 1, Len(b)), t) => Contains(b, t)
  <2> HIDE DEF b, found
  <2> QED BY <1>2, <1>4, Chunk DEF Contains
<1>6. Last(data) = data[Len(data)]
  BY DEF Last
<1>7. \/ Parse(data) = [Stay EXCEPT !.sm = "IN_MENU", !.buf = << >>]
           /\ sm = "WAITING_FOR_MENU"
      \/ Parse(data) = [Stay EXCEPT !.sm = "XMODEM_READY", !.buf = << >>]
           /\ sm = "WAITING_XMODEM_READY" /\ Last(data) = "C"
      \/ Parse(data) = Done1 /\ sm = "WAITING_UPLOAD_DONE" /\ found # 0
      \/ Parse(data) = Stay
  <2> HIDE DEF FirstStatus
  <2> QED BY DEF Parse
<1>8. << >> \in Seq(Printed) /\ \A t : ~Contains(<< >>, t)
  BY DEF Contains
<1>9. CASE Parse(data) = Done1 /\ sm = "WAITING_UPLOAD_DONE" /\ found # 0
  <2>1. Contains(b, b[found])
    <3> HIDE DEF b, found
    <3> QED BY <1>4, <1>9 DEF Contains
  <2>2. b[found] = "COMPLETE" \/ b[found] = "ABORTED"
    BY <1>4, <1>9 DEF Statuses
  <2>3. /\ Parse(data).sm = "UPLOAD_DONE"
        /\ Parse(data).buf = SubSeq(b, found + 1, Len(b))
        /\ Parse(data).status = IF b[found] = "COMPLETE" THEN "complete" ELSE "aborted"
    <3> HIDE DEF b, found
    <3> QED BY <1>9
  <2> HIDE DEF b, found
  <2> QED BY <1>3, <1>5, <1>9, <2>1, <2>2, <2>3 DEF ParsedAs
<1>10. CASE Parse(data) = Stay
  <2>1. Parse(data).sm = sm /\ Parse(data).buf = b /\ Parse(data).status = uploadStatus
    <3> HIDE DEF b
    <3> QED BY <1>10
  <2> HIDE DEF b
  <2> QED BY <1>2, <1>3, <2>1 DEF ParsedAs
<1>11. ASSUME NEW s, Parse(data) = [Stay EXCEPT !.sm = s, !.buf = << >>],
              \/ sm = "WAITING_FOR_MENU" /\ s = "IN_MENU"
              \/ sm = "WAITING_XMODEM_READY" /\ s = "XMODEM_READY" /\ Last(data) = "C"
       PROVE  LET p == Parse(data) IN
              /\ p.sm = s /\ p.buf = << >> /\ p.status = uploadStatus
              /\ p.buf \in Seq(Printed) /\ \A t : ~Contains(p.buf, t)
  <2> HIDE DEF b
  <2> QED BY <1>8, <1>11
<1> HIDE DEF b, found, Done1, Stay
<1>12. CASE /\ Parse(data) = [Stay EXCEPT !.sm = "IN_MENU", !.buf = << >>]
            /\ sm = "WAITING_FOR_MENU"
  BY <1>11, <1>12 DEF ParsedAs
<1>13. CASE /\ Parse(data) = [Stay EXCEPT !.sm = "XMODEM_READY", !.buf = << >>]
            /\ sm = "WAITING_XMODEM_READY" /\ Last(data) = "C"
  BY <1>6, <1>11, <1>13 DEF ParsedAs
<1> QED BY <1>7, <1>9, <1>10, <1>12, <1>13 DEF ParsedAs
-----------------------------------------------------------------------------
(***************************************************************************)
(* The parser and the line, in a state of the invariant.                   *)
(***************************************************************************)

\* Commands differ from each other and from packets.
LEMMA CommandsDiffer ==
  /\ Newline # UploadFw /\ Newline # RunFw /\ Newline # EblInfo
  /\ UploadFw # RunFw /\ UploadFw # EblInfo /\ RunFw # EblInfo
  /\ \A i : xmodem!Outgoing(i) \notin Commands /\ xmodem!Outgoing(i) # xmodem!Damaged
  /\ xmodem!Damaged \notin Commands
BY DEF Newline, UploadFw, RunFw, EblInfo, Commands, Command, xmodem!Outgoing,
       xmodem!Block, xmodem!EOT, xmodem!Damaged

\* The protocol has its place only before the transfer and after it.
LEMMA Phases ==
  ASSUME IInv, pc \notin {"xmodem", "end"}
  PROVE  xpc \in {"idle", "returned"}
BY DEF IInv, Typed, Transferring, OnTheLine

\* The k bytes received are parsed, the others stay on the line.
LEMMA Received ==
  ASSUME IInv, xpc \in {"idle", "returned"}, NEW k \in 1..Len(toHost)
  PROVE  /\ ParsedAs(Parse(SubSeq(toHost, 1, k)), toHost, toHost[k])
         /\ LET rest == SubSeq(toHost, k + 1, Len(toHost)) IN
              /\ rest \in Seq(Texts) /\ Len(rest) = Len(toHost) - k
              /\ \A i \in 1..Len(rest) : rest[i] = toHost[i + k]
<1> DEFINE data == SubSeq(toHost, 1, k)
           rest == SubSeq(toHost, k + 1, Len(toHost))
<1>1. toHost \in Seq(Texts) /\ buf \in Seq(Printed)
  BY DEF IInv, Typed
<1>2. /\ data \in Seq(Texts) /\ Len(data) = k /\ \A i \in 1..k : data[i] = toHost[i]
      /\ rest \in Seq(Texts) /\ Len(rest) = Len(toHost) - k
      /\ \A i \in 1..Len(rest) : rest[i] = toHost[i + k]
  BY <1>1, Chunk
<1>3. data # << >>
  BY <1>2
<1>4. PrintedFirst(data)
  <2>1. CASE xpc = "idle"
    BY <1>1, <1>2, <2>1 DEF IInv, BeforeTransfer, PrintedFirst, Printed
  <2>2. CASE xpc = "returned"
    BY <1>1, <1>2, <2>2 DEF IInv, AfterTransfer, PrintedFirst, Printed
  <2> QED BY <2>1, <2>2
<1>5. \A t : Contains(data, t) => Contains(toHost, t)
  BY <1>1, <1>2 DEF Contains
<1>6. data[Len(data)] = toHost[k]
  BY <1>2
<1>7. ParsedAs(Parse(data), toHost, toHost[k])
  <2> HIDE DEF data
  <2>1. ParsedAs(Parse(data), data, toHost[k])
    BY <1>1, <1>2, <1>3, <1>4, <1>6, ParseFacts
  <2> QED BY <1>5, <2>1 DEF ParsedAs
<1> QED BY <1>2, <1>7

\* What is written comes after what is on the line, or is lost: some of cs, and
\* d at the end.
Sent(cs, d) ==
  /\ toDev' \in Seq(Wire)
  /\ \A i \in 1..Len(toDev') : \/ i \in 1..Len(toDev) /\ toDev'[i] = toDev[i]
                               \/ toDev'[i] \in cs
                               \/ toDev'[i] = d /\ i = Len(toDev')
  /\ UNCHANGED <<xpc, index, attempt, failure, toHost, faults, rmode, stored>>

LEMMA WrittenOne ==
  ASSUME toDev \in Seq(Wire), NEW d \in Commands, Write(<<d>>)
  PROVE  Sent({}, d)
<1>1. CASE toDev' = toDev \o <<d>>
  <2>1. <<d>> \in Seq(Wire) /\ Len(<<d>>) = 1
    BY DEF Wire
  <2>2. /\ toDev' \in Seq(Wire) /\ Len(toDev') = Len(toDev) + 1
        /\ \A i \in 1..Len(toDev) : toDev'[i] = toDev[i]
        /\ toDev'[Len(toDev) + 1] = <<d>>[1]
    BY <1>1, <2>1
  <2> QED BY <2>2 DEF Write, Sent
<1>2. CASE toDev' = toDev
  BY <1>2 DEF Write, Sent
<1> QED BY <1>1, <1>2 DEF Write

LEMMA WrittenTwo ==
  ASSUME toDev \in Seq(Wire), NEW c \in Commands, NEW d \in Commands, Write(<<c, d>>)
  PROVE  Sent({c}, d)
<1>1. CASE toDev' = toDev \o <<c, d>>
  <2>1. <<c, d>> \in Seq(Wire) /\ Len(<<c, d>>) = 2
    BY DEF Wire
  <2>2. /\ toDev' \in Seq(Wire) /\ Len(toDev') = Len(toDev) + 2
        /\ \A i \in 1..Len(toDev) : toDev'[i] = toDev[i]
        /\ toDev'[Len(toDev) + 1] = <<c, d>>[1]
        /\ toDev'[Len(toDev) + 2] = <<c, d>>[2]
    BY <1>1, <2>1
  <2> QED BY <2>2 DEF Write, Sent
<1>2. CASE toDev' = toDev
  BY <1>2 DEF Write, Sent
<1> QED BY <1>1, <1>2 DEF Write

-----------------------------------------------------------------------------
(***************************************************************************)
(* The invariant is inductive: one lemma per action or group of actions.   *)
(***************************************************************************)
LEMMA InitIInv == Init => IInv
<1> SUFFICES ASSUME Init PROVE IInv
  OBVIOUS
<1> USE DEF Init, xmodem!Init
<1>1. Typed
  BY GeckoAssumption DEF Typed, xmodem!Failures, Waiting, AwaitMenu, Sleeping, Outcomes, States
<1>2. StatusTrue /\ BeforeTransfer
  BY GeckoAssumption DEF StatusTrue, BeforeTransfer, Contains
<1>3. Transferring /\ ReadyPhase /\ OnTheLine /\ AnswersTrue /\ AfterTransfer
  BY DEF Transferring, ReadyPhase, OnTheLine, AnswersTrue, AfterTransfer
<1>4. Storing
  BY GeckoAssumption DEF Storing
<1> QED BY <1>1, <1>2, <1>3, <1>4 DEF IInv

\* A chunk reaches the protocol.
LEMMA DeliverStep ==
  ASSUME IInv, Deliver
  PROVE  IInv'
<1>1. PICK k \in 1..Len(toHost) :
        /\ toHost' = SubSeq(toHost, k + 1, Len(toHost))
        /\ sm' = Parse(SubSeq(toHost, 1, k)).sm
        /\ buf' = Parse(SubSeq(toHost, 1, k)).buf
        /\ uploadStatus' = Parse(SubSeq(toHost, 1, k)).status
  BY DEF Deliver
<1>2. /\ pc \notin {"xmodem", "end"}
      /\ UNCHANGED <<xpc, index, attempt, failure, toDev, faults, rmode, stored,
                     pc, probes, outcome, calm, dmode, image, connected>>
  BY DEF Deliver, hostVars, deviceVars
<1>3. xpc \in {"idle", "returned"}
  BY <1>2, Phases
<1>4. /\ toHost' \in Seq(Texts) /\ Len(toHost') = Len(toHost) - k
      /\ \A i \in 1..Len(toHost') : toHost'[i] = toHost[i + k]
      /\ buf' \in Seq(Printed)
      /\ \A t : Contains(buf', t) => Contains(buf, t) \/ Contains(toHost, t)
      /\ \/ sm' = sm /\ uploadStatus' = uploadStatus
         \/ sm = "WAITING_FOR_MENU" /\ sm' = "IN_MENU" /\ uploadStatus' = uploadStatus
         \/ /\ sm = "WAITING_XMODEM_READY" /\ sm' = "XMODEM_READY"
            /\ uploadStatus' = uploadStatus /\ toHost[k] = "C"
         \/ /\ sm = "WAITING_UPLOAD_DONE" /\ sm' = "UPLOAD_DONE"
            /\ \/ /\ uploadStatus' = "complete"
                  /\ Contains(buf, "COMPLETE") \/ Contains(toHost, "COMPLETE")
               \/ /\ uploadStatus' = "aborted"
                  /\ Contains(buf, "ABORTED") \/ Contains(toHost, "ABORTED")
  BY <1>1, <1>3, Received DEF ParsedAs
<1>5. toHost \in Seq(Texts) /\ Len(toHost) \in Nat
  BY DEF IInv, Typed
<1>6. \A t : Contains(toHost', t) => Contains(toHost, t)
  BY <1>4, <1>5 DEF Contains
<1>7. Typed'
  BY <1>2, <1>4 DEF IInv, Typed, States
<1>8. StatusTrue'
  BY <1>2, <1>4, <1>6 DEF IInv, StatusTrue
<1>9. BeforeTransfer'
  <2>1. SUFFICES ASSUME xpc = "idle" PROVE BeforeTransfer'
    BY <1>2 DEF BeforeTransfer
  <2>2. /\ \A i \in 1..Len(toHost') : toHost'[i] \in {"MENU", "C"}
        /\ \A i, j \in 1..Len(toHost') : i < j /\ toHost'[i] = "C" => toHost'[j] = "C"
    <3>1. \A i \in 1..Len(toHost') : /\ toHost'[i] = toHost[i + k]
                                     /\ i + k \in 1..Len(toHost)
      BY <1>4, <1>5
    <3>2. \A i, j \in 1..Len(toHost') : i < j => i + k < j + k
      BY <1>4, <1>5
    <3>3. /\ \A i \in 1..Len(toHost) : toHost[i] \in {"MENU", "C"}
          /\ \A i, j \in 1..Len(toHost) : i < j /\ toHost[i] = "C" => toHost[j] = "C"
      BY <2>1 DEF IInv, BeforeTransfer
    <3> HIDE DEF IInv
    <3> QED BY <3>1, <3>2, <3>3
  <2>3. sm' = "XMODEM_READY" => OnlyCs'
    BY <1>4, <1>5, <2>1 DEF IInv, BeforeTransfer, OnlyCs
  <2>4. sm' = "XMODEM_READY" => sm = "XMODEM_READY" \/ Contains(toHost, "C")
    BY <1>4, <1>5 DEF Contains
  <2>5. ~Contains(toHost, "C") => ~Contains(toHost', "C")
    BY <1>6
  <2>6. ~Contains(buf', "COMPLETE") /\ ~Contains(buf', "ABORTED")
    BY <1>4, <2>1 DEF IInv, BeforeTransfer, Contains
  <2> QED BY <1>2, <1>4, <2>1, <2>2, <2>3, <2>4, <2>5, <2>6 DEF IInv, BeforeTransfer
<1>10. Transferring' /\ ReadyPhase' /\ OnTheLine' /\ Storing' /\ AnswersTrue'
  BY <1>2, <1>3 DEF IInv, Transferring, ReadyPhase, OnTheLine, Storing, AnswersTrue
<1>11. AfterTransfer'
  <2>1. \A i \in 1..Len(toHost') : toHost'[i] = toHost[i + k] /\ i + k \in 1..Len(toHost)
    BY <1>4, <1>5
  <2> QED BY <1>2, <1>3, <1>4, <2>1 DEF IInv, AfterTransfer
<1> QED BY <1>7, <1>8, <1>9, <1>10, <1>11 DEF IInv
\* Before the transfer the coroutine writes newlines and "3", and at last "1".
LEMMA BeforeWrite ==
  ASSUME IInv, xpc = "idle",
         pc \in {"settle", "backoff", "probing", "selecting", "selecting2"},
         NEW cs, cs \subseteq {Newline, EblInfo},
         NEW d \in {Newline, EblInfo, UploadFw}, Sent(cs, d), d = UploadFw => pc' = "ready",
         pc' \in {"probing", "selecting", "selecting2", "ready"},
         sm' = IF pc' = "ready" THEN "WAITING_XMODEM_READY" ELSE "WAITING_FOR_MENU",
         probes' \in 0..MaxProbes,
         UNCHANGED <<outcome, connected, deviceVars, buf, uploadStatus>>
  PROVE  IInv'
<1>1. Typed'
  BY DEF IInv, Typed, Sent, States, Waiting, AwaitMenu, deviceVars
<1>2. StatusTrue'
  BY DEF IInv, StatusTrue, Sent, deviceVars
<1>3. BeforeTransfer'
  <2>1. /\ \A k \in 1..Len(toDev) : toDev[k] \in {Newline, EblInfo}
        /\ dmode \in {"starting", "menu"} /\ rmode = "idle" /\ ~Contains(toHost, "C")
    BY DEF IInv, BeforeTransfer
  <2>2. /\ \A k \in 1..Len(toDev') : toDev'[k] \in {Newline, EblInfo, UploadFw}
        /\ \A k \in 1..Len(toDev') : toDev'[k] = UploadFw => k = Len(toDev') /\ pc' = "ready"
    BY <2>1, CommandsDiffer DEF Sent
  <2> QED BY <2>1, <2>2 DEF IInv, BeforeTransfer, Sent, deviceVars
<1>4. Transferring' /\ ReadyPhase' /\ OnTheLine' /\ Storing' /\ AnswersTrue' /\ AfterTransfer'
  BY DEF IInv, Transferring, ReadyPhase, OnTheLine, Storing, AnswersTrue, AfterTransfer, Sent
<1> QED BY <1>1, <1>2, <1>3, <1>4 DEF IInv

\* The actions of the coroutine before the transfer that write.
LEMMA BeforeStep ==
  ASSUME IInv, xpc = "idle",
         Probe \/ Probed \/ InfoAnyway \/ SelectUpload
  PROVE  IInv'
<1>1. /\ probes \in 0..MaxProbes /\ (pc \in {"settle", "backoff"} => probes < MaxProbes)
      /\ pc \notin {"menuinfo", "menuinfo2"} /\ toDev \in Seq(Wire)
  BY DEF IInv, Typed, BeforeTransfer
<1>2. Newline \in Commands /\ EblInfo \in Commands /\ UploadFw \in Commands
  BY DEF Commands
<1>3. CASE Probe
  BY <1>1, <1>2, <1>3, GeckoAssumption, WrittenOne, BeforeWrite, CommandsDiffer DEF Probe, Await
<1>4. CASE Probed
  BY <1>1, <1>2, <1>4, WrittenTwo, BeforeWrite, CommandsDiffer DEF Probed, Woken, Await
<1>5. CASE InfoAnyway
  BY <1>1, <1>2, <1>5, WrittenOne, BeforeWrite, CommandsDiffer DEF InfoAnyway, Await
<1>6. CASE SelectUpload
  BY <1>1, <1>2, <1>6, WrittenOne, WrittenTwo, BeforeWrite DEF SelectUpload, Woken, Await
<1> QED BY <1>3, <1>4, <1>5, <1>6
\* The actions of the coroutine that change neither the transfer nor the parser.
LEMMA QuietStep ==
  ASSUME IInv,
         \/ ProbeTimeout \/ LongTimeout \/ TransferRaised \/ StatusRead
         \/ Launched \/ MenuReappeared \/ RanAgain
  PROVE  IInv'
<1>1. /\ UNCHANGED <<transferVars, probes, buf, uploadStatus, connected, deviceVars>>
      /\ pc # "end"
      /\ \/ pc = "probing" /\ probes < MaxProbes /\ pc' = "backoff" /\ UNCHANGED <<sm, outcome>>
         \/ pc = "probing" /\ pc' = "end" /\ outcome' = "timeout" /\ UNCHANGED sm
         \/ /\ pc \in {"selecting2", "ready", "status", "menuinfo2"}
            /\ pc' = "end" /\ outcome' = "timeout" /\ UNCHANGED sm
         \/ /\ pc = "xmodem" /\ xpc = "raised" /\ UNCHANGED sm
            /\ pc' = "end" /\ outcome' \in {"connection", "transfer"}
         \/ /\ pc = "status" /\ sm = "UPLOAD_DONE"
            /\ pc' = "menu" /\ sm' = "WAITING_FOR_MENU" /\ UNCHANGED outcome
         \/ pc \in {"run", "rerun"} /\ pc' = "end" /\ outcome' = "ok" /\ UNCHANGED sm
         \/ /\ pc = "run" /\ sm = "IN_MENU" /\ pc' = "recheck" /\ UNCHANGED <<sm, outcome>>
  BY DEF ProbeTimeout, LongTimeout, TransferRaised, StatusRead, Launched, MenuReappeared,
         RanAgain, Await, End, parserVars, Woken, Awaited, AwaitMenu, IInv, Typed
<1>2. Typed'
  BY <1>1 DEF IInv, Typed, transferVars, deviceVars, Waiting, AwaitMenu, Sleeping,
              States, Outcomes
<1>3. StatusTrue' /\ Storing'
  BY <1>1 DEF IInv, StatusTrue, Storing, transferVars, deviceVars
<1>4. BeforeTransfer'
  BY <1>1 DEF IInv, BeforeTransfer, OnlyCs, transferVars, deviceVars
<1>5. Transferring'
  BY <1>1 DEF IInv, Transferring, transferVars
<1>6. ReadyPhase' /\ AnswersTrue'
  BY <1>1 DEF IInv, ReadyPhase, AnswersTrue, OnlyCs, transferVars, deviceVars
<1>7. OnTheLine'
  BY <1>1 DEF IInv, OnTheLine, transferVars, deviceVars
<1>8. AfterTransfer'
  BY <1>1 DEF IInv, AfterTransfer, transferVars, deviceVars
<1> QED BY <1>2, <1>3, <1>4, <1>5, <1>6, <1>7, <1>8 DEF IInv

\* After the transfer newlines, "3" and "2" are written, once the status is read.
LEMMA AfterWrite ==
  ASSUME IInv, pc \in {"menu", "menuinfo", "menuinfo2", "recheck"},
         NEW cs, cs \subseteq {Newline, EblInfo},
         NEW d \in {Newline, EblInfo, RunFw}, Sent(cs, d),
         \/ pc' \in {"menuinfo", "menuinfo2"} /\ pc # "recheck" /\ UNCHANGED outcome
         \/ pc' \in {"run", "rerun"} /\ uploadStatus = "complete" /\ UNCHANGED outcome
         \/ pc' = "end" /\ outcome' = "rejected" /\ uploadStatus = "aborted",
         sm' \in {"WAITING_FOR_MENU", "IN_MENU"}, buf' \in {buf, << >>},
         UNCHANGED <<connected, deviceVars, probes, uploadStatus>>
  PROVE  IInv'
<1>1. xpc = "returned"
  BY Phases DEF IInv, BeforeTransfer
<1>2. Typed'
  <2>1. buf' \in Seq(Printed)
    <3>1. << >> \in Seq(Printed) /\ buf \in Seq(Printed)
      BY DEF IInv, Typed
    <3> QED BY <3>1
  <2> QED BY <2>1 DEF IInv, Typed, Sent, States, Waiting, AwaitMenu, Sleeping, Outcomes, deviceVars
<1>3. StatusTrue'
  <2>1. \A t : Contains(buf', t) => Contains(buf, t)
    BY DEF Contains
  <2> QED BY <2>1 DEF IInv, StatusTrue, Sent, deviceVars
<1>4. BeforeTransfer' /\ Transferring' /\ ReadyPhase' /\ OnTheLine' /\ Storing' /\ AnswersTrue'
  BY <1>1 DEF IInv, BeforeTransfer, Transferring, ReadyPhase, OnTheLine, Storing, AnswersTrue, Sent
<1>5. AfterTransfer'
  <2>1. dmode # "xmodem"
    BY <1>1 DEF IInv, StatusTrue, AfterTransfer, Typed
  <2>2. \A k \in 1..Len(toDev') : toDev'[k] \in {Newline, EblInfo, RunFw}
    BY <1>1 DEF IInv, AfterTransfer, Sent
  <2> QED BY <1>1, <2>1, <2>2 DEF IInv, AfterTransfer, StatusTrue, Sent, deviceVars
<1> QED BY <1>2, <1>3, <1>4, <1>5 DEF IInv

LEMMA AfterStep ==
  ASSUME IInv, xpc = "returned",
         AskForMenu \/ InfoAnyway \/ Verdict \/ RunAgain
  PROVE  IInv'
<1>1. /\ toDev \in Seq(Wire) /\ uploadStatus \in {"none", "complete", "aborted"}
      /\ pc \notin {"selecting", "selecting2"} /\ sm \in States
  BY DEF IInv, Typed, AfterTransfer
<1>2. Newline \in Commands /\ EblInfo \in Commands /\ RunFw \in Commands
  BY DEF Commands
<1>3. CASE AskForMenu
  BY <1>1, <1>2, <1>3, WrittenOne, AfterWrite DEF AskForMenu, Await
<1>4. CASE InfoAnyway
  BY <1>1, <1>2, <1>4, WrittenOne, AfterWrite DEF InfoAnyway, Await
<1>5. CASE Verdict
  <2>1. /\ pc \in {"menu", "menuinfo", "menuinfo2"} /\ sm = "IN_MENU"
        /\ UNCHANGED <<connected, deviceVars, probes, uploadStatus>>
    BY <1>5 DEF Verdict, Await, End, Woken, Awaited, AwaitMenu
  <2>2. uploadStatus # "none"
    BY <2>1 DEF IInv, AfterTransfer
  <2>3. CASE uploadStatus # "complete"
    <3>1. /\ Write(IF pc = "menuinfo" THEN <<EblInfo>> ELSE << >>)
          /\ pc' = "end" /\ outcome' = "rejected" /\ UNCHANGED <<sm, buf>>
      BY <1>5, <2>3 DEF Verdict, End
    <3>2. CASE pc = "menuinfo"
      BY <1>1, <1>2, <2>1, <2>2, <2>3, <3>1, <3>2, WrittenOne, AfterWrite
    <3>3. CASE pc # "menuinfo"
      <4>1. Sent({}, RunFw)
        BY <1>1, <3>1, <3>3 DEF Write, Sent
      <4> QED BY <1>1, <1>2, <2>1, <2>2, <2>3, <3>1, <4>1, AfterWrite
    <3> QED BY <3>2, <3>3
  <2>4. CASE uploadStatus = "complete"
    <3>1. /\ Write((IF pc = "menuinfo" THEN <<EblInfo>> ELSE << >>) \o <<RunFw>>)
          /\ pc' = "run" /\ sm' = "WAITING_FOR_MENU" /\ buf' = << >> /\ UNCHANGED outcome
      BY <1>5, <2>4 DEF Verdict, Await
    <3>2. CASE pc = "menuinfo"
      <4>1. <<EblInfo>> \o <<RunFw>> = <<EblInfo, RunFw>>
        BY <1>2, PairOf
      <4>2. Sent({EblInfo}, RunFw)
        BY <1>1, <1>2, <3>1, <3>2, <4>1, WrittenTwo
      <4> QED BY <2>1, <2>4, <3>1, <4>2, AfterWrite
    <3>3. CASE pc # "menuinfo"
      <4>1. << >> \o <<RunFw>> = <<RunFw>>
        OBVIOUS
      <4>2. Sent({}, RunFw)
        BY <1>1, <1>2, <3>1, <3>3, <4>1, WrittenOne
      <4> QED BY <2>1, <2>4, <3>1, <4>2, AfterWrite
    <3> QED BY <3>2, <3>3
  <2> QED BY <2>3, <2>4
<1>6. CASE RunAgain
  BY <1>1, <1>2, <1>6, WrittenOne, AfterWrite DEF RunAgain, Await, IInv, AfterTransfer
<1> QED BY <1>3, <1>4, <1>5, <1>6
\* The transfer begins: from now on nothing is parsed.
LEMMA StartStep ==
  ASSUME IInv, StartTransfer
  PROVE  IInv'
<1>1. /\ pc = "ready" /\ sm = "XMODEM_READY" /\ xpc = "idle"
      /\ pc' = "xmodem" /\ sm' = "WAITING_UPLOAD_DONE" /\ uploadStatus' = "none"
      /\ xpc' = "readC"
      /\ UNCHANGED <<index, attempt, failure, toDev, toHost, faults, rmode, stored,
                     probes, outcome, buf, connected, calm, dmode, image>>
  BY DEF StartTransfer, xmodem!Start, xmodem!receiverVars, Await, deviceVars, Woken,
         Awaited, AwaitMenu
<1>2. Typed'
  BY <1>1 DEF IInv, Typed, Waiting, AwaitMenu, Sleeping, States
<1>3. StatusTrue' /\ Storing'
  BY <1>1 DEF IInv, StatusTrue, Storing
<1>4. OnlyCs /\ outcome = "running" /\ dmode = "xmodem" /\ rmode = "sendC"
      /\ index = 0 /\ stored = << >> /\ toDev = << >>
  BY <1>1 DEF IInv, BeforeTransfer
<1>5. BeforeTransfer' /\ Transferring' /\ OnTheLine' /\ AnswersTrue' /\ AfterTransfer'
  BY <1>1, <1>4 DEF BeforeTransfer, Transferring, OnTheLine, AnswersTrue, AfterTransfer
<1>6. ReadyPhase'
  BY <1>1, <1>4 DEF ReadyPhase, OnlyCs
<1> QED BY <1>2, <1>3, <1>5, <1>6 DEF IInv

\* The transfer has returned: the parser gets what has come.
LEMMA ReturnedStep ==
  ASSUME IInv, TransferReturned
  PROVE  IInv'
<1>1. /\ pc = "xmodem" /\ xpc = "returned"
      /\ UNCHANGED <<xpc, index, attempt, failure, toDev, faults, rmode, stored,
                     probes, outcome, calm, dmode, image, connected>>
  BY DEF TransferReturned, Await, deviceVars
<1>2. PICK k \in 0..Len(toHost) :
        LET parsed == IF k = 0
                      THEN [sm |-> sm, buf |-> buf, status |-> uploadStatus]
                      ELSE Parse(SubSeq(toHost, 1, k))
        IN /\ toHost' = SubSeq(toHost, k + 1, Len(toHost))
           /\ buf' = parsed.buf
           /\ uploadStatus' = parsed.status
           /\ IF parsed.sm = "UPLOAD_DONE"
              THEN pc' = "menu" /\ sm' = "WAITING_FOR_MENU"
              ELSE pc' = "status" /\ sm' = parsed.sm
  BY DEF TransferReturned, Await
<1>3. sm = "WAITING_UPLOAD_DONE" /\ uploadStatus = "none" /\ outcome = "running"
  BY <1>1 DEF IInv, AfterTransfer
<1>4. toHost \in Seq(Texts) /\ Len(toHost) \in Nat /\ buf \in Seq(Printed)
  BY DEF IInv, Typed
<1>5. /\ toHost' \in Seq(Texts)
      /\ \A i \in 1..Len(toHost') : toHost'[i] = toHost[i + k] /\ i + k \in 1..Len(toHost)
      /\ buf' \in Seq(Printed)
      /\ \A t : Contains(buf', t) => Contains(buf, t) \/ Contains(toHost, t)
      /\ \/ pc' = "status" /\ sm' = sm /\ uploadStatus' = uploadStatus
         \/ /\ pc' = "menu" /\ sm' = "WAITING_FOR_MENU"
            /\ \/ /\ uploadStatus' = "complete"
                  /\ Contains(buf, "COMPLETE") \/ Contains(toHost, "COMPLETE")
               \/ /\ uploadStatus' = "aborted"
                  /\ Contains(buf, "ABORTED") \/ Contains(toHost, "ABORTED")
  <2>1. CASE k = 0
    <3>1. toHost' = toHost
      BY <1>2, <1>4, <2>1
    <3> QED BY <1>2, <1>3, <1>4, <2>1, <3>1
  <2>2. CASE k # 0
    <3>1. k \in 1..Len(toHost)
      BY <1>4, <2>2
    <3>2. ParsedAs(Parse(SubSeq(toHost, 1, k)), toHost, toHost[k])
      BY <1>1, <3>1, Received
    <3>3. /\ toHost' \in Seq(Texts) /\ Len(toHost') = Len(toHost) - k
          /\ \A i \in 1..Len(toHost') : toHost'[i] = toHost[i + k]
      BY <1>1, <1>2, <3>1, Received
    <3>4. \A i \in 1..Len(toHost') : i + k \in 1..Len(toHost)
      BY <1>4, <3>1, <3>3
    <3> QED BY <1>2, <1>3, <2>2, <3>2, <3>3, <3>4 DEF ParsedAs
  <2> QED BY <2>1, <2>2
<1>6. \A t : Contains(toHost', t) => Contains(toHost, t)
  BY <1>5 DEF Contains
<1>7. Typed'
  BY <1>1, <1>3, <1>5 DEF IInv, Typed, Waiting, AwaitMenu, States
<1>8. StatusTrue'
  BY <1>1, <1>5, <1>6 DEF IInv, StatusTrue
<1>9. BeforeTransfer' /\ Transferring' /\ ReadyPhase' /\ OnTheLine' /\ Storing' /\ AnswersTrue'
  BY <1>1 DEF IInv, BeforeTransfer, Transferring, ReadyPhase, OnTheLine, Storing, AnswersTrue
<1>10. AfterTransfer'
  BY <1>1, <1>3, <1>5 DEF IInv, AfterTransfer
<1> QED BY <1>7, <1>8, <1>9, <1>10 DEF IInv
\* The port disappears.
LEMMA PortLostStep ==
  ASSUME IInv, PortLost
  PROVE  IInv'
<1>1. /\ connected' = FALSE
      /\ UNCHANGED <<index, attempt, toDev, toHost, faults, rmode, stored, probes,
                     sm, buf, uploadStatus, calm, dmode, image>>
      /\ \/ /\ pc \in Waiting /\ pc' = "end" /\ outcome' = "connection"
            /\ UNCHANGED <<xpc, failure>>
         \/ UNCHANGED <<pc, outcome, xpc, failure>>
         \/ /\ pc = "xmodem" /\ xpc \in {"readC", "awaitReply"}
            /\ xpc' = "raised" /\ failure' = "connection" /\ UNCHANGED <<pc, outcome>>
  <2>1. /\ connected' = FALSE /\ UNCHANGED <<probes, sm, buf, uploadStatus, calm, dmode, image>>
        /\ \/ pc \in Waiting /\ pc' = "end" /\ outcome' = "connection" /\ UNCHANGED transferVars
           \/ UNCHANGED <<pc, outcome, transferVars>>
           \/ pc = "xmodem" /\ xmodem!ConnectionLost /\ UNCHANGED <<pc, outcome>>
    BY DEF PortLost, parserVars, deviceVars
  <2> QED BY <2>1 DEF transferVars, xmodem!ConnectionLost, xmodem!Raise, xmodem!receiverVars
<1>2. Typed'
  <2>1. /\ pc' \in Waiting \cup Sleeping \cup {"xmodem", "end"}
        /\ xpc' \in {"idle", "readC", "awaitReply", "returned", "raised"}
        /\ outcome' \in Outcomes /\ failure' \in xmodem!Failures
        /\ connected' \in BOOLEAN
    BY <1>1 DEF IInv, Typed, Outcomes, xmodem!Failures
  <2> QED BY <1>1, <2>1 DEF IInv, Typed
<1>3. StatusTrue' /\ Storing'
  BY <1>1 DEF IInv, StatusTrue, Storing
<1>4. BeforeTransfer' /\ AfterTransfer'
  BY <1>1 DEF IInv, BeforeTransfer, AfterTransfer, OnlyCs, Waiting, AwaitMenu, Sleeping
<1>5. Transferring' /\ ReadyPhase' /\ AnswersTrue'
  BY <1>1 DEF IInv, Transferring, ReadyPhase, AnswersTrue, OnlyCs, Waiting, AwaitMenu, Sleeping
<1>6. OnTheLine'
  BY <1>1 DEF IInv, Transferring, ReadyPhase, OnTheLine, Waiting, AwaitMenu, Sleeping
<1> QED BY <1>2, <1>3, <1>4, <1>5, <1>6 DEF IInv
\* A packet is sent: there was none on the line, and only "C"s come back.
LEMMA TransmitStep ==
  ASSUME IInv, pc = "xmodem", xpc \in {"readC", "awaitReply"}, toDev = << >>,
         NEW i \in 0..NumBlocks, NEW n \in 0..MaxFailures, xmodem!Transmit(i, n),
         Len(stored) \in i..(i + 1), rmode \in {"sendC", "receiving"},
         toHost' \in Seq(Texts), OnlyCs',
         UNCHANGED <<faults, rmode, stored, ownVars>>
  PROVE  IInv'
<1>1. /\ index' = i /\ attempt' = n /\ xpc' = "awaitReply"
      /\ UNCHANGED <<failure, faults, rmode, stored, pc, probes, outcome, sm, buf,
                     uploadStatus, connected, calm, dmode, image>>
  BY DEF xmodem!Transmit, ownVars, hostVars, parserVars, deviceVars
<1>2. toDev' \in Seq(Wire) /\ Len(toDev') = 1 /\ toDev'[1] = xmodem!Outgoing(i)
  BY DEF xmodem!Transmit, Wire
<1>3. dmode = "xmodem" /\ outcome = "running" /\ sm = "WAITING_UPLOAD_DONE"
      /\ uploadStatus = "none"
  BY DEF IInv, Transferring, ReadyPhase, OnTheLine
<1>4. Typed'
  BY <1>1, <1>2 DEF IInv, Typed
<1>5. StatusTrue'
  BY <1>1, <1>3 DEF IInv, StatusTrue, OnlyCs, Contains
<1>6. BeforeTransfer' /\ Transferring' /\ ReadyPhase' /\ AfterTransfer'
  BY <1>1, <1>3 DEF BeforeTransfer, Transferring, ReadyPhase, AfterTransfer
<1>7. OnTheLine'
  BY <1>1, <1>2, <1>3 DEF OnTheLine
<1>8. Storing'
  BY <1>1 DEF IInv, Storing
<1>9. AnswersTrue'
  BY <1>1 DEF AnswersTrue, OnlyCs, Printed
<1> QED BY <1>4, <1>5, <1>6, <1>7, <1>8, <1>9 DEF IInv

\* The transfer ends with an error.
LEMMA RaiseStep ==
  ASSUME IInv, pc = "xmodem", xpc = "awaitReply",
         NEW why \in xmodem!Failures, xmodem!Raise(why),
         toHost' \in Seq(Texts), \A t : Contains(toHost', t) => Contains(toHost, t),
         UNCHANGED <<faults, rmode, stored, ownVars>>
  PROVE  IInv'
<1>1. /\ xpc' = "raised" /\ failure' = why
      /\ UNCHANGED <<index, attempt, toDev, faults, rmode, stored, pc, probes, outcome,
                     sm, buf, uploadStatus, connected, calm, dmode, image>>
  BY DEF xmodem!Raise, ownVars, hostVars, parserVars, deviceVars
<1>2. Typed'
  BY <1>1 DEF IInv, Typed
<1>3. StatusTrue' /\ Storing'
  BY <1>1 DEF IInv, StatusTrue, Storing
<1>4. BeforeTransfer' /\ Transferring' /\ ReadyPhase' /\ AnswersTrue' /\ AfterTransfer'
  BY <1>1 DEF BeforeTransfer, Transferring, ReadyPhase, AnswersTrue, AfterTransfer
<1>5. OnTheLine'
  BY <1>1 DEF IInv, OnTheLine
<1> QED BY <1>2, <1>3, <1>4, <1>5 DEF IInv

\* The answer to the last packet: the transfer returns.
LEMMA AcknowledgedStep ==
  ASSUME IInv, pc = "xmodem", xpc = "awaitReply", index = NumBlocks,
         xpc' = "returned", rmode = "complete", toDev = << >>,
         UNCHANGED <<index, attempt, failure, toDev, faults, rmode, stored, ownVars>>,
         toHost' \in Seq(Texts), \A t : Contains(toHost', t) => Contains(toHost, t),
         \A k \in 1..Len(toHost') : toHost'[k] \in Printed
  PROVE  IInv'
<1>1. UNCHANGED <<pc, probes, outcome, sm, buf, uploadStatus, connected, calm, dmode, image>>
  BY DEF ownVars, hostVars, parserVars, deviceVars
<1>2. Typed'
  BY <1>1 DEF IInv, Typed
<1>3. StatusTrue' /\ Storing'
  BY <1>1 DEF IInv, StatusTrue, Storing
<1>4. BeforeTransfer' /\ Transferring' /\ ReadyPhase' /\ OnTheLine' /\ AnswersTrue'
  BY <1>1 DEF BeforeTransfer, Transferring, ReadyPhase, AnswersTrue, OnTheLine
<1>5. AfterTransfer'
  BY <1>1 DEF IInv, Transferring, OnTheLine, AfterTransfer
<1> QED BY <1>2, <1>3, <1>4, <1>5 DEF IInv

\* The actions of the sender while it has the protocol's place.
LEMMA SenderStep ==
  ASSUME IInv, TransferStep
  PROVE  IInv'
<1>1. pc = "xmodem" /\ UNCHANGED ownVars
  BY DEF TransferStep
<1>2. toHost \in Seq(Texts) /\ Len(toHost) \in Nat /\ index \in 0..NumBlocks
      /\ attempt \in 0..MaxFailures /\ Len(stored) \in index..(index + 1)
  BY DEF IInv, Typed, Storing
<1>3. CASE xmodem!ReadC
  <2>1. xpc = "readC" /\ index = 0 /\ toDev = << >> /\ OnlyCs /\ rmode = "sendC"
    BY <1>3 DEF IInv, ReadyPhase, xmodem!ReadC
  <2>2. PICK k \in 1..Len(toHost) : toHost' = SubSeq(toHost, k + 1, Len(toHost))
    BY <1>3 DEF xmodem!ReadC
  <2>3. /\ toHost' \in Seq(Texts) /\ Len(toHost') = Len(toHost) - k
        /\ \A i \in 1..Len(toHost') : toHost'[i] = toHost[i + k] /\ i + k \in 1..Len(toHost)
    BY <1>2, <2>2
  <2>4. OnlyCs'
    BY <2>1, <2>3 DEF OnlyCs
  <2>5. xmodem!Transmit(0, 0) /\ UNCHANGED <<faults, rmode, stored>>
    BY <1>3 DEF xmodem!ReadC, xmodem!receiverVars
  <2>6. 0 \in 0..NumBlocks /\ 0 \in 0..MaxFailures
    BY GeckoAssumption
  <2> QED BY <1>1, <1>2, <2>1, <2>3, <2>4, <2>5, <2>6, TransmitStep
<1>4. CASE xmodem!ReplyTimeout
  <2>1. /\ xpc = "awaitReply" /\ xmodem!Raise("timeout")
        /\ UNCHANGED <<toHost, faults, rmode, stored>>
    BY <1>4 DEF xmodem!ReplyTimeout, xmodem!receiverVars
  <2>2. "timeout" \in xmodem!Failures
    BY DEF xmodem!Failures
  <2> QED BY <1>1, <1>2, <2>1, <2>2, RaiseStep
<1>5. ASSUME NEW answer, xmodem!Answered(answer)
      PROVE  /\ xpc = "awaitReply" /\ answer = toHost[1] /\ 1 \in 1..Len(toHost)
             /\ UNCHANGED <<faults, rmode, stored>>
             /\ toHost' \in Seq(Texts) /\ Len(toHost') = Len(toHost) - 1
             /\ \A i \in 1..Len(toHost') : i + 1 \in 1..Len(toHost) /\ toHost'[i] = toHost[i + 1]
             /\ \A t : Contains(toHost', t) => Contains(toHost, t)
             /\ answer # "C" => toDev = << >>
  <2>1. /\ xpc = "awaitReply" /\ toHost # << >> /\ answer = Head(toHost)
        /\ toHost' = Tail(toHost) /\ UNCHANGED <<faults, rmode, stored>>
    BY <1>5 DEF xmodem!Answered, xmodem!receiverVars
  <2>2. answer = toHost[1] /\ 1 \in 1..Len(toHost)
    BY <1>2, <2>1, TailOf
  <2>3. answer # "C" => toDev = << >>
    BY <2>1, <2>2 DEF IInv, AnswersTrue, OnlyCs
  <2> QED BY <1>2, <2>1, <2>2, <2>3, TailOf
<1>6. ASSUME NEW answer, NEW why \in xmodem!Failures,
             xmodem!Answered(answer), xmodem!Raise(why)
      PROVE  IInv'
  BY <1>1, <1>5, <1>6, RaiseStep
<1>7. {"cancelled", "invalid", "failures"} \subseteq xmodem!Failures
  BY DEF xmodem!Failures
<1>8. CASE xmodem!ReplyCan \/ xmodem!ReplyInvalid
  BY <1>6, <1>7, <1>8 DEF xmodem!ReplyCan, xmodem!ReplyInvalid
\* What comes after an answer that is no "C", and may not be what is printed.
<1>9. ASSUME NEW answer \in {"ACK", "NAK"}, xmodem!Answered(answer),
             rmode \in {"sendC", "receiving"}, answer = "ACK" => rmode = "receiving"
      PROVE  OnlyCs'
  <2>1. dmode = "xmodem"
    BY <1>5, <1>9 DEF IInv, OnTheLine
  <2>2. \A k \in 1..Len(toHost) : toHost[k] \notin Printed
    BY <1>5, <1>9, <2>1 DEF IInv, AnswersTrue
  <2>3. \A k \in 2..Len(toHost) : toHost[k] \in Printed \cup {"C"}
    BY <1>2, <1>5, <1>9, SMTT(30) DEF IInv, AnswersTrue
  <2>4. \A i \in 1..Len(toHost') : i + 1 \in 2..Len(toHost) /\ toHost'[i] = toHost[i + 1]
    BY <1>2, <1>5, <1>9
  <2> QED BY <2>2, <2>3, <2>4 DEF OnlyCs
<1>10. CASE xmodem!ReplyNak
  <2>1. xmodem!Answered("NAK")
    BY <1>10 DEF xmodem!ReplyNak
  <2>2. rmode \in {"sendC", "receiving"} /\ toDev = << >> /\ xpc = "awaitReply"
    BY <1>5, <2>1 DEF IInv, AnswersTrue
  <2>3. OnlyCs'
    BY <1>9, <2>1, <2>2
  <2>4. CASE attempt >= MaxFailures
    BY <1>6, <1>7, <1>10, <2>1, <2>4 DEF xmodem!ReplyNak
  <2>5. CASE ~(attempt >= MaxFailures)
    <3>1. xmodem!Transmit(index, attempt + 1)
      BY <1>10, <2>5 DEF xmodem!ReplyNak
    <3>2. attempt + 1 \in 0..MaxFailures
      BY <1>2, <2>5, GeckoAssumption
    <3>3. toHost' \in Seq(Texts) /\ UNCHANGED <<faults, rmode, stored>>
      BY <1>5, <2>1
    <3> QED BY <1>1, <1>2, <2>2, <2>3, <3>1, <3>2, <3>3, TransmitStep
  <2> QED BY <2>4, <2>5
<1>11. CASE xmodem!ReplyAck
  <2>1. xmodem!Answered("ACK")
    BY <1>11 DEF xmodem!ReplyAck
  <2>2. /\ toDev = << >> /\ xpc = "awaitReply" /\ toHost[1] = "ACK" /\ 1 \in 1..Len(toHost)
        /\ toHost' \in Seq(Texts) /\ UNCHANGED <<faults, rmode, stored>>
    BY <1>5, <2>1
  <2>3. CASE index < NumBlocks
    <3>1. Len(stored) = index + 1 /\ rmode = "receiving"
      BY <2>2, <2>3 DEF IInv, AnswersTrue
    <3>2. xmodem!Transmit(index + 1, 0)
      BY <1>11, <2>3 DEF xmodem!ReplyAck
    <3>3. OnlyCs'
      BY <1>9, <2>1, <3>1
    <3>4. /\ index + 1 \in 0..NumBlocks /\ 0 \in 0..MaxFailures
          /\ Len(stored) \in (index + 1)..(index + 1 + 1)
      BY <1>2, <2>3, <3>1, GeckoAssumption
    <3> QED BY <1>1, <2>2, <3>1, <3>2, <3>3, <3>4, TransmitStep
  <2>4. CASE ~(index < NumBlocks)
    <3>1. index = NumBlocks
      BY <1>2, <2>4, GeckoAssumption
    <3>2. rmode = "complete"
      BY <2>2, <2>4 DEF IInv, AnswersTrue
    <3>3. xpc' = "returned" /\ UNCHANGED <<index, attempt, failure, toDev>>
      BY <1>11, <2>4 DEF xmodem!ReplyAck
    <3>4. \A k \in 2..Len(toHost) : toHost[k] \in Printed
      BY <1>2, <2>2 DEF IInv, AnswersTrue
    <3>5. \A i \in 1..Len(toHost') : i + 1 \in 2..Len(toHost) /\ toHost'[i] = toHost[i + 1]
      BY <1>2, <1>5, <2>1
    <3>6. \A t : Contains(toHost', t) => Contains(toHost, t)
      BY <1>5, <2>1
    <3> QED BY <1>1, <2>2, <3>1, <3>2, <3>3, <3>4, <3>5, <3>6, AcknowledgedStep
  <2> QED BY <2>3, <2>4
<1> QED BY <1>3, <1>4, <1>8, <1>10, <1>11 DEF TransferStep
-----------------------------------------------------------------------------
(***************************************************************************)
(* The device and the line.                                                *)
(***************************************************************************)

\* The receiver takes the current packet for what it is.
LEMMA CurrentPacket ==
  ASSUME IInv
  PROVE  LET p == xmodem!Outgoing(index) IN
         /\ index < NumBlocks =>
              /\ p.kind = "SOH" /\ p.data = index + 1 /\ index + 1 \in 1..NumBlocks
              /\ xmodem!Expects(p) => Len(stored) = index
              /\ ~xmodem!Expects(p) => Len(stored) = index + 1
         /\ ~(index < NumBlocks) => p.kind = "EOT" /\ index = NumBlocks
         /\ xmodem!Damaged.kind = "damaged"
<1>1. /\ index \in 0..NumBlocks /\ NumBlocks \in Nat /\ NumberMod \in Nat /\ NumberMod >= 2
      /\ Len(stored) \in index..(index + 1)
  BY GeckoAssumption DEF IInv, Typed, Storing
<1>2. CASE index < NumBlocks
  <2>1. xmodem!Outgoing(index) =
          [kind |-> "SOH", num |-> (index + 1) % NumberMod, data |-> index + 1]
    BY <1>2 DEF xmodem!Outgoing, xmodem!Block, xmodem!Number
  <2>2. index + 1 \in Nat /\ (index + 1) + 1 = index + 2
    BY <1>1
  <2>3. (index + 2) % NumberMod # (index + 1) % NumberMod
    BY <1>1, <2>2, GeckoAssumption, transfer!NextNumberDiffers
  <2>4. Len(stored) = index \/ (Len(stored) = index + 1 /\ Len(stored) + 1 = index + 2)
    BY <1>1
  <2> QED BY <1>1, <1>2, <2>1, <2>3, <2>4 DEF xmodem!Expects, xmodem!Damaged
<1>3. CASE ~(index < NumBlocks)
  BY <1>1, <1>3 DEF xmodem!Outgoing, xmodem!EOT, xmodem!Damaged
<1> QED BY <1>2, <1>3

\* The receiver takes a packet off the line.
LEMMA ReceiveStep ==
  ASSUME IInv, dmode = "xmodem", xmodem!Receive, rmode' = "cancelled" => image = "refused",
         UNCHANGED ownVars
  PROVE  IInv'
<1>1. /\ toDev # << >> /\ toDev' = Tail(toDev)
      /\ UNCHANGED <<xpc, index, attempt, failure, faults, pc, probes, outcome, sm, buf,
                     uploadStatus, connected, calm, dmode, image>>
  BY DEF xmodem!Receive, xmodem!senderVars, ownVars, hostVars, parserVars, deviceVars
<1>2. xpc \in {"awaitReply", "raised"}
  BY <1>1 DEF IInv, Typed, BeforeTransfer, ReadyPhase, AfterTransfer
<1>3. toDev \in Seq(Wire) /\ toHost \in Seq(Texts) /\ stored \in Seq(1..NumBlocks)
      /\ Len(stored) \in Nat /\ index \in 0..NumBlocks /\ NumBlocks \in Nat
  BY GeckoAssumption DEF IInv, Typed
<1>4. /\ toDev' \in Seq(Wire) /\ Len(toDev') = Len(toDev) - 1
      /\ Head(toDev) = toDev[1] /\ 1 \in 1..Len(toDev)
  BY <1>1, <1>3, TailOf
<1>5. toDev' = << >>
  <2>1. Len(toDev) <= 1
    BY <1>2 DEF IInv, OnTheLine
  <2>2. Len(toDev') = 0
    BY <1>3, <1>4, <2>1
  <2> QED BY <1>4, <2>2, EmptySeq
<1> DEFINE p == Head(toDev)
<1>6. p \in {xmodem!Outgoing(index), xmodem!Damaged}
  BY <1>2, <1>4 DEF IInv, OnTheLine
<1>7. rmode \in {"sendC", "receiving"}
  BY <1>1, <1>2 DEF IInv, Typed, OnTheLine
\* What the answer is, and what it stands for.
<1>8. \E a \in {"ACK", "NAK", "CAN"} :
        /\ toHost' = Append(toHost, a)
        /\ rmode' \in {"sendC", "receiving", "complete", "cancelled"}
        /\ stored' \in Seq(1..NumBlocks)
        /\ Len(stored') \in index..(index + 1) /\ Len(stored') <= NumBlocks
        /\ \A k \in 1..Len(stored') : stored'[k] = k
        /\ rmode' = "complete" => index = NumBlocks
        /\ rmode' = "sendC" => stored' = << >>
        /\ rmode' = "cancelled" => image = "refused"
        /\ a = "ACK" => IF index < NumBlocks
                        THEN Len(stored') = index + 1 /\ rmode' = "receiving"
                        ELSE rmode' = "complete"
        /\ a = "NAK" => rmode' \in {"sendC", "receiving"}
  <2>1. /\ Len(stored) \in index..(index + 1) /\ Len(stored) <= NumBlocks
        /\ \A k \in 1..Len(stored) : stored[k] = k
        /\ rmode = "sendC" => stored = << >>
    BY DEF IInv, Storing
  <2> HIDE DEF p
  <2>2. \/ xmodem!Accept(p) \/ xmodem!Drop(p) \/ xmodem!Complete(p) \/ xmodem!Refuse(p)
        \/ xmodem!Cancel(p)
    BY <1>7 DEF xmodem!Receive, p
  <2>3. CASE xmodem!Accept(p)
    <3>1. p.kind = "SOH" /\ xmodem!Expects(p)
      BY <2>3 DEF xmodem!Accept, xmodem!Expects
    <3>2. p = xmodem!Outgoing(index) /\ index < NumBlocks
      BY <1>6, <3>1, CurrentPacket
    <3>3. Len(stored) = index /\ p.data = index + 1 /\ index + 1 \in 1..NumBlocks
      BY <3>1, <3>2, CurrentPacket
    <3>4. /\ stored' = Append(stored, index + 1) /\ rmode' = "receiving"
          /\ toHost' = Append(toHost, "ACK")
      BY <2>3, <3>3 DEF xmodem!Accept
    <3>5. stored' \in Seq(1..NumBlocks) /\ Len(stored') = index + 1
      BY <1>3, <3>3, <3>4
    <3>6. \A k \in 1..Len(stored') : stored'[k] = k
      <4>1. SUFFICES ASSUME NEW k \in 1..Len(stored') PROVE stored'[k] = k
        OBVIOUS
      <4>2. CASE k \in 1..Len(stored)
        BY <1>3, <2>1, <3>4, <4>2
      <4>3. CASE k = index + 1
        BY <1>3, <3>3, <3>4, <4>3
      <4> QED BY <1>3, <3>3, <3>5, <4>2, <4>3
    <3> QED BY <1>3, <3>2, <3>3, <3>4, <3>5, <3>6
  <2>4. CASE xmodem!Drop(p)
    <3>1. p.kind = "SOH" /\ ~xmodem!Expects(p) /\ stored # << >>
          /\ toHost' = Append(toHost, "ACK") /\ UNCHANGED <<rmode, stored>>
      BY <2>4 DEF xmodem!Drop, xmodem!Repeats, xmodem!receiverVars
    <3>2. p = xmodem!Outgoing(index) /\ index < NumBlocks
      BY <1>6, <3>1, CurrentPacket
    <3>3. Len(stored) = index + 1 /\ rmode = "receiving"
      BY <1>7, <2>1, <3>1, <3>2, CurrentPacket
    <3> QED BY <1>3, <2>1, <3>1, <3>2, <3>3
  <2>5. CASE xmodem!Complete(p)
    <3>1. p.kind = "EOT" /\ rmode' = "complete" /\ toHost' = Append(toHost, "ACK")
          /\ UNCHANGED stored
      BY <2>5 DEF xmodem!Complete
    <3>2. index = NumBlocks
      BY <1>6, <3>1, CurrentPacket
    <3> QED BY <1>3, <2>1, <3>1, <3>2
  <2>6. CASE xmodem!Refuse(p)
    <3>1. toHost' = Append(toHost, "NAK") /\ UNCHANGED <<rmode, stored>>
      BY <2>6 DEF xmodem!Refuse, xmodem!receiverVars
    <3> QED BY <1>3, <1>7, <2>1, <3>1
  <2>7. CASE xmodem!Cancel(p)
    <3>1. rmode' = "cancelled" /\ toHost' = Append(toHost, "CAN") /\ UNCHANGED stored
      BY <2>7 DEF xmodem!Cancel
    <3> QED BY <1>3, <2>1, <3>1
  <2> QED BY <2>2, <2>3, <2>4, <2>5, <2>6, <2>7
<1> HIDE DEF p
<1>9. PICK a \in {"ACK", "NAK", "CAN"} : <1>8!(a)
  BY <1>8
<1>10. a \in Texts /\ a \notin Printed /\ a # "C"
  BY DEF Texts, xmodem!Answers, Printed
<1>11. /\ toHost' \in Seq(Texts) /\ Len(toHost') = Len(toHost) + 1
       /\ \A i \in 1..Len(toHost') : \/ i \in 1..Len(toHost) /\ toHost'[i] = toHost[i]
                                     \/ i = Len(toHost) + 1 /\ toHost'[i] = a
       /\ \A t : Contains(toHost', t) => Contains(toHost, t) \/ t = a
  BY <1>3, <1>9, <1>10, AppendOf
<1>12. Typed'
  BY <1>1, <1>4, <1>9, <1>11 DEF IInv, Typed
<1>13. StatusTrue' /\ Storing'
  BY <1>1, <1>9, <1>11 DEF IInv, StatusTrue, Storing
<1>14. BeforeTransfer' /\ ReadyPhase' /\ AfterTransfer'
  BY <1>1, <1>2 DEF BeforeTransfer, ReadyPhase, AfterTransfer
<1>15. Transferring' /\ OnTheLine'
  BY <1>1, <1>5, <1>9 DEF IInv, Transferring, OnTheLine
<1>16. AnswersTrue'
  <2>1. SUFFICES ASSUME xpc = "awaitReply" PROVE AnswersTrue'
    BY <1>1 DEF AnswersTrue
  <2>2. \A i \in 1..Len(toHost) : toHost[i] = "C"
    BY <1>1, <2>1 DEF IInv, AnswersTrue, OnlyCs
  <2>3. \A i \in 1..Len(toHost') : \/ i \in 1..Len(toHost) /\ toHost'[i] = "C"
                                   \/ i = Len(toHost) + 1 /\ toHost'[i] = a
    BY <1>11, <2>2
  <2>4. \A i, j \in 1..Len(toHost') : i < j => toHost'[i] = "C"
    BY <1>3, <2>3
  <2> QED BY <1>1, <1>5, <1>9, <1>10, <2>3, <2>4 DEF AnswersTrue, Printed
<1> QED BY <1>12, <1>13, <1>14, <1>15, <1>16 DEF IInv
\* A menu is printed, or not.
LEMMA MenuPrinted ==
  ASSUME toHost \in Seq(Texts), toHost' \in {toHost, Append(toHost, "MENU")}
  PROVE  /\ toHost' \in Seq(Texts)
         /\ \A i \in 1..Len(toHost') : \/ i \in 1..Len(toHost) /\ toHost'[i] = toHost[i]
                                       \/ toHost'[i] = "MENU"
         /\ \A t : Contains(toHost', t) => Contains(toHost, t) \/ t = "MENU"
<1>1. "MENU" \in Texts
  BY DEF Texts, Printed
<1>2. CASE toHost' = Append(toHost, "MENU")
  BY <1>1, <1>2, AppendOf
<1> QED BY <1>2

\* The device boots, prints its menu, obeys a command or does not.
LEMMA DevBootStep ==
  ASSUME IInv, DevBoot
  PROVE  IInv'
<1>1. /\ dmode = "starting" /\ dmode' = "menu" /\ toHost' \in {toHost, Append(toHost, "MENU")}
      /\ UNCHANGED <<xpc, index, attempt, failure, toDev, faults, rmode, stored, pc, probes,
                     outcome, sm, buf, uploadStatus, connected, calm, image>>
  BY DEF DevBoot, hostVars, parserVars
<1>2. xpc = "idle"
  BY <1>1 DEF IInv, Typed, ReadyPhase, OnTheLine, AfterTransfer
<1>3. /\ toHost \in Seq(Texts) /\ Len(toHost) \in Nat /\ "MENU" \in Texts
      /\ dmode \in {"starting", "menu"} /\ rmode = "idle"
      /\ ~Contains(toHost, "C") /\ sm # "XMODEM_READY"
  BY <1>1, <1>2 DEF IInv, Typed, BeforeTransfer, Texts, Printed
<1>4. /\ toHost' \in Seq(Texts)
      /\ \A i \in 1..Len(toHost') : \/ i \in 1..Len(toHost) /\ toHost'[i] = toHost[i]
                                    \/ toHost'[i] = "MENU"
      /\ \A t : Contains(toHost', t) => Contains(toHost, t) \/ t = "MENU"
  BY <1>1, <1>3, MenuPrinted
<1>5. \A i \in 1..Len(toHost') : toHost'[i] = "MENU"
  BY <1>2, <1>3, <1>4 DEF IInv, BeforeTransfer, Contains
<1>6. Typed' /\ StatusTrue' /\ Storing'
  BY <1>1, <1>4 DEF IInv, Typed, StatusTrue, Storing
<1>7. BeforeTransfer'
  BY <1>1, <1>2, <1>3, <1>4, <1>5 DEF IInv, BeforeTransfer
<1>8. Transferring' /\ ReadyPhase' /\ OnTheLine' /\ AnswersTrue' /\ AfterTransfer'
  BY <1>1, <1>2 DEF Transferring, ReadyPhase, OnTheLine, AnswersTrue, AfterTransfer
<1> QED BY <1>6, <1>7, <1>8 DEF IInv

\* Before and after the transfer the first command on the line is dropped.
LEMMA DeafStep ==
  ASSUME IInv, toDev # << >>, toDev' = Tail(toDev), xpc \in {"idle", "returned"},
         faults' \in 0..MaxFaults,
         UNCHANGED <<xpc, index, attempt, failure, toHost, rmode, stored, ownVars>>
  PROVE  IInv'
<1>1. UNCHANGED <<pc, probes, outcome, sm, buf, uploadStatus, connected, calm, dmode, image>>
  BY DEF ownVars, hostVars, parserVars, deviceVars
<1>2. toDev \in Seq(Wire) /\ Len(toDev) \in Nat
  BY DEF IInv, Typed
<1>3. /\ toDev' \in Seq(Wire) /\ Len(toDev') = Len(toDev) - 1
      /\ \A i \in 1..Len(toDev') : i + 1 \in 1..Len(toDev) /\ toDev'[i] = toDev[i + 1]
      /\ \A i \in 1..Len(toDev') : i + 1 = Len(toDev) => i = Len(toDev')
  BY <1>2, TailOf
<1>4. Typed' /\ StatusTrue' /\ Storing'
  <2>1. toDev' \in Seq(Wire)
    BY <1>3
  <2>2. Typed'
    BY <1>1, <2>1 DEF IInv, Typed
  <2>3. StatusTrue'
    BY <1>1 DEF IInv, StatusTrue
  <2>4. Storing'
    BY SMTT(30) DEF IInv, Storing
  <2> QED BY <2>2, <2>3, <2>4
<1>5. BeforeTransfer'
  <2>1. SUFFICES ASSUME xpc = "idle" PROVE BeforeTransfer'
    BY DEF BeforeTransfer
  <2>2. /\ \A k \in 1..Len(toDev') : toDev'[k] \in {Newline, EblInfo, UploadFw}
        /\ \A k \in 1..Len(toDev') : toDev'[k] = UploadFw => /\ k = Len(toDev')
                                                             /\ pc \in {"ready", "end"}
    <3>1. /\ \A k \in 1..Len(toDev) : toDev[k] \in {Newline, EblInfo, UploadFw}
          /\ \A k \in 1..Len(toDev) : toDev[k] = UploadFw => /\ k = Len(toDev)
                                                             /\ pc \in {"ready", "end"}
      BY <2>1 DEF IInv, BeforeTransfer
    <3> QED BY <1>3, <3>1, ZenonT(60)
  <2> QED BY <1>1, <2>1, <2>2 DEF IInv, BeforeTransfer, OnlyCs
<1>6. AfterTransfer'
  BY <1>1, <1>3 DEF IInv, AfterTransfer
<1>7. Transferring' /\ ReadyPhase' /\ OnTheLine' /\ AnswersTrue'
  BY DEF Transferring, ReadyPhase, OnTheLine, AnswersTrue
<1> QED BY <1>4, <1>5, <1>6, <1>7 DEF IInv

\* The menu obeys a command.
LEMMA DevMenuStep ==
  ASSUME IInv, DevMenu
  PROVE  IInv'
<1> DEFINE c == Head(toDev)
<1>1. /\ dmode = "menu" /\ toDev # << >> /\ toDev' = Tail(toDev)
      /\ dmode' = CASE c = UploadFw                    -> "xmodem"
                    [] c = RunFw /\ image = "bootable" -> "app"
                    [] OTHER                           -> "menu"
      /\ rmode' = IF c = UploadFw THEN "sendC" ELSE rmode
      /\ toHost' = IF c \in Commands /\ dmode' = "menu" THEN Append(toHost, "MENU")
                                                       ELSE toHost
      /\ UNCHANGED <<xpc, index, attempt, failure, faults, stored, pc, probes,
                     outcome, sm, buf, uploadStatus, connected, calm, image>>
  BY DEF DevMenu, hostVars, parserVars
<1>2. xpc \in {"idle", "returned"}
  BY <1>1 DEF IInv, Typed, ReadyPhase, OnTheLine
<1>3. toDev \in Seq(Wire) /\ Len(toDev) \in Nat /\ toHost \in Seq(Texts)
  BY DEF IInv, Typed
<1>4. /\ toDev' \in Seq(Wire) /\ Len(toDev') = Len(toDev) - 1
      /\ \A i \in 1..Len(toDev') : i + 1 \in 1..Len(toDev) /\ toDev'[i] = toDev[i + 1]
      /\ \A i \in 1..Len(toDev') : i + 1 = Len(toDev) => i = Len(toDev')
      /\ c = toDev[1] /\ 1 \in 1..Len(toDev)
  BY <1>1, <1>3, TailOf
<1> HIDE DEF c
<1>5. /\ toHost' \in Seq(Texts)
      /\ \A i \in 1..Len(toHost') : \/ i \in 1..Len(toHost) /\ toHost'[i] = toHost[i]
                                    \/ toHost'[i] = "MENU"
      /\ \A t : Contains(toHost', t) => Contains(toHost, t) \/ t = "MENU"
  BY <1>1, <1>3, MenuPrinted
<1>6. dmode' \in {"xmodem", "app", "menu"} /\ (c # UploadFw => dmode' # "xmodem")
      /\ (c # RunFw => dmode' # "app") /\ (c = UploadFw => dmode' = "xmodem")
  BY <1>1, CommandsDiffer
<1>7. CASE xpc = "idle"
  <2>1. /\ rmode = "idle" /\ ~Contains(toHost, "C") /\ sm # "XMODEM_READY"
        /\ \A i \in 1..Len(toHost) : toHost[i] \in {"MENU", "C"}
        /\ \A k \in 1..Len(toDev) : toDev[k] \in {Newline, EblInfo, UploadFw}
        /\ \A k \in 1..Len(toDev) : toDev[k] = UploadFw => /\ k = Len(toDev)
                                                           /\ pc \in {"ready", "end"}
        /\ stored = << >>
    BY <1>1, <1>7 DEF IInv, BeforeTransfer
  <2>2. \A i \in 1..Len(toHost') : toHost'[i] = "MENU"
    BY <1>5, <2>1 DEF Contains
  <2>3. /\ c = UploadFw => toDev' = << >> /\ pc \in {"ready", "end"}
        /\ dmode' # "app"
    <3>1. c = UploadFw => Len(toDev') = 0
      <4>1. c = UploadFw => Len(toDev) = 1
        BY <1>4, <2>1
      <4>2. Len(toDev') = Len(toDev) - 1
        BY <1>4
      <4> QED BY <4>1, <4>2
    <3> QED BY <1>4, <1>6, <2>1, <3>1, EmptySeq, CommandsDiffer
  <2>4. /\ \A k \in 1..Len(toDev') : toDev'[k] \in {Newline, EblInfo, UploadFw}
        /\ \A k \in 1..Len(toDev') : toDev'[k] = UploadFw => /\ k = Len(toDev')
                                                             /\ pc \in {"ready", "end"}
    BY <1>4, <2>1
  <2>5. Typed'
    BY <1>1, <1>4, <1>5, <1>6 DEF IInv, Typed
  <2>6. StatusTrue' /\ Storing'
    <3>1. rmode' \in {"sendC", "idle"}
      BY <1>1, <2>1
    <3>2. \A t \in {"COMPLETE", "ABORTED"} : ~Contains(toHost', t)
      BY <2>2 DEF Contains
    <3> QED BY <1>1, <1>7, <2>1, <3>1, <3>2 DEF IInv, StatusTrue, Storing, BeforeTransfer
  <2>7. BeforeTransfer'
    <3>1. ~Contains(toHost', "C")
      BY <1>5, <2>1
    <3> QED BY <1>1, <1>6, <1>7, <2>1, <2>2, <2>3, <2>4, <3>1 DEF IInv, BeforeTransfer
  <2>8. Transferring' /\ ReadyPhase' /\ OnTheLine' /\ AnswersTrue' /\ AfterTransfer'
    BY <1>1, <1>7 DEF Transferring, ReadyPhase, OnTheLine, AnswersTrue, AfterTransfer
  <2> QED BY <2>5, <2>6, <2>7, <2>8 DEF IInv
<1>8. CASE xpc = "returned"
  <2>1. /\ \A k \in 1..Len(toDev) : toDev[k] \in {Newline, EblInfo, RunFw}
        /\ \A i \in 1..Len(toHost) : toHost[i] \in Printed
    BY <1>8 DEF IInv, AfterTransfer
  <2>2. c # UploadFw /\ dmode' \in {"app", "menu"} /\ UNCHANGED rmode
    BY <1>1, <1>4, <1>6, <2>1, CommandsDiffer
  <2>3. Typed'
    BY <1>1, <1>4, <1>5, <1>6, <2>2 DEF IInv, Typed
  <2>4. StatusTrue' /\ Storing'
    BY <1>1, <1>5, <2>2 DEF IInv, StatusTrue, Storing
  <2>5. AfterTransfer'
    <3>1. \A k \in 1..Len(toDev') : toDev'[k] \in {Newline, EblInfo, RunFw}
      BY <1>4, <2>1
    <3>2. \A i \in 1..Len(toHost') : toHost'[i] \in Printed
      BY <1>5, <2>1 DEF Printed
    <3> QED BY <1>1, <1>8, <2>2, <3>1, <3>2 DEF IInv, AfterTransfer
  <2>6. BeforeTransfer' /\ Transferring' /\ ReadyPhase' /\ OnTheLine' /\ AnswersTrue'
    BY <1>1, <1>8 DEF BeforeTransfer, Transferring, ReadyPhase, OnTheLine, AnswersTrue
  <2> QED BY <2>3, <2>4, <2>5, <2>6 DEF IInv
<1> QED BY <1>2, <1>7, <1>8
\* Another "C" is offered.
LEMMA OfferStep ==
  ASSUME IInv, dmode = "xmodem", xmodem!OfferC, UNCHANGED ownVars
  PROVE  IInv'
<1>1. /\ rmode = "sendC" /\ toHost' = Append(toHost, "C")
      /\ UNCHANGED <<xpc, index, attempt, failure, toDev, faults, rmode, stored, pc, probes,
                     outcome, sm, buf, uploadStatus, connected, calm, dmode, image>>
  BY DEF xmodem!OfferC, xmodem!senderVars, xmodem!receiverVars, ownVars, hostVars,
         parserVars, deviceVars
<1>2. toHost \in Seq(Texts) /\ "C" \in Texts /\ Len(toHost) \in Nat
  BY DEF IInv, Typed, Texts, xmodem!Answers
<1>3. /\ toHost' \in Seq(Texts) /\ Len(toHost') = Len(toHost) + 1
      /\ \A i \in 1..Len(toHost') : \/ i \in 1..Len(toHost) /\ toHost'[i] = toHost[i]
                                    \/ i = Len(toHost) + 1 /\ toHost'[i] = "C"
      /\ \A t : Contains(toHost', t) => Contains(toHost, t) \/ t = "C"
  BY <1>1, <1>2, AppendOf
<1>4. OnlyCs => OnlyCs'
  BY <1>3 DEF OnlyCs
<1>5. Typed' /\ StatusTrue' /\ Storing'
  <2>1. Typed'
    BY <1>1, <1>3 DEF IInv, Typed
  <2> QED BY <1>1, <1>3, <2>1 DEF IInv, StatusTrue, Storing
<1>6. BeforeTransfer'
  <2>1. SUFFICES ASSUME xpc = "idle" PROVE BeforeTransfer'
    BY <1>1 DEF BeforeTransfer
  <2>2. /\ \A i \in 1..Len(toHost') : toHost'[i] \in {"MENU", "C"}
        /\ \A j, k \in 1..Len(toHost') : j < k /\ toHost'[j] = "C" => toHost'[k] = "C"
    <3>1. /\ \A i \in 1..Len(toHost) : toHost[i] \in {"MENU", "C"}
          /\ \A j, k \in 1..Len(toHost) : j < k /\ toHost[j] = "C" => toHost[k] = "C"
      BY <2>1 DEF IInv, BeforeTransfer
    <3> QED BY <1>2, <1>3, <3>1
  <2> QED BY <1>1, <1>4, <2>1, <2>2 DEF IInv, BeforeTransfer
<1>7. Transferring' /\ ReadyPhase' /\ OnTheLine'
  BY <1>1, <1>4 DEF IInv, Transferring, ReadyPhase, OnTheLine
<1>8. AnswersTrue'
  <2>1. SUFFICES ASSUME xpc = "awaitReply" PROVE AnswersTrue'
    BY <1>1 DEF AnswersTrue
  <2>2. \A k \in 1..Len(toHost) : toHost[k] # "ACK"
    BY <1>1, <2>1 DEF IInv, AnswersTrue
  <2>3. \A j, k \in 1..Len(toHost') : j < k => \/ toHost'[j] = "C"
                                              \/ toHost'[k] \in Printed \cup {"C"}
    <3>1. \A j, k \in 1..Len(toHost) : j < k => \/ toHost[j] = "C"
                                               \/ toHost[k] \in Printed \cup {"C"}
      BY <2>1 DEF IInv, AnswersTrue
    <3> QED BY <1>2, <1>3, <3>1
  <2>4. \A k \in 1..Len(toHost') : /\ toHost'[k] # "ACK"
                                   /\ toHost'[k] \in Printed => dmode = "menu"
    BY <1>3, <2>1, <2>2 DEF IInv, AnswersTrue, Printed
  <2> QED BY <1>1, <1>4, <2>1, <2>3, <2>4 DEF IInv, AnswersTrue
<1>9. AfterTransfer'
  BY <1>1 DEF IInv, AfterTransfer
<1> QED BY <1>5, <1>6, <1>7, <1>8, <1>9 DEF IInv

\* The receiver is through and the menu is back: the status is printed.
LEMMA DevFinishStep ==
  ASSUME IInv, DevFinish
  PROVE  IInv'
<1> DEFINE status == IF rmode = "complete" /\ image # "refused" THEN "COMPLETE" ELSE "ABORTED"
<1>1. /\ dmode = "xmodem" /\ dmode' = "menu" /\ rmode \in {"complete", "cancelled"}
      /\ toHost' \in {Append(toHost, status), toHost \o <<status, "MENU">>}
      /\ UNCHANGED <<xpc, index, attempt, failure, toDev, faults, rmode, stored, pc, probes,
                     outcome, sm, buf, uploadStatus, connected, calm, image>>
  BY DEF DevFinish, hostVars, parserVars
<1>2. xpc \in {"awaitReply", "raised", "returned"} /\ toDev = << >>
  BY <1>1 DEF IInv, Typed, BeforeTransfer, ReadyPhase, OnTheLine, AfterTransfer
<1>3. /\ status \in {"COMPLETE", "ABORTED"}
      /\ status = "COMPLETE" => image # "refused"
      /\ status = "ABORTED" => image = "refused"
  BY <1>1 DEF IInv, StatusTrue
<1>4. ~Contains(toHost, "COMPLETE") /\ ~Contains(buf, "COMPLETE") /\ uploadStatus # "complete"
      /\ ~Contains(toHost, "ABORTED") /\ ~Contains(buf, "ABORTED") /\ uploadStatus # "aborted"
  BY <1>1 DEF IInv, StatusTrue
<1> HIDE DEF status
<1>5. toHost \in Seq(Texts) /\ Len(toHost) \in Nat /\ status \in Texts /\ "MENU" \in Texts
  BY <1>3 DEF IInv, Typed, Texts, Printed
<1>6. /\ toHost' \in Seq(Texts)
      /\ \A i \in 1..Len(toHost') : \/ i \in 1..Len(toHost) /\ toHost'[i] = toHost[i]
                                    \/ i > Len(toHost) /\ toHost'[i] \in {status, "MENU"}
  <2>1. CASE toHost' = Append(toHost, status)
    BY <1>5, <2>1
  <2>2. CASE toHost' = toHost \o <<status, "MENU">>
    <3>1. <<status, "MENU">> \in Seq(Texts) /\ Len(<<status, "MENU">>) = 2
      BY <1>5
    <3>2. /\ toHost' \in Seq(Texts) /\ Len(toHost') = Len(toHost) + 2
          /\ \A i \in 1..Len(toHost) : toHost'[i] = toHost[i]
          /\ toHost'[Len(toHost) + 1] = <<status, "MENU">>[1]
          /\ toHost'[Len(toHost) + 2] = <<status, "MENU">>[2]
      BY <1>5, <2>2, <3>1
    <3>3. \A i \in 1..Len(toHost') : \/ i \in 1..Len(toHost)
                                     \/ i = Len(toHost) + 1 \/ i = Len(toHost) + 2
      BY <1>5, <3>2
    <3>4. Len(toHost) + 1 > Len(toHost) /\ Len(toHost) + 2 > Len(toHost)
      BY <1>5
    <3>5. <<status, "MENU">>[1] = status /\ <<status, "MENU">>[2] = "MENU"
      OBVIOUS
    <3> QED BY <3>2, <3>3, <3>4, <3>5
  <2> QED BY <1>1, <2>1, <2>2
<1>7. \A t : Contains(toHost', t) => Contains(toHost, t) \/ t \in {status, "MENU"}
  BY <1>6 DEF Contains
<1>8. Typed'
  BY <1>1, <1>6 DEF IInv, Typed
<1>9. StatusTrue' /\ Storing'
  <2>1. Contains(toHost', "COMPLETE") => image # "refused"
    BY <1>3, <1>4, <1>7
  <2>2. Contains(toHost', "ABORTED") => image = "refused"
    BY <1>3, <1>4, <1>7
  <2> QED BY <1>1, <1>4, <2>1, <2>2 DEF IInv, StatusTrue, Storing
<1>10. BeforeTransfer' /\ ReadyPhase'
  BY <1>1, <1>2 DEF BeforeTransfer, ReadyPhase
<1>11. Transferring' /\ OnTheLine'
  BY <1>1, <1>2 DEF IInv, Transferring, OnTheLine
<1>12. AnswersTrue'
  <2>1. SUFFICES ASSUME xpc = "awaitReply" PROVE AnswersTrue'
    BY <1>1 DEF AnswersTrue
  <2>2. {status, "MENU"} \subseteq Printed /\ "ACK" \notin Printed /\ "NAK" \notin Printed
    BY <1>3 DEF Printed
  <2>3. /\ \A j, k \in 1..Len(toHost) : j < k =>
             \/ toHost[j] = "C"
             \/ toHost[k] \in IF toHost[j] = "ACK" THEN Printed ELSE Printed \cup {"C"}
        /\ \A k \in 1..Len(toHost) : toHost[k] = "ACK" =>
             IF index < NumBlocks THEN Len(stored) = index + 1 /\ rmode = "receiving"
                                  ELSE rmode = "complete"
        /\ \A k \in 1..Len(toHost) : toHost[k] = "NAK" => rmode \in {"sendC", "receiving"}
    BY <2>1 DEF IInv, AnswersTrue
  <2>4. \A j, k \in 1..Len(toHost') : j < k =>
             \/ toHost'[j] = "C"
             \/ toHost'[k] \in IF toHost'[j] = "ACK" THEN Printed ELSE Printed \cup {"C"}
    BY <1>5, <1>6, <2>2, <2>3
  <2>5. \A k \in 1..Len(toHost') : \/ k \in 1..Len(toHost) /\ toHost'[k] = toHost[k]
                                   \/ toHost'[k] \notin {"ACK", "NAK"}
    BY <1>6, <2>2
  <2> QED BY <1>1, <1>2, <2>3, <2>4, <2>5 DEF AnswersTrue
<1>13. AfterTransfer'
  <2>1. {status, "MENU"} \subseteq Printed
    BY <1>3 DEF Printed
  <2> QED BY <1>1, <1>2, <1>6, <2>1 DEF IInv, AfterTransfer
<1> QED BY <1>8, <1>9, <1>10, <1>11, <1>12, <1>13 DEF IInv
\* The line loses or damages a packet of the transfer.
LEMMA SpoilPacketStep ==
  ASSUME IInv, xpc \in {"awaitReply", "raised"}, toDev # << >>,
         toDev' \in {Tail(toDev), <<xmodem!Damaged>> \o Tail(toDev)},
         faults' \in 0..MaxFaults,
         UNCHANGED <<xpc, index, attempt, failure, toHost, rmode, stored, ownVars>>
  PROVE  IInv'
<1>1. UNCHANGED <<pc, probes, outcome, sm, buf, uploadStatus, connected, calm, dmode, image>>
  BY DEF ownVars, hostVars, parserVars, deviceVars
<1>2. toDev \in Seq(Wire) /\ Len(toDev) \in Nat \ {0} /\ Len(toDev) <= 1
  <2>1. toDev \in Seq(Wire) /\ Len(toDev) <= 1
    BY DEF IInv, Typed, OnTheLine
  <2> QED BY <2>1, EmptySeq
<1>3. Tail(toDev) = << >>
  <2>1. Len(toDev) = 1
    BY <1>2
  <2>2. Tail(toDev) \in Seq(Wire) /\ Len(Tail(toDev)) = 0
    BY <1>2, <2>1
  <2> QED BY <2>2, EmptySeq
<1>4. \/ toDev' = << >>
      \/ toDev' = <<xmodem!Damaged>>
  <2>1. <<xmodem!Damaged>> \o << >> = <<xmodem!Damaged>>
    BY ConcatEmptySeq, <<xmodem!Damaged>> \in Seq({xmodem!Damaged})
  <2> QED BY <1>3, <2>1
<1>5. /\ toDev' \in Seq(Wire) /\ Len(toDev') <= 1
      /\ \A k \in 1..Len(toDev') : toDev'[k] = xmodem!Damaged
  <2>1. xmodem!Damaged \in Wire
    BY DEF Wire
  <2>2. CASE toDev' = << >>
    BY <2>2
  <2>3. CASE toDev' = <<xmodem!Damaged>>
    BY <2>1, <2>3
  <2> QED BY <1>4, <2>2, <2>3
<1>6. Typed' /\ StatusTrue' /\ Storing'
  <2>1. Typed'
    BY <1>1, <1>5 DEF IInv, Typed
  <2> QED BY <1>1, <2>1 DEF IInv, StatusTrue, Storing
<1>7. BeforeTransfer' /\ ReadyPhase' /\ AfterTransfer'
  BY DEF BeforeTransfer, ReadyPhase, AfterTransfer
<1>8. Transferring' /\ OnTheLine'
  BY <1>1, <1>5 DEF IInv, Transferring, OnTheLine
<1>9. AnswersTrue'
  BY <1>1 DEF IInv, AnswersTrue, OnlyCs
<1> QED BY <1>6, <1>7, <1>8, <1>9 DEF IInv

\* The line loses a byte on its way to the host.
LEMMA LoseAnswerStep ==
  ASSUME IInv, toHost # << >>, toHost' = Tail(toHost), faults' \in 0..MaxFaults,
         UNCHANGED <<xpc, index, attempt, failure, toDev, rmode, stored, ownVars>>
  PROVE  IInv'
<1>1. UNCHANGED <<pc, probes, outcome, sm, buf, uploadStatus, connected, calm, dmode, image>>
  BY DEF ownVars, hostVars, parserVars, deviceVars
<1>2. toHost \in Seq(Texts) /\ Len(toHost) \in Nat
  BY DEF IInv, Typed
<1>3. /\ toHost' \in Seq(Texts) /\ Len(toHost') = Len(toHost) - 1
      /\ \A i \in 1..Len(toHost') : i + 1 \in 1..Len(toHost) /\ toHost'[i] = toHost[i + 1]
      /\ \A t : Contains(toHost', t) => Contains(toHost, t)
  BY <1>2, TailOf
<1>4. OnlyCs => OnlyCs'
  BY <1>3 DEF OnlyCs
<1>5. \A j, k \in 1..Len(toHost') : j < k => j + 1 < k + 1
  <2>1. \A n \in Int : \A j, k \in 1..n : j < k => j + 1 < k + 1
    OBVIOUS
  <2>2. Len(toHost') \in Int
    BY <1>2, <1>3
  <2> QED BY <2>1, <2>2
<1>6. Typed' /\ StatusTrue' /\ Storing'
  <2>1. Typed'
    BY <1>1, <1>3 DEF IInv, Typed
  <2> QED BY <1>1, <1>3, <2>1 DEF IInv, StatusTrue, Storing
<1>7. BeforeTransfer'
  <2>1. SUFFICES ASSUME xpc = "idle" PROVE BeforeTransfer'
    BY DEF BeforeTransfer
  <2>2. /\ \A i \in 1..Len(toHost') : toHost'[i] \in {"MENU", "C"}
        /\ \A j, k \in 1..Len(toHost') : j < k /\ toHost'[j] = "C" => toHost'[k] = "C"
    <3>1. /\ \A i \in 1..Len(toHost) : toHost[i] \in {"MENU", "C"}
          /\ \A j, k \in 1..Len(toHost) : j < k /\ toHost[j] = "C" => toHost[k] = "C"
      BY <2>1 DEF IInv, BeforeTransfer
    <3> QED BY <1>3, <1>5, <3>1
  <2> QED BY <1>1, <1>3, <1>4, <2>1, <2>2 DEF IInv, BeforeTransfer
<1>8. Transferring' /\ ReadyPhase' /\ OnTheLine'
  BY <1>1, <1>4 DEF IInv, Transferring, ReadyPhase, OnTheLine
<1>9. AnswersTrue'
  <2>1. SUFFICES ASSUME xpc = "awaitReply" PROVE AnswersTrue'
    BY DEF AnswersTrue
  <2>2. \A j, k \in 1..Len(toHost') : j < k =>
           \/ toHost'[j] = "C"
           \/ toHost'[k] \in IF toHost'[j] = "ACK" THEN Printed ELSE Printed \cup {"C"}
    BY <1>3, <1>5, <2>1 DEF IInv, AnswersTrue
  <2> QED BY <1>1, <1>3, <1>4, <2>1, <2>2 DEF IInv, AnswersTrue
<1>10. AfterTransfer'
  BY <1>1, <1>3 DEF IInv, AfterTransfer
<1> QED BY <1>6, <1>7, <1>8, <1>9, <1>10 DEF IInv

\* The line damages an answer of the receiver.
LEMMA DamageAnswerStep ==
  ASSUME IInv, pc = "xmodem", xmodem!DamageAnswer, UNCHANGED ownVars
  PROVE  IInv'
<1>1. /\ toHost # << >> /\ Head(toHost) \in {"ACK", "NAK", "CAN"}
      /\ toHost' = <<"noise">> \o Tail(toHost) /\ faults' \in 0..MaxFaults
      /\ UNCHANGED <<xpc, index, attempt, failure, toDev, rmode, stored, pc, probes, outcome,
                     sm, buf, uploadStatus, connected, calm, dmode, image>>
  BY GeckoAssumption DEF xmodem!DamageAnswer, xmodem!Spoil, xmodem!senderVars,
     xmodem!receiverVars, ownVars, hostVars, parserVars, deviceVars, IInv, Typed
<1>2. toHost \in Seq(Texts) /\ Len(toHost) \in Nat /\ "noise" \in Texts /\ "noise" \notin Printed
  BY DEF IInv, Typed, Texts, xmodem!Answers, Printed
<1>3. /\ toHost' \in Seq(Texts) /\ Len(toHost') = Len(toHost) /\ 1 \in 1..Len(toHost)
      /\ toHost[1] \in {"ACK", "NAK", "CAN"} /\ toHost'[1] = "noise"
      /\ \A i \in 2..Len(toHost) : toHost'[i] = toHost[i]
  <2>1. /\ Tail(toHost) \in Seq(Texts) /\ Len(Tail(toHost)) = Len(toHost) - 1
        /\ \A i \in 1..(Len(toHost) - 1) : Tail(toHost)[i] = toHost[i + 1]
        /\ Head(toHost) = toHost[1] /\ 1 \in 1..Len(toHost)
    BY <1>1, <1>2, TailOf
  <2> DEFINE t == Tail(toHost)
  <2>2. toHost' = <<"noise">> \o t
    BY <1>1
  <2>3. /\ t \in Seq(Texts) /\ Len(t) = Len(toHost) - 1
        /\ \A i \in 1..(Len(toHost) - 1) : t[i] = toHost[i + 1]
    BY <2>1
  <2> HIDE DEF t
  <2>4. /\ toHost' \in Seq(Texts) /\ Len(toHost') = 1 + Len(t) /\ toHost'[1] = "noise"
        /\ \A i \in 2..(1 + Len(t)) : toHost'[i] = t[i - 1]
    BY <1>2, <2>2, <2>3
  <2>5. \A i \in 2..Len(toHost) : /\ i - 1 \in 1..(Len(toHost) - 1) /\ i - 1 + 1 = i
                                  /\ i \in 2..(1 + Len(t))
    BY <1>2, <2>3
  <2>6. Len(toHost') = Len(toHost)
    BY <1>2, <2>3, <2>4
  <2>7. \A i \in 2..Len(toHost) : toHost'[i] = toHost[i]
    <3>1. SUFFICES ASSUME NEW i \in 2..Len(toHost) PROVE toHost'[i] = toHost[i]
      OBVIOUS
    <3>2. toHost'[i] = t[i - 1]
      BY <2>4, <2>5
    <3>3. t[i - 1] = toHost[i - 1 + 1]
      BY <2>3, <2>5
    <3> QED BY <2>5, <3>2, <3>3
  <2> QED BY <1>1, <2>1, <2>4, <2>6, <2>7
<1>4. \A i \in 1..Len(toHost) : i = 1 \/ i \in 2..Len(toHost)
  BY <1>2
<1>5. xpc \in {"awaitReply", "raised"}
  BY <1>1, <1>3 DEF IInv, Typed, BeforeTransfer, ReadyPhase, OnlyCs, AfterTransfer, Printed
<1>6. \A t : Contains(toHost', t) => Contains(toHost, t) \/ t = "noise"
  BY <1>2, <1>3, <1>4 DEF Contains
<1>7. Typed' /\ StatusTrue' /\ Storing'
  <2>1. Typed'
    BY <1>1, <1>3 DEF IInv, Typed
  <2> QED BY <1>1, <1>6, <2>1 DEF IInv, StatusTrue, Storing
<1>8. BeforeTransfer' /\ ReadyPhase' /\ AfterTransfer'
  BY <1>1, <1>5 DEF BeforeTransfer, ReadyPhase, AfterTransfer
<1>9. Transferring' /\ OnTheLine'
  BY <1>1 DEF IInv, Transferring, OnTheLine
<1>10. AnswersTrue'
  <2>1. SUFFICES ASSUME xpc = "awaitReply" PROVE AnswersTrue'
    BY <1>1 DEF AnswersTrue
  <2>2. ~OnlyCs
    BY <1>3 DEF OnlyCs
  <2>3. \A i \in 1..Len(toHost') : \/ toHost'[i] = "noise"
                                   \/ i \in 1..Len(toHost) /\ toHost'[i] = toHost[i]
    BY <1>3, <1>4
  <2>4. \A j, k \in 1..Len(toHost') : j < k => /\ j \in 1..Len(toHost) /\ k \in 1..Len(toHost)
                                               /\ toHost'[k] = toHost[k]
                                               /\ toHost'[j] = "noise" => toHost[j] # "C"
                                               /\ toHost'[j] # "noise" => toHost'[j] = toHost[j]
    <3>1. SUFFICES ASSUME NEW j \in 1..Len(toHost), NEW k \in 1..Len(toHost), j < k
                   PROVE  /\ toHost'[k] = toHost[k]
                          /\ toHost'[j] = "noise" => toHost[j] # "C"
                          /\ toHost'[j] # "noise" => toHost'[j] = toHost[j]
      BY <1>3
    <3>2. k \in 2..Len(toHost)
      BY <1>2, <3>1
    <3> QED BY <1>3, <1>4, <3>2
  <2>5. /\ toDev = << >>
        /\ \A j, k \in 1..Len(toHost) : j < k =>
             \/ toHost[j] = "C"
             \/ toHost[k] \in IF toHost[j] = "ACK" THEN Printed ELSE Printed \cup {"C"}
    BY <2>1, <2>2 DEF IInv, AnswersTrue
  <2>6. \A j, k \in 1..Len(toHost') : j < k =>
             \/ toHost'[j] = "C"
             \/ toHost'[k] \in IF toHost'[j] = "ACK" THEN Printed ELSE Printed \cup {"C"}
    BY <2>4, <2>5
  <2> QED BY <1>1, <1>2, <2>1, <2>3, <2>5, <2>6 DEF IInv, AnswersTrue
<1> QED BY <1>7, <1>8, <1>9, <1>10 DEF IInv
-----------------------------------------------------------------------------
(***************************************************************************)
(* Every step keeps the invariant.                                         *)
(***************************************************************************)
LEMMA HostKeeps ==
  ASSUME IInv, Host
  PROVE  IInv'
<1>1. CASE Probe \/ Probed \/ InfoAnyway \/ SelectUpload \/ AskForMenu \/ Verdict \/ RunAgain
  <2>1. xpc \in {"idle", "returned"}
    BY <1>1, Phases DEF Probe, Probed, InfoAnyway, SelectUpload, AskForMenu, Verdict,
                        RunAgain, Woken
  <2>2. CASE xpc = "idle"
    <3>1. pc \notin {"menu", "menuinfo", "menuinfo2", "recheck"}
      BY <2>2 DEF IInv, BeforeTransfer
    <3> QED BY <1>1, <2>2, <3>1, BeforeStep DEF AskForMenu, Verdict, RunAgain, Woken
  <2>3. CASE xpc = "returned"
    <3>1. pc \notin {"settle", "backoff", "probing", "selecting", "selecting2"}
      BY <2>3 DEF IInv, AfterTransfer
    <3> QED BY <1>1, <2>3, <3>1, AfterStep DEF Probe, Probed, SelectUpload, Woken
  <2> QED BY <2>1, <2>2, <2>3
<1>2. CASE StartTransfer
  BY <1>2, StartStep
<1>3. CASE TransferStep
  BY <1>3, SenderStep
<1>4. CASE TransferReturned
  BY <1>4, ReturnedStep
<1>5. CASE \/ ProbeTimeout \/ LongTimeout \/ TransferRaised \/ StatusRead
           \/ Launched \/ MenuReappeared \/ RanAgain
  BY <1>5, QuietStep
<1> QED BY <1>1, <1>2, <1>3, <1>4, <1>5 DEF Host

LEMMA DeviceKeeps ==
  ASSUME IInv, Device
  PROVE  IInv'
<1>1. CASE DevBoot
  BY <1>1, DevBootStep
<1>2. CASE DevDeaf
  <2>1. /\ toDev # << >> /\ toDev' = Tail(toDev) /\ dmode \in {"starting", "app"}
        /\ UNCHANGED <<xpc, index, attempt, failure, toHost, faults, rmode, stored, ownVars>>
    BY <1>2 DEF DevDeaf
  <2>2. xpc \in {"idle", "returned"} /\ faults' \in 0..MaxFaults
    BY <2>1 DEF IInv, Typed, ReadyPhase, OnTheLine
  <2> QED BY <2>1, <2>2, DeafStep
<1>3. CASE DevMenu
  BY <1>3, DevMenuStep
<1>4. CASE DevXmodem
  BY <1>4, OfferStep, ReceiveStep DEF DevXmodem
<1>5. CASE DevFinish
  BY <1>5, DevFinishStep
<1> QED BY <1>1, <1>2, <1>3, <1>4, <1>5 DEF Device

LEMMA FaultKeeps ==
  ASSUME IInv, LineFault
  PROVE  IInv'
<1>1. UNCHANGED ownVars
  BY DEF LineFault
<1>2. ASSUME xmodem!Spoil
      PROVE  faults' \in 0..MaxFaults /\ UNCHANGED <<xpc, index, attempt, failure, rmode, stored>>
  BY <1>2, GeckoAssumption DEF xmodem!Spoil, xmodem!senderVars, xmodem!receiverVars, IInv, Typed
<1>3. CASE xmodem!LosePacket
  <2>1. /\ toDev # << >> /\ toDev' = Tail(toDev) /\ UNCHANGED toHost /\ xmodem!Spoil
    BY <1>3 DEF xmodem!LosePacket
  <2>2. xpc # "readC"
    BY <2>1 DEF IInv, ReadyPhase
  <2>3. CASE xpc \in {"idle", "returned"}
    BY <1>1, <1>2, <2>1, <2>3, DeafStep
  <2>4. CASE xpc \in {"awaitReply", "raised"}
    BY <1>1, <1>2, <2>1, <2>4, SpoilPacketStep
  <2> QED BY <2>2, <2>3, <2>4 DEF IInv, Typed
<1>4. CASE pc = "xmodem" /\ xmodem!DamagePacket
  <2>1. /\ toDev # << >> /\ toDev' = <<xmodem!Damaged>> \o Tail(toDev) /\ UNCHANGED toHost
        /\ xmodem!Spoil
    BY <1>4 DEF xmodem!DamagePacket
  <2>2. xpc \in {"awaitReply", "raised"}
    BY <1>4, <2>1 DEF IInv, Typed, BeforeTransfer, ReadyPhase, AfterTransfer
  <2> QED BY <1>1, <1>2, <2>1, <2>2, SpoilPacketStep
<1>5. CASE xmodem!LoseAnswer
  <2>1. /\ toHost # << >> /\ toHost' = Tail(toHost) /\ UNCHANGED toDev /\ xmodem!Spoil
    BY <1>5 DEF xmodem!LoseAnswer
  <2> QED BY <1>1, <1>2, <2>1, LoseAnswerStep
<1>6. CASE pc = "xmodem" /\ xmodem!DamageAnswer
  BY <1>1, <1>6, DamageAnswerStep
<1> QED BY <1>3, <1>4, <1>5, <1>6 DEF LineFault

LEMMA NextIInv == IInv /\ [Next]_vars => IInv'
<1> SUFFICES ASSUME IInv, [Next]_vars PROVE IInv'
  OBVIOUS
<1>1. CASE UNCHANGED vars
  BY <1>1 DEF vars, transferVars, ownVars, hostVars, parserVars, deviceVars, IInv, Typed,
       StatusTrue, BeforeTransfer, Transferring, ReadyPhase, OnTheLine, Storing,
       AnswersTrue, AfterTransfer, OnlyCs
<1>2. CASE Next
  BY <1>1, <1>2, DeliverStep, HostKeeps, PortLostStep, DeviceKeeps, FaultKeeps DEF Next, Done
<1> QED BY <1>1, <1>2

LEMMA Invariance == Spec => []IInv
BY InitIInv, NextIInv, PTL DEF Spec

-----------------------------------------------------------------------------
(***************************************************************************)
(* What an upload guarantees.                                              *)
(***************************************************************************)

\* Every variable keeps its type: no probe or retry is counted beyond its
\* bound, and nothing but commands, packets and answers is ever on the line.
THEOREM TypeCorrect == Spec => []TypeOK
<1>1. IInv => TypeOK
  BY DEF IInv, Typed, TypeOK, Wire, Texts
<1> QED BY <1>1, Invariance, PTL

\* flash_firmware succeeds only with an image that the device has in full, in
\* order, and has accepted, and raises UploadError only for one it has refused.
THEOREM VerdictTruthful == Spec => []TruthfulVerdict
<1>1. IInv => TruthfulVerdict
  <2> SUFFICES ASSUME IInv PROVE TruthfulVerdict
    OBVIOUS
  <2>1. outcome \in {"ok", "rejected"} => xpc = "returned"
    BY DEF IInv, Typed, BeforeTransfer, Transferring, OnTheLine
  <2>2. outcome = "rejected" => image = "refused"
    BY <2>1 DEF IInv, AfterTransfer
  <2>3. CASE outcome = "ok"
    <3>1. image # "refused"
      BY <2>1, <2>3 DEF IInv, AfterTransfer, StatusTrue
    <3>2. /\ stored \in Seq(1..NumBlocks) /\ Len(stored) = NumBlocks
          /\ \A k \in 1..Len(stored) : stored[k] = k
      BY <2>1, <2>3, GeckoAssumption DEF IInv, Typed, AfterTransfer, Storing
    <3>3. stored = [k \in 1..NumBlocks |-> k]
      BY <3>2
    <3> QED BY <2>2, <2>3, <3>1, <3>3 DEF TruthfulVerdict
  <2> QED BY <2>2, <2>3 DEF TruthfulVerdict
<1> QED BY <1>1, Invariance, PTL

\* The XMODEM receiver never reads a command of the menu, and the menu never
\* reads a packet of the firmware.
THEOREM RightReaders == Spec => []RightReader
<1>1. IInv => RightReader
  <2> SUFFICES ASSUME IInv, toDev # << >>
               PROVE  /\ dmode = "xmodem" => Head(toDev) \notin Commands
                      /\ dmode = "menu"   => Head(toDev) \in Commands
    BY DEF RightReader
  <2>1. toDev \in Seq(Wire) /\ Head(toDev) = toDev[1] /\ 1 \in 1..Len(toDev)
    BY TailOf DEF IInv, Typed
  <2>2. CASE xpc \in {"idle", "returned"}
    <3>1. dmode # "xmodem" /\ toDev[1] \in {Newline, EblInfo, UploadFw, RunFw}
      BY <2>1, <2>2 DEF IInv, BeforeTransfer, AfterTransfer
    <3> QED BY <2>1, <3>1 DEF Commands
  <2>3. CASE xpc \in {"awaitReply", "raised"}
    <3>1. dmode = "xmodem" /\ toDev[1] \in {xmodem!Outgoing(index), xmodem!Damaged}
      BY <2>1, <2>3 DEF IInv, OnTheLine
    <3> QED BY <2>1, <3>1, CommandsDiffer
  <2>4. xpc # "readC"
    BY DEF IInv, ReadyPhase
  <2> QED BY <2>2, <2>3, <2>4 DEF IInv, Typed
<1> QED BY <1>1, Invariance, PTL
==============================================================================
