--------------------------- MODULE GeckoCleanProofs ---------------------------
(***************************************************************************)
(* An upload during which nothing goes wrong outside succeeds: no menu, "C" *)
(* or status is missed, for every image length, number of offers of "C"     *)
(* and number of probes from two, in whatever chunks the device is heard.   *)
(***************************************************************************)
EXTENDS GeckoBootloaderProofs

(***************************************************************************)
(* What is true of every state in which nothing has gone wrong so far.      *)
(***************************************************************************)
Unspoilt ==
  /\ xpc # "raised"
  /\ outcome \in {"running", "ok"} /\ (outcome = "running" <=> pc # "end")
  /\ pc \notin {"selecting2", "menuinfo2"}
  /\ pc = "status" => sm \in {"WAITING_UPLOAD_DONE", "UPLOAD_DONE"}
  /\ ~Contains(toDev, xmodem!Damaged)
  /\ \A t : Contains(toHost, t) => t \in Printed \cup {"C", "ACK"}

\* One probe at most is made before the bootloader has started, and no menu is
\* printed before.
Starting ==
  /\ pc = "settle" => probes = 0
  /\ pc \in {"probing", "backoff"} => probes >= 1
  /\ dmode = "starting" =>
       /\ ~Contains(toHost, "MENU") /\ ~Contains(buf, "MENU") /\ sm # "IN_MENU"
       /\ pc = "settle" \/ (pc = "probing" /\ probes = 1)

\* A menu is here, printed or asked for.
MenuComing ==
  \/ sm = "IN_MENU"
  \/ Contains(toHost, "MENU")
  \/ dmode = "menu" /\ (Contains(toDev, Newline) \/ Contains(toDev, EblInfo))

Asked ==
  pc \in {"selecting", "menuinfo"} \/ (pc = "probing" /\ probes > 1) => MenuComing

\* "1" is on its way until the receiver has been started by it.
Selected == pc = "ready" /\ dmode = "menu" => Contains(toDev, UploadFw)

\* The packet is on its way, or its acknowledgement.
Acknowledging == xpc = "awaitReply" => toDev # << >> \/ Contains(toHost, "ACK")

\* The status is on its way from its printing to its reading.
StatusComing ==
  xpc \in {"awaitReply", "returned"} /\ sm = "WAITING_UPLOAD_DONE" /\ dmode # "xmodem"
    => Contains(toHost, "COMPLETE")

\* The application is started by "2", which is sent after the status has been
\* read and is not lost.
AppRunsLast ==
  /\ xpc = "returned" /\ pc \in {"xmodem", "status", "menu", "menuinfo"} =>
       dmode # "app" /\ ~Contains(toDev, RunFw)
  /\ pc \in {"run", "recheck", "rerun"} /\ image = "bootable" =>
       dmode = "app" \/ (dmode = "menu" /\ Contains(toDev, RunFw))
  /\ outcome = "ok" /\ image = "bootable" => dmode = "app"

Clean ==
  /\ Unspoilt /\ Starting /\ Asked /\ Selected
  /\ Acknowledging /\ StatusComing /\ AppRunsLast

\* A late "C" ends the transfer, and the call.
Raised == failure = "invalid" => xpc = "raised"

CInv == IInv /\ Raised /\ (NothingWrong => Clean)

-----------------------------------------------------------------------------
(***************************************************************************)
(* What sequences contain.                                                 *)
(***************************************************************************)
LEMMA Joined ==
  ASSUME NEW S, NEW s \in Seq(S), NEW u \in Seq(S)
  PROVE  \A t : Contains(s \o u, t) <=> Contains(s, t) \/ Contains(u, t)
<1>1. /\ Len(s \o u) = Len(s) + Len(u) /\ Len(s) \in Nat /\ Len(u) \in Nat
      /\ \A i \in 1..Len(s) : (s \o u)[i] = s[i]
      /\ \A i \in 1..Len(u) : (s \o u)[i + Len(s)] = u[i]
  OBVIOUS
<1>2. \A i \in 1..(Len(s) + Len(u)) :
        i \in 1..Len(s) \/ (i - Len(s) \in 1..Len(u) /\ i = (i - Len(s)) + Len(s))
  BY <1>1
<1>3. \A i \in 1..Len(s) : i \in 1..(Len(s) + Len(u))
  BY <1>1
<1>4. \A i \in 1..Len(u) : i + Len(s) \in 1..(Len(s) + Len(u))
  BY <1>1
<1>5. TAKE t
<1>6. ASSUME Contains(s \o u, t) PROVE Contains(s, t) \/ Contains(u, t)
  <2>1. PICK i \in 1..(Len(s) + Len(u)) : (s \o u)[i] = t
    BY <1>1, <1>6 DEF Contains
  <2> QED BY <1>1, <1>2, <2>1 DEF Contains
<1>7. Contains(s, t) => Contains(s \o u, t)
  BY <1>1, <1>3 DEF Contains
<1>8. Contains(u, t) => Contains(s \o u, t)
  BY <1>1, <1>4 DEF Contains
<1> QED BY <1>6, <1>7, <1>8

LEMMA Listed ==
  ASSUME NEW a, NEW b
  PROVE  /\ \A t : ~Contains(<< >>, t)
         /\ \A t : Contains(<<a>>, t) <=> t = a
         /\ \A t : Contains(<<a, b>>, t) <=> t \in {a, b}
BY DEF Contains

LEMMA Appended ==
  ASSUME NEW S, NEW s \in Seq(S), NEW e \in S
  PROVE  /\ \A t : Contains(Append(s, e), t) <=> Contains(s, t) \/ t = e
         /\ Append(s, e) # << >>
<1>1. /\ Len(Append(s, e)) = Len(s) + 1 /\ Len(s) \in Nat
      /\ \A i \in 1..Len(s) : Append(s, e)[i] = s[i]
      /\ Append(s, e)[Len(s) + 1] = e
  OBVIOUS
<1>2. \A i \in 1..Len(Append(s, e)) : i \in 1..Len(s) \/ i = Len(s) + 1
  BY <1>1
<1>3. Len(s) + 1 \in 1..Len(Append(s, e)) /\ \A i \in 1..Len(s) : i \in 1..Len(Append(s, e))
  BY <1>1
<1>4. Append(s, e) # << >>
  BY <1>1
<1> QED BY <1>1, <1>2, <1>3, <1>4 DEF Contains

LEMMA Taken ==
  ASSUME NEW S, NEW s \in Seq(S), s # << >>
  PROVE  \A t : Contains(s, t) <=> t = Head(s) \/ Contains(Tail(s), t)
<1>1. /\ Len(s) \in Nat \ {0} /\ Len(Tail(s)) = Len(s) - 1 /\ Head(s) = s[1]
      /\ \A i \in 1..(Len(s) - 1) : Tail(s)[i] = s[i + 1]
  BY EmptySeq
<1>2. /\ \A i \in 1..Len(s) : i = 1 \/ (i - 1 \in 1..(Len(s) - 1) /\ i = (i - 1) + 1)
      /\ \A i \in 1..(Len(s) - 1) : i + 1 \in 1..Len(s)
      /\ 1 \in 1..Len(s)
  BY <1>1
<1> QED BY <1>1, <1>2 DEF Contains

\* What is not in the chunk is in what is left.
LEMMA Cut ==
  ASSUME NEW S, NEW s \in Seq(S), NEW k \in 0..Len(s)
  PROVE  \A t : Contains(s, t) <=> \/ Contains(SubSeq(s, 1, k), t)
                                   \/ Contains(SubSeq(s, k + 1, Len(s)), t)
<1> DEFINE data == SubSeq(s, 1, k)
           rest == SubSeq(s, k + 1, Len(s))
<1>1. /\ Len(data) = k /\ \A i \in 1..k : data[i] = s[i]
      /\ Len(rest) = Len(s) - k
      /\ \A i \in 1..(Len(s) - k) : rest[i] = s[i + k]
  BY Chunk
<1>2. /\ \A i \in 1..Len(s) : i \in 1..k \/ (i - k \in 1..(Len(s) - k) /\ i = (i - k) + k)
      /\ \A i \in 1..k : i \in 1..Len(s)
      /\ \A i \in 1..(Len(s) - k) : i + k \in 1..Len(s)
  OBVIOUS
<1> HIDE DEF data, rest
<1>3. TAKE t
<1>4. ASSUME Contains(s, t) PROVE Contains(data, t) \/ Contains(rest, t)
  <2>1. PICK i \in 1..Len(s) : s[i] = t
    BY <1>4 DEF Contains
  <2>2. CASE i \in 1..k
    BY <1>1, <2>1, <2>2 DEF Contains
  <2>3. CASE i - k \in 1..(Len(s) - k)
    <3>1. rest[i - k] = s[i]
      BY <1>1, <1>2, <2>3
    <3> QED BY <1>1, <2>1, <2>3, <3>1 DEF Contains
  <2> QED BY <1>2, <2>2, <2>3
<1>5. Contains(data, t) \/ Contains(rest, t) => Contains(s, t)
  BY <1>1, <1>2 DEF Contains
<1> QED BY <1>4, <1>5 DEF data, rest

-----------------------------------------------------------------------------
(***************************************************************************)
(* The parser misses nothing.                                              *)
(***************************************************************************)
LEMMA Caught ==
  ASSUME NEW data \in Seq(Texts), PrintedFirst(data), buf \in Seq(Printed)
  PROVE  LET p == Parse(data) IN
         /\ sm = "WAITING_FOR_MENU" /\ Contains(data, "MENU") => p.sm = "IN_MENU"
         /\ sm = "WAITING_UPLOAD_DONE" /\ Contains(data, "COMPLETE") => p.sm = "UPLOAD_DONE"
         /\ p.sm = "IN_MENU" => \/ sm = "IN_MENU"
                                \/ Contains(buf, "MENU") \/ Contains(data, "MENU")
<1> DEFINE b == buf \o Kept(data)
           found == FirstStatus(b)
           Stay == [sm |-> sm, buf |-> b, status |-> uploadStatus]
<1>1. /\ Kept(data) \in Seq(Printed)
      /\ \A t : Contains(Kept(data), t) => Contains(data, t)
  BY KeptIsPrinted
<1>2. \A t \in Printed : Contains(data, t) => Contains(Kept(data), t)
  <2>1. PICK n \in 0..Len(data) : /\ Kept(data) = SubSeq(data, 1, n)
                                  /\ \A i \in 1..Len(data) : data[i] \in Printed => i <= n
    BY KeptUpToPrinted
  <2>2. Len(Kept(data)) = n /\ \A i \in 1..n : Kept(data)[i] = data[i]
    BY <2>1, Chunk
  <2>3. \A i \in 1..Len(data) : data[i] \in Printed => i \in 1..n
    BY <2>1
  <2> QED BY <2>2, <2>3 DEF Contains
<1>3. b \in Seq(Printed)
  BY <1>1
<1>4. \A t : Contains(b, t) <=> Contains(buf, t) \/ Contains(Kept(data), t)
  BY <1>1, Joined
<1>5. Contains(data, "MENU") => Contains(b, "MENU")
  BY <1>2, <1>4 DEF Printed
<1>6. Contains(b, "MENU") => Contains(buf, "MENU") \/ Contains(data, "MENU")
  BY <1>1, <1>4
<1>7. Contains(data, "COMPLETE") => found # 0
  <2>1. SUFFICES ASSUME Contains(data, "COMPLETE") PROVE found # 0
    OBVIOUS
  <2>2. Contains(b, "COMPLETE")
    BY <1>2, <1>4, <2>1 DEF Printed
  <2> HIDE DEF b
  <2>3. PICK i \in 1..Len(b) : b[i] \in Statuses
    BY <2>2 DEF Contains, Statuses
  <2> QED BY <1>3, <2>3, FirstStatusFound
<1>8. /\ sm = "WAITING_FOR_MENU" /\ Contains(b, "MENU") =>
           Parse(data) = [Stay EXCEPT !.sm = "IN_MENU", !.buf = << >>]
      /\ sm = "WAITING_UPLOAD_DONE" /\ found # 0 =>
           Parse(data).sm = "UPLOAD_DONE"
      /\ Parse(data).sm = "IN_MENU" =>
           sm = "IN_MENU" \/ Contains(b, "MENU")
  <2> HIDE DEF FirstStatus
  <2> QED BY DEF Parse
<1>9. sm = "WAITING_FOR_MENU" /\ Contains(b, "MENU") => Parse(data).sm = "IN_MENU"
  <2> HIDE DEF b
  <2> QED BY <1>8
<1> HIDE DEF b, found, Stay
<1> QED BY <1>5, <1>6, <1>7, <1>8, <1>9

\* What is heard in a chunk, and what is left on the line.
LEMMA Heard ==
  ASSUME IInv, xpc \in {"idle", "returned"}, NEW k \in 1..Len(toHost),
         NEW p, p = Parse(SubSeq(toHost, 1, k)),
         NEW rest, rest = SubSeq(toHost, k + 1, Len(toHost))
  PROVE  /\ \A t : Contains(rest, t) => Contains(toHost, t)
         /\ \A t : Contains(p.buf, t) => Contains(buf, t) \/ Contains(toHost, t)
         /\ sm = "WAITING_FOR_MENU" /\ Contains(toHost, "MENU") =>
              p.sm = "IN_MENU" \/ Contains(rest, "MENU")
         /\ sm = "WAITING_UPLOAD_DONE" /\ Contains(toHost, "COMPLETE") =>
              p.sm = "UPLOAD_DONE" \/ Contains(rest, "COMPLETE")
         /\ p.sm = "IN_MENU" =>
              sm = "IN_MENU" \/ Contains(buf, "MENU") \/ Contains(toHost, "MENU")
         /\ \/ p.sm = sm
            \/ sm = "WAITING_FOR_MENU" /\ p.sm = "IN_MENU"
            \/ sm = "WAITING_XMODEM_READY" /\ p.sm = "XMODEM_READY"
            \/ sm = "WAITING_UPLOAD_DONE" /\ p.sm = "UPLOAD_DONE"
<1> DEFINE data == SubSeq(toHost, 1, k)
<1>1. toHost \in Seq(Texts) /\ buf \in Seq(Printed)
  BY DEF IInv, Typed
<1>2. data \in Seq(Texts) /\ Len(data) = k /\ \A i \in 1..k : data[i] = toHost[i]
  BY <1>1, Chunk
<1>3. PrintedFirst(data)
  <2>1. CASE xpc = "idle"
    BY <1>1, <1>2, <2>1 DEF IInv, BeforeTransfer, PrintedFirst, Printed
  <2>2. CASE xpc = "returned"
    BY <1>1, <1>2, <2>2 DEF IInv, AfterTransfer, PrintedFirst, Printed
  <2> QED BY <2>1, <2>2
<1>4. \A t : Contains(toHost, t) <=> Contains(data, t) \/ Contains(rest, t)
  BY <1>1, Cut
<1>5. ParsedAs(p, toHost, toHost[k])
  BY Received
<1> HIDE DEF data
<1>6. /\ sm = "WAITING_FOR_MENU" /\ Contains(data, "MENU") => p.sm = "IN_MENU"
      /\ sm = "WAITING_UPLOAD_DONE" /\ Contains(data, "COMPLETE") => p.sm = "UPLOAD_DONE"
      /\ p.sm = "IN_MENU" => \/ sm = "IN_MENU"
                             \/ Contains(buf, "MENU") \/ Contains(data, "MENU")
  BY <1>1, <1>2, <1>3, Caught DEF data
<1> QED BY <1>4, <1>5, <1>6 DEF ParsedAs

-----------------------------------------------------------------------------
(***************************************************************************)
(* What an action keeps: one lemma per action or group of actions.         *)
(***************************************************************************)
\* Before an action and, as far as the device's good will is concerned, after it.
Smooth == IInv /\ NothingWrong /\ Clean

\* What is written to a port that is there comes after what is on the line.
Posted(cs) ==
  /\ \A t : Contains(toDev', t) <=> Contains(toDev, t) \/ t \in cs
  /\ UNCHANGED <<xpc, index, attempt, failure, toHost, faults, rmode, stored>>

LEMMA PostedOne ==
  ASSUME toDev \in Seq(Wire), connected, NEW d \in Commands, Write(<<d>>)
  PROVE  Posted({d})
<1>1. toDev' = toDev \o <<d>> /\ <<d>> \in Seq(Wire)
  BY DEF Write, Wire
<1>2. \A t : Contains(toDev', t) <=> Contains(toDev, t) \/ Contains(<<d>>, t)
  BY <1>1, Joined
<1> QED BY <1>2, Listed DEF Posted, Write

LEMMA PostedTwo ==
  ASSUME toDev \in Seq(Wire), connected, NEW c \in Commands, NEW d \in Commands,
         Write(<<c, d>>)
  PROVE  Posted({c, d})
<1>1. toDev' = toDev \o <<c, d>> /\ <<c, d>> \in Seq(Wire)
  BY DEF Write, Wire
<1>2. \A t : Contains(toDev', t) <=> Contains(toDev, t) \/ Contains(<<c, d>>, t)
  BY <1>1, Joined
<1> QED BY <1>2, Listed DEF Posted, Write

LEMMA InitClean == Init => Clean
<1> SUFFICES ASSUME Init PROVE Clean
  OBVIOUS
<1>1. \A t : ~Contains(<< >>, t)
  BY Listed
<1>2. Unspoilt /\ Starting
  BY <1>1 DEF Init, xmodem!Init, Unspoilt, Starting
<1>3. Asked /\ Selected /\ Acknowledging /\ StatusComing /\ AppRunsLast
  BY DEF Init, xmodem!Init, Asked, Selected, Acknowledging, StatusComing, AppRunsLast
<1> QED BY <1>2, <1>3 DEF Clean

\* A chunk is received: a menu or a status that was coming is here now, or is
\* in what is left.
LEMMA DeliverClean ==
  ASSUME Smooth, Deliver
  PROVE  Clean'
<1>1. PICK k \in 1..Len(toHost) :
        /\ toHost' = SubSeq(toHost, k + 1, Len(toHost))
        /\ sm' = Parse(SubSeq(toHost, 1, k)).sm
        /\ buf' = Parse(SubSeq(toHost, 1, k)).buf
  BY DEF Deliver
<1>2. /\ pc \notin {"xmodem", "end"}
      /\ UNCHANGED <<xpc, toDev, rmode, pc, probes, outcome, dmode, image>>
  BY DEF Deliver, hostVars, deviceVars
<1>3. xpc \in {"idle", "returned"}
  BY <1>2, Phases DEF Smooth
<1>4. /\ \A t : Contains(toHost', t) => Contains(toHost, t)
      /\ \A t : Contains(buf', t) => Contains(buf, t) \/ Contains(toHost, t)
      /\ sm = "WAITING_FOR_MENU" /\ Contains(toHost, "MENU") =>
           sm' = "IN_MENU" \/ Contains(toHost', "MENU")
      /\ sm = "WAITING_UPLOAD_DONE" /\ Contains(toHost, "COMPLETE") =>
           sm' = "UPLOAD_DONE" \/ Contains(toHost', "COMPLETE")
      /\ sm' = "IN_MENU" => sm = "IN_MENU" \/ Contains(buf, "MENU") \/ Contains(toHost, "MENU")
      /\ \/ sm' = sm
         \/ sm = "WAITING_FOR_MENU" /\ sm' = "IN_MENU"
         \/ sm = "WAITING_XMODEM_READY" /\ sm' = "XMODEM_READY"
         \/ sm = "WAITING_UPLOAD_DONE" /\ sm' = "UPLOAD_DONE"
  BY <1>1, <1>3, Heard DEF Smooth
<1>5. pc \in {"probing", "selecting", "menuinfo"} => sm \in {"WAITING_FOR_MENU", "IN_MENU"}
  BY <1>3 DEF Smooth, IInv, BeforeTransfer, AfterTransfer
<1>6. Unspoilt' /\ Starting'
  BY <1>2, <1>4 DEF Smooth, Clean, Unspoilt, Starting
<1>7. Asked' /\ Selected'
  BY <1>2, <1>4, <1>5 DEF Smooth, Clean, Asked, MenuComing, Selected
<1>8. Acknowledging' /\ StatusComing' /\ AppRunsLast'
  BY <1>2, <1>3, <1>4 DEF Smooth, Clean, Acknowledging, StatusComing, AppRunsLast
<1> QED BY <1>6, <1>7, <1>8 DEF Clean

\* No timer runs out while something awaited is still coming.
LEMMA Quiet ==
  ASSUME Smooth, Expired
  PROVE  /\ toDev = << >> /\ toHost = << >> /\ dmode # "starting"
         /\ \A t : ~Contains(toDev, t) /\ ~Contains(toHost, t)
         /\ dmode = "xmodem" => rmode = "receiving"
         /\ sm # Awaited(pc)
<1>1. \A t : ~Contains(<< >>, t)
  BY Listed
<1> QED BY <1>1 DEF Smooth, NothingWrong, Expired, Answering

\* The actions of the coroutine that only wait or end.
LEMMA WaitClean ==
  ASSUME Smooth, IInv', NothingWrong', MaxProbes >= 2,
         \/ ProbeTimeout \/ LongTimeout \/ TransferRaised \/ StatusRead
         \/ Launched \/ MenuReappeared \/ RanAgain
  PROVE  Clean'
<1>1. UNCHANGED <<xpc, rmode, toDev, toHost, buf, probes, dmode, image>>
  BY DEF ProbeTimeout, LongTimeout, TransferRaised, StatusRead, Launched, MenuReappeared,
         RanAgain, Await, End, transferVars, parserVars, deviceVars
<1>2. CASE ProbeTimeout
  <2>1. pc = "probing" /\ Expired
    BY <1>2 DEF ProbeTimeout
  <2>2. ~(probes > 1) /\ dmode # "starting" /\ probes \in Nat /\ ~(probes >= MaxProbes)
    <3>1. probes \in Nat /\ MaxProbes \in Nat
      BY GeckoAssumption DEF Smooth, IInv, Typed
    <3>2. sm # "IN_MENU" /\ ~MenuComing /\ dmode # "starting"
      BY <2>1, Quiet DEF MenuComing, Awaited, AwaitMenu
    <3>3. ~(probes > 1)
      BY <2>1, <3>2 DEF Smooth, Clean, Asked
    <3> QED BY <3>1, <3>2, <3>3
  <2>3. pc' = "backoff" /\ UNCHANGED <<sm, outcome>>
    BY <1>2, <2>2 DEF ProbeTimeout, Await
  <2>4. probes >= 1
    BY <2>1 DEF Smooth, Clean, Starting
  <2> QED BY <1>1, <2>1, <2>2, <2>3, <2>4
          DEF Smooth, Clean, Unspoilt, Starting, Asked, MenuComing, Selected,
              Acknowledging, StatusComing, AppRunsLast
<1>3. CASE LongTimeout
  <2>1. pc \in {"ready", "status"} /\ Expired
    BY <1>3 DEF LongTimeout, Smooth, Clean, Unspoilt
  <2>2. pc = "ready" => dmode = "menu"
    BY <2>1, Phases, Quiet DEF Smooth, IInv, BeforeTransfer, AfterTransfer
  <2>3. pc = "status" => sm = "WAITING_UPLOAD_DONE" /\ xpc = "returned" /\ dmode # "xmodem"
    BY <2>1, Phases, Quiet DEF Smooth, IInv, BeforeTransfer, AfterTransfer, Awaited, AwaitMenu,
       Clean, Unspoilt
  <2> QED BY <2>1, <2>2, <2>3, Quiet DEF Smooth, Clean, Selected, StatusComing
<1>4. CASE TransferRaised
  BY <1>4 DEF TransferRaised, Smooth, Clean, Unspoilt
<1>5. CASE StatusRead
  <2>1. /\ pc = "status" /\ pc' = "menu" /\ sm' = "WAITING_FOR_MENU" /\ UNCHANGED outcome
    BY <1>5 DEF StatusRead, Woken, Await
  <2> QED BY <1>1, <2>1 DEF Smooth, Clean, Unspoilt, Starting, Asked, MenuComing, Selected,
              Acknowledging, StatusComing, AppRunsLast
<1>6. CASE Launched \/ RanAgain
  <2>1. pc \in {"run", "rerun"} /\ Expired /\ pc' = "end" /\ outcome' = "ok"
    BY <1>6 DEF Launched, RanAgain, End
  <2>2. image = "bootable" => dmode = "app"
    BY <2>1, Quiet DEF Smooth, Clean, AppRunsLast
  <2>3. sm' = sm
    BY <1>6 DEF Launched, RanAgain, parserVars
  <2> QED BY <1>1, <2>1, <2>2, <2>3, Quiet
          DEF Smooth, Clean, Unspoilt, Starting, Asked, MenuComing, Selected,
              Acknowledging, StatusComing, AppRunsLast
<1>7. CASE MenuReappeared
  <2>1. pc = "run" /\ pc' = "recheck" /\ UNCHANGED <<sm, outcome>>
    BY <1>7 DEF MenuReappeared, Woken, Await
  <2> QED BY <1>1, <2>1 DEF Smooth, Clean, Unspoilt, Starting, Asked, MenuComing, Selected,
              Acknowledging, StatusComing, AppRunsLast
<1> QED BY <1>2, <1>3, <1>4, <1>5, <1>6, <1>7

\* The actions of the coroutine that write: the device can hear what is written,
\* except for the first probe.
LEMMA WriteClean ==
  ASSUME Smooth, IInv', NothingWrong',
         Probe \/ Probed \/ InfoAnyway \/ SelectUpload \/ AskForMenu \/ Verdict \/ RunAgain
  PROVE  Clean'
<1>1. /\ UNCHANGED <<xpc, rmode, toHost, dmode, image>> /\ connected /\ toDev \in Seq(Wire)
      /\ probes \in Nat /\ Newline \in Commands /\ EblInfo \in Commands
      /\ UploadFw \in Commands /\ RunFw \in Commands
  BY DEF Smooth, NothingWrong, IInv, Typed, Probe, Probed, InfoAnyway, SelectUpload, AskForMenu,
         Verdict, RunAgain, Await, End, Write, deviceVars, Commands
<1>2. pc \notin {"xmodem", "end"}
  BY DEF Probe, Probed, InfoAnyway, SelectUpload, AskForMenu, Verdict, RunAgain, Woken
<1>3. /\ xpc \in {"idle", "returned"}
      /\ xpc = "idle" <=> pc \in {"settle", "backoff", "probing", "selecting", "selecting2", "ready"}
  BY <1>2, Phases DEF Smooth, IInv, BeforeTransfer, AfterTransfer
<1> USE DEF Unspoilt, Starting, Asked, MenuComing, Selected, Acknowledging, StatusComing,
            AppRunsLast
<1>4. CASE Probe
  <2>1. /\ pc \in {"settle", "backoff"} /\ pc' = "probing" /\ sm' = "WAITING_FOR_MENU"
        /\ probes' = probes + 1 /\ UNCHANGED <<buf, outcome>> /\ Posted({Newline})
    BY <1>1, <1>4, PostedOne DEF Probe, Await
  <2>2. pc = "backoff" => dmode = "menu"
    BY <1>3, <2>1 DEF Smooth, IInv, BeforeTransfer, Clean
  <2> QED BY <1>1, <1>3, <2>1, <2>2, CommandsDiffer DEF Smooth, Clean, Posted
<1>5. CASE Probed
  <2>1. /\ pc = "probing" /\ sm = "IN_MENU" /\ pc' = "selecting" /\ sm' = "WAITING_FOR_MENU"
        /\ UNCHANGED <<probes, buf, outcome>> /\ Posted({EblInfo, Newline})
    BY <1>1, <1>5, PostedTwo DEF Probed, Await, Woken, Awaited, AwaitMenu
  <2>2. dmode = "menu"
    BY <1>3, <2>1 DEF Smooth, IInv, BeforeTransfer, Clean
  <2> QED BY <1>1, <1>3, <2>1, <2>2, CommandsDiffer DEF Smooth, Clean, Posted
<1>6. CASE InfoAnyway
  BY <1>6, Quiet DEF Smooth, Clean, InfoAnyway
<1>7. CASE SelectUpload
  <2>1. /\ pc = "selecting" /\ sm = "IN_MENU" /\ pc' = "ready" /\ sm' = "WAITING_XMODEM_READY"
        /\ UNCHANGED <<probes, buf, outcome>> /\ Posted({EblInfo, UploadFw})
    BY <1>1, <1>7, PostedTwo DEF SelectUpload, Await, Woken, Awaited, AwaitMenu, Smooth, Clean
  <2>2. dmode = "menu"
    BY <1>3, <2>1 DEF Smooth, IInv, BeforeTransfer, Clean
  <2> QED BY <1>1, <1>3, <2>1, <2>2, CommandsDiffer DEF Smooth, Clean, Posted
<1>8. CASE AskForMenu
  <2>1. /\ pc = "menu" /\ pc' = "menuinfo" /\ sm' = "WAITING_FOR_MENU" /\ Expired
        /\ UNCHANGED <<probes, buf, outcome>> /\ Posted({Newline})
    BY <1>1, <1>8, PostedOne DEF AskForMenu, Await
  <2>2. dmode = "menu"
    BY <1>3, <2>1, Quiet DEF Smooth, IInv, AfterTransfer, Clean
  <2> QED BY <1>1, <1>3, <2>1, <2>2, CommandsDiffer DEF Smooth, Clean, Posted
<1>9. CASE Verdict
  <2>1. /\ pc \in {"menu", "menuinfo"} /\ sm = "IN_MENU" /\ UNCHANGED probes
    BY <1>9 DEF Verdict, Await, End, Woken, Awaited, AwaitMenu, Smooth, Clean
  <2>2. uploadStatus = "complete" /\ dmode = "menu"
    BY <1>3, <2>1 DEF Smooth, IInv, Typed, StatusTrue, AfterTransfer, NothingWrong, Clean
  <2>3. /\ pc' = "run" /\ sm' = "WAITING_FOR_MENU" /\ UNCHANGED outcome
        /\ Write((IF pc = "menuinfo" THEN <<EblInfo>> ELSE << >>) \o <<RunFw>>)
    BY <1>9, <2>2 DEF Verdict, Await
  <2>4. \E cs \in {{RunFw}, {EblInfo, RunFw}} : Posted(cs)
    <3>1. CASE pc = "menuinfo"
      BY <1>1, <2>3, <3>1, PostedTwo, PairOf
    <3>2. CASE pc = "menu"
      BY <1>1, <2>3, <3>2, PostedOne
    <3> QED BY <2>1, <3>1, <3>2
  <2> QED BY <1>1, <1>3, <2>1, <2>2, <2>3, <2>4, CommandsDiffer DEF Smooth, Clean, Posted
<1>10. CASE RunAgain
  <2>1. /\ pc = "recheck" /\ pc' = "rerun" /\ sm' = sm
        /\ UNCHANGED <<probes, outcome>> /\ Posted({RunFw})
    BY <1>1, <1>10, PostedOne DEF RunAgain, Await
  <2>2. dmode # "starting"
    BY <1>3, <2>1 DEF Smooth, IInv, AfterTransfer
  <2> QED BY <1>1, <1>3, <2>1, <2>2, CommandsDiffer DEF Smooth, Clean, Posted
<1> QED BY <1>4, <1>5, <1>6, <1>7, <1>8, <1>9, <1>10

\* The transfer begins with a "C", which may have been the last.
LEMMA StartClean ==
  ASSUME Smooth, StartTransfer
  PROVE  Clean'
<1>1. /\ pc = "ready" /\ pc' = "xmodem" /\ xpc' = "readC" /\ sm' = "WAITING_UPLOAD_DONE"
      /\ UNCHANGED <<toDev, toHost, rmode, probes, buf, outcome, dmode, image>>
  BY DEF StartTransfer, Woken, Await, xmodem!Start, xmodem!receiverVars, deviceVars
<1> QED BY <1>1 DEF Smooth, Clean, Unspoilt, Starting, Asked, MenuComing, Selected,
                    Acknowledging, StatusComing, AppRunsLast

\* Each packet is acknowledged; none is lost, damaged or refused.
LEMMA TransferClean ==
  ASSUME Smooth, IInv', NothingWrong', TransferStep
  PROVE  Clean'
<1>1. /\ UNCHANGED <<rmode, pc, probes, outcome, sm, buf, dmode, image>> /\ pc = "xmodem"
      /\ toDev \in Seq(Wire) /\ toHost \in Seq(Texts) /\ index \in 0..NumBlocks
      /\ xpc \in {"readC", "awaitReply"} /\ sm = "WAITING_UPLOAD_DONE"
      /\ dmode # "starting" /\ dmode # "app"
  BY GeckoAssumption DEF Smooth, IInv, Typed, Transferring, OnTheLine, ReadyPhase, TransferStep, ownVars, hostVars,
         parserVars, deviceVars, xmodem!ReadC, xmodem!ReplyAck, xmodem!ReplyNak,
         xmodem!ReplyCan, xmodem!ReplyInvalid, xmodem!ReplyTimeout, xmodem!Answered,
         xmodem!receiverVars
<1> USE DEF Unspoilt, Starting, Asked, MenuComing, Selected, Acknowledging, StatusComing,
            AppRunsLast
<1>2. ASSUME NEW i \in 0..NumBlocks, NEW n, xmodem!Transmit(i, n)
      PROVE  /\ xpc' = "awaitReply" /\ toDev' # << >>
             /\ ~Contains(toDev', xmodem!Damaged) /\ ~Contains(toDev', RunFw)
  <2>1. toDev' = Append(toDev, xmodem!Outgoing(i)) /\ xmodem!Outgoing(i) \in Wire
    BY <1>2 DEF xmodem!Transmit, Wire
  <2>2. ~Contains(toDev, RunFw)
    BY <1>1, CommandsDiffer DEF Smooth, IInv, ReadyPhase, OnTheLine, Contains, Commands
  <2> QED BY <1>1, <1>2, <2>1, <2>2, Appended, CommandsDiffer
          DEF Smooth, Clean, xmodem!Transmit, Commands
<1>3. CASE xmodem!ReadC
  <2>1. PICK k \in 1..Len(toHost) : toHost' = SubSeq(toHost, k + 1, Len(toHost))
    BY <1>3 DEF xmodem!ReadC
  <2>2. \A t : Contains(toHost', t) => Contains(toHost, t)
    BY <1>1, <2>1, Cut
  <2>3. xpc = "readC" /\ xmodem!Transmit(0, 0) /\ 0 \in 0..NumBlocks
    BY <1>3, GeckoAssumption DEF xmodem!ReadC
  <2>4. dmode = "xmodem"
    BY <2>3 DEF Smooth, IInv, ReadyPhase
  <2> QED BY <1>1, <1>2, <2>2, <2>3, <2>4 DEF Smooth, Clean
<1>4. ASSUME NEW answer, xmodem!Answered(answer)
      PROVE  /\ xpc = "awaitReply" /\ Contains(toHost, answer)
             /\ \A t : Contains(toHost', t) => Contains(toHost, t)
             /\ \A t : Contains(toHost, t) => t = answer \/ Contains(toHost', t)
  BY <1>1, <1>4, Taken DEF xmodem!Answered
<1>5. CASE xmodem!ReplyAck
  <2>1. /\ xmodem!Answered("ACK")
        /\ \/ index < NumBlocks /\ xmodem!Transmit(index + 1, 0)
           \/ xpc' = "returned" /\ UNCHANGED toDev
    BY <1>5 DEF xmodem!ReplyAck
  <2>2. xpc = "awaitReply" /\ Contains(toHost, "ACK")
        /\ \A t : Contains(toHost', t) => Contains(toHost, t)
    BY <1>4, <2>1
  <2>3. Contains(toHost, "COMPLETE") => Contains(toHost', "COMPLETE")
    BY <1>4, <2>1
  <2>4. CASE index < NumBlocks /\ xmodem!Transmit(index + 1, 0)
    <3>1. index + 1 \in 0..NumBlocks
      BY <1>1, <2>4, GeckoAssumption
    <3> QED BY <1>1, <1>2, <2>2, <2>3, <2>4, <3>1 DEF Smooth, Clean
  <2>5. CASE xpc' = "returned" /\ UNCHANGED toDev
    <3>1. ~Contains(toDev', RunFw)
      BY <2>2, <2>5, CommandsDiffer DEF Smooth, IInv, OnTheLine, Contains, Commands
    <3> QED BY <1>1, <2>2, <2>3, <2>5, <3>1 DEF Smooth, Clean
  <2> QED BY <2>1, <2>4, <2>5
<1>6. ~xmodem!ReplyNak /\ ~xmodem!ReplyCan
  BY <1>4 DEF xmodem!ReplyNak, xmodem!ReplyCan, Smooth, Clean, Printed
<1>7. ~xmodem!ReplyInvalid
  BY DEF NothingWrong, xmodem!ReplyInvalid, xmodem!Raise
<1>8. ~(Expired /\ xmodem!ReplyTimeout)
  BY Quiet DEF xmodem!ReplyTimeout, Smooth, Clean
<1> QED BY <1>3, <1>5, <1>6, <1>7, <1>8 DEF TransferStep

\* The transfer has returned: the status is coming, or is here.
LEMMA ReturnedClean ==
  ASSUME Smooth, TransferReturned
  PROVE  Clean'
<1>1. /\ pc = "xmodem" /\ xpc = "returned" /\ toHost \in Seq(Texts) /\ Len(toHost) \in Nat
      /\ UNCHANGED <<xpc, toDev, rmode, probes, outcome, dmode, image>>
  BY DEF Smooth, IInv, Typed, TransferReturned, Await, deviceVars
<1>2. PICK k \in 0..Len(toHost) :
        LET parsed == IF k = 0
                      THEN [sm |-> sm, buf |-> buf, status |-> uploadStatus]
                      ELSE Parse(SubSeq(toHost, 1, k))
        IN /\ toHost' = SubSeq(toHost, k + 1, Len(toHost))
           /\ buf' = parsed.buf
           /\ IF parsed.sm = "UPLOAD_DONE"
              THEN pc' = "menu" /\ sm' = "WAITING_FOR_MENU"
              ELSE pc' = "status" /\ sm' = parsed.sm
  BY DEF TransferReturned, Await
<1>3. sm = "WAITING_UPLOAD_DONE" /\ dmode # "starting"
  BY <1>1 DEF Smooth, IInv, AfterTransfer
<1>4. /\ \A t : Contains(toHost', t) => Contains(toHost, t)
      /\ \/ pc' = "menu" /\ sm' = "WAITING_FOR_MENU"
         \/ /\ pc' = "status" /\ sm' = "WAITING_UPLOAD_DONE"
            /\ Contains(toHost, "COMPLETE") => Contains(toHost', "COMPLETE")
  <2>1. CASE k = 0
    <3>1. toHost' = toHost
      BY <1>1, <1>2, <2>1
    <3> QED BY <1>2, <1>3, <2>1, <3>1
  <2>2. CASE k # 0
    <3>1. k \in 1..Len(toHost)
      BY <1>1, <2>2
    <3> DEFINE p == Parse(SubSeq(toHost, 1, k))
    <3>2. /\ \A t : Contains(toHost', t) => Contains(toHost, t)
          /\ Contains(toHost, "COMPLETE") => p.sm = "UPLOAD_DONE" \/ Contains(toHost', "COMPLETE")
          /\ p.sm = sm \/ p.sm = "UPLOAD_DONE"
      BY <1>1, <1>2, <1>3, <3>1, Heard DEF Smooth
    <3>3. IF p.sm = "UPLOAD_DONE" THEN pc' = "menu" /\ sm' = "WAITING_FOR_MENU"
                                  ELSE pc' = "status" /\ sm' = p.sm
      BY <1>2, <2>2
    <3> HIDE DEF p
    <3> QED BY <1>3, <3>2, <3>3
  <2> QED BY <2>1, <2>2
<1> QED BY <1>1, <1>3, <1>4 DEF Smooth, Clean, Unspoilt, Starting, Asked, MenuComing, Selected,
                                Acknowledging, StatusComing, AppRunsLast

\* What the device prints is added to what is on its way.
LEMMA Printing ==
  ASSUME Smooth, NEW text \in Texts, toHost' = Append(toHost, text)
  PROVE  \A t : Contains(toHost', t) <=> Contains(toHost, t) \/ t = text
<1>1. toHost \in Seq(Texts)
  BY DEF Smooth, IInv, Typed
<1> QED BY <1>1, Appended

LEMMA DevBootClean ==
  ASSUME Smooth, DevBoot
  PROVE  Clean'
<1>1. /\ dmode = "starting" /\ dmode' = "menu"
      /\ toHost' \in {toHost, Append(toHost, "MENU")}
      /\ UNCHANGED <<xpc, toDev, rmode, pc, probes, outcome, sm, buf, image>>
  BY DEF DevBoot, hostVars, parserVars
<1>2. \A t : /\ Contains(toHost, t) => Contains(toHost', t)
             /\ Contains(toHost', t) => Contains(toHost, t) \/ t = "MENU"
  BY <1>1, Printing DEF Texts, Printed
<1>3. xpc = "idle"
  BY <1>1 DEF Smooth, IInv, Typed, ReadyPhase, OnTheLine, AfterTransfer, Clean, Unspoilt
<1> QED BY <1>1, <1>2, <1>3 DEF Smooth, Clean, Unspoilt, Starting, Asked, MenuComing, Selected,
                                Acknowledging, StatusComing, AppRunsLast, Printed

LEMMA DevDeafClean ==
  ASSUME Smooth, DevDeaf
  PROVE  Clean'
<1>1. /\ dmode \in {"starting", "app"} /\ toDev # << >> /\ toDev' = Tail(toDev)
      /\ UNCHANGED <<xpc, toHost, rmode, pc, probes, outcome, sm, buf, dmode, image>>
  BY DEF DevDeaf, ownVars, hostVars, parserVars, deviceVars
<1>2. \A t : Contains(toDev', t) => Contains(toDev, t)
  BY <1>1, Taken DEF Smooth, IInv, Typed
<1>3. xpc # "awaitReply"
  BY <1>1 DEF Smooth, IInv, OnTheLine
<1>4. pc = "ready" => dmode # "menu"
  BY <1>1
<1> QED BY <1>1, <1>2, <1>3, <1>4
        DEF Smooth, Clean, Unspoilt, Starting, Asked, MenuComing, Selected,
            Acknowledging, StatusComing, AppRunsLast

\* A command is obeyed: a menu that was asked for is printed, the receiver or the
\* application started that was selected.
LEMMA DevMenuClean ==
  ASSUME Smooth, DevMenu
  PROVE  Clean'
<1> DEFINE c == Head(toDev)
<1>1. /\ dmode = "menu" /\ toDev # << >> /\ toDev' = Tail(toDev)
      /\ dmode' = CASE c = UploadFw                    -> "xmodem"
                    [] c = RunFw /\ image = "bootable" -> "app"
                    [] OTHER                           -> "menu"
      /\ toHost' = IF c \in Commands /\ dmode' = "menu" THEN Append(toHost, "MENU")
                                                       ELSE toHost
      /\ UNCHANGED <<xpc, pc, probes, outcome, sm, buf, image>>
  BY DEF DevMenu, hostVars, parserVars
<1>2. /\ \A t : Contains(toDev, t) <=> t = c \/ Contains(toDev', t)
      /\ c = toDev[1] /\ 1 \in 1..Len(toDev)
  BY <1>1, Taken, TailOf DEF Smooth, IInv, Typed
<1>3. \A t : /\ Contains(toHost, t) => Contains(toHost', t)
             /\ Contains(toHost', t) => Contains(toHost, t) \/ t = "MENU"
  BY <1>1, Printing DEF Texts, Printed
<1>4. xpc \in {"idle", "returned"}
  BY <1>1 DEF Smooth, IInv, Typed, ReadyPhase, OnTheLine, Clean, Unspoilt
<1>5. /\ c \in {Newline, EblInfo, UploadFw, RunFw}
      /\ c = UploadFw => xpc = "idle" /\ pc \in {"ready", "end"}
      /\ c = RunFw => xpc = "returned"
  BY <1>2, <1>4, CommandsDiffer DEF Smooth, IInv, BeforeTransfer, AfterTransfer
<1> HIDE DEF c
<1>6. c \in {Newline, EblInfo} => dmode' = "menu" /\ Contains(toHost', "MENU")
  <2>1. SUFFICES ASSUME c \in {Newline, EblInfo} PROVE dmode' = "menu" /\ Contains(toHost', "MENU")
    OBVIOUS
  <2>2. dmode' = "menu" /\ c \in Commands
    BY <1>1, <2>1, CommandsDiffer DEF Commands
  <2> QED BY <1>1, <2>2, Printing DEF Texts, Printed
<1>7. c = UploadFw => dmode' = "xmodem"
  BY <1>1, CommandsDiffer
<1>8. c = RunFw => dmode' = IF image = "bootable" THEN "app" ELSE "menu"
  BY <1>1, CommandsDiffer
<1>9. Unspoilt' /\ Starting'
  BY <1>1, <1>2, <1>3, <1>5, <1>6, <1>7, <1>8 DEF Smooth, Clean, Unspoilt, Starting, Printed
<1>10. Asked' /\ Selected'
  BY <1>1, <1>2, <1>3, <1>4, <1>5, <1>6, <1>7, <1>8, CommandsDiffer
  DEF Smooth, Clean, Asked, MenuComing, Selected, AppRunsLast, IInv, BeforeTransfer, AfterTransfer
<1>11. Acknowledging' /\ StatusComing'
  BY <1>1, <1>3, <1>4 DEF Smooth, Clean, Acknowledging, StatusComing
<1>12. AppRunsLast'
  BY <1>1, <1>2, <1>4, <1>5, <1>6, <1>7, <1>8, CommandsDiffer
  DEF Smooth, Clean, AppRunsLast, Unspoilt, IInv, BeforeTransfer, AfterTransfer
<1> QED BY <1>9, <1>10, <1>11, <1>12 DEF Clean

\* A packet arrives as it was sent, and is acknowledged.
LEMMA DevXmodemClean ==
  ASSUME Smooth, IInv', NothingWrong', DevXmodem
  PROVE  Clean'
<1>1. /\ dmode = "xmodem"
      /\ UNCHANGED <<xpc, pc, probes, outcome, sm, buf, dmode, image>>
  BY DEF DevXmodem, ownVars, hostVars, parserVars, deviceVars, xmodem!OfferC, xmodem!Receive,
         xmodem!senderVars
<1>2. CASE xmodem!OfferC
  <2>1. toHost' = Append(toHost, "C") /\ UNCHANGED toDev
    BY <1>2 DEF xmodem!OfferC
  <2>2. \A t : Contains(toHost', t) <=> Contains(toHost, t) \/ t = "C"
    BY <2>1, Printing DEF Texts, xmodem!Answers
  <2> QED BY <1>1, <2>1, <2>2 DEF Smooth, Clean, Unspoilt, Starting, Asked, MenuComing, Selected,
                                  Acknowledging, StatusComing, AppRunsLast
<1>3. CASE xmodem!Receive
  <2>1. toDev # << >> /\ toDev' = Tail(toDev) /\ toDev \in Seq(Wire)
    BY <1>3 DEF xmodem!Receive, Smooth, IInv, Typed
  <2>2. /\ \A t : Contains(toDev, t) <=> t = Head(toDev) \/ Contains(toDev', t)
        /\ Head(toDev) = toDev[1] /\ 1 \in 1..Len(toDev)
    BY <2>1, Taken, TailOf
  <2>3. xpc = "awaitReply"
    BY <1>1, <2>1 DEF Smooth, IInv, Typed, BeforeTransfer, ReadyPhase, AfterTransfer, Clean, Unspoilt
  <2>4. Head(toDev) = xmodem!Outgoing(index) /\ rmode \in {"sendC", "receiving"}
    BY <2>1, <2>2, <2>3 DEF Smooth, IInv, Typed, OnTheLine, Clean, Unspoilt, Contains
  <2>5. rmode' # "cancelled"
    BY DEF NothingWrong, IInv, StatusTrue
  <2>6. toHost' = Append(toHost, "ACK")
    BY <1>3, <2>2, <2>4, <2>5 DEF xmodem!Receive, xmodem!Accept, xmodem!Drop, xmodem!Complete,
       xmodem!Refuse, xmodem!Cancel, xmodem!Outgoing, xmodem!Block, xmodem!EOT
  <2>7. \A t : Contains(toHost', t) <=> Contains(toHost, t) \/ t = "ACK"
    BY <2>6, Printing DEF Texts, xmodem!Answers
  <2> QED BY <1>1, <2>2, <2>3, <2>7 DEF Smooth, Clean, Unspoilt, Starting, Asked, MenuComing,
             Selected, Acknowledging, StatusComing, AppRunsLast
<1> QED BY <1>2, <1>3 DEF DevXmodem

\* The status is printed once the receiver is through.
LEMMA DevFinishClean ==
  ASSUME Smooth, DevFinish
  PROVE  Clean'
<1>1. /\ dmode = "xmodem" /\ dmode' = "menu" /\ rmode \in {"complete", "cancelled"}
      /\ UNCHANGED <<xpc, toDev, rmode, pc, probes, outcome, sm, buf, image>>
  BY DEF DevFinish, hostVars, parserVars
<1>2. rmode = "complete" /\ image # "refused"
  BY <1>1 DEF Smooth, NothingWrong, IInv, StatusTrue
<1>3. toHost' \in {Append(toHost, "COMPLETE"), toHost \o <<"COMPLETE", "MENU">>}
  BY <1>2 DEF DevFinish
<1>4. \A t : /\ Contains(toHost, t) => Contains(toHost', t)
             /\ Contains(toHost', t) => Contains(toHost, t) \/ t \in {"COMPLETE", "MENU"}
             /\ Contains(toHost', "COMPLETE")
  <2>1. CASE toHost' = Append(toHost, "COMPLETE")
    BY <2>1, Printing DEF Texts, Printed
  <2>2. CASE toHost' = toHost \o <<"COMPLETE", "MENU">>
    <3>1. toHost \in Seq(Texts) /\ <<"COMPLETE", "MENU">> \in Seq(Texts)
      BY DEF Smooth, IInv, Typed, Texts, Printed
    <3>2. \A t : Contains(toHost', t) <=> Contains(toHost, t)
                                          \/ Contains(<<"COMPLETE", "MENU">>, t)
      BY <2>2, <3>1, Joined
    <3> QED BY <3>2, Listed
  <2> QED BY <1>3, <2>1, <2>2
<1>5. xpc \in {"awaitReply", "returned"}
  BY <1>1, <1>2 DEF Smooth, IInv, Typed, BeforeTransfer, ReadyPhase, Clean, Unspoilt
<1>6. pc # "ready" /\ pc \notin {"probing", "selecting"}
  BY <1>5 DEF Smooth, IInv, OnTheLine, AfterTransfer
<1> QED BY <1>1, <1>4, <1>5, <1>6 DEF Smooth, Clean, Unspoilt, Starting, Asked, MenuComing,
           Selected, Acknowledging, StatusComing, AppRunsLast, Printed

-----------------------------------------------------------------------------
(***************************************************************************)
(* The theorem.                                                            *)
(***************************************************************************)
\* What has gone wrong stays wrong.
LEMMA WrongStays ==
  ASSUME Raised, Next
  PROVE  Raised' /\ (NothingWrong' => NothingWrong)
<1> USE DEF transferVars, hostVars, parserVars, deviceVars, ownVars, Raised
<1>1. /\ UNCHANGED <<calm, image>> /\ (connected' => connected)
      /\ \/ UNCHANGED <<xpc, failure>>
         \/ UNCHANGED failure /\ xpc # "raised"
         \/ xpc # "raised" /\ xpc' = "raised"
  <2>1. CASE Deliver \/ LineFault \/ Done
    BY <2>1 DEF Deliver, LineFault, Done, vars, xmodem!LosePacket, xmodem!LoseAnswer,
       xmodem!DamagePacket, xmodem!DamageAnswer, xmodem!Spoil, xmodem!senderVars,
       xmodem!receiverVars
  <2>2. CASE TransferStep
    BY <2>2 DEF TransferStep, xmodem!ReadC, xmodem!ReplyAck, xmodem!ReplyNak, xmodem!ReplyCan,
       xmodem!ReplyInvalid, xmodem!ReplyTimeout, xmodem!Answered, xmodem!Transmit,
       xmodem!Raise, xmodem!receiverVars
  <2>3. CASE Host /\ ~TransferStep
    BY <2>3 DEF Host, Probe, ProbeTimeout, Probed, InfoAnyway, SelectUpload, StartTransfer,
       TransferReturned, TransferRaised, StatusRead, AskForMenu, Verdict, Launched,
       MenuReappeared, RunAgain, RanAgain, LongTimeout, Await, End, Write, xmodem!Start,
       xmodem!receiverVars
  <2>4. CASE PortLost
    BY <2>4 DEF PortLost, xmodem!ConnectionLost, xmodem!Raise, xmodem!receiverVars
  <2>5. CASE Device
    BY <2>5 DEF Device, DevBoot, DevDeaf, DevMenu, DevXmodem, DevFinish, xmodem!OfferC,
       xmodem!Receive, xmodem!senderVars, xmodem!receiverVars
  <2> QED BY <2>1, <2>2, <2>3, <2>4, <2>5 DEF Next
<1> QED BY <1>1 DEF NothingWrong

LEMMA NextClean ==
  ASSUME MaxProbes >= 2, CInv, IInv', [Next]_vars
  PROVE  CInv'
<1>1. CASE UNCHANGED vars
  BY <1>1 DEF vars, transferVars, ownVars, hostVars, parserVars, deviceVars, CInv, Raised,
     NothingWrong, Clean, Unspoilt, Starting, Asked, MenuComing, Selected, Acknowledging,
     StatusComing, AppRunsLast
<1>2. CASE Next
  <2>1. Raised' /\ (NothingWrong' => NothingWrong)
    BY <1>2, WrongStays DEF CInv
  <2>2. SUFFICES ASSUME NothingWrong' PROVE Clean'
    BY <2>1 DEF CInv
  <2>3. Smooth
    BY <2>1, <2>2 DEF CInv, Smooth
  <2>4. CASE Deliver
    BY <2>3, <2>4, DeliverClean
  <2>5. CASE Host
    BY <2>2, <2>3, <2>5, WriteClean, WaitClean, StartClean, TransferClean, ReturnedClean DEF Host
  <2>6. CASE PortLost
    BY <2>2, <2>6 DEF PortLost, NothingWrong
  <2>7. CASE Device
    BY <2>2, <2>3, <2>7, DevBootClean, DevDeafClean, DevMenuClean, DevXmodemClean,
       DevFinishClean DEF Device
  <2>8. CASE LineFault
    BY <2>3, <2>8 DEF LineFault, Smooth, NothingWrong
  <2>9. CASE Done
    BY <1>1, <2>2, <2>9 DEF Done, CInv
  <2> QED BY <1>2, <2>4, <2>5, <2>6, <2>7, <2>8, <2>9 DEF Next
<1> QED BY <1>1, <1>2

\* If nothing goes wrong outside, the call succeeds, and an image that can boot
\* runs when it returns.  Two probes are needed: the first may come before the
\* bootloader listens.  flash_firmware makes three.
THEOREM CleanUploads ==
  ASSUME MaxProbes >= 2
  PROVE  Spec => []CleanUploadSucceeds
<1>1. Init /\ IInv => CInv
  BY InitClean DEF CInv, Raised, Init, xmodem!Init
<1>2. CInv /\ IInv' /\ [Next]_vars => CInv'
  BY NextClean
<1>3. CInv => CleanUploadSucceeds
  BY DEF CInv, CleanUploadSucceeds, Clean, Unspoilt, AppRunsLast
<1> QED BY <1>1, <1>2, <1>3, Invariance, PTL DEF Spec
===============================================================================
