------------------------------ MODULE CpcProofs ------------------------------
(***************************************************************************)
(* What Cpc guarantees for every number of retries, every modulus of the    *)
(* command numbers (256 among them) and every number of mishaps.            *)
(*                                                                         *)
(* The second connection uses the numbers of the first one again, and late  *)
(* answers cross from one to the other.  They do no harm because the line   *)
(* keeps its order: when an answer to a command is taken, everything that   *)
(* concerns the commands before it has gone by.                             *)
(***************************************************************************)
EXTENDS Cpc, Integers, SequenceTheorems, TLAPS

(***************************************************************************)
(* The inductive invariant.                                                *)
(***************************************************************************)

\* The commands in the order in which they are sent, and their numbers.
Rank(c) == IF c = "cpcVersion" THEN 1
           ELSE IF c = "appVersion" THEN 2
           ELSE IF c = "rebootMode" THEN 3
           ELSE IF c = "reset" THEN 4 ELSE 0

Number(c) == IF c \in {"cpcVersion", "rebootMode"} THEN 0 ELSE 1

Base  == IF task = "probe" THEN 0 ELSE 2
Now   == Base + step
Floor == IF future = None THEN Now - 1 ELSE Now

Known(f) == f.cmd \in Commands

\* Every frame bears the number of its command, which is one of lo..hi.
Between(q, lo, hi) ==
  \A i \in 1..Len(q) : Known(q[i]) => /\ q[i].seq = Number(q[i].cmd)
                                      /\ lo <= Rank(q[i].cmd)
                                      /\ Rank(q[i].cmd) <= hi

InOrder(q) ==
  \A i, j \in 1..Len(q) : i < j /\ Known(q[i]) /\ Known(q[j])
                            => Rank(q[i].cmd) <= Rank(q[j].cmd)

\* What is coming back was sent before what is still on its way out.
Before(q, r) ==
  \A i \in 1..Len(q), j \in 1..Len(r) :
    Known(q[i]) /\ Known(r[j]) => Rank(q[i].cmd) <= Rank(r[j].cmd)

Line(q, r, lo, hi) ==
  /\ Between(q, lo, hi) /\ Between(r, lo, hi)
  /\ InOrder(q) /\ InOrder(r)
  /\ Before(q, r)

Sending == pc \in {"await", "retryDelay"}

\* The numbers of the object go with the place in the script, and the future
\* holds the answer to the current command or nothing.
Counted ==
  /\ seq = step - 1
  /\ commandSeq = IF pc = "connected" THEN 0 ELSE step % CommandMod
  /\ pc = "connected" => step = 1
  /\ future # None => future = Script(task)[step]
  /\ pending = IF Sending /\ future = None THEN {seq} ELSE {}
  /\ pc \in {"connected", "await", "retryDelay"} => Len(results) = step - 1
  /\ pc \in {"closed", "delay05"} => step = 2 /\ future # None
  /\ pc = "closed" => task = "probe"
  /\ pc = "connected" => future = None
  /\ pc = "delay05" => task = "enter"
  /\ pc = "retryDelay" => attempt < Retries
  /\ outcome = "ok" => pc = "end" /\ task = "enter" /\ step = 2 /\ future # None

\* The device does what it was told, or refuses it, in the order in which it was
\* told.
Told ==
  /\ dmode = "restarted" => "rebootMode" \in refused
  /\ \/ task = "enter" /\ (step = 2 \/ future # None)
     \/ \E i \in 1..Len(toHost) : toHost[i].cmd = "rebootMode"
     => rebootMode = "bootloader" \/ "rebootMode" \in refused
  /\ \/ task = "enter" /\ step = 2 /\ future # None
     \/ \E i \in 1..Len(toHost) : toHost[i].cmd = "reset"
     => dmode \in {"bootloader", "restarted"} \/ "reset" \in refused

\* Every transmission of a probe's command but one that can still be answered
\* has come to grief.
Paid ==
  task = "probe" /\ dmode = "app" =>
    /\ pc = "await" => attempt <= mishaps /\ (Coming \/ attempt < mishaps)
    /\ pc = "retryDelay" => attempt < mishaps
    /\ outcome = "timeout" => Retries < mishaps

IInv ==
  /\ TypeOK
  /\ Line(toHost, toDev, Floor, Now)
  /\ Counted
  /\ ReturnsTheResponse
  /\ Told
  /\ Paid

-----------------------------------------------------------------------------
(***************************************************************************)
(* The line.                                                               *)
(***************************************************************************)
Sent      == Seq(Frames)
Answering == Seq(Frames \cup {Noise, Cut})

LEMMA RankNumber ==
  ASSUME NEW c \in Commands
  PROVE  Rank(c) \in 1..4 /\ Number(c) \in {0, 1}
BY DEF Commands, Rank, Number

\* What is left when the first k elements are gone.
LEMMA Suffix ==
  ASSUME NEW S, NEW q \in Seq(S), NEW k \in 0..Len(q)
  PROVE  LET t == SubSeq(q, k + 1, Len(q)) IN
           /\ t \in Seq(S)
           /\ Len(t) = Len(q) - k
           /\ \A i \in 1..Len(t) : k + i \in 1..Len(q) /\ t[i] = q[k + i]
OBVIOUS

\* A line keeps its order when its first elements arrive.
LEMMA LineSuffix ==
  ASSUME NEW q \in Answering, NEW r \in Sent, NEW lo \in Int, NEW hi \in Int,
         Line(q, r, lo, hi), NEW k \in 0..Len(q)
  PROVE  Line(SubSeq(q, k + 1, Len(q)), r, lo, hi)
<1> DEFINE t == SubSeq(q, k + 1, Len(q))
<1>1. /\ Len(t) = Len(q) - k
      /\ \A i \in 1..Len(t) : k + i \in 1..Len(q) /\ t[i] = q[k + i]
  BY Suffix DEF Answering
<1> QED BY <1>1 DEF Line, Between, InOrder, Before, Known

\* A command is sent: no frame on the line is of a later one.
LEMMA LineAppend ==
  ASSUME NEW q \in Answering, NEW r \in Sent, NEW lo \in Int, NEW hi \in Int,
         Line(q, r, lo, hi),
         NEW f \in Frames, f.seq = Number(f.cmd), Rank(f.cmd) = hi, lo <= hi
  PROVE  Line(q, Append(r, f), lo, hi)
<1> DEFINE t == Append(r, f)
<1>1. /\ Len(t) = Len(r) + 1
      /\ \A i \in 1..Len(t) : t[i] = IF i <= Len(r) THEN r[i] ELSE f
  BY DEF Sent
<1>2. Len(r) \in Nat /\ Len(q) \in Nat
  BY DEF Sent, Answering
<1>3. Between(t, lo, hi)
  BY <1>1, <1>2 DEF Line, Between
<1>4. InOrder(t)
  BY <1>1, <1>2 DEF Line, Between, InOrder
<1>5. Before(q, t)
  BY <1>1, <1>2 DEF Line, Between, Before
<1> QED BY <1>3, <1>4, <1>5 DEF Line

\* A frame is lost on its way out.
LEMMA LineTail ==
  ASSUME NEW q \in Answering, NEW r \in Sent, NEW lo \in Int, NEW hi \in Int,
         Line(q, r, lo, hi), r # << >>
  PROVE  Line(q, Tail(r), lo, hi)
<1>1. /\ Len(Tail(r)) = Len(r) - 1
      /\ \A i \in 1..Len(Tail(r)) : i + 1 \in 1..Len(r) /\ Tail(r)[i] = r[i + 1]
  BY DEF Sent
<1>2. Len(r) \in Nat /\ Len(q) \in Nat
  BY DEF Sent, Answering
<1> QED BY <1>1, <1>2 DEF Line, Between, InOrder, Before, Known

\* A command is answered.
LEMMA LineMove ==
  ASSUME NEW q \in Answering, NEW r \in Sent, NEW lo \in Int, NEW hi \in Int,
         Line(q, r, lo, hi), r # << >>
  PROVE  Line(Append(q, Head(r)), Tail(r), lo, hi)
<1> DEFINE t == Append(q, Head(r))
<1>1. /\ Len(t) = Len(q) + 1
      /\ \A i \in 1..Len(t) : t[i] = IF i <= Len(q) THEN q[i] ELSE r[1]
  BY DEF Answering, Sent
<1>2. /\ Len(Tail(r)) = Len(r) - 1
      /\ \A i \in 1..Len(Tail(r)) : i + 1 \in 1..Len(r) /\ Tail(r)[i] = r[i + 1]
  BY DEF Sent
<1>3. Len(r) \in Nat \ {0} /\ Len(q) \in Nat
  BY DEF Sent, Answering
<1>4. Line(q, Tail(r), lo, hi)
  BY LineTail
<1>5. Between(t, lo, hi)
  BY <1>1, <1>3 DEF Line, Between
<1>6. InOrder(t)
  BY <1>1, <1>3, SMTT(30) DEF Line, InOrder, Before
<1>7. Before(t, Tail(r))
  <2> SUFFICES ASSUME NEW i \in 1..Len(t), NEW j \in 1..Len(Tail(r)),
                      Known(t[i]), Known(Tail(r)[j])
               PROVE  Rank(t[i].cmd) <= Rank(Tail(r)[j].cmd)
    BY DEF Before
  <2>1. CASE i <= Len(q)
    BY <1>1, <1>3, <1>4, <2>1 DEF Line, Before
  <2>2. CASE i > Len(q)
    BY <1>1, <1>2, <1>3, <2>2 DEF Line, InOrder
  <2> QED BY <1>1, <1>3, <2>1, <2>2
<1> QED BY <1>4, <1>5, <1>6, <1>7 DEF Line

\* An answer is spoilt.
LEMMA LineSpoil ==
  ASSUME NEW q \in Answering, NEW r \in Sent, NEW lo \in Int, NEW hi \in Int,
         Line(q, r, lo, hi), NEW b \in {Noise, Cut}
  PROVE  Line([q EXCEPT ![1] = b], r, lo, hi)
<1> DEFINE t == [q EXCEPT ![1] = b]
<1>1. /\ Len(t) = Len(q)
      /\ \A i \in 1..Len(t) : t[i] = IF i = 1 THEN b ELSE q[i]
  BY DEF Answering
<1>2. ~Known(b)
  BY DEF Known, Noise, Cut, Commands
<1> QED BY <1>1, <1>2 DEF Line, Between, InOrder, Before

\* The bounds may be wider than need be.
LEMMA LineWiden ==
  ASSUME NEW q \in Answering, NEW r \in Sent, NEW lo \in Int, NEW hi \in Int,
         NEW l \in Int, NEW h \in Int, l <= lo, hi <= h,
         Line(q, r, lo, hi)
  PROVE  Line(q, r, l, h)
<1>1. ASSUME NEW i \in 1..Len(q), Known(q[i]) PROVE l <= Rank(q[i].cmd) /\ Rank(q[i].cmd) <= h
  <2>1. Rank(q[i].cmd) \in Int
    BY <1>1, RankNumber DEF Known
  <2> QED BY <1>1, <2>1 DEF Line, Between
<1>2. ASSUME NEW i \in 1..Len(r), Known(r[i]) PROVE l <= Rank(r[i].cmd) /\ Rank(r[i].cmd) <= h
  <2>1. Rank(r[i].cmd) \in Int
    BY <1>2, RankNumber DEF Known
  <2> QED BY <1>2, <2>1 DEF Line, Between
<1> QED BY <1>1, <1>2 DEF Line, Between

-----------------------------------------------------------------------------
(***************************************************************************)
(* Facts about the state.                                                  *)
(***************************************************************************)
LEMMA Modulus ==
  ASSUME NEW n \in Nat
  PROVE  /\ NextSeq(n) \in 0..(CommandMod - 1)
         /\ n % CommandMod \in 0..(CommandMod - 1)
         /\ 1 % CommandMod = 1
BY CpcAssumption DEF NextSeq

LEMMA Place ==
  ASSUME task \in {"probe", "enter"}, NEW k \in 1..2
  PROVE  /\ Len(Script(task)) = 2
         /\ Script(task)[k] \in Commands
         /\ Rank(Script(task)[k]) = Base + k
         /\ Number(Script(task)[k]) = k - 1
BY DEF Script, ProbeCommands, EnterCommands, Commands, Rank, Number, Base

\* A command is recognised by its number among the two it can be of.
LEMMA Recognised ==
  ASSUME task \in {"probe", "enter"}, step \in 1..2,
         NEW c \in Commands, Rank(c) \in {Now - 1, Now}, Number(c) = step - 1
  PROVE  c = Script(task)[step] /\ Rank(c) = Now
BY DEF Script, ProbeCommands, EnterCommands, Commands, Rank, Number, Base, Now

LEMMA Typed ==
  ASSUME TypeOK
  PROVE  /\ toHost \in Answering /\ toDev \in Sent
         /\ step \in 1..2 /\ task \in {"probe", "enter"}
         /\ Base \in {0, 2} /\ Now \in Int /\ Floor \in {Now - 1, Now}
         /\ seq \in 0..(CommandMod - 1) /\ commandSeq \in 0..(CommandMod - 1)
BY DEF TypeOK, Answering, Sent, Base, Now, Floor

LEMMA FrameTyped ==
  ASSUME NEW n \in 0..(CommandMod - 1), NEW k \in 1..2, task \in {"probe", "enter"}
  PROVE  /\ Frame(n, k) \in Frames
         /\ Frame(n, k).seq = n
         /\ Frame(n, k).cmd = Script(task)[k]
BY Place DEF Frame, Frames

LEMMA NoneNotCommand == None \notin Commands
BY DEF None, Commands

-----------------------------------------------------------------------------
(***************************************************************************)
(* The invariant holds at first, and every step preserves it.              *)
(***************************************************************************)
LEMMA Initial == Init => IInv
<1> SUFFICES ASSUME Init PROVE IInv
  OBVIOUS
<1>1. TypeOK
  <2>1. /\ results \in Seq(Commands) /\ toDev \in Seq(Frames)
        /\ toHost \in Seq(Frames \cup {Noise, Cut})
    BY DEF Init
  <2>2. 0 \in 0..(CommandMod - 1) /\ 0 \in 0..Retries /\ 0 \in 0..MaxMishaps
    BY CpcAssumption
  <2>3. step \in 1..2 /\ pending \subseteq {seq} /\ future \in Commands \cup {None}
    BY DEF Init
  <2>4. /\ seq \in 0..(CommandMod - 1) /\ commandSeq \in 0..(CommandMod - 1)
        /\ attempt \in 0..Retries /\ mishaps \in 0..MaxMishaps
    BY <2>2 DEF Init
  <2> QED BY <2>1, <2>3, <2>4, Zenon DEF Init, TypeOK
<1>2. Line(toHost, toDev, Floor, Now)
  BY DEF Init, Line, Between, InOrder, Before
<1>3. Counted
  BY DEF Init, Counted, Sending, None
<1>4. ReturnsTheResponse /\ Told /\ Paid
  BY DEF Init, ReturnsTheResponse, Told, Paid, None
<1> QED BY <1>1, <1>2, <1>3, <1>4 DEF IInv

\* A command is sent for the first time.
LEMMA Sends ==
  ASSUME TypeOK, NEW k \in 1..2, NEW sent \in Sent,
         commandSeq = k - 1,
         Line(toHost, sent, Base + k - 1, Base + k),
         SendFirst(k, sent), task' = task, toHost' = toHost
  PROVE  /\ toDev' \in Sent
         /\ Line(toHost', toDev', Floor', Now')
         /\ seq' = commandSeq /\ commandSeq' = NextSeq(commandSeq)
         /\ commandSeq' \in 0..(CommandMod - 1)
         /\ Len(toDev') \in 1..Len(toDev') /\ toDev'[Len(toDev')].seq = seq'
<1> DEFINE f == Frame(commandSeq, k)
<1>1. f \in Frames /\ f.seq = k - 1 /\ f.cmd = Script(task)[k]
  BY FrameTyped, Typed
<1>2. toDev' = Append(sent, f) /\ toDev' \in Sent
  BY <1>1 DEF SendFirst, Sent
<1>3. Line(toHost, Append(sent, f), Base + k - 1, Base + k)
  <2>1. Rank(f.cmd) = Base + k /\ f.seq = Number(f.cmd)
    BY <1>1, Place, Typed
  <2>2. Base \in Int /\ toHost \in Answering
    BY Typed
  <2> HIDE DEF f
  <2> QED BY <1>1, <2>1, <2>2, LineAppend
<1>4. Floor' = Base + k - 1 /\ Now' = Base + k
  BY DEF SendFirst, Floor, Now, Base, None
<1>5. /\ seq' = commandSeq /\ commandSeq' = NextSeq(commandSeq)
      /\ commandSeq' \in 0..(CommandMod - 1)
  <2>1. commandSeq \in Nat
    OBVIOUS
  <2>2. NextSeq(commandSeq) \in 0..(CommandMod - 1)
    BY <2>1, Modulus
  <2> QED BY <2>2 DEF SendFirst
<1>6. Len(toDev') \in 1..Len(toDev') /\ toDev'[Len(toDev')] = f
  BY <1>1, <1>2 DEF Sent
<1> QED BY <1>1, <1>2, <1>3, <1>4, <1>5, <1>6

LEMMA BeginStep ==
  ASSUME IInv, Begin
  PROVE  IInv'
<1> USE DEF IInv
<1>1. /\ step = 1 /\ seq = 0 /\ commandSeq = 0 /\ pending = {} /\ future = None
      /\ Len(results) = 0 /\ outcome # "ok"
  BY DEF Begin, Counted, Sending
<1>2. toHost \in Answering /\ toDev \in Sent /\ task \in {"probe", "enter"}
  BY Typed
<1>3. Line(toHost, toDev, Base + 1 - 1, Base + 1)
  BY <1>1, Typed DEF Floor, Now
<1>4. /\ toDev' \in Sent
      /\ Line(toHost', toDev', Floor', Now')
      /\ seq' = 0 /\ commandSeq' = NextSeq(0) /\ commandSeq' \in 0..(CommandMod - 1)
      /\ Len(toDev') \in 1..Len(toDev') /\ toDev'[Len(toDev')].seq = seq'
  <2>1. commandSeq = 1 - 1 /\ 1 \in 1..2
    BY <1>1
  <2>2. SendFirst(1, toDev) /\ task' = task /\ toHost' = toHost
    BY DEF Begin
  <2> QED BY <1>1, <1>2, <1>3, <2>1, <2>2, Sends
<1>5. TypeOK'
  BY <1>1, <1>4, CpcAssumption DEF TypeOK, Begin, SendFirst, Sent, deviceVars
<1>6. Counted'
  BY <1>1, <1>4, CpcAssumption DEF Counted, Begin, SendFirst, Sending, NextSeq, None
<1>7. ReturnsTheResponse' /\ Told'
  BY <1>1 DEF ReturnsTheResponse, Told, Begin, SendFirst, deviceVars
<1>8. Paid'
  BY <1>1, <1>4 DEF Paid, Begin, SendFirst, deviceVars, Coming, TypeOK
<1> QED BY <1>4, <1>5, <1>6, <1>7, <1>8

\* send_unnumbered_frame returns: with `sent` on its way, in which nothing
\* concerns an earlier command any more.
LEMMA Returns ==
  ASSUME IInv, Sending, future # None, NEW sent \in Sent,
         Line(toHost, sent, Now, Now), Return(sent),
         UNCHANGED <<task, cut, toHost, mishaps, deviceVars>>
  PROVE  IInv'
<1> USE DEF IInv
<1> DEFINE S == Script(task)
<1>1. /\ task \in {"probe", "enter"} /\ step \in 1..2 /\ toHost \in Answering
      /\ Base \in Int /\ Now = Base + step
  BY Typed DEF Now
<1>2. /\ future = S[step] /\ S[step] \in Commands /\ Len(S) = 2
  BY <1>1, Place DEF Counted
<1>3. /\ Len(results) = step - 1 /\ pc # "end" /\ pc # "connected" /\ outcome # "ok"
      /\ seq = step - 1 /\ commandSeq = step % CommandMod
  BY DEF Counted, Sending
<1>4. /\ results' = Append(results, future)
      /\ results' \in Seq(Commands) /\ Len(results') = step
      /\ \A k \in 1..step : results'[k] = S[k]
  <2>1. results \in Seq(Commands) /\ results' = Append(results, future)
    BY DEF TypeOK, Return
  <2>2. \A k \in 1..(step - 1) : results[k] = S[k]
    BY <1>3, <2>1 DEF ReturnsTheResponse
  <2> HIDE DEF S
  <2> QED BY <1>1, <1>2, <1>3, <2>1, <2>2
<1>5. CASE step = 1
  <2>1. SendFirst(2, sent) /\ step' = 2
    BY <1>2, <1>5 DEF Return, SendFirst
  <2>2. commandSeq = 2 - 1
    BY <1>3, <1>5, Modulus
  <2>3. Line(toHost, sent, Base + 2 - 1, Base + 2)
    <3>1. Base + 1 = Now /\ Base + 2 - 1 = Now /\ Now <= Base + 2 /\ Now \in Int
      BY <1>1, <1>5
    <3>2. Line(toHost, sent, Now, Base + 2)
      BY <1>1, <3>1, LineWiden
    <3> QED BY <3>1, <3>2
  <2>4. /\ toDev' \in Sent
        /\ Line(toHost', toDev', Floor', Now')
        /\ seq' = 1 /\ commandSeq' = NextSeq(1) /\ commandSeq' \in 0..(CommandMod - 1)
        /\ Len(toDev') \in 1..Len(toDev') /\ toDev'[Len(toDev')].seq = seq'
    <3>1. 2 \in 1..2 /\ task' = task /\ toHost' = toHost
      OBVIOUS
    <3> QED BY <2>1, <2>2, <2>3, <3>1, Sends
  <2>5. TypeOK'
    BY <1>4, <2>1, <2>4, CpcAssumption DEF TypeOK, SendFirst, Sent, deviceVars
  <2>6. Counted'
    BY <1>3, <1>4, <1>5, <2>1, <2>4, CpcAssumption
    DEF Counted, SendFirst, Sending, NextSeq, None
  <2>7. ReturnsTheResponse'
    BY <1>4, <1>5 DEF ReturnsTheResponse, Script
  <2>8. Told'
    BY <2>1 DEF Told, SendFirst, deviceVars
  <2>9. Paid'
    BY <2>1, <2>4 DEF Paid, SendFirst, deviceVars, Coming, TypeOK
  <2> QED BY <2>4, <2>5, <2>6, <2>7, <2>8, <2>9
<1>6. CASE step = 2
  <2>1. EndWith(IF task = "probe" THEN "closed" ELSE "delay05", outcome, sent)
    BY <1>2, <1>6 DEF Return
  <2>2. /\ pc' = (IF task = "probe" THEN "closed" ELSE "delay05")
        /\ outcome' = outcome /\ pending' = pending \ {seq} /\ toDev' = sent
        /\ step' = step /\ seq' = seq /\ commandSeq' = commandSeq
        /\ future' = future /\ attempt' = attempt
    BY <2>1 DEF EndWith
  <2>3. Line(toHost', toDev', Floor', Now')
    BY <2>2 DEF Floor, Now, Base
  <2>4. TypeOK'
    BY <1>4, <2>2 DEF TypeOK, Sent, deviceVars
  <2>5. Counted'
    BY <1>1, <1>3, <1>6, <2>2 DEF Counted, Sending, Script
  <2>6. ReturnsTheResponse'
    BY <1>4, <1>6 DEF ReturnsTheResponse, Script
  <2>7. Told'
    BY <2>2 DEF Told, deviceVars
  <2>8. Paid'
    BY <2>2 DEF Paid, deviceVars
  <2> QED BY <2>3, <2>4, <2>5, <2>6, <2>7, <2>8
<1> QED BY <1>1, <1>5, <1>6

LEMMA AnsweredStep ==
  ASSUME IInv, Answered
  PROVE  IInv'
<1>1. Floor = Now /\ Sending /\ future # None /\ toDev \in Sent
  BY Typed DEF Answered, Floor, Sending, IInv
<1>2. Line(toHost, toDev, Now, Now)
  BY <1>1 DEF IInv
<1>3. Return(toDev) /\ UNCHANGED <<task, cut, toHost, mishaps, deviceVars>>
  BY DEF Answered
<1> QED BY <1>1, <1>2, <1>3, Returns

\* The current frame is sent again.
LEMMA SendsAgain ==
  ASSUME IInv, Sending
  PROVE  /\ Frame(seq, step) \in Frames /\ Frame(seq, step).seq = seq
         /\ Append(toDev, Frame(seq, step)) \in Sent
         /\ Line(toHost, Append(toDev, Frame(seq, step)), Floor, Now)
<1> USE DEF IInv
<1> DEFINE f == Frame(seq, step)
<1>1. /\ toHost \in Answering /\ toDev \in Sent /\ Now \in Int /\ Floor \in {Now - 1, Now}
      /\ task \in {"probe", "enter"} /\ step \in 1..2 /\ Base \in Int
      /\ seq \in 0..(CommandMod - 1) /\ seq = step - 1
  BY Typed DEF Counted
<1>2. f \in Frames /\ f.seq = seq /\ f.cmd = Script(task)[step]
  BY <1>1, FrameTyped
<1>3. Rank(f.cmd) = Now /\ f.seq = Number(f.cmd)
  BY <1>1, <1>2, Place DEF Now
<1> HIDE DEF f
<1>4. Line(toHost, Append(toDev, f), Floor, Now)
  <2>1. Floor \in Int /\ Floor <= Now
    BY <1>1
  <2> QED BY <1>1, <1>2, <1>3, <2>1, LineAppend
<1>5. Append(toDev, f) \in Sent
  BY <1>1, <1>2 DEF Sent
<1> QED BY <1>2, <1>4, <1>5 DEF f

LEMMA RetryStep ==
  ASSUME IInv, Retry
  PROVE  IInv'
<1> USE DEF IInv
<1> DEFINE sent == Append(toDev, Frame(seq, step))
<1>1. /\ Sending /\ pc = "retryDelay"
      /\ UNCHANGED <<task, cut, toHost, mishaps, deviceVars>>
  BY DEF Retry, Sending
<1>2. /\ sent \in Sent /\ Line(toHost, sent, Floor, Now)
      /\ Frame(seq, step).seq = seq
  BY <1>1, SendsAgain
<1>3. CASE future # None
  <2>1. Floor = Now /\ Return(sent)
    BY <1>3 DEF Retry, Floor
  <2> HIDE DEF sent
  <2> QED BY <1>1, <1>2, <1>3, <2>1, Returns
<1>4. CASE future = None
  <2>1. /\ toDev' = sent /\ attempt' = attempt + 1 /\ pc' = "await"
        /\ UNCHANGED <<step, results, outcome, objectVars, future>>
    BY <1>4 DEF Retry
  <2>2. Line(toHost', toDev', Floor', Now')
    BY <1>1, <1>2, <2>1 DEF Floor, Now, Base
  <2>3. Len(toDev') \in 1..Len(toDev') /\ toDev'[Len(toDev')].seq = seq
    BY <1>2, <2>1, Typed DEF Sent
  <2>4. TypeOK'
    <3>1. attempt + 1 \in 0..Retries
      BY <1>1, CpcAssumption DEF Counted, TypeOK
    <3> QED BY <1>1, <1>2, <2>1, <3>1 DEF TypeOK, Sent, objectVars, deviceVars
  <2>5. Counted'
    BY <1>1, <2>1 DEF Counted, Sending, objectVars, Script
  <2>6. ReturnsTheResponse' /\ Told'
    BY <1>1, <2>1 DEF ReturnsTheResponse, Told, deviceVars, Script
  <2>7. Paid'
    <3> SUFFICES ASSUME task = "probe", dmode = "app"
                 PROVE  /\ attempt + 1 <= mishaps
                        /\ Coming'
                        /\ outcome' = "timeout" => Retries < mishaps
      BY <1>1, <2>1 DEF Paid, deviceVars
    <3>1. attempt < mishaps /\ attempt \in Nat /\ mishaps \in Nat
      BY <1>1, CpcAssumption DEF Paid, TypeOK
    <3>2. Coming'
      BY <1>1, <2>1, <2>3 DEF Coming, deviceVars, objectVars
    <3>3. outcome' = "timeout" => Retries < mishaps
      BY <2>1 DEF Paid
    <3> QED BY <3>1, <3>2, <3>3
  <2> QED BY <2>2, <2>4, <2>5, <2>6, <2>7
<1> QED BY <1>3, <1>4

LEMMA TimeoutStep ==
  ASSUME IInv, Timeout
  PROVE  IInv'
<1> USE DEF IInv
<1>1. /\ pc = "await" /\ pc' = "retryDelay" /\ attempt < Retries
      /\ UNCHANGED <<taskVars, attempt, outcome, objectVars, future, cut, toDev, toHost,
                     deviceVars>>
      /\ TimerFires
  BY DEF Timeout
<1>2. mishaps' \in 0..MaxMishaps /\ mishaps <= mishaps'
  BY <1>1, CpcAssumption DEF TimerFires, Mishap, TypeOK
<1>3. TypeOK'
  BY <1>1, <1>2 DEF TypeOK, taskVars, objectVars, deviceVars
<1>4. Line(toHost', toDev', Floor', Now')
  BY <1>1 DEF Floor, Now, Base, taskVars
<1>5. Counted'
  BY <1>1 DEF Counted, Sending, taskVars, objectVars, Script
<1>6. ReturnsTheResponse' /\ Told'
  BY <1>1 DEF ReturnsTheResponse, Told, taskVars, deviceVars, Script
<1>7. Paid'
  <2> SUFFICES ASSUME task = "probe", dmode = "app"
               PROVE  /\ attempt < mishaps'
                      /\ outcome = "timeout" => Retries < mishaps'
    BY <1>1 DEF Paid, taskVars, deviceVars
  <2>1. /\ attempt \in Nat /\ mishaps \in Nat /\ mishaps' \in Nat /\ Retries \in Nat
    BY <1>2, CpcAssumption DEF TypeOK
  <2>2. attempt < mishaps'
    BY <1>1, <2>1 DEF Paid, TimerFires, Mishap
  <2>3. outcome = "timeout" => Retries < mishaps'
    BY <1>2, <2>1 DEF Paid
  <2> QED BY <2>2, <2>3
<1> QED BY <1>3, <1>4, <1>5, <1>6, <1>7

LEMMA LastTimeoutStep ==
  ASSUME IInv, LastTimeout
  PROVE  IInv'
<1> USE DEF IInv
<1>1. /\ pc = "await" /\ pc' = "end" /\ outcome' = "timeout" /\ attempt >= Retries
      /\ pending' = pending \ {seq} /\ TimerFires
      /\ UNCHANGED <<task, results, cut, toHost, deviceVars, toDev, step, seq, commandSeq,
                     future, attempt>>
  BY DEF LastTimeout, EndWith
<1>2. mishaps' \in 0..MaxMishaps /\ mishaps <= mishaps'
  BY <1>1, CpcAssumption DEF TimerFires, Mishap, TypeOK
<1>3. TypeOK'
  BY <1>1, <1>2 DEF TypeOK, deviceVars
<1>4. Line(toHost', toDev', Floor', Now')
  BY <1>1 DEF Floor, Now, Base
<1>5. Counted'
  BY <1>1 DEF Counted, Sending, Script
<1>6. ReturnsTheResponse' /\ Told'
  BY <1>1 DEF ReturnsTheResponse, Told, deviceVars, Script
<1>7. Paid'
  <2> SUFFICES ASSUME task = "probe", dmode = "app" PROVE Retries < mishaps'
    BY <1>1 DEF Paid, deviceVars
  <2>1. /\ attempt \in Nat /\ mishaps \in Nat /\ mishaps' \in Nat /\ Retries \in Nat
    BY <1>2, CpcAssumption DEF TypeOK
  <2> QED BY <1>1, <2>1 DEF Paid, TimerFires, Mishap
<1> QED BY <1>3, <1>4, <1>5, <1>6, <1>7

\* enter_bootloader ends, by the caller's timeout or after its delay.
LEMMA EndStep ==
  ASSUME IInv, Cancelled \/ Entered
  PROVE  IInv'
<1> USE DEF IInv
<1>1. /\ pc' = "end" /\ task = "enter"
      /\ (outcome' = "cancelled") \/ (pc = "delay05" /\ outcome' = "ok")
      /\ pending' = pending \ {seq}
      /\ UNCHANGED <<task, results, cut, toHost, deviceVars, toDev, step, seq, commandSeq,
                     future, attempt, mishaps>>
  BY DEF Cancelled, Entered, EndWith, Counted
<1>2. TypeOK'
  BY <1>1 DEF TypeOK, deviceVars
<1>3. Line(toHost', toDev', Floor', Now')
  BY <1>1 DEF Floor, Now, Base
<1>4. Counted'
  <2>1. commandSeq = step % CommandMod
    BY <1>1 DEF Cancelled, Entered, Counted
  <2> QED BY <1>1, <2>1 DEF Counted, Sending, Script
<1>5. ReturnsTheResponse' /\ Told' /\ Paid'
  BY <1>1 DEF ReturnsTheResponse, Told, Paid, deviceVars, Script
<1> QED BY <1>2, <1>3, <1>4, <1>5

\* Told only reads which commands are being answered.
LEMMA ToldStays ==
  ASSUME Told, UNCHANGED <<task, step, future, deviceVars>>,
         \A i \in 1..Len(toHost') : Known(toHost'[i]) =>
            \E j \in 1..Len(toHost) : toHost[j] = toHost'[i]
  PROVE  Told'
<1>1. ASSUME NEW c \in {"rebootMode", "reset"}, \E i \in 1..Len(toHost') : toHost'[i].cmd = c
      PROVE  \E j \in 1..Len(toHost) : toHost[j].cmd = c
  BY <1>1 DEF Known, Commands
<1> QED BY <1>1 DEF Told, deviceVars

LEMMA ReopenStep ==
  ASSUME IInv, Reopen
  PROVE  IInv'
<1> USE DEF IInv
<1>1. PICK n \in 0..Len(toHost) : toHost' = SubSeq(toHost, n + 1, Len(toHost))
  BY DEF Reopen
<1>2. /\ task' = "enter" /\ step' = 1 /\ results' = << >> /\ pc' = "connected"
      /\ attempt' = 0 /\ commandSeq' = 0 /\ seq' = 0 /\ pending' = {} /\ future' = None
      /\ cut' = FALSE /\ UNCHANGED <<outcome, toDev, mishaps, deviceVars>>
  BY DEF Reopen
<1>3. task = "probe" /\ step = 2 /\ future # None /\ outcome # "ok"
  BY DEF Reopen, Counted
<1>4. toHost \in Answering /\ toDev \in Sent
  BY Typed
<1>5. /\ toHost' \in Answering
      /\ \A i \in 1..Len(toHost') : n + i \in 1..Len(toHost) /\ toHost'[i] = toHost[n + i]
  BY <1>1, <1>4, Suffix DEF Answering
<1>6. TypeOK'
  <2>1. /\ 0 \in 0..(CommandMod - 1) /\ 0 \in 0..Retries /\ results' \in Seq(Commands)
        /\ step' \in 1..2 /\ future' \in Commands \cup {None} /\ pending' \subseteq {seq'}
    BY <1>2, CpcAssumption
  <2> QED BY <1>2, <1>5, <2>1 DEF TypeOK, Answering, deviceVars
<1>7. Line(toHost', toDev', Floor', Now')
  <2>1. Floor = 2 /\ Now = 2 /\ Floor' = 2 /\ Now' = 3
    BY <1>2, <1>3 DEF Floor, Now, Base
  <2>2. Line(toHost', toDev, 2, 2)
    BY <1>1, <1>4, <2>1, LineSuffix
  <2>3. Line(toHost', toDev, 2, 3)
    BY <1>4, <1>5, <2>2, LineWiden
  <2> QED BY <1>2, <2>1, <2>3
<1>8. Counted'
  BY <1>2, <1>3 DEF Counted, Sending
<1>9. Told'
  <2>1. ASSUME NEW c \in {"rebootMode", "reset"}, NEW i \in 1..Len(toHost'), toHost'[i].cmd = c
        PROVE  \E j \in 1..Len(toHost) : toHost[j].cmd = c
    BY <1>5, <2>1
  <2> QED BY <1>2, <2>1 DEF Told, deviceVars
<1>10. ReturnsTheResponse' /\ Paid'
  BY <1>2 DEF ReturnsTheResponse, Paid
<1> QED BY <1>6, <1>7, <1>8, <1>9, <1>10

\* What arrives holds no answer to the current frame.
LEMMA NothingFound ==
  ASSUME IInv, Open, NEW n \in 1..Len(toHost), Hits(n) = {}, Receive(n, {})
  PROVE  IInv'
<1> USE DEF IInv
<1>1. /\ toHost' = SubSeq(toHost, n + 1, Len(toHost))
      /\ cut' \in BOOLEAN
      /\ UNCHANGED <<pending, future, taskVars, pc, attempt, outcome, commandSeq, seq, toDev,
                     mishaps, deviceVars>>
  BY DEF Receive
<1>2. toHost \in Answering /\ toDev \in Sent /\ Now \in Int /\ Floor \in Int
  BY Typed
<1>3. /\ toHost' \in Answering /\ Len(toHost') = Len(toHost) - n /\ Len(toHost) \in Nat
      /\ \A i \in 1..Len(toHost') : n + i \in 1..Len(toHost) /\ toHost'[i] = toHost[n + i]
  <2>1. n \in 0..Len(toHost) /\ Len(toHost) \in Nat
    BY <1>2 DEF Answering
  <2> QED BY <1>1, <1>2, <2>1, Suffix DEF Answering
<1>4. TypeOK'
  BY <1>1, <1>3 DEF TypeOK, Answering, taskVars, deviceVars
<1>5. Line(toHost', toDev', Floor', Now')
  <2>1. n \in 0..Len(toHost)
    BY <1>3
  <2>2. Line(toHost', toDev, Floor, Now)
    BY <1>1, <1>2, <2>1, LineSuffix
  <2> QED BY <1>1, <2>2 DEF Floor, Now, Base, taskVars
<1>6. Counted'
  BY <1>1 DEF Counted, Sending, taskVars, Script
<1>7. ReturnsTheResponse' /\ Told'
  <2>1. Told'
    BY <1>1, <1>3, ToldStays DEF taskVars, deviceVars
  <2> QED BY <1>1, <2>1 DEF ReturnsTheResponse, taskVars, Script
<1>8. Paid'
  <2> SUFFICES ASSUME task = "probe", dmode = "app", pc = "await", Coming
               PROVE  Coming'
    BY <1>1 DEF Paid, taskVars, deviceVars
  <2>1. CASE future # None \/ \E k \in DOMAIN toDev : toDev[k].seq = seq
    BY <1>1, <2>1 DEF Coming, deviceVars
  <2>2. ASSUME NEW k \in DOMAIN toHost, toHost[k].cmd \in Commands, toHost[k].seq = seq,
               future = None
        PROVE  Coming'
    <3>1. k \in 1..Len(toHost)
      BY <1>2 DEF Answering
    <3>2. pending = {seq}
      BY <2>2 DEF Counted, Sending
    <3>3. k > n
      BY <2>2, <3>1, <3>2 DEF Hits
    <3>4. k - n \in 1..Len(toHost') /\ toHost'[k - n] = toHost[k]
      BY <1>3, <3>1, <3>3
    <3>5. DOMAIN toHost' = 1..Len(toHost')
      BY <1>3 DEF Answering
    <3> QED BY <1>1, <2>2, <3>4, <3>5 DEF Coming
  <2> QED BY <2>1, <2>2 DEF Coming
<1> QED BY <1>4, <1>5, <1>6, <1>7, <1>8

\* The answer to the current frame arrives: it is the answer to the current
\* command, and nothing of an earlier command is left on the line.
LEMMA Found ==
  ASSUME IInv, Open, NEW n \in 1..Len(toHost), NEW m \in Hits(n),
         toHost' = SubSeq(toHost, n + 1, Len(toHost)), cut' \in BOOLEAN,
         pending' = pending \ {toHost[m].seq}, future' = toHost[m].cmd,
         UNCHANGED <<taskVars, pc, attempt, outcome, commandSeq, seq, toDev, mishaps,
                     deviceVars>>
  PROVE  IInv'
<1> USE DEF IInv
<1>1. /\ toHost \in Answering /\ toDev \in Sent /\ Len(toHost) \in Nat
      /\ step \in 1..2 /\ task \in {"probe", "enter"}
      /\ Base \in {0, 2} /\ Now \in Int
  BY Typed DEF Answering
<1>2. /\ m \in 1..n /\ m \in 1..Len(toHost) /\ Known(toHost[m]) /\ toHost[m].seq \in pending
  BY <1>1 DEF Hits, Known
<1>3. /\ pending = {seq} /\ future = None /\ Sending /\ toHost[m].seq = step - 1
      /\ pending' = {} /\ Floor = Now - 1
  BY <1>2 DEF Counted, Floor
<1>4. toHost[m].cmd = Script(task)[step] /\ Rank(toHost[m].cmd) = Now
  <2>1. /\ toHost[m].cmd \in Commands /\ Number(toHost[m].cmd) = step - 1
        /\ Now - 1 <= Rank(toHost[m].cmd) /\ Rank(toHost[m].cmd) <= Now
    BY <1>2, <1>3 DEF Line, Between, Known
  <2>2. Rank(toHost[m].cmd) \in {Now - 1, Now}
    BY <1>1, <2>1, RankNumber
  <2> QED BY <1>1, <2>1, <2>2, Recognised
<1>5. /\ toHost' \in Answering /\ Len(toHost') = Len(toHost) - n
      /\ \A i \in 1..Len(toHost') : n + i \in 1..Len(toHost) /\ toHost'[i] = toHost[n + i]
  <2>1. n \in 0..Len(toHost)
    BY <1>1
  <2> QED BY <1>1, <2>1, Suffix DEF Answering
<1>6. future' \in Commands /\ future' # None
  BY <1>2, NoneNotCommand DEF Known
<1>7. TypeOK'
  BY <1>3, <1>5, <1>6 DEF TypeOK, Answering, taskVars, deviceVars
<1>8. Line(toHost', toDev', Floor', Now')
  <2>1. Floor' = Now /\ Now' = Now
    BY <1>6 DEF Floor, Now, Base, taskVars
  <2>2. Line(toHost', toDev, Now - 1, Now)
    <3>1. n \in 0..Len(toHost) /\ Now - 1 \in Int
      BY <1>1
    <3> QED BY <1>1, <1>3, <3>1, LineSuffix
  <2>3. \A i \in 1..Len(toHost') : Known(toHost'[i]) => Now <= Rank(toHost'[i].cmd)
    <3> SUFFICES ASSUME NEW i \in 1..Len(toHost'), Known(toHost'[i])
                 PROVE  Now <= Rank(toHost'[i].cmd)
      OBVIOUS
    <3>1. n + i \in 1..Len(toHost) /\ toHost'[i] = toHost[n + i] /\ m < n + i
      BY <1>1, <1>2, <1>5
    <3> QED BY <1>2, <1>4, <3>1 DEF Line, InOrder
  <2>4. \A j \in 1..Len(toDev) : Known(toDev[j]) => Now <= Rank(toDev[j].cmd)
    BY <1>2, <1>4 DEF Line, Before
  <2>5. Line(toHost', toDev, Now, Now)
    BY <2>2, <2>3, <2>4 DEF Line, Between
  <2> QED BY <2>1, <2>5
<1>9. Counted'
  BY <1>3, <1>4, <1>6 DEF Counted, Sending, taskVars, Script
<1>10. ReturnsTheResponse'
  BY DEF ReturnsTheResponse, taskVars, Script
<1>11. Told'
  <2>1. ASSUME NEW c \in {"rebootMode", "reset"}, NEW i \in 1..Len(toHost'), toHost'[i].cmd = c
        PROVE  \E j \in 1..Len(toHost) : toHost[j].cmd = c
    BY <1>5, <2>1
  <2>2. ASSUME task = "enter"
        PROVE  /\ step = 1 => toHost[m].cmd = "rebootMode"
               /\ step = 2 => toHost[m].cmd = "reset"
    BY <1>4, <2>2 DEF Script, EnterCommands
  <2>3. task' = task /\ step' = step /\ UNCHANGED <<dmode, rebootMode, refused>>
    BY DEF taskVars, deviceVars
  <2>4. \/ task' = "enter" /\ (step' = 2 \/ future' # None)
        \/ \E i \in 1..Len(toHost') : toHost'[i].cmd = "rebootMode"
        => rebootMode = "bootloader" \/ "rebootMode" \in refused
    BY <1>1, <1>2, <2>1, <2>2, <2>3 DEF Told
  <2>5. \/ task' = "enter" /\ step' = 2 /\ future' # None
        \/ \E i \in 1..Len(toHost') : toHost'[i].cmd = "reset"
        => dmode \in {"bootloader", "restarted"} \/ "reset" \in refused
    BY <1>1, <1>2, <2>1, <2>2, <2>3 DEF Told
  <2>6. dmode = "restarted" => "rebootMode" \in refused
    BY DEF Told
  <2> HIDE DEF IInv
  <2> QED BY <2>3, <2>4, <2>5, <2>6 DEF Told
<1>12. Paid'
  BY <1>6 DEF Paid, Coming, taskVars, deviceVars
<1> QED BY <1>7, <1>8, <1>9, <1>10, <1>11, <1>12

LEMMA DeliverStep ==
  ASSUME IInv, Deliver
  PROVE  IInv'
<1>1. PICK n \in 1..Len(toHost) : Receive(n, Hits(n))
  BY DEF Deliver
<1>2. Open
  BY DEF Deliver
<1>3. CASE Hits(n) = {}
  BY <1>1, <1>2, <1>3, NothingFound
<1>4. CASE Hits(n) # {}
  <2>1. PICK m \in Hits(n) : /\ pending' = pending \ {toHost[m].seq}
                             /\ future' = toHost[m].cmd
    BY <1>1, <1>4 DEF Receive
  <2>2. /\ toHost' = SubSeq(toHost, n + 1, Len(toHost)) /\ cut' \in BOOLEAN
        /\ UNCHANGED <<taskVars, pc, attempt, outcome, commandSeq, seq, toDev, mishaps,
                       deviceVars>>
    BY <1>1 DEF Receive
  <2> QED BY <1>2, <2>1, <2>2, Found
<1> QED BY <1>3, <1>4

\* The device takes a command.
LEMMA ObeyStep ==
  ASSUME IInv, Obey
  PROVE  IInv'
<1> USE DEF IInv
<1> DEFINE f == Head(toDev)
<1>1. /\ toDev # << >> /\ toDev' = Tail(toDev)
      /\ UNCHANGED <<taskVars, pc, attempt, outcome, objectVars, future, cut, mishaps>>
  BY DEF Obey
<1>2. /\ toHost \in Answering /\ toDev \in Sent /\ Len(toHost) \in Nat
      /\ Now \in Int /\ Floor \in Int
  BY Typed DEF Answering
<1>3. /\ f \in Frames /\ f = toDev[1] /\ 1 \in 1..Len(toDev) /\ Tail(toDev) \in Sent
      /\ Known(f)
      /\ \A k \in 2..Len(toDev) : k - 1 \in DOMAIN Tail(toDev) /\ Tail(toDev)[k - 1] = toDev[k]
  <2>1. f \in Frames /\ f = toDev[1] /\ 1 \in 1..Len(toDev) /\ Tail(toDev) \in Sent
    BY <1>1, <1>2 DEF Sent
  <2>2. Known(f)
    BY <2>1 DEF Known, Frames
  <2>3. \A k \in 2..Len(toDev) : k - 1 \in DOMAIN Tail(toDev) /\ Tail(toDev)[k - 1] = toDev[k]
    BY <1>1, <1>2 DEF Sent
  <2> QED BY <2>1, <2>2, <2>3
<1>4. Floor' = Floor /\ Now' = Now
  BY <1>1 DEF Floor, Now, Base, taskVars
<1>5. Counted' /\ ReturnsTheResponse'
  BY <1>1 DEF Counted, Sending, ReturnsTheResponse, taskVars, objectVars, Script
<1>6. CASE dmode # "app"
  <2>1. UNCHANGED <<toHost, deviceVars>>
    BY <1>6 DEF Obey
  <2>2. TypeOK'
    BY <1>1, <1>3, <2>1 DEF TypeOK, Sent, taskVars, objectVars, deviceVars
  <2>3. Line(toHost', toDev', Floor', Now')
    BY <1>1, <1>2, <1>4, <2>1, LineTail
  <2>4. Told' /\ Paid'
    BY <1>1, <1>6, <2>1 DEF Told, Paid, taskVars, deviceVars
  <2> QED BY <1>5, <2>2, <2>3, <2>4
<1>7. CASE dmode = "app"
  <2>1. /\ toHost' = Append(toHost, f)
        /\ \/ /\ rebootMode' = IF f.cmd = "rebootMode" THEN "bootloader" ELSE rebootMode
              /\ dmode' = CASE f.cmd # "reset"             -> "app"
                            [] rebootMode = "bootloader"   -> "bootloader"
                            [] OTHER                       -> "restarted"
              /\ refused' = refused
           \/ /\ f.cmd \in {"rebootMode", "reset"}
              /\ refused' = refused \cup {f.cmd}
              /\ UNCHANGED <<dmode, rebootMode>>
    BY <1>7 DEF Obey
  <2>2. /\ toHost' \in Answering /\ Len(toHost') = Len(toHost) + 1
        /\ \A i \in 1..Len(toHost') : toHost'[i] = IF i <= Len(toHost) THEN toHost[i] ELSE f
        /\ DOMAIN toHost' = 1..Len(toHost') /\ DOMAIN toHost = 1..Len(toHost)
    <3> HIDE DEF f
    <3> QED BY <1>2, <1>3, <2>1 DEF Answering
  <2>3. Line(toHost', toDev', Floor', Now')
    BY <1>1, <1>2, <1>4, <2>1, LineMove
  <2>4. f.cmd = "reset" => rebootMode = "bootloader" \/ "rebootMode" \in refused
    <3> SUFFICES ASSUME f.cmd = "reset"
                 PROVE  rebootMode = "bootloader" \/ "rebootMode" \in refused
      OBVIOUS
    <3>1. 4 <= Now
      BY <1>3 DEF Line, Between, Rank
    <3>2. task = "enter" /\ step = 2
      BY <3>1, Typed DEF Now, Base
    <3> QED BY <3>2 DEF Told
  <2>5. /\ rebootMode' \in {"application", "bootloader"}
        /\ dmode' \in {"app", "bootloader", "restarted"}
        /\ refused' \subseteq {"rebootMode", "reset"} /\ refused \subseteq refused'
        /\ f.cmd = "reset" => dmode' \in {"bootloader", "restarted"} \/ "reset" \in refused'
        /\ f.cmd = "rebootMode" => rebootMode' = "bootloader" \/ "rebootMode" \in refused'
        /\ rebootMode = "bootloader" => rebootMode' = "bootloader"
        /\ dmode' = "restarted" => "rebootMode" \in refused'
    <3> HIDE DEF f
    <3>1. CASE /\ rebootMode' = IF f.cmd = "rebootMode" THEN "bootloader" ELSE rebootMode
               /\ dmode' = CASE f.cmd # "reset"             -> "app"
                             [] rebootMode = "bootloader"   -> "bootloader"
                             [] OTHER                       -> "restarted"
               /\ refused' = refused
      BY <2>4, <3>1 DEF TypeOK
    <3>2. CASE /\ f.cmd \in {"rebootMode", "reset"}
               /\ refused' = refused \cup {f.cmd}
               /\ UNCHANGED <<dmode, rebootMode>>
      BY <1>7, <3>2 DEF TypeOK
    <3> QED BY <2>1, <3>1, <3>2
  <2>6. TypeOK'
    BY <1>1, <1>3, <2>2, <2>5 DEF TypeOK, Sent, Answering, taskVars, objectVars
  <2>7. Told'
    <3>1. ASSUME NEW c \in {"rebootMode", "reset"}, NEW i \in 1..Len(toHost'),
                 toHost'[i].cmd = c
          PROVE  f.cmd = c \/ \E j \in 1..Len(toHost) : toHost[j].cmd = c
      BY <1>2, <2>2, <3>1
    <3> HIDE DEF f
    <3> QED BY <1>1, <1>7, <2>5, <3>1 DEF Told, taskVars
  <2>8. Paid'
    <3> SUFFICES ASSUME task = "probe", pc = "await", Coming, dmode' = "app"
                 PROVE  Coming'
      BY <1>1, <1>7, <2>5 DEF Paid, taskVars
    <3>1. CASE future # None
      BY <1>1, <3>1 DEF Coming
    <3>2. ASSUME NEW k \in DOMAIN toDev, toDev[k].seq = seq
          PROVE  Coming'
      <4>1. k \in 1..Len(toDev) /\ Len(toDev) \in Nat
        BY <1>2 DEF Sent
      <4>2. CASE k = 1
        <5>1. /\ Len(toHost') \in DOMAIN toHost' /\ toHost'[Len(toHost')] = f
              /\ f.seq = seq /\ f.cmd \in Commands
          BY <1>2, <1>3, <2>2, <3>2, <4>2 DEF Known
        <5> HIDE DEF f
        <5> QED BY <1>1, <5>1 DEF Coming, objectVars
      <4>3. CASE k # 1
        <5>1. k - 1 \in DOMAIN toDev' /\ toDev'[k - 1].seq = seq
          BY <1>1, <1>3, <3>2, <4>1, <4>3
        <5> QED BY <1>1, <3>2, <5>1 DEF Coming, objectVars
      <4> QED BY <4>2, <4>3
    <3>3. ASSUME NEW k \in DOMAIN toHost, toHost[k].cmd \in Commands, toHost[k].seq = seq
          PROVE  Coming'
      <4>1. k \in DOMAIN toHost' /\ toHost'[k] = toHost[k]
        BY <1>2, <2>2
      <4> QED BY <1>1, <3>3, <4>1 DEF Coming, objectVars
    <3> QED BY <3>1, <3>2, <3>3 DEF Coming
  <2> QED BY <1>5, <2>3, <2>6, <2>7, <2>8
<1> QED BY <1>6, <1>7

\* A mishap pays for one transmission.
LEMMA PaidMore ==
  ASSUME TypeOK, Paid, Mishap,
         UNCHANGED <<task, pc, attempt, outcome, deviceVars>>
  PROVE  Paid'
<1>1. /\ attempt \in Nat /\ mishaps \in Nat /\ Retries \in Nat /\ mishaps' = mishaps + 1
  BY CpcAssumption DEF TypeOK, Mishap
<1> QED BY <1>1 DEF Paid, deviceVars

LEMMA LoseFrameStep ==
  ASSUME IInv, LoseFrame
  PROVE  IInv'
<1> USE DEF IInv
<1>1. /\ toDev # << >> /\ toDev' = Tail(toDev) /\ Mishap
      /\ UNCHANGED <<taskVars, pc, attempt, outcome, objectVars, future, cut, toHost,
                     deviceVars>>
  BY DEF LoseFrame
<1>2. /\ toHost \in Answering /\ toDev \in Sent /\ Now \in Int /\ Floor \in Int
      /\ Tail(toDev) \in Sent
  BY <1>1, Typed DEF Sent
<1>3. mishaps' \in 0..MaxMishaps
  BY <1>1, CpcAssumption DEF Mishap, TypeOK
<1>4. TypeOK'
  BY <1>1, <1>2, <1>3 DEF TypeOK, Sent, taskVars, objectVars, deviceVars
<1>5. Line(toHost', toDev', Floor', Now')
  <2>1. Line(toHost, Tail(toDev), Floor, Now)
    BY <1>1, <1>2, LineTail
  <2> QED BY <1>1, <2>1 DEF Floor, Now, Base, taskVars
<1>6. Counted' /\ ReturnsTheResponse' /\ Told'
  BY <1>1 DEF Counted, Sending, ReturnsTheResponse, Told, taskVars, objectVars, deviceVars,
              Script
<1>7. Paid'
  BY <1>1, PaidMore DEF taskVars
<1> QED BY <1>4, <1>5, <1>6, <1>7

LEMMA SpoilAnswerStep ==
  ASSUME IInv, SpoilAnswer
  PROVE  IInv'
<1> USE DEF IInv
<1>1. /\ toHost # << >> /\ Mishap
      /\ UNCHANGED <<taskVars, pc, attempt, outcome, objectVars, future, cut, toDev,
                     deviceVars>>
  BY DEF SpoilAnswer
<1>2. /\ toHost \in Answering /\ toDev \in Sent /\ Now \in Int /\ Floor \in Int
      /\ Len(toHost) \in Nat
  BY <1>1, Typed DEF Answering
<1>3. mishaps' \in 0..MaxMishaps
  BY <1>1, CpcAssumption DEF Mishap, TypeOK
<1>4. /\ toHost' \in Answering
      /\ Line(toHost', toDev, Floor, Now)
      /\ \A i \in 1..Len(toHost') : Known(toHost'[i]) =>
            \E j \in 1..Len(toHost) : toHost[j] = toHost'[i]
  <2>1. CASE toHost' = Tail(toHost)
    <3>1. Tail(toHost) = SubSeq(toHost, 1 + 1, Len(toHost)) /\ 1 \in 0..Len(toHost)
      BY <1>1, <1>2 DEF Answering
    <3>2. toHost' = SubSeq(toHost, 1 + 1, Len(toHost))
      BY <2>1, <3>1
    <3>3. Line(toHost', toDev, Floor, Now)
      BY <1>2, <3>1, <3>2, LineSuffix
    <3>4. /\ toHost' \in Answering
          /\ \A i \in 1..Len(toHost') : 1 + i \in 1..Len(toHost) /\ toHost'[i] = toHost[1 + i]
      BY <1>2, <3>1, <3>2, Suffix DEF Answering
    <3> QED BY <3>3, <3>4
  <2>2. ASSUME NEW b \in {Noise, Cut}, toHost' = [toHost EXCEPT ![1] = b]
        PROVE  /\ toHost' \in Answering
               /\ Line(toHost', toDev, Floor, Now)
               /\ \A i \in 1..Len(toHost') : Known(toHost'[i]) =>
                     \E j \in 1..Len(toHost) : toHost[j] = toHost'[i]
    <3>1. /\ toHost' \in Answering /\ Len(toHost') = Len(toHost)
          /\ \A i \in 1..Len(toHost') : toHost'[i] = IF i = 1 THEN b ELSE toHost[i]
      <4> DEFINE S == Frames \cup {Noise, Cut}
      <4>1. b \in S /\ toHost \in Seq(S)
        BY <1>2 DEF Answering
      <4> HIDE DEF S
      <4>2. 1 \in 1..Len(toHost)
        BY <1>1, <1>2 DEF Answering
      <4> QED BY <2>2, <4>1, <4>2, ExceptSeq DEF Answering, S
    <3>2. ~Known(b)
      BY DEF Known, Noise, Cut, Commands
    <3>3. Line(toHost', toDev, Floor, Now)
      BY <1>2, <2>2, LineSpoil
    <3> QED BY <3>1, <3>2, <3>3
  <2> QED BY <2>1, <2>2 DEF SpoilAnswer
<1>5. TypeOK'
  BY <1>1, <1>3, <1>4 DEF TypeOK, Answering, taskVars, objectVars, deviceVars
<1>6. Line(toHost', toDev', Floor', Now')
  BY <1>1, <1>4 DEF Floor, Now, Base, taskVars
<1>7. Counted' /\ ReturnsTheResponse'
  BY <1>1 DEF Counted, Sending, ReturnsTheResponse, taskVars, objectVars, Script
<1>8. Told'
  BY <1>1, <1>4, ToldStays DEF taskVars
<1>9. Paid'
  BY <1>1, PaidMore DEF taskVars
<1> QED BY <1>5, <1>6, <1>7, <1>8, <1>9

LEMMA Inductive == IInv /\ [Next]_vars => IInv'
<1> SUFFICES ASSUME IInv, [Next]_vars PROVE IInv'
  OBVIOUS
<1>1. CASE Begin
  BY <1>1, BeginStep
<1>2. CASE Answered
  BY <1>2, AnsweredStep
<1>3. CASE Timeout
  BY <1>3, TimeoutStep
<1>4. CASE LastTimeout
  BY <1>4, LastTimeoutStep
<1>5. CASE Retry
  BY <1>5, RetryStep
<1>6. CASE Cancelled \/ Entered
  BY <1>6, EndStep
<1>7. CASE Reopen
  BY <1>7, ReopenStep
<1>8. CASE Deliver
  BY <1>8, DeliverStep
<1>9. CASE Obey
  BY <1>9, ObeyStep
<1>10. CASE LoseFrame
  BY <1>10, LoseFrameStep
<1>11. CASE SpoilAnswer
  BY <1>11, SpoilAnswerStep
<1>12. CASE UNCHANGED vars
  <2>1. UNCHANGED <<task, step, results, pc, attempt, outcome, commandSeq, seq, pending, future,
                    cut, toDev, toHost, mishaps, dmode, rebootMode, refused>>
    BY <1>12 DEF vars, taskVars, objectVars, deviceVars
  <2>2. TypeOK' /\ Line(toHost', toDev', Floor', Now')
    BY <2>1 DEF IInv, TypeOK, Floor, Now, Base
  <2>3. Counted' /\ ReturnsTheResponse' /\ Told' /\ Paid'
    BY <2>1 DEF IInv, Counted, Sending, ReturnsTheResponse, Told, Paid, Coming, Script
  <2> QED BY <2>2, <2>3 DEF IInv
<1> QED BY <1>1, <1>2, <1>3, <1>4, <1>5, <1>6, <1>7, <1>8, <1>9, <1>10, <1>11, <1>12
        DEF Next, Host, Done

-----------------------------------------------------------------------------
(***************************************************************************)
(* The theorems.                                                           *)
(***************************************************************************)

\* The invariant holds in every reachable state.
THEOREM Invariance == Spec => []IInv
<1>1. Init => IInv
  BY Initial
<1>2. IInv /\ [Next]_vars => IInv'
  BY Inductive
<1> QED BY <1>1, <1>2, PTL DEF Spec

\* No frame is sent more than Retries + 1 times, the numbers stay in their
\* byte, and no more than the current one is in _pending_frames.
THEOREM TypeCorrect == Spec => []TypeOK
<1>1. IInv => TypeOK
  BY DEF IInv
<1> QED BY <1>1, Invariance, PTL

\* send_unnumbered_frame returns the answer to the command it sent, however
\* late the answers to other transmissions and to another connection are.
THEOREM ResponseReturned == Spec => []ReturnsTheResponse
<1>1. IInv => ReturnsTheResponse
  BY DEF IInv
<1> QED BY <1>1, Invariance, PTL

\* enter_bootloader returns only when the device was reset, into its bootloader
\* unless it had refused that mode, or has refused the reset.
THEOREM Bootloader == Spec => []ReturnsInBootloader
<1>1. IInv => ReturnsInBootloader
  BY DEF IInv, ReturnsInBootloader, Counted, Told
<1> QED BY <1>1, Invariance, PTL

\* Probing a device that listens fails only after more mishaps than there
\* are retries.
THEOREM RetriesEnough == Spec => []RetriesSuffice
<1>1. IInv => RetriesSuffice
  BY CpcAssumption DEF IInv, RetriesSuffice, Paid, TypeOK
<1> QED BY <1>1, Invariance, PTL
=============================================================================
