--------------------------------- MODULE Cpc ---------------------------------
(***************************************************************************)
(* cpc.py: CPCProtocol, as flasher.py uses it on a device that runs CPC.    *)
(* A first connection probes (two properties are read), a second one makes  *)
(* the device reboot into its bootloader (the reboot mode is set, then the  *)
(* device is reset).                                                        *)
(*                                                                         *)
(* A command is sent, and sent again, by one coroutine; its answer is found *)
(* by sequence number in data_received.  Every connection has a protocol    *)
(* object of its own, whose numbers begin at 0.                             *)
(***************************************************************************)
EXTENDS Naturals, Sequences, FiniteSets

CONSTANTS
  Retries,              \* retries of send_unnumbered_frame
  CommandMod,           \* command numbers wrap at this value (256 in the code)
  MaxMishaps            \* bound: frames spoilt and timers that fire too early

ASSUME CpcAssumption ==
  /\ Retries \in Nat
  /\ CommandMod \in Nat /\ CommandMod >= 2
  /\ MaxMishaps \in Nat

VARIABLES
  \* the coroutine
  task,                 \* what the connection is for
  pc,                   \* where send_unnumbered_frame, or its caller, stands
  step,                 \* which of the commands of the task is being sent
  attempt,              \* transmissions of it before the last one
  results,              \* what the commands of the task returned
  outcome,
  \* the protocol object
  commandSeq,           \* _command_seq: the next number
  seq,                  \* the number of the current frame
  pending,              \* the keys of _pending_frames
  future,               \* the result of the current frame's future, or None
  cut,                  \* _buffer begins with a frame that lost its end
  \* the line and the device
  toDev, toHost,
  mishaps,
  dmode,                \* what the device is doing
  rebootMode,           \* what it will do when it is reset
  refused               \* the commands it has answered without obeying them

taskVars   == <<task, step, results>>
objectVars == <<commandSeq, seq, pending>>
deviceVars == <<dmode, rebootMode, refused>>
vars == <<taskVars, pc, attempt, outcome, objectVars, future, cut, toDev, toHost,
          mishaps, deviceVars>>

ProbeCommands == <<"cpcVersion", "appVersion">>

\* Bug: the device is reset before it is told how to come back.
EnterCommandsSwapped == <<"reset", "rebootMode">>

EnterCommands == <<"rebootMode", "reset">>

Script(t) == IF t = "probe" THEN ProbeCommands ELSE EnterCommands

Commands == {"cpcVersion", "appVersion", "rebootMode", "reset"}

\* A frame, in either direction: an answer repeats number and command.
Frames == [seq : 0..(CommandMod - 1), cmd : Commands]
None   == "none"

\* What a spoilt answer leaves: bytes that hold no frame, or the beginning
\* of one, whose header says how much is still to come.
Noise == [seq |-> 0, cmd |-> "noise"]
Cut   == [seq |-> 0, cmd |-> "cut"]

Init ==
  /\ task = "probe" /\ step = 1 /\ results = << >>
  /\ pc = "connected" /\ attempt = 0 /\ outcome = "running"
  /\ commandSeq = 0 /\ seq = 0 /\ pending = {} /\ future = None /\ cut = FALSE
  /\ toDev = << >> /\ toHost = << >>
  /\ mishaps = 0
  /\ dmode \in {"app", "deaf"}
  /\ rebootMode = "application"
  /\ refused = {}

-----------------------------------------------------------------------------
(***************************************************************************)
(* send_unnumbered_frame and its callers.                                  *)
(***************************************************************************)
Frame(n, k) == [seq |-> n, cmd |-> Script(task)[k]]

\* Bug: the number is not advanced.
NextSeqStays(n) == n

NextSeq(n) == (n + 1) % CommandMod

\* Command k is sent for the first time, after what `sent` holds.
SendFirst(k, sent) ==
  /\ step' = k
  /\ seq' = commandSeq
  /\ commandSeq' = NextSeq(commandSeq)
  /\ pending' = (pending \ {seq}) \cup {commandSeq}
  /\ future' = None
  /\ attempt' = 0
  /\ toDev' = Append(sent, Frame(commandSeq, k))
  /\ pc' = "await"
  /\ UNCHANGED outcome

\* send_unnumbered_frame ends without sending anything more, and so does its
\* caller, or there is the delay of enter_bootloader.
EndWith(p, result, sent) ==
  /\ pc' = p
  /\ outcome' = result
  /\ pending' = pending \ {seq}
  /\ toDev' = sent
  /\ UNCHANGED <<step, seq, commandSeq, future, attempt>>

\* The answer is returned; the next command follows without an await.
Return(sent) ==
  /\ results' = Append(results, future)
  /\ IF step < Len(Script(task))
     THEN SendFirst(step + 1, sent)
     ELSE EndWith(IF task = "probe" THEN "closed" ELSE "delay05", outcome, sent)

Begin ==
  /\ pc = "connected"
  /\ SendFirst(1, toDev)
  /\ UNCHANGED <<task, results, cut, toHost, mishaps, deviceVars>>

Answered ==
  /\ pc = "await" /\ future # None
  /\ Return(toDev)
  /\ UNCHANGED <<task, cut, toHost, mishaps, deviceVars>>

\* An answer to the current frame is there, or will be.
Coming ==
  \/ future # None
  \/ dmode = "app" /\ \E k \in DOMAIN toDev : toDev[k].seq = seq
  \/ \E k \in DOMAIN toHost : toHost[k].cmd \in Commands /\ toHost[k].seq = seq

Mishap == mishaps < MaxMishaps /\ mishaps' = mishaps + 1

\* A timer may be early: an answer is late, or has just come.
TimerFires == IF Coming THEN Mishap ELSE UNCHANGED mishaps

\* Bug: one retry too many.
TimeoutOffByOne ==
  /\ pc = "await" /\ attempt <= Retries
  /\ TimerFires
  /\ pc' = "retryDelay"
  /\ UNCHANGED <<taskVars, attempt, outcome, objectVars, future, cut, toDev, toHost,
                 deviceVars>>

Timeout ==
  /\ pc = "await" /\ attempt < Retries
  /\ TimerFires
  /\ pc' = "retryDelay"
  /\ UNCHANGED <<taskVars, attempt, outcome, objectVars, future, cut, toDev, toHost,
                 deviceVars>>

LastTimeout ==
  /\ pc = "await" /\ attempt >= Retries
  /\ TimerFires
  /\ EndWith("end", "timeout", toDev)
  /\ UNCHANGED <<task, results, cut, toHost, deviceVars>>

\* Bug: the retries are not counted.
RetryUncounted ==
  /\ pc = "retryDelay"
  /\ toDev' = Append(toDev, Frame(seq, step))
  /\ pc' = "await"
  /\ UNCHANGED <<taskVars, attempt, outcome, objectVars, future, cut, toHost, mishaps,
                 deviceVars>>

\* The same frame again.  If the answer came during the delay it is returned
\* at once, with the frame sent all the same.
Retry ==
  /\ pc = "retryDelay"
  /\ LET sent == Append(toDev, Frame(seq, step)) IN
       IF future # None
       THEN Return(sent)
       ELSE /\ toDev' = sent
            /\ attempt' = attempt + 1
            /\ pc' = "await"
            /\ UNCHANGED <<step, results, outcome, objectVars, future>>
  /\ UNCHANGED <<task, cut, toHost, mishaps, deviceVars>>

\* PROBE_TIMEOUT of the caller, around enter_bootloader only.
Cancelled ==
  /\ task = "enter" /\ pc \in {"await", "retryDelay", "delay05"}
  /\ EndWith("end", "cancelled", toDev)
  /\ UNCHANGED <<task, results, cut, toHost, mishaps, deviceVars>>

Entered ==
  /\ pc = "delay05"
  /\ EndWith("end", "ok", toDev)
  /\ UNCHANGED <<task, results, cut, toHost, mishaps, deviceVars>>

\* The port is opened again, for a new object.  What had come is dropped;
\* what is still on its way is not.
Reopen ==
  /\ pc = "closed"
  /\ \E k \in 0..Len(toHost) : toHost' = SubSeq(toHost, k + 1, Len(toHost))
  /\ task' = "enter" /\ step' = 1 /\ results' = << >>
  /\ pc' = "connected" /\ attempt' = 0
  /\ commandSeq' = 0 /\ seq' = 0 /\ pending' = {} /\ future' = None /\ cut' = FALSE
  /\ UNCHANGED <<outcome, toDev, mishaps, deviceVars>>

-----------------------------------------------------------------------------
(***************************************************************************)
(* data_received: whole frames are looked up, noise is skipped up to the    *)
(* next flag, and the beginning of a frame waits for what is to follow: the *)
(* next frame then completes it, its checksum is wrong, and the search goes *)
(* on inside it, where that next frame is found.                            *)
(***************************************************************************)
\* The first k of the bytes that are coming arrive.  Of the frames among
\* them the first one with a pending number is the answer to it.
Hits(k) == {i \in 1..k : toHost[i].cmd \in Commands /\ toHost[i].seq \in pending}

Receive(k, hits) ==
  /\ toHost' = SubSeq(toHost, k + 1, Len(toHost))
  /\ IF hits = {}
     THEN UNCHANGED <<pending, future>>
     ELSE \E i \in hits : /\ \A j \in hits : i <= j
                          /\ pending' = pending \ {toHost[i].seq}
                          /\ future' = toHost[i].cmd
  /\ cut' = (toHost[k] = Cut)
  /\ UNCHANGED <<taskVars, pc, attempt, outcome, commandSeq, seq, toDev, mishaps,
                 deviceVars>>

Open == pc \notin {"connected", "closed", "end"}

\* Bug: the search for the next flag begins behind what has just come.
DeliverBlocked ==
  Open /\ \E k \in 1..Len(toHost) : Receive(k, IF cut THEN {} ELSE Hits(k))

Deliver ==
  Open /\ \E k \in 1..Len(toHost) : Receive(k, Hits(k))

-----------------------------------------------------------------------------
(***************************************************************************)
(* The device and the line (external).                                     *)
(***************************************************************************)

\* It obeys a command and answers it; a reset is answered first.  It may refuse
\* to be reset, or to take the reboot mode.  The answer then says so, in a value
\* or status that enter_bootloader does not look at: to it they are the same.
Obey ==
  /\ toDev # << >>
  /\ toDev' = Tail(toDev)
  /\ IF dmode = "app"
     THEN LET f == Head(toDev) IN
            /\ toHost' = Append(toHost, f)
            /\ \/ /\ rebootMode' = IF f.cmd = "rebootMode" THEN "bootloader" ELSE rebootMode
                  /\ dmode' = CASE f.cmd # "reset"             -> "app"
                                [] rebootMode = "bootloader"   -> "bootloader"
                                [] OTHER                       -> "restarted"
                  /\ UNCHANGED refused
               \/ /\ f.cmd \in {"rebootMode", "reset"}
                  /\ refused' = refused \cup {f.cmd}
                  /\ UNCHANGED <<dmode, rebootMode>>
     ELSE UNCHANGED <<toHost, deviceVars>>
  /\ UNCHANGED <<taskVars, pc, attempt, outcome, objectVars, future, cut, mishaps>>

LoseFrame ==
  /\ toDev # << >>
  /\ toDev' = Tail(toDev)
  /\ Mishap
  /\ UNCHANGED <<taskVars, pc, attempt, outcome, objectVars, future, cut, toHost,
                 deviceVars>>

SpoilAnswer ==
  /\ toHost # << >> /\ Head(toHost) \in Frames
  /\ \/ toHost' = Tail(toHost)
     \/ \E rest \in {Noise, Cut} : toHost' = [toHost EXCEPT ![1] = rest]
  /\ Mishap
  /\ UNCHANGED <<taskVars, pc, attempt, outcome, objectVars, future, cut, toDev,
                 deviceVars>>

Done == pc = "end" /\ UNCHANGED vars

Host == \/ Begin \/ Answered \/ Timeout \/ LastTimeout \/ Retry \/ Cancelled
        \/ Entered \/ Reopen

Next == Host \/ Deliver \/ Obey \/ LoseFrame \/ SpoilAnswer \/ Done

\* Coroutine and timers go on, what has arrived is delivered, the device
\* answers.
Spec == Init /\ [][Next]_vars /\ WF_vars(Host) /\ WF_vars(Deliver) /\ WF_vars(Obey)

-----------------------------------------------------------------------------
(***************************************************************************)
(* Properties.                                                             *)
(***************************************************************************)

\* The variables have their types; no frame is sent more than Retries + 1
\* times, and only the current one is waiting for an answer.
TypeOK ==
  /\ task \in {"probe", "enter"} /\ step \in 1..2
  /\ pc \in {"connected", "await", "retryDelay", "delay05", "closed", "end"}
  /\ attempt \in 0..Retries
  /\ results \in Seq(Commands)
  /\ outcome \in {"running", "ok", "timeout", "cancelled"}
  /\ commandSeq \in 0..(CommandMod - 1) /\ seq \in 0..(CommandMod - 1)
  /\ pending \subseteq {seq}
  /\ future \in Commands \cup {None}
  /\ cut \in BOOLEAN
  /\ toDev \in Seq(Frames) /\ toHost \in Seq(Frames \cup {Noise, Cut})
  /\ mishaps \in 0..MaxMishaps
  /\ dmode \in {"app", "deaf", "bootloader", "restarted"}
  /\ rebootMode \in {"application", "bootloader"}
  /\ refused \subseteq {"rebootMode", "reset"}

\* "Send an unnumbered frame to the device and return the response"
\* (cpc.py:332): what a command returns is the answer to that command, not a
\* late answer to one before it.
ReturnsTheResponse ==
  \A k \in DOMAIN results : results[k] = Script(task)[k]

\* enter_bootloader returns only when the device has been reset or has refused
\* to be, and a device restarts into its application only if it has refused the
\* reboot mode: no late answer of the probe, and none to a command sent twice,
\* lets the reset go before the mode is set.
ReturnsInBootloader ==
  /\ outcome = "ok" => dmode \in {"bootloader", "restarted"} \/ "reset" \in refused
  /\ dmode = "restarted" => "rebootMode" \in refused

\* Probing fails for a device that listens only if every transmission of a
\* command came to grief: a spoilt answer costs that one transmission and
\* does not hide the answers behind it.
RetriesSuffice ==
  outcome = "timeout" /\ task = "probe" /\ dmode = "app" => mishaps > Retries

\* Every call ends.
Terminates == <>(pc = "end")
=============================================================================
