-------------------------------- MODULE Spinel --------------------------------
(***************************************************************************)
(* spinel.py: SpinelProtocol, as flasher.py uses it on a device that runs   *)
(* an OpenThread RCP.  A first connection probes: one property is read, with *)
(* retries.  A second one sends the reset into the bootloader, unanswered.   *)
(*                                                                         *)
(* On the line a frame is a flag, its two halves and a flag, so that a       *)
(* chunk may end anywhere in it.  Bytes, escapes and the CRC are abstracted: *)
(* two halves that follow each other between flags are a frame.             *)
(***************************************************************************)
EXTENDS Naturals, Sequences, FiniteSets, SequencesExt

CONSTANTS
  Retries,              \* retries of send_frame
  MaxMishaps            \* bound: what is lost or spoilt, early timers, bad cuts

VARIABLES
  pc, attempt, outcome, \* the coroutine
  future,               \* the frame set as the pending future's result, or none
  buf,                  \* _buffer
  toDev, toHost, mishaps,
  dmode

hostVars == <<pc, attempt, outcome>>
vars == <<hostVars, future, buf, toDev, toHost, mishaps, dmode>>

\* The answer carries the id of the command it answers; a notice, which the
\* device sends when it has started, carries 0.
Flag   == <<"flag", 0>>
Noise  == <<"noise", 0>>
Frames == {"answer", "notice"}
Encoded(f) == << Flag, <<f, 1>>, <<f, 2>>, Flag >>

\* Bug: a frame is taken without a look at its id.
AnyPending(f) == TRUE

\* Ids begin at 1 + (1 + 1) % 14 in every connection: 0 is not among them.
Pending(f) == f = "answer"

Init ==
  /\ pc = "connected" /\ attempt = 0 /\ outcome = "running"
  /\ future = "none" /\ buf = << >>
  /\ toDev = << >> /\ toHost \in {<< >>, Encoded("notice")}
  /\ mishaps = 0
  /\ dmode \in {"app", "deaf"}

Mishap(really) == IF really THEN mishaps < MaxMishaps /\ mishaps' = mishaps + 1
                            ELSE UNCHANGED mishaps

-----------------------------------------------------------------------------
(***************************************************************************)
(* What data_received finds in its buffer.                                  *)
(***************************************************************************)
\* Flags at the head are dropped; without another one nothing is decoded yet.
Strip(b) ==
  LET others == {k \in 1..Len(b) : b[k] # Flag}
  IN IF others = {} THEN << >> ELSE SubSeq(b, Min(others), Len(b))

\* The frames in b: the rest of what is between flags does not decode.
FrameAt(b, k, f) ==
  /\ k < Len(b) /\ b[k] = <<f, 1>> /\ b[k + 1] = <<f, 2>>
  /\ k > 1 => b[k - 1] = Flag
  /\ k + 1 < Len(b) => b[k + 2] = Flag

\* Where b holds a frame whose id is pending.
Hits(b) == {k \in DOMAIN b : \E f \in Frames : Pending(f) /\ FrameAt(b, k, f)}

-----------------------------------------------------------------------------
(***************************************************************************)
(* send_frame, and the callers of probe and enter_bootloader.               *)
(***************************************************************************)
Begin ==
  /\ pc = "connected"
  /\ pc' = "await"
  /\ toDev' = Append(toDev, "get")
  /\ UNCHANGED <<attempt, outcome, future, buf, toHost, mishaps, dmode>>

\* The answer may be for another property, or its text without a date code: the
\* assertion or the unpacking fails, and the device is not found.
Answered ==
  /\ pc = "await" /\ future # "none"
  /\ pc' = "closed" /\ outcome' \in {"ok", "unreadable"}
  /\ UNCHANGED <<attempt, future, buf, toDev, toHost, mishaps, dmode>>

\* An answer is there, or will be.
Coming ==
  LET b == Strip(buf \o toHost) IN
    \/ future # "none" \/ (Contains(b, Flag) /\ Hits(b) # {})
    \/ dmode = "app" /\ Contains(toDev, "get")

\* The timer of one second.  It may be early: the answer is late, or has just
\* been set.
Timeout ==
  /\ pc = "await" /\ attempt < Retries
  /\ Mishap(Coming)
  /\ pc' = "retryDelay"
  /\ UNCHANGED <<attempt, outcome, future, buf, toDev, toHost, dmode>>

LastTimeout ==
  /\ pc = "await" /\ attempt >= Retries
  /\ Mishap(Coming)
  /\ pc' = "closed" /\ outcome' = "timeout"
  /\ UNCHANGED <<attempt, future, buf, toDev, toHost, dmode>>

\* Bug: a retry is not counted.
RetryUncounted ==
  /\ pc = "retryDelay"
  /\ pc' = "await"
  /\ toDev' = Append(toDev, "get")
  /\ UNCHANGED <<attempt, outcome, future, buf, toHost, mishaps, dmode>>

Retry ==
  /\ pc = "retryDelay"
  /\ pc' = "await" /\ attempt' = attempt + 1
  /\ toDev' = Append(toDev, "get")
  /\ UNCHANGED <<outcome, future, buf, toHost, mishaps, dmode>>

\* The device was found: later it is sent into its bootloader, without waiting.
\* The entry of that frame is never removed, and gone with the object.
Enter ==
  /\ pc = "closed"
  /\ pc' = "end"
  /\ toDev' = IF outcome = "ok" THEN Append(toDev, "reset") ELSE toDev
  /\ UNCHANGED <<attempt, outcome, future, buf, toHost, mishaps, dmode>>

-----------------------------------------------------------------------------
(***************************************************************************)
(* data_received and frame_received.                                       *)
(***************************************************************************)
First(hits) == {k \in hits : \A j \in hits : k <= j}

\* What is after the last flag is decoded like the rest, and lost if it is
\* only the beginning of an answer.  The first answer sets the future; the
\* next one finds it done, and the exception leaves what is behind it in the
\* buffer.
Received(b, rest) ==
  IF ~Contains(b, Flag)
  THEN buf' = b /\ UNCHANGED <<future, mishaps>>
  ELSE LET sets == IF future = "none" THEN First(Hits(b)) ELSE {}
           late == First(Hits(b) \ sets)
       IN /\ future' \in IF sets = {} THEN {future}
                         ELSE {f \in Frames : \E k \in sets : FrameAt(b, k, f)}
          /\ buf' = IF late = {} THEN << >>
                    ELSE SubSeq(b, 3 + CHOOSE k \in late : TRUE, Len(b))
          /\ Mishap(late = {} /\ Last(b) = <<"answer", 1>> /\ Contains(rest, <<"answer", 2>>))

Deliver ==
  /\ pc \in {"await", "retryDelay"}
  /\ \E k \in 1..Len(toHost) :
       LET rest == SubSeq(toHost, k + 1, Len(toHost)) IN
         /\ Received(Strip(buf \o SubSeq(toHost, 1, k)), rest)
         /\ toHost' = rest
  /\ UNCHANGED <<hostVars, toDev, dmode>>

-----------------------------------------------------------------------------
(***************************************************************************)
(* The device and the line (external).                                     *)
(***************************************************************************)
Obey ==
  /\ toDev # << >>
  /\ toDev' = Tail(toDev)
  /\ toHost' = IF dmode = "app" /\ Head(toDev) = "get" THEN toHost \o Encoded("answer")
                                                       ELSE toHost
  /\ dmode' = IF dmode = "app" /\ Head(toDev) = "reset" THEN "bootloader" ELSE dmode
  /\ UNCHANGED <<hostVars, future, buf, mishaps>>

Lose ==
  /\ \/ toDev # << >> /\ toDev' = Tail(toDev) /\ UNCHANGED toHost
     \/ toHost # << >> /\ toHost' \in {Tail(toHost), <<Noise>> \o Tail(toHost)}
        /\ Head(toHost) # Noise /\ UNCHANGED toDev
  /\ Mishap(TRUE)
  /\ UNCHANGED <<hostVars, future, buf, dmode>>

Done == pc = "end" /\ UNCHANGED vars

Host == Begin \/ Answered \/ Timeout \/ LastTimeout \/ Retry \/ Enter

Next == Host \/ Deliver \/ Obey \/ Lose \/ Done

-----------------------------------------------------------------------------
(***************************************************************************)
(* Properties.                                                             *)
(***************************************************************************)

\* A probe that returns has the answer to its command, not another frame; one
\* that fails although the device listens has seen every transmission come to
\* grief: a chunk that ends inside an answer, noise, a notice or a
\* second answer costs no more than the transmission it belongs to.
ProbeReliable ==
  /\ outcome \in {"ok", "unreadable"} => future = "answer"
  /\ outcome = "timeout" /\ dmode = "app" => mishaps > Retries
=============================================================================
