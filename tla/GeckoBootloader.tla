--------------------------- MODULE GeckoBootloader ---------------------------
(***************************************************************************)
(* One firmware upload: Flasher.flash_firmware driving the protocol object *)
(* GeckoBootloaderProtocol, whose parser runs as a callback of the event    *)
(* loop, against the menu of the bootloader.  The transfer in the middle is *)
(* that of XmodemCRC, over the same line and with the same receiver.        *)
(*                                                                         *)
(* flash_firmware is one coroutine: pc names the await it is suspended at, *)
(* and an action is the code from one await to the next.  Bytes are moved  *)
(* from the line to the parser by Deliver, in chunks of any size.           *)
(***************************************************************************)
EXTENDS Naturals, Sequences, FiniteSets, SequencesExt

CONSTANTS
  NumBlocks, MaxFailures, NumberMod, MaxFaults, MaxReady,  \* as in XmodemCRC
  MaxProbes             \* max_probe_attempts

ASSUME GeckoAssumption ==
  /\ {NumBlocks, MaxFailures, NumberMod, MaxFaults, MaxReady} \subseteq Nat
  /\ NumberMod >= 2
  /\ MaxProbes \in Nat \ {0}

VARIABLES
  xpc, index, attempt, failure, toDev, toHost, faults, rmode, stored,
  \* the coroutine
  pc,                   \* the await flash_firmware is suspended at
  probes,               \* probe attempts made
  outcome,              \* how flash_firmware ended
  \* the protocol object
  sm,                   \* the state of its StateMachine
  buf,                  \* _buffer: what was received and not yet parsed
  uploadStatus,         \* _upload_status
  \* the port and the device
  connected,            \* the serial port is there
  calm,                 \* a clean line, and no timer beats an answer
  dmode,                \* what the device is running
  image                 \* what the device makes of the image once it has it

xmodem == INSTANCE XmodemCRC

transferVars == <<xpc, index, attempt, failure, toDev, toHost, faults, rmode, stored>>
hostVars   == <<pc, probes, outcome>>
parserVars == <<sm, buf, uploadStatus>>
deviceVars == <<calm, dmode, image>>
ownVars    == <<hostVars, parserVars, deviceVars, connected>>
vars       == <<transferVars, ownVars>>

States == {"WAITING_FOR_MENU", "IN_MENU", "WAITING_XMODEM_READY",
           "XMODEM_READY", "WAITING_UPLOAD_DONE", "UPLOAD_DONE"}

Sleeping  == {"settle", "backoff", "recheck", "rerun"}
AwaitMenu == {"probing", "selecting", "selecting2", "menu", "menuinfo",
              "menuinfo2", "run"}
Waiting   == AwaitMenu \cup {"ready", "status"}

Outcomes == {"running", "ok", "timeout", "transfer", "rejected", "connection"}

\* What the device prints, apart from the answers of the XMODEM receiver.
Printed == {"MENU", "COMPLETE", "ABORTED"}

\* What the host writes, apart from packets.
Command(c) == [kind |-> c, num |-> 0, data |-> 0]
Newline   == Command("newline")
UploadFw  == Command("upload")
RunFw     == Command("run")
EblInfo   == Command("info")
Commands  == {Newline, UploadFw, RunFw, EblInfo}

Init ==
  /\ xmodem!Init
  /\ pc = "settle"
  /\ probes = 0
  /\ outcome = "running"
  /\ sm = "WAITING_FOR_MENU"
  /\ buf = << >>
  /\ uploadStatus = "none"
  /\ connected = TRUE
  /\ calm \in BOOLEAN
  /\ dmode \in {"starting", "menu"}
  /\ image \in {"bootable", "unbootable", "refused"}

-----------------------------------------------------------------------------
(***************************************************************************)
(* The parser: GeckoBootloaderProtocol.data_received.                      *)
(***************************************************************************)
Statuses == {"COMPLETE", "ABORTED"}
FirstStatus(b) == SelectInSeq(b, LAMBDA t : t \in Statuses)

\* The parser's variables after `data` has been received.  Of what stays in
\* the buffer only what a menu or a status ends is kept: the rest matches no
\* pattern, and whether the buffer ends with "C" is decided by what has just come.
Kept(data) == SubSeq(data, 1, SelectLastInSeq(data, LAMBDA t : t \in Printed))

Parse(data) ==
  LET b == buf \o Kept(data)
      found == FirstStatus(b)
      Stay == [sm |-> sm, buf |-> b, status |-> uploadStatus]
  IN CASE sm = "WAITING_FOR_MENU" /\ Contains(b, "MENU") ->
            [Stay EXCEPT !.sm = "IN_MENU", !.buf = << >>]
       [] sm = "WAITING_XMODEM_READY" /\ Last(data) = "C" ->
            [Stay EXCEPT !.sm = "XMODEM_READY", !.buf = << >>]
       [] sm = "WAITING_UPLOAD_DONE" /\ found # 0 ->
            [Stay EXCEPT !.sm = "UPLOAD_DONE",
                         !.buf = SubSeq(b, found + 1, Len(b)),
                         !.status = IF b[found] = "COMPLETE" THEN "complete"
                                                             ELSE "aborted"]
       [] OTHER -> Stay

\* A chunk reaches the protocol, unless the XMODEM reader has its place.
Deliver ==
  /\ connected
  /\ pc \notin {"xmodem", "end"}
  /\ \E k \in 1..Len(toHost) :
       LET parsed == Parse(SubSeq(toHost, 1, k)) IN
         /\ sm' = parsed.sm
         /\ buf' = parsed.buf
         /\ uploadStatus' = parsed.status
         /\ toHost' = SubSeq(toHost, k + 1, Len(toHost))
  /\ UNCHANGED <<xpc, index, attempt, failure, toDev, faults, rmode, stored,
                 hostVars, deviceVars, connected>>

-----------------------------------------------------------------------------
(***************************************************************************)
(* The coroutine.                                                          *)
(***************************************************************************)

\* Something the device was asked for is still coming.
Answering ==
  \/ toDev # << >>
  \/ toHost # << >>
  \/ dmode = "starting"
  \/ dmode = "xmodem" /\ rmode # "receiving"

\* When a timer may run out: if answers are prompt, not before every one of
\* them has come and none of them was the one awaited.
Awaited(p) == CASE p \in AwaitMenu -> "IN_MENU"
                [] p = "ready"     -> "XMODEM_READY"
                [] p = "status"    -> "UPLOAD_DONE"
                [] OTHER           -> "none"

Expired == calm /\ connected => ~Answering /\ sm # Awaited(pc)

\* send_data: what is written to a port that has gone is lost.
Write(cmds) ==
  /\ toDev' = IF connected THEN toDev \o cmds ELSE toDev
  /\ UNCHANGED <<xpc, index, attempt, failure, toHost, faults, rmode, stored>>

Await(p, s) ==
  /\ pc' = p
  /\ sm' = s
  /\ UNCHANGED <<outcome, connected, deviceVars>>

End(result) ==
  /\ pc' = "end"
  /\ outcome' = result
  /\ UNCHANGED <<probes, connected, deviceVars>>

Woken(p) == pc = p /\ sm = Awaited(p)

\* A probe: ebl_info asks for the menu.
Probe ==
  /\ pc \in {"settle", "backoff"}
  /\ Write(<<Newline>>)
  /\ Await("probing", "WAITING_FOR_MENU")
  /\ probes' = probes + 1
  /\ UNCHANGED <<buf, uploadStatus>>

\* Bug: one probe too many.
ProbeTimeoutOffByOne ==
  /\ pc = "probing"
  /\ Expired
  /\ IF probes <= MaxProbes
     THEN Await("backoff", sm) /\ UNCHANGED probes
     ELSE End("timeout") /\ UNCHANGED sm
  /\ UNCHANGED <<transferVars, buf, uploadStatus>>

\* PROBE_TIMEOUT, which is over before the timer inside ebl_info matters.
ProbeTimeout ==
  /\ pc = "probing"
  /\ Expired
  /\ \/ /\ probes < MaxProbes
        /\ Await("backoff", sm)
        /\ UNCHANGED probes
     \/ /\ probes >= MaxProbes
        /\ End("timeout")
        /\ UNCHANGED sm
  /\ UNCHANGED <<transferVars, buf, uploadStatus>>

\* The menu is here: ebl_info asks for the version and, since the state is
\* IN_MENU still, returns without waiting for it.  upload_firmware begins
\* with an ebl_info of its own.
Probed ==
  /\ Woken("probing")
  /\ Write(<<EblInfo, Newline>>)
  /\ Await("selecting", "WAITING_FOR_MENU")
  /\ UNCHANGED <<probes, buf, uploadStatus>>

\* No menu in 2 s: ebl_info asks for the version all the same, and waits.
InfoAnyway ==
  /\ \/ pc = "selecting" /\ Await("selecting2", "WAITING_FOR_MENU")
     \/ pc = "menuinfo"  /\ Await("menuinfo2", "WAITING_FOR_MENU")
  /\ sm # "IN_MENU"
  /\ Expired
  /\ Write(<<EblInfo>>)
  /\ UNCHANGED <<probes, buf, uploadStatus>>

\* ebl_info has returned: "1. upload".
SelectUpload ==
  /\ \/ Woken("selecting")  /\ Write(<<EblInfo, UploadFw>>)
     \/ Woken("selecting2") /\ Write(<<UploadFw>>)
  /\ Await("ready", "WAITING_XMODEM_READY")
  /\ UNCHANGED <<probes, buf, uploadStatus>>

\* The "C" is here: the reader takes the protocol's place.  The image was
\* padded, so that its length is a multiple of the block size.
StartTransfer ==
  /\ Woken("ready")
  /\ xmodem!Start(TRUE)
  /\ Await("xmodem", "WAITING_UPLOAD_DONE")
  /\ uploadStatus' = "none"
  /\ UNCHANGED <<probes, buf>>

\* The transfer goes on while the port is there: a reader that took the place
\* of a protocol whose port had gone already is told nothing, and waits.
TransferStep ==
  /\ pc = "xmodem"
  /\ connected
  /\ \/ xmodem!ReadC
     \/ xmodem!ReplyAck
     \/ xmodem!ReplyNak
     \/ xmodem!ReplyCan
     \/ xmodem!ReplyInvalid
     \/ Expired /\ xmodem!ReplyTimeout
  /\ UNCHANGED ownVars

\* Bug: what the reader still holds is dropped with it.
TransferReturnedDropping ==
  /\ pc = "xmodem"
  /\ xpc = "returned"
  /\ \E k \in 0..Len(toHost) : toHost' = SubSeq(toHost, k + 1, Len(toHost))
  /\ Await("status", sm)
  /\ UNCHANGED <<xpc, index, attempt, failure, toDev, faults, rmode, stored,
                 probes, buf, uploadStatus>>

\* Bug: the status is not waited for.
TransferReturnedAtOnce ==
  /\ pc = "xmodem"
  /\ xpc = "returned"
  /\ Await("menu", "WAITING_FOR_MENU")
  /\ UNCHANGED <<transferVars, probes, buf, uploadStatus>>

\* The transfer returned: the protocol has its place back and is given the k
\* bytes that had arrived.  If the status is among them there is no wait.
TransferReturned ==
  /\ pc = "xmodem"
  /\ xpc = "returned"
  /\ \E k \in 0..Len(toHost) :
       LET parsed == IF k = 0
                     THEN [sm |-> sm, buf |-> buf, status |-> uploadStatus]
                     ELSE Parse(SubSeq(toHost, 1, k))
       IN /\ toHost' = SubSeq(toHost, k + 1, Len(toHost))
          /\ buf' = parsed.buf
          /\ uploadStatus' = parsed.status
          /\ IF parsed.sm = "UPLOAD_DONE"
             THEN Await("menu", "WAITING_FOR_MENU")
             ELSE Await("status", parsed.sm)
  /\ UNCHANGED <<xpc, index, attempt, failure, toDev, faults, rmode, stored, probes>>

TransferRaised ==
  /\ pc = "xmodem"
  /\ xpc = "raised"
  /\ End(IF failure = "connection" THEN "connection" ELSE "transfer")
  /\ UNCHANGED <<transferVars, parserVars>>

StatusRead ==
  /\ Woken("status")
  /\ Await("menu", "WAITING_FOR_MENU")
  /\ UNCHANGED <<transferVars, probes, buf, uploadStatus>>

\* MENU_AFTER_UPLOAD_TIMEOUT: the menu is asked for.
AskForMenu ==
  /\ pc = "menu"
  /\ Expired
  /\ Write(<<Newline>>)
  /\ Await("menuinfo", "WAITING_FOR_MENU")
  /\ UNCHANGED <<probes, buf, uploadStatus>>

\* Bug: the upload status is not looked at.
VerdictUnchecked ==
  /\ \E p \in {"menu", "menuinfo", "menuinfo2"} : Woken(p)
  /\ Write(IF pc = "menuinfo" THEN <<EblInfo, RunFw>> ELSE <<RunFw>>)
  /\ Await("run", "WAITING_FOR_MENU")
  /\ buf' = << >>
  /\ UNCHANGED <<probes, uploadStatus>>

\* The menu is back.  An upload that is not complete is an error; otherwise
\* run_firmware forgets what it has received and selects "2. run".
Verdict ==
  /\ \E p \in {"menu", "menuinfo", "menuinfo2"} : Woken(p)
  /\ LET info == IF pc = "menuinfo" THEN <<EblInfo>> ELSE << >> IN
       IF uploadStatus # "complete"
       THEN Write(info) /\ End("rejected") /\ UNCHANGED <<sm, buf>>
       ELSE /\ Write(info \o <<RunFw>>)
            /\ Await("run", "WAITING_FOR_MENU")
            /\ buf' = << >>
            /\ UNCHANGED probes
  /\ UNCHANGED uploadStatus

\* No menu in RUN_APPLICATION_DELAY: the application is taken to run.
Launched ==
  /\ pc = "run"
  /\ Expired
  /\ End("ok")
  /\ UNCHANGED <<transferVars, parserVars>>

\* The menu reappeared.  After 1.5 s "2" is sent once more, for the state is
\* IN_MENU still, whatever has come since.
MenuReappeared ==
  /\ Woken("run")
  /\ Await("recheck", sm)
  /\ UNCHANGED <<transferVars, probes, buf, uploadStatus>>

RunAgain ==
  /\ pc = "recheck"
  /\ Write(<<RunFw>>)
  /\ Await("rerun", sm)
  /\ buf' = << >>
  /\ UNCHANGED <<probes, uploadStatus>>

\* One second later the call returns: NoFirmwareError is raised inside the
\* try statement that swallows it.
RanAgain ==
  /\ pc = "rerun"
  /\ Expired
  /\ End("ok")
  /\ UNCHANGED <<transferVars, parserVars>>

\* Bug: the wait for the upload status has no timeout.
LongTimeoutNotStatus ==
  /\ pc \in {"selecting2", "ready", "menuinfo2"}
  /\ Expired
  /\ End("timeout")
  /\ UNCHANGED <<transferVars, parserVars>>

\* The waits of 30 s.
LongTimeout ==
  /\ pc \in {"selecting2", "ready", "status", "menuinfo2"}
  /\ Expired
  /\ End("timeout")
  /\ UNCHANGED <<transferVars, parserVars>>

\* The port disappears: the future waited for, or the reader, gets an
\* exception.  A coroutine that sleeps finds out later, or not at all, and so
\* does one whose state has just been reached: its future is done, and setting
\* it again raises out of connection_lost.
Unaware(p) == p \in Sleeping \/ (p \in Waiting /\ Woken(p))

PortLost ==
  /\ connected
  /\ connected' = FALSE
  /\ \/ /\ pc \in Waiting
        /\ ~Unaware(pc)
        /\ pc' = "end" /\ outcome' = "connection"
        /\ UNCHANGED transferVars
     \/ /\ Unaware(pc)
        /\ UNCHANGED <<pc, outcome, transferVars>>
     \/ /\ pc = "xmodem"
        /\ xmodem!ConnectionLost
        /\ UNCHANGED <<pc, outcome>>
  /\ UNCHANGED <<probes, parserVars, deviceVars>>

Host ==
  \/ Probe \/ ProbeTimeout \/ Probed
  \/ InfoAnyway \/ SelectUpload
  \/ StartTransfer \/ TransferStep \/ TransferReturned \/ TransferRaised
  \/ StatusRead \/ AskForMenu \/ Verdict
  \/ Launched \/ MenuReappeared \/ RunAgain \/ RanAgain
  \/ LongTimeout

-----------------------------------------------------------------------------
(***************************************************************************)
(* The device (external).                                                  *)
(***************************************************************************)

\* The bootloader starts; it prints its menu at once or when asked.
DevBoot ==
  /\ dmode = "starting"
  /\ dmode' = "menu"
  /\ toHost' \in {toHost, Append(toHost, "MENU")}
  /\ UNCHANGED <<xpc, index, attempt, failure, toDev, faults, rmode, stored,
                 hostVars, parserVars, connected, calm, image>>

\* While it starts, and once the application runs, no command is obeyed.
DevDeaf ==
  /\ dmode \in {"starting", "app"}
  /\ toDev # << >>
  /\ toDev' = Tail(toDev)
  /\ UNCHANGED <<xpc, index, attempt, failure, toHost, faults, rmode, stored, ownVars>>

\* The menu obeys a command.  "2" starts an application that can boot;
\* otherwise, as for a newline or "3", the menu is printed again.
DevMenu ==
  /\ dmode = "menu"
  /\ toDev # << >>
  /\ toDev' = Tail(toDev)
  /\ LET c == Head(toDev) IN
       /\ dmode' = CASE c = UploadFw                    -> "xmodem"
                     [] c = RunFw /\ image = "bootable" -> "app"
                     [] OTHER                           -> "menu"
       /\ rmode' = IF c = UploadFw THEN "sendC" ELSE rmode
       /\ toHost' = IF c \in Commands /\ dmode' = "menu" THEN Append(toHost, "MENU")
                                                        ELSE toHost
  /\ UNCHANGED <<xpc, index, attempt, failure, faults, stored,
                 hostVars, parserVars, connected, calm, image>>

\* The XMODEM receiver.  It cancels only an image it refuses.
DevXmodem ==
  /\ dmode = "xmodem"
  /\ \/ xmodem!OfferC
     \/ xmodem!Receive /\ (rmode' = "cancelled" => image = "refused")
  /\ UNCHANGED ownVars

\* The transfer is over: the status is printed, sometimes with the menu.
DevFinish ==
  /\ dmode = "xmodem"
  /\ rmode \in {"complete", "cancelled"}
  /\ dmode' = "menu"
  /\ LET status == IF rmode = "complete" /\ image # "refused"
                   THEN "COMPLETE" ELSE "ABORTED"
     IN toHost' \in {Append(toHost, status), toHost \o <<status, "MENU">>}
  /\ UNCHANGED <<xpc, index, attempt, failure, toDev, faults, rmode, stored,
                 hostVars, parserVars, connected, calm, image>>

Device == DevBoot \/ DevDeaf \/ DevMenu \/ DevXmodem \/ DevFinish

\* The line loses anything; it damages packets and their answers.
LineFault ==
  /\ ~calm
  /\ \/ xmodem!LosePacket
     \/ xmodem!LoseAnswer
     \/ pc = "xmodem" /\ (xmodem!DamagePacket \/ xmodem!DamageAnswer)
  /\ UNCHANGED ownVars

\* The call has ended, or waits for a "C" from a port that has gone.
Done ==
  /\ pc = "end" \/ (xpc = "readC" /\ ~connected)
  /\ UNCHANGED vars

Next == Deliver \/ Host \/ PortLost \/ Device \/ LineFault \/ Done

\* The event loop delivers what arrives and runs coroutine and timers.  Nothing
\* is assumed of the device.
Spec == Init /\ [][Next]_vars
             /\ WF_vars(Deliver) /\ WF_vars(Host)

-----------------------------------------------------------------------------
(***************************************************************************)
(* Properties.                                                             *)
(***************************************************************************)

\* The variables have their types: no attempt or probe is counted beyond its
\* bound, and what is on its way in either direction is something its sender
\* sends: menu commands and packets one way, printed text and answers the other.
TypeOK ==
  /\ xpc \in {"idle", "readC", "awaitReply", "returned", "raised"}
  /\ index \in 0..NumBlocks
  /\ attempt \in 0..MaxFailures
  /\ faults \in 0..MaxFaults
  /\ toDev \in Seq(Commands \cup {xmodem!Outgoing(i) : i \in 0..NumBlocks}
                            \cup {xmodem!Damaged})
  /\ toHost \in Seq(Printed \cup xmodem!Answers)
  /\ stored \in Seq(1..NumBlocks)
  /\ pc \in Waiting \cup Sleeping \cup {"xmodem", "end"}
  /\ probes \in 0..MaxProbes
  /\ outcome \in Outcomes
  /\ sm \in States
  /\ buf \in Seq(Printed)
  /\ uploadStatus \in {"none", "complete", "aborted"}
  /\ connected \in BOOLEAN
  /\ dmode \in {"starting", "menu", "xmodem", "app"}

\* flash_firmware succeeds only with an image that the device has in full,
\* in order, and has accepted: neither a stale status nor a stale menu, a
\* lost or damaged packet nor a lost port makes it report success.  And it
\* raises UploadError only for an image the device has refused.
TruthfulVerdict ==
  /\ outcome = "ok" => /\ stored = [k \in 1..NumBlocks |-> k]
                       /\ image # "refused"
  /\ outcome = "rejected" => image = "refused"

\* Each reader gets what is meant for it: the receiver never reads a command
\* of the menu, and the menu never reads a packet of the firmware.
RightReader ==
  toDev # << >> =>
    /\ dmode = "xmodem" => Head(toDev) \notin Commands
    /\ dmode = "menu"   => Head(toDev) \in Commands

\* If nothing goes wrong outside, nothing is reported to have gone wrong:
\* over a clean line, with prompt answers and an image that is not refused,
\* the status and the menus are never missed, in whatever chunks they come,
\* and a bootable image runs when the call returns.  A late "C" is the
\* exception (LateReadyIsHarmless in XmodemCRC).
NothingWrong ==
  calm /\ connected /\ image # "refused" /\ failure # "invalid"

CleanUploadSucceeds ==
  NothingWrong =>
    /\ outcome \in {"running", "ok"}
    /\ outcome = "ok" /\ image = "bootable" => dmode = "app"

\* flash_firmware ends, or comes to rest in the one wait without a timer, that
\* for the "C" of xmodemcrc.py:111: whatever the device does and wherever it
\* falls silent.  (A calm device does not fall silent.)
WaitsOnlyForReady ==
  ~calm => <>(pc = "end") \/ <>[](pc = "xmodem" /\ xpc = "readC")

\* With a device that goes on, flash_firmware ends, whichever timer beats which
\* answer: except where the port went just when the first "C" had been seen,
\* and the reader is never told.
Terminates ==
  WF_vars(Device) => <>(pc = "end") \/ <>[](xpc = "readC" /\ ~connected)

\* run_firmware's comment (gecko_bootloader.py:115-118): old menus are
\* forgotten, so a menu that reappears means the firmware does not start.
MenuReappearsOnlyWithoutFirmware ==
  NothingWrong /\ pc = "recheck" => image # "bootable"

\* run_firmware raises NoFirmwareError if the application does not start
\* (gecko_bootloader.py:172-179), so that the caller can tell its user.
MissingFirmwareReported ==
  NothingWrong /\ outcome = "ok" => dmode = "app"
==============================================================================
