# Verification of the Inswift Silabs flasher

This directory holds TLA+ models of the flasher (the Python package
`src/src/universal_silabs_flasher` and the graphical front end
`src/src/gui_app.py`), the TLC configurations that check them on small
instances, and TLAPS proofs, for every value of the constants, of the safety
properties the passing runs check: about the XMODEM transfer and the upload around
it, the protocols that talk to an application, what the flasher records of a device
and where it leaves it, the decision to flash, and the threads of the graphical
front end.

The program finds out which firmware a Silicon Labs radio runs, brings the
radio into its Gecko bootloader and uploads an image with XMODEM-CRC over a
serial port.  Everything but the GUI's worker threads runs in one asyncio event
loop: coroutines interleave with `data_received` callbacks, timers and
`connection_lost` only at an `await`.  What makes it hard is the other side of
the serial line: bytes arrive in chunks of any size and late, the device
changes what it runs under the protocol's feet, and nothing but timeouts tells
a lost answer from a slow one.

## Inventory

| Component | State | Operations | Talks to | Hard part | What makes it correct |
|---|---|---|---|---|---|
| `xmodemcrc.py` | block index, retry count, reader's buffer | send image, send one packet and retry | takes the protocol's place on the transport of `gecko_bootloader` | lost, damaged, late packets and answers; numbers that wrap | a call that returns has delivered every block once and in order; progress is true; bounded retries |
| `gecko_bootloader.py` | parser state, `_buffer`, upload status, futures | `probe`, `ebl_info`, `upload_firmware`, `run_firmware` | `xmodemcrc`, `common.StateMachine`, device | stale menus, chunks, timers racing answers, the hand-over to XMODEM and back | no success without an accepted image; no false alarm on a clean line; each reader gets what is meant for it |
| `common.py` | state and futures of `StateMachine` | `wait_for_state`, `connect_protocol`, `put_first`, `pad_to_multiple`, `Version`, flow-control signals | every protocol | futures against timers | a waiter is woken by its state only |
| `flasher.py` | detected type, its baudrate, bootloader baudrate | probe, reset, enter bootloader, flash, write EUI64 | every protocol, reset lines | probing changes what the device runs; resets that do nothing; answers missed | what is recorded is what runs; the device is where the next step needs it |
| `const.py`, `gpio.py` | pin levels | reset patterns | kernel GPIO, UART lines | which of two lines rises first; a pattern broken off | a reset that is completed ends in the bootloader |
| `cpc.py` | next sequence number, pending futures, buffer | unnumbered commands with retries, `probe`, `enter_bootloader` | serial line | framing after noise, late answers, sequence numbers that come round | an answer is taken for the command it answers |
| `spinel.py` | next transaction id, pending futures, HDLC buffer | `send_frame`, `probe`, `enter_bootloader` | serial line | frames cut by a chunk, noise, second answers | the same, and only as many mishaps as transmissions make a probe fail |
| `router.py` | parser state, buffer | activate prompt, version, enter bootloader | serial line | a wait longer than its caller's; any ">" is a prompt | every wait ends; a bootloader or a version reported is there |
| `emberznet.py` | none | connect and disconnect | external `bellows` | outside the repository | always disconnects |
| `flash.py` | command-line options | decide whether to flash, order the probes | `flasher`, `firmware` | a chain of conditions; a command given again after a failure | what is called flashed is; never downgrades unasked; a command repeated flashes once |
| `firmware.py` | none | parse GBL/EBL, metadata | none | malformed images | an image is accepted only when complete |
| `gui_app.py` | `is_running`, widgets, progress | flash, probe, write EUI64, each in a thread with its own event loop | `flasher`, Tk's queue | threads against the UI thread | one task at a time on the port; what is shown last is how it ended |
| packaging | none | build | none | none | not modelled |

## Modules

### `BlockTransfer` and `XmodemCRC`

`BlockTransfer` says what a caller of `send_xmodem128_crc` relies on: blocks are
stored one by one, in order; a call that returns has delivered all; a call that
raises promises nothing about how far it got.

`XmodemCRC` is the sender of `xmodemcrc.py`.  `xpc` is the await the coroutine is
suspended at: `readC` (line 111) or `awaitReply` (line 68).  `index` is the loop's
offset divided by the block size, `attempt` the loop variable of
`send_xmodem128_crc_data`.  `Start`, `ReadC` and the `Reply...` actions are the
stretches of code between two awaits, with every outcome: ACK, NAK (retry or
give up), CAN, an invalid byte, the timeout.  The buffer of the reader and the
line are one queue, `toHost`; `ReadC` clears only the part that has arrived
(`StreamReader`'s buffer is emptied, the wire is not).

The receiver is external: it offers "C" until the first packet reaches it, stores
the block it expects, acknowledges a repeated block without storing it, answers
a damaged packet with NAK, and completes on EOT.  The line may damage or lose a
packet or an answer, at most `MaxFaults` times.  Assumptions: the receiver
answers each packet exactly once and sends no NAK of its own accord; a damaged
answer is never mistaken for an ACK; the CRC finds every damage.

Numbers wrap at `NumberMod`, which is 256 in the code.  The model checks 2, the
smallest that can work, and the proof covers every value from 2.

### `GeckoBootloader`

One call of `Flasher.flash_firmware`, from the open port to its outcome, with the
parser of `GeckoBootloaderProtocol` as a callback.  It instantiates `XmodemCRC`
over the same line and the same receiver, so that a "C" or a status that arrives
at the hand-over is treated as the code does.  `pc` is the await at which
`flash_firmware` is suspended, through all the coroutines it calls; `sm` is the
state of the `StateMachine`; `Deliver` is one call of `data_received` with a
chunk of any length.  `Parse` returns what one call leaves behind, which includes
that a state that is not looked at keeps its data in the buffer.

`PortLost` is `connection_lost`: it gives an exception to the future that is waited
for.  A coroutine that sleeps has no future, and where the awaited state has just been
reached the future is done: `set_exception` on it raises out of `connection_lost`
(`common.py:108-111`), and the coroutine goes on over a port that is not there
(`Unaware`).  If that state was "XMODEM ready", the transfer begins, its reader is told
nothing, and it waits for a "C" for ever.

Several details carry the behaviour: `ebl_info` returns at once when the state is
still `IN_MENU`, so its menu arrives later; the run command clears the buffer and
not the line; the `raise` of `NoFirmwareError` is caught by the `except Exception`
two lines below it.

`calm` is chosen at the beginning.  A calm call sees no fault of the line, and no
timer fires while an answer is still coming, the device is starting, or the state
awaited has been reached: that there is no false alarm is a claim about these
calls (`CleanUploadSucceeds`).  In the others any timer may fire at any moment,
which includes the race of a timer with an answer just parsed.

Assumptions about the device: a newline, "3" or an unknown key prints the menu
again, "2" starts an image that can boot and otherwise prints the menu, a status
is printed when a transfer is over and a menu may come with it.  A menu command
may be lost, but not damaged into another one.  What is written to a port that
has gone is dropped.  Of the text received only menus and statuses matter, because
nothing else is looked for: `Kept` is a chunk up to the last of them.

### `Flasher`

`probe_app_type` with `trigger_bootloader_reset`, `enter_bootloader` and
`write_emberznet_eui64`, for the five ways they are called: `flash` (the command
line), `guiFlash` (reset, then believe), `enterFlash` (a program that uses the
class and enters the bootloader at once), `write` and `guiWrite` (which probes
twice).  `after` is the place `probe_app_type` returns to, `queue` the pairs of
type and baudrate its loop has left, each with its place in the loop (`Attempts`;
`Current` is the first that is left), `targets` and `rates` what
`trigger_bootloader_reset` has left.  `bootProbe` is the local variable and
`bootBaud` the attribute: the code does not always set both.

An attempt to talk to the device is one action: the device `Listens` or does not,
and an attempt is `Missed` when it does not, or when the answer is lost
(`MaxMisses`).  `setup` holds what no step changes: the reset targets configured,
those the adapter really has, the application in the device and the baudrates.
`Fallback` is the RTS/DTR reset after CPC and the router did not
obey; the probe after it changes nothing, because a timeout only warns.
`PortFails` is a port that cannot be opened or an error reported by the device,
everywhere it is not caught, and `ResetFails` and `FallbackFails` a reset that is
broken off.

The reset lines are the patterns of `const.py` as levels of two lines, or as rates
with what is written at them (`Pattern`).  What such a pattern does to a chip is
computed from it (`Run`): a chip starts where its reset line rises, and in its
bootloader if the boot line is low then (`Starts`, external).  Two details of the
code matter.  `_set_signals` writes RTS before DTR, so that reset rises before boot
falls: the chip is taken to sample boot late enough to see the level meant for it;
when boot rises together with reset it may start either program.  And the lines are
released on the way out, by `finally` or by closing the port, so that a pattern
broken off still ends with both lines high: from low reset, that starts the chip
(`CutShort`).  `Lines` is the sequence of levels, with the lines released before and
after; a sequence that ended with reset low would leave the chip `held`, which
`LeftRunning` excludes.

`EnteredOnReturn` allows one exception, `Disobeyed`: EmberZNet and Spinel are taken to
have obeyed without an answer, CPC also when it answers with a refusal, which is not
looked at (or times out where the fallback's lines do nothing), and the router where the
fallback's lines do nothing.  If the command did nothing, and the bootloader's rate is
known, so that nothing is verified, the application still runs; `flash_firmware` then
fails without having touched it.

The device is external: it answers a probe for the type it runs at its
own baudrate and no other.  Whether `flash` keeps what runs is left open here
(`Decide`): that is `FlashCommand`.

### `FlashCommand`

The command `flash` of `flash.py`, given several times in a row to one device, with
any image and any options each time.  `Read` looks the image type up before
anything else, and so raises for a type without an application even with `--force`.
`Probe` stands for all of `probe_app_type`: with resets the application, if there
is one, is started and looked for with `Methods` and `Rates`, which the image's
metadata change (sets, because the order in which they are tried decides nothing
here); if it is not recognised, or does not exist, the bootloader is
found.  `RefuseCross`, `Keep`, `KeepNewer`, `NoVersionToCompare` and `GoOn` are the
chain of `if` and `elif` from line 403 on, in its order.  `Flash` and `FlashFails`
are what `Flasher` and `GeckoBootloader` do.  The bootloader answers only at its own
rate (`BootloaderHeard`).  `Flash` ends with success also for an image that does not
boot (`boots`), which leaves the device in its bootloader without an application.  The
test `app_version is not None` has no counterpart: every probe that finds something
returns a version.  Files that are no image are refused before anything else happens
(lines 331 to 336) and left out.

A version is a list of numbers with the rest of its text: `Less` compares only
numbers, equality everything, `CompatibleWith` a prefix, and `Greater` is what
`total_ordering` makes of the first two.  Images of the bootloader itself are left
out; `FlashAssumption` says so.

### `Spinel`, `Router` and `Applications`

`Spinel` is `SpinelProtocol`: a probe, which reads one property with retries, and a
later reset into the bootloader, which nobody waits for.  On the line a frame is a
flag, its two halves and a flag, so that a chunk may end anywhere in it; `Received`
is `data_received` with `frame_received`: flags at the head are dropped, all
complete frames are decoded, what is behind the last flag is decoded like the
rest and lost if it was only a beginning, and a second answer finds its future
done and leaves the rest of the buffer for the next call.  A mishap is a lost or
spoilt piece, an early timer, or a chunk that ends inside an answer.  The device
answers each command with the id it came with, and may have sent a notice when it
started.  What the answer says may fail the assertion or the unpacking in `probe`
(lines 254 and 260): the outcome `unreadable`.

`Router` is `RouterProtocol` against a router's command line, a bootloader's menu, or
silence.  Its waits are nested (0.5 s to settle, 30 s for a state, 5 s for the
bootloader, and the caller's 2 s around all of them), so time is counted, in half
seconds; `Tick` never passes a timer.  A connection that has seen a prompt by the time
`activate_prompt` is called neither sleeps nor writes (`Prompted` from `start`).  `Limited` and `Cancelled` are two steps,
because the coroutine that is cancelled is woken later, and what arrives in
between is still parsed.

`Applications` has both, one connection at a time.

### `Cpc`

`CPCProtocol` of `cpc.py` as `flasher.py` uses it: a first connection probes
(`ProbeCommands`), a second one, with a protocol object whose numbers begin at 0
again, makes the device reboot into its bootloader (`EnterCommands`).  `pc` is the
await at which `send_unnumbered_frame`, or its caller, is suspended: `await` (line
359), `retryDelay` (line 372), `delay05` (line 245).  `SendFirst` and `Return` are
the code between two awaits, `Return` with the command that follows at once.
`pending` is the dictionary `_pending_frames`, `future` the result of the current
frame's future.  A timer may fire although the answer has come or is coming, which
counts as a mishap; a timer that fires because nothing can come is free.

`Deliver` is one call of `data_received` with any number of the frames that are
coming.  A spoilt answer is lost, leaves noise, or leaves its beginning, which
stays in the buffer until the next frame arrives, fails its checksum then, and is
skipped up to that frame's flag.  This assumes that the next frame is long enough
to complete it; the answers to a command are all of the same length.  `cut`
remembers that the buffer begins with such a piece.

The device is external: it answers each command it receives with the number and
the command it was sent, and obeys it, or refuses the reboot mode or the reset and says
so in the answer's value or status (`refused`), which the code does not look at; a
reset is answered before the restart.  The line keeps its order, and what is on its way when a port is closed may arrive
after it was opened again (`Reopen`).  The program makes at most these two CPC
connections in a row; a third one, after a failed probe, could take a late answer
of the first for its own.

### `GuiTasks`

The threads of `gui_app.py`: the UI thread, and one daemon thread per task.  A
worker's calls into Tk are queued for the UI thread and the worker waits for them
(`Call`, `Serve`); what `update_progress` calls only queues another function, which
runs later (`Update`).  `todo` is what a worker's thread has still to do: its
reports, abstracted to their kind, and then the steps of `finally`, in their order
(`Release` is `is_running = False`).  A click on a button that is disabled or
while a modal dialog is open does nothing; the check of `is_running` before the
confirmation and its assignment after it are two actions.  Log lines, which are
queued like updates, are left out.  What the tasks do with the device is `Flasher`.

## Runs

| Run | Bounds | Shows |
|---|---|---|
| `xmodem` | 3 blocks, 1 failure forgiven, numbers modulo 2, 3 faults, 2 "C"s | the transfer is delivered, in order and once; progress is true; stop and wait; the retry budget; it implements `BlockTransfer`; it ends, or waits for the "C" that has no timer |
| `xmodem_late_ready` | the same, no fault | violation: a late "C" ends the transfer |
| `gecko` | 3 blocks, any chunking; calm, or 2 faults and timers at any time; the port may vanish | the verdict is true, packets and commands reach their own reader, a calm upload succeeds, the call ends, or waits for the "C" that has no timer |
| `gecko_stale_menu` | as `gecko`, calm | violation: an old menu is taken for one that reappears |
| `gecko_no_firmware` | as `gecko`, calm | violation: a device left in its menu is reported as flashed and started |
| `cpc` | 1 retry, numbers modulo 2, 4 mishaps, two connections | each command gets its own answer, the device is reset only towards its bootloader unless it refuses, retries suffice, calls end |
| `gui` | two tasks of any kind, up to 4 reports before the end | one task at a time has the port, the window ends up right, old progress is not shown over new, threads end |
| `flasher` | five callers, six kinds of application, two bootloader rates, each reset target, two in a row or none, all subsets of working resets, 2 misses | what is detected is what runs, bootloaders are entered or the application is untouched, applications are not stopped unnoticed, no chip is held in reset, calls end |
| `flasher_reenter` | as `flasher`, no miss | violation: the second reset is not looked at |
| `flash` | eleven images, 3 commands | what is called flashed is, a command repeated flashes once, nothing is downgraded unasked |
| `flash_bootloader` | as `flash`, 2 commands | violation: the version of the bootloader is compared with the firmware's |
| `applications` | 1 retry and 3 mishaps for Spinel; the code's times and 2 faults for the router | answers are the command's own, retries suffice, a bootloader reported is there, success is never assumed under `Flasher`'s limit, calls end |

Why the bounds are enough.  Three blocks with numbers modulo 2 make a packet
number come round while the block before it may be repeated; one failure forgiven
and three faults reach both the retry that succeeds and the one too many.  Two
faults in `gecko` are a lost answer and a lost retry of it.  Three probes
are the code's own number.  Two "C"s are enough for one to be left after the
first is read.  In `cpc`, two
numbers are the fewest that tell a command from the next one; one retry and four
mishaps make every command of a connection need its retry, or leave two late
answers behind for the next connection.  In `gui` all that can go wrong happens
between a task that ends and the next one (three tasks, with shorter uploads, were
checked once and take a minute).  In `flasher` the lists of baudrates have the shape of the
defaults with small numbers, an application may use a rate that its type is not
probed at, and two misses are enough to miss a device after each of two resets,
or one reset and the command.  The images of `flash` are chosen so that each check
of the chain decides between two of them: versions below, above and equal, a rate
probed by default or not, a type probed by default or not, metadata without rate,
version or type, no metadata, and an image that does not boot; three commands are an upload, one that fails and
a repetition.  In `applications` three mishaps are one more than a probe with one
retry must survive; the router's times are the code's, in half seconds, and only
their order matters.

Fairness.  The event loop runs a coroutine that can go on and its timers (weak
fairness of `Sender`, `Host`, `Step`; in `GuiTasks` of each thread and of the UI
thread's two queues), and bytes that have arrived are delivered (`Deliver`).  The user
need do nothing.  Line faults, a lost port and missed attempts have none.  A router's
call ends by time alone, so neither its line nor its device need be fair.

The specifications of the transfer and of the upload assume nothing of the other side,
because the wait for the first "C" has no timeout (`xmodemcrc.py:111`).
`WaitsOnlyForReady` says what the code guarantees all the same: a call ends, or rests in
that wait, wherever the device falls silent.  `Terminates` has the fairness of the
receiver, or the device, as its hypothesis (`WF_vars(Receiver) => ...`,
`WF_vars(Device) => ...`); in the upload it excepts the port that goes when the "C" has
just been seen.  In `Cpc` and `Applications` the device is fair (`Obey`), although every
wait there has a timer.

## Findings

1. `xmodemcrc.py:117`: clearing the reader's buffer does not clear the line, and a
   later "C" is read as the answer to the first packet (`xmodem_late_ready`).
2. `gecko_bootloader.py:121`: the buffer is cleared before the menu of "3" has
   arrived, so it counts as a menu that reappears (`gecko_stale_menu`).
3. `gecko_bootloader.py:182`: `NoFirmwareError` is swallowed where it is raised
   (`gecko_no_firmware`), and two handlers written for it never run.
4. `flasher.py:300`: the result of the second reset is ignored
   (`flasher_reenter`).  The same reset also makes `enter_bootloader` start the
   application of a device that was already in its bootloader, if the configured
   reset does nothing; `EnteredOnReturn` therefore asks for resets that work.
5. `flash.py:441`: for a device found in its bootloader the version compared is the
   bootloader's.  For an image whose version is below it, and whose metadata name no
   baudrate (or the bootloader's), the command says that the firmware "does not upgrade"
   and leaves the device without one, for example after an upload that failed
   (`flash_bootloader`).

Met while modelling, and not among the runs:

- `cpc.py:239`: the answers to the reboot mode and the reset are not looked at, so a
  refusal counts as success and the fallback of `flasher.py:336` is not taken.
- `flasher.py:300`: where no probe is answered after the bootloader was launched, the
  code assumes that there is "no valid application image" and stops what runs, which
  may be an application of a kind or at a rate that is not probed
  (`ProbingLeavesAppRunning` is about applications that are).
- `flash.py:421`: an image at another baudrate skips the check for downgrades
  (the exception in `NoUnaskedDowngrade`).
- `flash.py:349` raises `KeyError` for a Z-Wave image, also with `--force` (the
  outcome `keyError`); `flash.py:436` raises `AttributeError` for metadata without any
  version (`attributeError`).
- `cpc.py:104`: a CPC frame whose command has no parser raises out of `data_received`.
- `gui_app.py:262`: leaving the graphical front end does not wait for an upload (the
  action `Exit`).

## Proofs

Every invariant and action property that a passing run checks is a theorem, and so
is the refinement of `BlockTransfer`.  What stays with TLC is liveness: see the end
of this section.

### The transfer

`XmodemCRCProofs` proves, for every image length, number of forgiven failures,
modulus of at least 2, number of faults and number of "C"s (`XmodemAssumption`):

- `TypeCorrect`, `Delivered`, `ProgressTrue`, `OneExchange`, `Budget`: the invariants
  of the run `xmodem`;
- `ImplementsTransfer`: the safety part of `XmodemCRC` implements `BlockTransfer`
  under the refinement mapping `Result`.

None of the invariants is inductive alone.  `IInv` adds what ties sender, line and
receiver together: at most one packet or answer is under way and it belongs to
the current packet (`OnTheLine`, `StopAndWait`); an ACK on its way means that the
current packet has been taken (`AnswersTrue`); the receiver is at most one block
ahead (`ProgressTruthful`); it stores in order (`StoredInOrder`); and each
retransmission has been paid for with a fault (`PaidFor`).  With these, that a
repeated packet is not stored again follows from consecutive packet numbers being
different, also where they wrap (`NextNumberDiffers`), which is why the modulus
must be at least 2.

### The upload

`GeckoBootloaderProofs` proves `TypeCorrect`, `VerdictTruthful` and `RightReaders`
(the run's `TypeOK`, `TruthfulVerdict` and `RightReader`) for all these constants and
any number of probes (`GeckoAssumption`), whatever the chunks, and with timers that
fire whenever.  What it needs of packet numbers it takes from `XmodemCRCProofs`, with
the constants of this module put in.

The call goes through four phases, told by `xpc`, and a different part of the line is
constrained in each.  Before the transfer (`BeforeTransfer`) only menus are coming,
then only "C"s, and "1" is the last command sent; this is why the receiver, once it has
been started, finds no command of the menu in front of a packet.  While the first "C"
is waited for (`ReadyPhase`) nothing else is on the line.  During the transfer
(`Transferring`, `OnTheLine`, `Storing`, `AnswersTrue`) the argument is the one of
`XmodemCRC`, except that statuses and menus may follow the last answer, and never
precede it.  After it (`AfterTransfer`) the receiver has all, and nothing is sent to
the menu before a status has been read.  `StatusTrue` goes with all of them: a status
is true from its printing to its reading, on the line, in the buffer and in
`upload_status`.

`GeckoCleanProofs` proves `CleanUploads`: `CleanUploadSucceeds` for at least two
probes.  The hypothesis is needed, because the first probe may be sent before the
bootloader listens; `flash_firmware` makes three (`flasher.py:441`).  That nothing is
missed is a claim about what is still coming, so `Clean`, the part of the invariant for
calls in which nothing has gone wrong outside, says at every await that what it waits
for is on its way: a menu has been printed or asked for (`Asked`), "1" has been sent
(`Selected`), the packet or its acknowledgement is on the line (`Acknowledging`), the
status is (`StatusComing`), and "2" starts the application last (`AppRunsLast`).  Two
facts carry the steps: what has gone wrong stays wrong (`WrongStays`), and the parser
overlooks nothing, wherever the chunks are cut (`Heard`, `Caught`).

### The applications' protocols

`CpcProofs` proves, for every number of retries, every modulus of at least 2 and
every number of mishaps (`CpcAssumption`): `TypeCorrect`, `ResponseReturned`,
`Bootloader` and `RetriesEnough`, the invariants of the run `cpc`.  A number alone
does not identify a command, so the argument goes over the order of the line:
give the four commands the ranks 1 to 4 in which they are first sent; then what is
coming back, followed by what is on its way out, never decreases in rank (`Line`).
While a command is unanswered only its own rank and the one before it are left
there, and these have different numbers; so the answer found under the pending
number is the right one, and when it is found nothing of the rank before is left
behind it (`Found`).  `Told` says that the device has done, or refused, what the answered
commands asked, and `Paid` that each transmission of a probe was paid for by a
mishap unless it can still be answered.

`ApplicationsProofs` proves `ProbesReliable` and `RouterTruthful`
(`ApplicationsAssumption`), the invariants of the run `applications`.

For Spinel (`SpinelInv`), any number of retries: a transmission is `Sure` if the
command is on its way, or an answer is whole in what is buffered and what is coming,
or has been taken; `Paid` says that every transmission before the present one cost a
mishap, and the present one too if it is not sure.  The work is in the lemmas on
`Received`: a chunk that ends between answers decodes the first that is whole, and a
chunk that ends inside one is itself a mishap.

For the router (`RouterInv`), any times under which the limit of `Flasher` is not longer
than the wait for the bootloader: a bootloader's name that is read while none runs was
printed before the connection, comes first and is dropped with the first prompt
(`NoStaleMenu`); a connection that probes reboots nothing (`ProbeOnly`); and the
caller's limit ends the call before the wait for the bootloader can end in the
assumption that it was entered (`Waiting`, `InTime`).

### The flasher

`FlasherProofs` proves the run's invariants for any baudrates, probe methods and
reset targets, whichever resets work, and any number of misses (`FlasherAssumption`).

`BootBaudRecorded` and `ProbeTruthful` are about what is recorded.  Their invariant says that what was learnt about the
bootloader's rate is true (`RatesLearnt`), and that in the second reset, whose
result nobody looks at, the device is in its bootloader as soon as one of the
configured resets was made (`SecondReset`).  That rests on `PatternsReset`: every
pattern of `const.py`, carried out whole, leaves a chip in its bootloader, which is
proved from the levels of its lines.

`NeverHeld` says that no chip is left in reset: every sequence of levels ends with the
lines released (`Lines`), after any number of steps, so `Run` never ends with `held`
(`RunOutcomes`, `ModesAfter`).

`ProbingHarmless`, `Entered` and `ReachableSucceeds` are about where the device is left,
and need to know where the call is.  `Flow` relates the task, the await and the place
`probe_app_type` returns to.  `AppRuns` follows an application that can be probed: it
runs throughout, but for a reset that the probes are sure to undo, because its own
attempt, or the bootloader's before it, is still in `queue`.  Where something was missed
`ProbingHarmless` needs less: an application that was detected is the one that runs
(`Recorded`), and nothing is left in reset.  `Entered` holds for any number of misses
(`EnterInv`): before the verification the device has obeyed, has been reset, or is
`Disobeyed` (`Entering`), and the verification ends in the bootloader because it was found
there, or because the last reset put it there (`Verifying`).  `Course` does the same
for calls in which nothing is missed and resets work: at each await what runs is known,
and what runs can still be found (`Place`), so a call fails only on a device that
cannot be reached.  Stating the last theorem for all constants showed that `Reachable`
had been too generous where the probe methods are given without the bootloader: a
device in its bootloader is then found only by a reset.

### The command

`FlashCommandProofs` proves `Kept` and `NotDowngraded` for any images, options,
bootloader, probe methods and rates, and any number of commands (`FlashAssumption`).
The invariant carries what was found, and why it is to be flashed, from the probe
to the upload (`FoundTruthful`, `ToBeFlashed`).  The second theorem needs
`BelowCompatible`: a version below the one in the metadata, and not a prefix of it,
is below every application whose version begins with the one in the metadata.
That the application tells at least the numbers of the metadata
(`SelfDescribing`) cannot be dropped: an image that calls itself 7.3.1, whose
application reports only 7, would replace a 7.2, which is not below 7.

`RepeatedOnce` proves `RepeatKeeps` under the same assumptions: once a command has
flashed an image that boots, and until its repetition has ended, the device is what the image makes of it
(`OnceMore`); it is recognised, because its type and its rate are among those that are
tried (`RepeatableRecognised`), and then each check of the chain keeps it.

### The front end

`GuiTasksProofs` proves `PortOfOneTask` for any number of tasks and reports
(`GuiAssumption`).  Its invariant adds that a thread releases the port once and
never while one of its calls waits for the UI thread, that no thread has two calls
waiting, and that no task runs behind an open confirmation: this last part is what
makes a check before the dialog and an assignment after it sufficient.

`SettlesRight` and `NewsInOrder` are about what the window shows, and add (`SInv`): only
the task that has the port has reports left, they precede its `finally`, and the last of
them is its verdict (`Reporting`); when none is left, the verdict is shown or is the last
report queued (`LastNews`); reports are queued in the order of their tasks (`InOrder`);
and a button that is disabled will be enabled by some thread (`ToBeEnabled`).

What the proofs rely on besides the constants' assumptions is the external part of
the modules: receiver, device, chip and line as described above.

### What is not proved

`WaitsOnlyForReady` and `Terminates` of `XmodemCRC` and `GeckoBootloader`, `Terminates`
of `Cpc`, `Flasher` and `Applications`, and `TasksEnd` of `GuiTasks`, are only
model-checked: temporal reasoning about fairness and ENABLED is beyond the prover used.  So is induction over data; where a proof needs the
first element of a sequence with some property, it takes the least element of a set of
numbers from the well-foundedness of their order (`LeastNat`).  The properties of the
runs that expect a violation are false, and not theorems of anything.

## Not modelled, and the plan

Not modelled: CRC and byte layouts, the tags and checksums of images, log output,
option parsing, widgets, packaging, the memory handling of the transport's writer,
`bellows` with the context manager around it (`emberznet.py`), the commands that only
read (`dump-gbl-metadata`, `dump_emberznet_config`), and images of the bootloader
itself in `flash`.  `probe` and `write-ieee` are modelled as callers in `Flasher`.
`cpc_types.py` and `spinel_types.py` are tables of identifiers.  What `force` does in
`write_emberznet_eui64` is passed on to the command that writes, and not modelled.

What could follow, in this order:

1. The choice of port and file in `GuiTasks`, which the worker reads after the
   click has checked it (`gui_app.py:614`).
2. A bound on the number of steps of each call, as a safety property: the part of
   termination that could be proved.
3. `FlashCommand` over `Flasher` instead of over `Probe`: the probe of the one as a
   refinement of the calls of the other.
