-------------------------------- MODULE Router --------------------------------
(***************************************************************************)
(* router.py: RouterProtocol over one connection, against the command line   *)
(* of a router firmware or, if that is what runs, the menu of a bootloader.  *)
(* A connection probes or enters the bootloader.  The waits are of different *)
(* lengths and nested, so time is counted, in half seconds.                  *)
(***************************************************************************)
EXTENDS Naturals, Sequences, SequencesExt

CONSTANTS
  Settle,               \* the sleep of activate_prompt
  StateWait,            \* default timeout of wait_for_state
  BootWait,             \* timeout of the wait for the bootloader
  ProbeTimeout,         \* PROBE_TIMEOUT, around either call
  MaxFaults             \* bound: commands and texts lost

VARIABLES
  task,                 \* what the connection is for, and whose it is
  pc,                   \* the await the coroutine is suspended at
  sm, buf, version,     \* the protocol object
  clock, deadline,      \* time; when the wait of pc is over
  outcome,
  toDev, toHost, faults,
  dmode                 \* what the device runs

vars == <<task, pc, sm, buf, version, clock, deadline, outcome, toDev, toHost,
          faults, dmode>>

\* Flasher limits both calls; a program that uses the class may not.
Tasks  == {"probe", "enter", "enterAlone"}
Limits == [t \in Tasks |-> IF t = "enterAlone" THEN {} ELSE {ProbeTimeout}]

\* What the device prints: a prompt (">"), its version, "Gecko Bootloader".
\* What it printed before may still be on its way when the port is opened.
Texts == {"prompt", "version", "bootloader"}
Menu  == <<"bootloader", "prompt">>

Init ==
  /\ task \in Tasks
  /\ pc = "start" /\ sm = "STARTUP" /\ buf = << >> /\ version = FALSE
  /\ clock = 0 /\ deadline = 0
  /\ outcome = "running"
  /\ toDev = << >> /\ toHost \in {<< >>, <<"prompt">>, Menu} /\ faults = 0
  /\ dmode \in {"app", "bootloader", "deaf"}

-----------------------------------------------------------------------------
(***************************************************************************)
(* data_received: each state looks for its text, and drops all when found.   *)
(***************************************************************************)
\* Bug: any prompt is taken for the bootloader's.
AwaitedPrompt(s) == CASE s = "STARTUP"  -> {"prompt"}
                      [] s = "INFO"     -> {"version"}
                      [] s = "BOOTWAIT" -> {"bootloader", "prompt"}
                      [] s = "READY"    -> Texts

Awaited(s) == CASE s = "STARTUP"  -> {"prompt"}
                [] s = "INFO"     -> {"version"}
                [] s = "BOOTWAIT" -> {"bootloader"}
                [] s = "READY"    -> Texts

\* Also when the future of the state was cancelled by its timer and is still in
\* the list: the state is assigned before set_result raises.
Deliver ==
  /\ pc # "end"
  /\ \E k \in 1..Len(toHost) :
       LET b == buf \o SubSeq(toHost, 1, k) IN
         /\ toHost' = SubSeq(toHost, k + 1, Len(toHost))
         /\ IF ToSet(b) \cap Awaited(sm) # {}
            THEN /\ sm' = "READY" /\ buf' = << >>
                 /\ version' = (version \/ sm = "INFO")
            ELSE buf' = b /\ UNCHANGED <<sm, version>>
  /\ UNCHANGED <<task, pc, clock, deadline, outcome, toDev, faults, dmode>>

-----------------------------------------------------------------------------
(***************************************************************************)
(* The coroutine.                                                          *)
(***************************************************************************)
Wait(p, s, command, limit) ==
  /\ pc' = p /\ sm' = s /\ toDev' = Append(toDev, command)
  /\ deadline' = clock + limit
  /\ UNCHANGED outcome

End(result) ==
  /\ pc' = "end" /\ outcome' = result
  /\ UNCHANGED <<toDev, deadline>>

Others == UNCHANGED <<task, buf, version, clock, toHost, faults, dmode>>

\* activate_prompt, unless a prompt has come since the port was opened.
Begin ==
  /\ pc = "start" /\ sm = "STARTUP"
  /\ pc' = "settle" /\ deadline' = clock + Settle
  /\ UNCHANGED <<sm, toDev, outcome>>
  /\ Others

\* A prompt that came during the sleep ends the wait at once.
Enter ==
  /\ pc = "settle" /\ clock = deadline
  /\ Wait("prompt", sm, "enter", StateWait)
  /\ Others

Prompted ==
  /\ pc \in {"start", "prompt"} /\ sm = "READY"
  /\ IF task = "probe" THEN Wait("info", "INFO", "version", StateWait)
                       ELSE Wait("boot", "BOOTWAIT", "reboot", BootWait)
  /\ Others

Informed ==
  /\ pc = "info" /\ sm = "READY"
  /\ End(IF version THEN "ok" ELSE "assertion") /\ UNCHANGED sm
  /\ Others

Booted ==
  /\ pc = "boot" /\ sm = "READY"
  /\ End("ok") /\ UNCHANGED sm
  /\ Others

\* The caller's limit is reached first, or at the same time: wherever the
\* coroutine waits, the future is cancelled; the coroutine is woken later.
Limited ==
  /\ pc \in {"prompt", "info", "boot"} /\ clock \in Limits[task]
  /\ pc' = "cancelled"
  /\ UNCHANGED <<sm, toDev, deadline, outcome>>
  /\ Others

Cancelled ==
  /\ pc = "cancelled"
  /\ End("timeout") /\ UNCHANGED sm
  /\ Others

\* The wait itself is over: an error, but for the bootloader, which is assumed
\* to have started.
Expired ==
  /\ pc \in {"prompt", "info", "boot"} /\ clock = deadline /\ clock \notin Limits[task]
  /\ IF pc = "boot" THEN End("assumed") /\ sm' = "READY"
                    ELSE End("timeout") /\ UNCHANGED sm
  /\ Others

\* Time passes, but not beyond a timer.
Tick ==
  /\ pc \notin {"cancelled", "end"}
  /\ clock < deadline /\ clock \notin Limits[task]
  /\ clock' = clock + 1
  /\ UNCHANGED <<task, pc, sm, buf, version, deadline, outcome, toDev, toHost,
                 faults, dmode>>

-----------------------------------------------------------------------------
(***************************************************************************)
(* The device (external).  A router answers with its prompt; a bootloader    *)
(* takes anything for an unknown key and prints its menu.                   *)
(***************************************************************************)
Obey ==
  /\ toDev # << >>
  /\ toDev' = Tail(toDev)
  /\ dmode' = IF dmode = "app" /\ Head(toDev) = "reboot" THEN "bootloader" ELSE dmode
  /\ toHost' = toHost \o
       CASE dmode' = "bootloader" -> Menu
         [] dmode' = "deaf"       -> << >>
         [] dmode' = "app"        -> IF Head(toDev) = "version" THEN <<"version", "prompt">>
                                                                ELSE <<"prompt">>
  /\ UNCHANGED <<task, pc, sm, buf, version, clock, deadline, outcome, faults>>

Lose ==
  /\ faults < MaxFaults /\ faults' = faults + 1
  /\ \/ toDev # << >> /\ toDev' = Tail(toDev) /\ UNCHANGED toHost
     \/ toHost # << >> /\ toHost' = Tail(toHost) /\ UNCHANGED toDev
  /\ UNCHANGED <<task, pc, sm, buf, version, clock, deadline, outcome, dmode>>

Done == pc = "end" /\ UNCHANGED vars

Host == \/ Begin \/ Enter \/ Prompted \/ Informed \/ Booted
        \/ Limited \/ Cancelled \/ Expired

Next == Host \/ Deliver \/ Tick \/ Obey \/ Lose \/ Done

-----------------------------------------------------------------------------
(***************************************************************************)
(* Properties.                                                             *)
(***************************************************************************)

\* Whoever is told that the bootloader was entered can rely on it, and a probe
\* that returns has the version of a router: a prompt that comes late, or the
\* menu of a bootloader in a router's place, is not mistaken for either.  That
\* success is assumed never happens to Flasher, whose limit is shorter.
EnteredTruthfully ==
  /\ outcome = "ok" => IF task = "probe" THEN version /\ dmode = "app"
                                         ELSE dmode = "bootloader"
  /\ outcome = "assumed" => task = "enterAlone"
  /\ outcome # "assertion"
=============================================================================
