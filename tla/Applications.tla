----------------------------- MODULE Applications -----------------------------
(***************************************************************************)
(* Two of the applications Flasher finds and sends into their bootloader,    *)
(* each with its own protocol over a connection of its own: Spinel for an    *)
(* OpenThread RCP, a command line for a router.                             *)
(***************************************************************************)
EXTENDS Naturals, Sequences

CONSTANTS
  Retries, MaxMishaps,                                  \* as in Spinel
  Settle, StateWait, BootWait, ProbeTimeout, MaxFaults  \* as in Router

ASSUME ApplicationsAssumption ==
  /\ {Retries, MaxMishaps} \subseteq Nat
  /\ {Settle, StateWait, BootWait, ProbeTimeout, MaxFaults} \subseteq Nat
  /\ Settle < ProbeTimeout /\ ProbeTimeout <= BootWait

VARIABLES
  protocol,
  pc, outcome, buf, toDev, toHost, dmode,
  attempt, future, mishaps,
  task, sm, version, clock, deadline, faults

spinelOnly == <<attempt, future, mishaps>>
routerOnly == <<task, sm, version, clock, deadline, faults>>
vars == <<protocol, pc, outcome, buf, toDev, toHost, dmode, spinelOnly, routerOnly>>

spinel == INSTANCE Spinel
router == INSTANCE Router

InitSpinel ==
  /\ protocol = "spinel" /\ spinel!Init
  /\ task = "probe" /\ sm = "STARTUP" /\ version = FALSE
  /\ clock = 0 /\ deadline = 0 /\ faults = 0

InitRouter ==
  /\ protocol = "router" /\ router!Init
  /\ attempt = 0 /\ future = "none" /\ mishaps = 0

Init == InitSpinel \/ InitRouter

Spinel == protocol = "spinel" /\ UNCHANGED <<protocol, routerOnly>>
Router == protocol = "router" /\ UNCHANGED <<protocol, spinelOnly>>

Next ==
  \/ Spinel /\ spinel!Host
  \/ Spinel /\ spinel!Deliver
  \/ Spinel /\ spinel!Obey
  \/ Spinel /\ spinel!Lose
  \/ Spinel /\ spinel!Done
  \/ Router /\ router!Host
  \/ Router /\ router!Deliver
  \/ Router /\ router!Tick
  \/ Router /\ router!Obey
  \/ Router /\ router!Lose
  \/ Router /\ router!Done

\* Coroutines and timers go on, what has arrived at a Spinel connection is
\* delivered and the device answers; a router's connection ends by time alone.
Spec == /\ Init /\ [][Next]_vars
        /\ WF_vars(Spinel /\ spinel!Host) /\ WF_vars(Spinel /\ spinel!Deliver)
        /\ WF_vars(Spinel /\ spinel!Obey)
        /\ WF_vars(Router /\ (router!Host \/ router!Tick))

-----------------------------------------------------------------------------
\* send_frame in probe: the answer returned is the command's own, and only as
\* many mishaps as there are transmissions make it fail.
ProbeReliable == protocol = "spinel" => spinel!ProbeReliable

\* RouterProtocol: a version or a bootloader reported is there, and the success
\* it assumes after 5 s is never assumed under Flasher's limit of 2 s.
EnteredTruthfully == protocol = "router" => router!EnteredTruthfully

\* Every call ends.
Terminates == <>(pc = "end")
=============================================================================
