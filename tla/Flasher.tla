------------------------------- MODULE Flasher -------------------------------
(***************************************************************************)
(* flasher.py: finding out what a device runs, resetting it, bringing it   *)
(* into its bootloader, flashing it and writing its EUI64, for the three    *)
(* callers the program has: the command line, the GUI and a program that   *)
(* uses the class.                                                         *)
(*                                                                         *)
(* A Flasher is one coroutine.  An action is one attempt to talk to the    *)
(* device (a probe at one baudrate, a reset, a command) with the code that  *)
(* acts on its result.  What happens inside an attempt is the business of   *)
(* the protocols: here a device that listens answers, or the attempt is    *)
(* missed and times out.  flash_firmware is GeckoBootloader's; only whether *)
(* it meets a bootloader matters here.                                     *)
(***************************************************************************)
EXTENDS Naturals, Sequences, FiniteSets, SequencesExt

CONSTANTS
  Baudrates,            \* _baudrates: the rates to try for each type, in order
  ProbeMethods,         \* _probe_methods: the types to try, in order
  TargetChoices,        \* the sequences of reset targets a user may configure
  MaxMisses             \* bound: attempts that fail although the device listens

ResetTargets == {"yellow", "ihost", "slzb07", "rts_dtr", "baudrate"}

Apps  == {"CPC", "EZSP", "SPINEL", "ROUTER"}
Types == Apps \cup {"GECKO"}
Rates == UNION {ToSet(Baudrates[t]) : t \in Types}

ASSUME FlasherAssumption ==
  /\ Baudrates \in [Types -> Seq(Nat \ {0})]
  /\ \A t \in Types : Baudrates[t] # << >>
  /\ ProbeMethods \in Seq(Types)
  /\ TargetChoices \subseteq Seq(ResetTargets)
  /\ MaxMisses \in Nat

None == 0               \* no baudrate, or no probe result

VARIABLES
  \* the object
  appType, appBaud,     \* app_type, app_baudrate
  bootBaud,             \* bootloader_baudrate
  \* the coroutine
  task,                 \* which of the callers runs
  pc,                   \* where it stands
  after,                \* where probe_app_type returns to
  queue,                \* the pairs of type and baudrate its loop has left
  runFw,                \* its local run_firmware
  bootProbe,            \* its local bootloader_probe: the baudrate, or None
  targets, rates,       \* what trigger_bootloader_reset has left to try
  outcome,
  \* the device
  mode,                 \* what it runs
  ieee,                 \* its EUI64: the one to be written, or another
  misses,
  setup                 \* how device, adapter and user's options are

objectVars == <<appType, appBaud, bootBaud>>
probeVars  == <<after, queue, runFw, bootProbe>>
resetVars  == <<targets, rates>>
deviceVars == <<mode, ieee, setup>>
vars == <<objectVars, task, pc, probeVars, resetVars, outcome, deviceVars, misses>>

Writes == {"write", "guiWrite"}
Tasks  == {"flash", "guiFlash", "enterFlash"} \cup Writes

Setups == [targets : TargetChoices,                 \* bootloader_reset
           wired   : SUBSET ResetTargets,           \* the resets that work
           app     : Apps \cup {"other", "none"},   \* the application flashed
           appBaud : Rates, bootBaud : Rates,       \* the rates of the device
           start   : {"app", "bootloader"}]         \* what it runs at first

\* The GUI configures its own Flasher objects.
TargetsOf(t, chosen) ==
  CASE t = "guiFlash" -> chosen = <<"rts_dtr">>
    [] t = "guiWrite" -> chosen = << >>
    [] OTHER          -> TRUE

Methods == IF task = "guiWrite" THEN <<"EZSP", "GECKO">> ELSE ProbeMethods

\* Choices nothing depends on are left at one value.
Relevant(s, t) ==
  /\ s.bootBaud \in ToSet(Baudrates["GECKO"])
  /\ s.app = "none" => s.start = "bootloader"
  /\ s.app \notin Apps => s.appBaud = s.bootBaud
  /\ s.wired \subseteq ToSet(s.targets) \cup {"rts_dtr"}
  /\ TargetsOf(t, s.targets)

\* What runs once the bootloader has been told to run the application.
Application == IF setup.app = "none" THEN "GECKO" ELSE setup.app

Init ==
  /\ task \in Tasks
  /\ setup \in {s \in Setups : Relevant(s, task)}
  /\ appType = "none" /\ appBaud = None /\ bootBaud = None
  /\ pc = "start"
  /\ after = "none" /\ queue = {} /\ runFw = FALSE /\ bootProbe = None
  /\ targets = << >> /\ rates = << >>
  /\ outcome = "running"
  /\ mode = IF setup.start = "app" THEN Application ELSE "GECKO"
  /\ ieee \in IF task \in Writes THEN {"old", "new"} ELSE {"old"}
  /\ misses = 0

-----------------------------------------------------------------------------
(***************************************************************************)
(* Attempts.                                                               *)
(***************************************************************************)

\* The device would answer a probe for type t at rate b.
Listens(t, b) ==
  /\ mode = t
  /\ b = IF t = "GECKO" THEN setup.bootBaud ELSE setup.appBaud

Heard(t, b) == Listens(t, b) /\ UNCHANGED misses

\* It does not, or its answer is lost or late.
Missed(t, b) ==
  IF Listens(t, b)
  THEN misses < MaxMisses /\ misses' = misses + 1
  ELSE UNCHANGED misses

\* Something fails that need not.
Mishap == misses < MaxMisses /\ misses' = misses + 1

-----------------------------------------------------------------------------
(***************************************************************************)
(* The reset lines.  What trigger_bootloader does is a sequence of steps:   *)
(* levels of two lines, or rates the port is opened at with what is written. *)
(***************************************************************************)
\* RESET_CONFIGS.  Pins 24, 27 and 5 and DTR are boot; 25, 26 and 4 and RTS are
\* reset.  A flow control signal that is set pulls its line low.
Levels(boot, reset) == [boot |-> boot, reset |-> reset]
At(rate, written)   == [rate |-> rate, written |-> written]

Pattern(target) ==
  CASE target \in {"yellow", "ihost", "slzb07"} ->
         << Levels(TRUE, TRUE), Levels(FALSE, FALSE), Levels(FALSE, TRUE),
            Levels(TRUE, TRUE) >>
    [] target = "rts_dtr" ->
         << Levels(TRUE, FALSE), Levels(FALSE, TRUE), Levels(TRUE, TRUE) >>
    [] target = "baudrate" ->
         << At(150, "nothing"), At(300, "nothing"), At(1200, "BZ") >>

\* Nothing pulls a line low.
Idle == Levels(TRUE, TRUE)

\* Bug: the lines keep their last levels when the pattern is broken off.
LinesLeft(steps) == <<Idle>> \o steps

\* The levels of the lines before, during and after some steps of a pattern:
\* send_gpio_pattern makes the pins inputs again at the end, whatever has
\* happened, and closing the port releases the others.
Lines(steps) == <<Idle>> \o steps \o <<Idle>>

\* A chip starts when reset rises, slowly: _set_signals writes RTS before DTR,
\* and boot is low in time.  It starts in its bootloader if boot is low then;
\* if boot rises with reset, in either.
Starts(level, next) ==
  IF ~level.reset /\ next.reset
  THEN CASE ~next.boot              -> {"GECKO"}
         [] level.boot /\ next.boot -> {"app"}
         [] OTHER                   -> {"app", "GECKO"}
  ELSE {}

\* Where a chip starts in a sequence of levels.
Rises(level) == {k \in 1..(Len(level) - 1) : Starts(level[k], level[k + 1]) # {}}

\* What a chip may be running after the first n steps of a pattern: nothing, if
\* reset is low at the end.
Run(target, n) ==
  IF target = "baudrate"
  THEN IF \E k \in 1..n : Pattern(target)[k] = At(1200, "BZ") THEN {"GECKO"} ELSE {"same"}
  ELSE LET level == Lines(SubSeq(Pattern(target), 1, n))
           first == Min(Rises(level))
       IN CASE ~Last(level).reset -> {"held"}
            [] Last(level).reset /\ Rises(level) = {}  -> {"same"}
            [] Last(level).reset /\ Rises(level) # {} -> Starts(level[first], level[first + 1])

ResetBy == [target \in ResetTargets |-> Run(target, Len(Pattern(target)))]

\* An error on the way breaks the pattern off.
CutShort ==
  [target \in ResetTargets |-> UNION {Run(target, n) : n \in 0..Len(Pattern(target))}]

\* What runs after a reset, if the adapter has the lines.
ModeAfter(target, starts) ==
  IF target \notin setup.wired THEN {mode}
  ELSE {CASE m = "app" -> Application [] m = "same" -> mode [] OTHER -> m :
          m \in starts[target]}

ModeAfterReset(target) == ModeAfter(target, ResetBy)

Finish(result) ==
  /\ pc' = "end"
  /\ outcome' = result

Goto(p) ==
  /\ pc' = p
  /\ UNCHANGED outcome

-----------------------------------------------------------------------------
(***************************************************************************)
(* probe_app_type and trigger_bootloader_reset.                            *)
(***************************************************************************)
\* What the loop will try, each pair with its place: the types to try first, in
\* the order given, then the others; every type at its rates in their order.
Attempts(types, first) ==
  UNION {{[type |-> types[k], baud |-> Baudrates[types[k]][j],
           place |-> <<IF types[k] \in first THEN 1 ELSE 2, k, j>>] :
             j \in DOMAIN Baudrates[types[k]]} : k \in DOMAIN types}

NotAfter(p, q) ==
  \/ p[1] < q[1]
  \/ p[1] = q[1] /\ p[2] < q[2]
  \/ p[1] = q[1] /\ p[2] = q[2] /\ p[3] <= q[3]

\* The pair whose turn it is.
Current == CHOOSE a \in queue : \A b \in queue : NotAfter(a.place, b.place)

\* The call: the bootloader found is told to run the application only if it
\* can be entered again and there is something else to probe.
ProbeAppType(types, first, return) ==
  /\ queue' = Attempts(types, first)
  /\ runFw' = (setup.targets # << >> /\ types # <<"GECKO">>)
  /\ bootProbe' = None
  /\ after' = return
  /\ targets' = setup.targets /\ rates' = << >>
  /\ Goto("reset1")

Reset ==
  /\ pc \in {"reset1", "reset2"}
  /\ rates = << >> /\ targets # << >>
  /\ mode' \in ModeAfterReset(Head(targets))
  /\ targets' = Tail(targets)
  /\ rates' = Baudrates["GECKO"]
  /\ UNCHANGED <<objectVars, task, pc, probeVars, outcome, ieee, setup, misses>>

\* Bug: a probe that timed out is repeated at the same rate.
ResetMissedAgain ==
  /\ pc \in {"reset1", "reset2"}
  /\ rates # << >>
  /\ Missed("GECKO", Head(rates))
  /\ UNCHANGED <<objectVars, task, pc, probeVars, resetVars, outcome, deviceVars>>

ResetMissed ==
  /\ pc \in {"reset1", "reset2"}
  /\ rates # << >>
  /\ Missed("GECKO", Head(rates))
  /\ rates' = Tail(rates)
  /\ UNCHANGED <<objectVars, task, pc, probeVars, targets, outcome, deviceVars>>

\* Bug: the first reset, too, leaves the device in the bootloader.
ResetFoundStaying ==
  /\ pc = "reset1"
  /\ rates # << >>
  /\ Heard("GECKO", Head(rates))
  /\ bootProbe' = Head(rates)
  /\ Goto("loop")
  /\ UNCHANGED <<objectVars, task, after, queue, runFw, resetVars, deviceVars>>

\* The bootloader is found after the first reset, with run_firmware=True: the
\* application is started.  Only the local variable knows the baudrate.
ResetFound ==
  /\ pc = "reset1"
  /\ rates # << >>
  /\ Heard("GECKO", Head(rates))
  /\ bootProbe' = Head(rates)
  /\ mode' = Application
  /\ Goto("loop")
  /\ UNCHANGED <<objectVars, task, after, queue, runFw, resetVars, ieee, setup>>

ResetExhausted ==
  /\ pc = "reset1"
  /\ targets = << >> /\ rates = << >>
  /\ Goto("loop")
  /\ UNCHANGED <<objectVars, task, probeVars, resetVars, deviceVars, misses>>

\* The bootloader is not probed twice.
LoopSkip ==
  /\ pc = "loop" /\ queue # {}
  /\ Current.type = "GECKO" /\ bootProbe # None
  /\ queue' = queue \ {Current}
  /\ UNCHANGED <<objectVars, task, pc, after, runFw, bootProbe, resetVars, outcome,
                 deviceVars, misses>>

Probing(t, b) ==
  /\ pc = "loop" /\ queue # {}
  /\ t = Current.type /\ b = Current.baud
  /\ ~(t = "GECKO" /\ bootProbe # None)

LoopMissed ==
  /\ \E t \in Types, b \in Rates : Probing(t, b) /\ Missed(t, b)
  /\ queue' = queue \ {Current}
  /\ UNCHANGED <<objectVars, task, pc, after, runFw, bootProbe, resetVars, outcome,
                 deviceVars>>

\* Bug: the baudrate of what was found is not recorded.
LoopFoundUnrecorded ==
  \E t \in Types, b \in Rates :
    /\ Probing(t, b)
    /\ Heard(t, b)
    /\ appType' = t
    /\ Goto(after)
    /\ UNCHANGED <<task, appBaud, bootBaud, probeVars, resetVars, deviceVars>>

\* Bug: continue_probing is not looked at.
LoopFoundStopping ==
  \E t \in Types, b \in Rates :
    /\ Probing(t, b)
    /\ Heard(t, b)
    /\ IF t = "GECKO"
       THEN bootProbe' = b /\ bootBaud' = b
       ELSE UNCHANGED <<bootProbe, bootBaud>>
    /\ mode' = IF t = "GECKO" /\ runFw THEN Application ELSE mode
    /\ appType' = t /\ appBaud' = b
    /\ Goto(after)
    /\ UNCHANGED <<task, after, queue, runFw, resetVars, ieee, setup>>

\* Found: a bootloader that was told to run the application is remembered and
\* the loop goes on; anything else is the answer.
LoopFound ==
  \E t \in Types, b \in Rates :
    /\ Probing(t, b)
    /\ Heard(t, b)
    /\ IF t = "GECKO"
       THEN bootProbe' = b /\ bootBaud' = b
       ELSE UNCHANGED <<bootProbe, bootBaud>>
    /\ IF t = "GECKO" /\ runFw
       THEN /\ mode' = Application
            /\ queue' = queue \ {Current}
            /\ UNCHANGED <<appType, appBaud, pc, outcome>>
       ELSE /\ appType' = t /\ appBaud' = b
            /\ Goto(after)
            /\ UNCHANGED <<mode, queue>>
    /\ UNCHANGED <<task, after, runFw, resetVars, ieee, setup>>

\* Bug: a bootloader that answered is forgotten.
LoopExhaustedForgetting ==
  /\ pc = "loop" /\ queue = {}
  /\ Finish("failed")
  /\ UNCHANGED <<objectVars, task, probeVars, resetVars, deviceVars, misses>>

\* Nothing but, perhaps, the bootloader answered.
LoopExhausted ==
  /\ pc = "loop" /\ queue = {}
  /\ IF bootProbe # None /\ setup.targets # << >>
     THEN /\ targets' = setup.targets /\ rates' = << >>
          /\ Goto("reset2")
     ELSE Finish("failed") /\ UNCHANGED resetVars
  /\ UNCHANGED <<objectVars, task, probeVars, deviceVars, misses>>

\* Bug: the second reset runs the application like the first one.
Reset2Launching ==
  /\ pc = "reset2"
  /\ \/ targets = << >> /\ rates = << >> /\ UNCHANGED <<mode, misses>>
     \/ rates # << >> /\ Heard("GECKO", Head(rates)) /\ mode' = Application
  /\ appType' = "GECKO" /\ appBaud' = bootProbe /\ bootBaud' = bootProbe
  /\ Goto(after)
  /\ UNCHANGED <<task, probeVars, resetVars, ieee, setup>>

\* The second reset is over, found or not: its result is not looked at.
Reset2Done ==
  /\ pc = "reset2"
  /\ \/ targets = << >> /\ rates = << >> /\ UNCHANGED misses
     \/ rates # << >> /\ Heard("GECKO", Head(rates))
  /\ appType' = "GECKO" /\ appBaud' = bootProbe /\ bootBaud' = bootProbe
  /\ Goto(after)
  /\ UNCHANGED <<task, probeVars, resetVars, deviceVars>>

-----------------------------------------------------------------------------
(***************************************************************************)
(* enter_bootloader.                                                       *)
(***************************************************************************)
EnterUnknown ==
  /\ pc = "enter" /\ appType = "none"
  /\ ProbeAppType(Methods, {}, "enter")
  /\ UNCHANGED <<objectVars, task, deviceVars, misses>>

EnterAlready ==
  /\ pc = "enter" /\ appType = "GECKO"
  /\ Goto("verify")
  /\ UNCHANGED <<objectVars, task, probeVars, resetVars, deviceVars, misses>>

\* The application obeys and says so, or need not: Spinel's command is sent
\* without waiting for an answer.
EnterObeyed ==
  /\ pc = "enter" /\ appType \in Apps
  /\ Heard(appType, appBaud)
  /\ mode' = "GECKO"
  /\ Goto("verify")
  /\ UNCHANGED <<objectVars, task, probeVars, resetVars, ieee, setup>>

\* No answer, though the application may have obeyed.  CPC and the router
\* fall back on the reset lines; Spinel has not noticed; EmberZNet is assumed
\* to have launched the bootloader, unless it could not even be connected to.
\* A refusal of CPC is an answer that is not looked at.
EnterUnanswered ==
  /\ pc = "enter" /\ appType \in Apps
  /\ Missed(appType, appBaud)
  /\ mode' \in {mode} \cup IF Listens(appType, appBaud) THEN {"GECKO"} ELSE {}
  /\ CASE appType = "ROUTER" -> Goto("fallback")
       [] appType = "CPC"    -> \/ Goto("fallback")
                                \/ Listens(appType, appBaud) /\ Goto("verify")
       [] appType = "SPINEL" -> Goto("verify")
       [] appType = "EZSP"   -> IF Listens(appType, appBaud)
                                THEN Goto("verify")
                                ELSE Finish("failed")
  /\ UNCHANGED <<objectVars, task, probeVars, resetVars, ieee, setup>>

\* EmberZNet answers with a status that is not SUCCESS, or the application
\* cannot be connected to: CPC alone falls back on the reset then, too.
EnterFails ==
  /\ pc = "enter" /\ appType \in {"EZSP", "SPINEL", "ROUTER"}
  /\ Mishap
  /\ Finish("failed")
  /\ UNCHANGED <<objectVars, task, probeVars, resetVars, deviceVars>>

\* The RTS/DTR reset, whether or not it is among the configured targets.  The
\* probe after it changes nothing: a timeout only warns.
Fallback ==
  /\ pc = "fallback"
  /\ mode' \in ModeAfterReset("rts_dtr")
  /\ Goto("verify")
  /\ UNCHANGED <<objectVars, task, probeVars, resetVars, ieee, setup, misses>>

FallbackFails ==
  /\ pc = "fallback"
  /\ Mishap
  /\ mode' \in ModeAfter("rts_dtr", CutShort)
  /\ Finish("failed")
  /\ UNCHANGED <<objectVars, task, probeVars, resetVars, ieee, setup>>

\* Bug: the rate of the bootloader is taken to be the first one.
VerifyGuessing ==
  /\ pc = "verify"
  /\ bootBaud' = IF bootBaud = None THEN Baudrates["GECKO"][1] ELSE bootBaud
  /\ Goto("flash")
  /\ UNCHANGED <<appType, appBaud, task, probeVars, resetVars, deviceVars, misses>>

\* Only a rate that is not known is looked for.
Verify ==
  /\ pc = "verify"
  /\ IF bootBaud = None
     THEN ProbeAppType(<<"GECKO">>, {}, "flash")
     ELSE Goto("flash") /\ UNCHANGED <<probeVars, resetVars>>
  /\ UNCHANGED <<objectVars, task, deviceVars, misses>>

-----------------------------------------------------------------------------
(***************************************************************************)
(* The callers.                                                            *)
(***************************************************************************)

\* flash.py probes first; the GUI resets and believes; a program that uses
\* the class enters the bootloader at once; writing an EUI64 probes with the
\* bootloader and EmberZNet first.
Begin ==
  /\ pc = "start"
  /\ \/ /\ task = "flash"
        /\ ProbeAppType(Methods, {}, "decide")
        /\ UNCHANGED <<objectVars, mode>>
     \/ /\ task = "guiFlash"
        /\ mode' \in ModeAfterReset("rts_dtr")
        /\ appType' = "GECKO"
        /\ appBaud' = Baudrates["GECKO"][1] /\ bootBaud' = Baudrates["GECKO"][1]
        /\ Goto("enter")
        /\ UNCHANGED <<probeVars, resetVars>>
     \/ /\ task = "enterFlash"
        /\ Goto("enter")
        /\ UNCHANGED <<objectVars, mode, probeVars, resetVars>>
     \/ /\ task \in Writes
        /\ ProbeAppType(Methods, {"GECKO", "EZSP"},
                        IF task = "guiWrite" THEN "probed" ELSE "write")
        /\ UNCHANGED <<objectVars, mode>>
  /\ UNCHANGED <<task, ieee, setup, misses>>

\* The GUI probes, and write_emberznet_eui64 does so once more.
ProbeTwice ==
  /\ pc = "probed"
  /\ ProbeAppType(Methods, {"GECKO", "EZSP"}, "write")
  /\ UNCHANGED <<objectVars, task, deviceVars, misses>>

\* flash.py compares what runs with the image: it goes on, or it keeps what
\* runs.  How it decides is not modelled here.
Decide ==
  /\ pc = "decide"
  /\ Goto("enter") \/ Finish("kept")
  /\ UNCHANGED <<objectVars, task, probeVars, resetVars, deviceVars, misses>>

\* flash_firmware: three probes at bootloader_baudrate, then the upload; the
\* new application runs.
Flash ==
  /\ pc = "flash"
  /\ IF Listens("GECKO", bootBaud)
     THEN Finish("flashed") /\ mode' = "new"
     ELSE Finish("failed") /\ UNCHANGED mode
  /\ UNCHANGED <<objectVars, task, probeVars, resetVars, ieee, setup, misses>>

\* write_emberznet_eui64 after its probe.  `force` is only passed on to the
\* command that writes: it is not looked at when the addresses agree.
Write ==
  /\ pc = "write"
  /\ IF appType # "EZSP" \/ ~Listens("EZSP", appBaud)
     THEN Finish("failed") /\ UNCHANGED ieee
     ELSE IF ieee = "new"
          THEN Finish("unchanged") /\ UNCHANGED ieee
          ELSE Finish("written") /\ ieee' = "new"
  /\ UNCHANGED <<objectVars, task, probeVars, resetVars, mode, setup, misses>>

\* The coroutine is about to use the port where an error is not caught.
UsesPort ==
  \/ pc \in {"reset1", "reset2"} /\ rates # << >>
  \/ pc = "loop" /\ queue # {}
  \/ pc \in {"flash", "write"}

\* The port cannot be opened or is lost, or the device reports an error.
PortFails ==
  /\ UsesPort
  /\ Mishap
  /\ Finish("failed")
  /\ UNCHANGED <<objectVars, task, probeVars, resetVars, deviceVars>>

\* A reset fails: no such chip, no permission, the port is lost on the way.
ResetFails ==
  /\ \/ /\ pc \in {"reset1", "reset2"} /\ rates = << >> /\ targets # << >>
        /\ mode' \in ModeAfter(Head(targets), CutShort)
     \/ /\ pc = "start" /\ task = "guiFlash"
        /\ mode' \in ModeAfter("rts_dtr", CutShort)
  /\ Mishap
  /\ Finish("failed")
  /\ UNCHANGED <<objectVars, task, probeVars, resetVars, ieee, setup>>

Done ==
  /\ pc = "end"
  /\ UNCHANGED vars

Step ==
  \/ Begin \/ ProbeTwice \/ Decide
  \/ Reset \/ ResetFails \/ ResetMissed \/ ResetFound \/ ResetExhausted
  \/ LoopSkip \/ LoopMissed \/ LoopFound \/ LoopExhausted \/ Reset2Done
  \/ EnterUnknown \/ EnterAlready \/ EnterObeyed \/ EnterUnanswered \/ EnterFails
  \/ Fallback \/ FallbackFails \/ Verify
  \/ Flash \/ Write \/ PortFails

Next == Step \/ Done

\* Every attempt has a timeout, so the coroutine goes on.
Spec == Init /\ [][Next]_vars /\ WF_vars(Step)

-----------------------------------------------------------------------------
(***************************************************************************)
(* Properties.                                                             *)
(***************************************************************************)
Pcs == {"start", "probed", "decide", "reset1", "reset2", "loop", "enter", "fallback",
        "verify", "flash", "write", "end"}

TypesOrNone == Types \cup {"none"}
RatesOrNone == Rates \cup {None}

\* The variables have their types: a type that was detected is recorded
\* together with its baudrate, the loop never holds a pair the user did not
\* ask for, and a coroutine has an outcome exactly when it has ended.
TypeOK ==
  /\ task \in Tasks /\ pc \in Pcs /\ after \in Pcs \cup {"none"}
  /\ appType \in TypesOrNone
  /\ appBaud \in RatesOrNone /\ (appType = "none" <=> appBaud = None)
  /\ bootBaud \in RatesOrNone /\ bootProbe \in RatesOrNone
  /\ \A a \in queue : a.type \in Types /\ a.baud \in ToSet(Baudrates[a.type])
  /\ runFw \in BOOLEAN
  /\ ToSet(targets) \subseteq ToSet(setup.targets)
  /\ ToSet(rates) \subseteq ToSet(Baudrates["GECKO"])
  /\ outcome \in {"running", "kept", "flashed", "written", "unchanged", "failed"}
  /\ outcome = "running" <=> pc # "end"
  /\ mode \in TypesOrNone \cup {"other", "new", "held"}
  /\ ieee \in {"old", "new"}
  /\ misses \in 0..MaxMisses

\* Every reset the user configured works with this adapter.
ResetsWork == ToSet(setup.targets) \subseteq setup.wired

\* The application would answer one of the probes.
Detectable ==
  /\ setup.app \in ToSet(Methods)
  /\ setup.appBaud \in ToSet(Baudrates[setup.app])

\* What probe_app_type has just detected is what the device now runs, at the
\* baudrate recorded, whatever was missed on the way: the bootloader that was
\* told to run the application is never reported in its place.
ProbedTruthfully ==
  /\ \/ pc \in {"probed", "decide", "write"}
     \/ pc = "enter" /\ task = "enterFlash" /\ appType # "none"
  /\ ResetsWork
  => Listens(appType, appBaud)

\* A baudrate recorded for the bootloader is the bootloader's, even when an
\* answer was missed or a reset does nothing.  The GUI records its own guess.
BootBaudTruthful ==
  bootBaud # None /\ task # "guiFlash" => bootBaud = setup.bootBaud

\* A command to launch the bootloader was lost or refused: the application it
\* was for runs on.  A router whose fallback works cannot get away with that.
Disobeyed ==
  /\ misses > 0
  /\ appType \in Apps /\ Listens(appType, appBaud)
  /\ "rts_dtr" \in setup.wired => appType # "ROUTER"

\* When enter_bootloader returns, whatever went wrong on the way, the device is
\* in its bootloader, reachable at the baudrate recorded: neither the resets
\* nor the verification has left it running its application.  The one
\* exception is the launch that was assumed and not verified, because the
\* bootloader's baudrate was known: then the application has not been touched.
EnteredOnReturn ==
  /\ pc = "flash" /\ ResetsWork
  /\ task = "guiFlash" => setup.bootBaud = Baudrates["GECKO"][1]
  => Listens("GECKO", bootBaud) \/ (after # "flash" /\ Disobeyed)

\* A device that can be flashed, or whose address can be written, is, as long
\* as nothing is missed: one that can be reset into its bootloader, one that
\* is there already, one that runs an application that can be probed.
Reachable ==
  CASE task \in Writes    -> /\ setup.app = "EZSP" /\ Detectable
                             /\ setup.start = "app" \/ setup.targets # << >>
    [] task = "guiFlash"  -> setup.bootBaud = Baudrates["GECKO"][1]
    [] OTHER              -> \/ setup.targets # << >>
                             \/ setup.start = "app" /\ Detectable
                             \/ setup.start = "bootloader" /\ "GECKO" \in ToSet(Methods)

NoFalseFailure ==
  Reachable /\ ResetsWork /\ misses = 0 => outcome # "failed"

\* Finding out what runs does not stop it unnoticed: when nothing is flashed
\* after all, or an address was to be written, an application that could be
\* probed runs as it did before, although the probes went through the
\* bootloader; if an attempt failed on the way and it does not, the call has
\* failed or has recorded the bootloader.
ProbingLeavesAppRunning ==
  /\ pc = "end"
  /\ task \in Writes \/ outcome = "kept"
  /\ setup.start = "app" /\ Detectable
  => mode = setup.app \/ (misses > 0 /\ (outcome = "failed" \/ appType = "GECKO"))

\* No call leaves the chip held in reset, not even one whose reset was broken
\* off half way: it runs its application, its bootloader, or what was flashed.
LeftRunning == mode \in {Application, "GECKO", "new"}

\* Every call ends: no list of targets, types or baudrates is walked twice.
Terminates == <>(pc = "end")

\* "We have no valid application image but can still re-enter the bootloader
\* whenever we want" (the comment at the second reset): a device recorded as
\* being in its bootloader is there.
ReenteredBootloader ==
  pc = "decide" /\ appType = "GECKO" /\ misses = 0 => mode = "GECKO"
==============================================================================
