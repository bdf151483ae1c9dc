----------------------------- MODULE FlashCommand -----------------------------
(***************************************************************************)
(* flash.py: the command `flash`, given again and again to one device.      *)
(* What the image says of itself decides where the device is looked for and *)
(* whether it is flashed at all.  Probing and uploading are the business of *)
(* Flasher and GeckoBootloader: here they find what runs, succeed or fail.   *)
(*                                                                         *)
(* A version is its numbers and the rest of its text.  Images, options and   *)
(* the bootloader in the device are given; the user combines them freely.    *)
(***************************************************************************)
EXTENDS Naturals, Sequences

CONSTANTS
  Images,               \* images: their metadata, the application in them, and
                        \* whether it boots
  Options,              \* what the user may set on the command line
  ProbeMethods,         \* defaults of the group's options: the set of methods,
  Baudrates,            \* and the set of rates for each
  Bootloader,           \* version and baudrate of the device's bootloader
  MaxCommands           \* bound: commands given

\* Images of the bootloader itself are left out, and files that are no image:
\* they are refused before anything else happens.
ASSUME FlashAssumption ==
  /\ Images # {}
  /\ \A i \in Images :
       /\ i.app.type # "GECKO" /\ i.boots \in BOOLEAN
       /\ i.app.version.num \in Seq(Nat)
       /\ \A kind \in DOMAIN i.versions : i.versions[kind].num \in Seq(Nat)

VARIABLES
  device,               \* whether it is in its bootloader; its application
  pc, outcome,
  image, options,       \* of this command
  found,                \* app_type, app_version and app_baudrate after probing
  again,                \* the command before was the same, and it flashed
  commands

choiceVars == <<image, options, commands, again>>
vars == <<device, pc, outcome, found, choiceVars>>

\* FW_IMAGE_TYPE_TO_APPLICATION_TYPE has no entry for Z-Wave and unknown images.
AppTypeOf == [zigbee_ncp     |-> "EZSP",   multipan   |-> "CPC",
              openthread_rcp |-> "SPINEL", bootloader |-> "GECKO",
              zigbee_router  |-> "ROUTER"]

\* A bootloader runs no image.
RunningType(t) == IF t = "GECKO" THEN "none"
                  ELSE CHOOSE f \in DOMAIN AppTypeOf : AppTypeOf[f] = t

NoVersion == [num |-> << >>, text |-> "none"]
NoApp     == [type |-> "none", version |-> NoVersion, baud |-> 0]
InBootloader == [type |-> "GECKO", version |-> Bootloader.version,
                 baud |-> Bootloader.baud]

-----------------------------------------------------------------------------
(***************************************************************************)
(* Version: compared by their numbers, equal only as a whole.               *)
(***************************************************************************)
Smaller(m, n) == IF m < n THEN m ELSE n

CompatibleWith(v, w) ==
  \A k \in 1..Smaller(Len(v.num), Len(w.num)) : v.num[k] = w.num[k]

Less(v, w) ==
  \E k \in 1..Len(w.num) :
    /\ k <= Len(v.num) => v.num[k] < w.num[k]
    /\ \A j \in 1..(k - 1) : j <= Len(v.num) /\ v.num[j] = w.num[j]

\* Bug: the operands are swapped.
GreaterSwapped(v, w) == Less(v, w)

\* What total_ordering derives from the two others.
Greater(v, w) == ~Less(v, w) /\ v # w

\* get_public_version: the first one the metadata has.
PublicVersion ==
  LET order == <<"cpc", "ezsp", "ot_rcp", "sdk">>
      has   == {k \in DOMAIN order : order[k] \in DOMAIN image.versions}
  IN IF has = {} THEN NoVersion
     ELSE image.versions[order[CHOOSE k \in has : \A j \in has : k <= j]]

-----------------------------------------------------------------------------
\* The order is left out: one thing answers, whatever was tried before it.
PutFirst(list, elements) == elements \cup list

Typed == image.readable /\ image.fwType # "none"

Methods ==
  IF options.methods # {} THEN options.methods
  ELSE IF Typed THEN PutFirst(ProbeMethods, {"GECKO", AppTypeOf[image.fwType]})
  ELSE ProbeMethods

\* Bug: the image's baudrate is not probed.
RatesDefault(t) == IF options.rates # {} THEN options.rates ELSE Baudrates[t]

Rates(t) ==
  IF options.rates # {} THEN options.rates
  ELSE IF Typed /\ image.baud # 0 /\ t = AppTypeOf[image.fwType]
  THEN PutFirst(Baudrates[t], {image.baud})
  ELSE Baudrates[t]

\* There is a probe for it, and it is made.
Recognised(app) ==
  /\ \E f \in DOMAIN AppTypeOf : AppTypeOf[f] = app.type
  /\ app.type \in Methods /\ app.baud \in Rates(app.type)

Init ==
  /\ device \in {[boot |-> b, app |-> i.app] : b \in BOOLEAN, i \in Images}
             \cup {[boot |-> TRUE, app |-> NoApp]}
  /\ image = CHOOSE i \in Images : TRUE
  /\ options = CHOOSE o \in Options : TRUE
  /\ pc = "end" /\ outcome = "none" /\ found = NoApp
  /\ again = FALSE /\ commands = 0

End(result) == pc' = "end" /\ outcome' = result

\* The command is given, for the first time or once more.
Begin ==
  /\ pc = "end" /\ commands < MaxCommands
  /\ commands' = commands + 1
  /\ image' \in Images /\ options' \in Options
  /\ again' = (outcome = "flashed" /\ image' = image /\ options' = options)
  /\ pc' = "read" /\ outcome' = "running" /\ found' = NoApp
  /\ UNCHANGED device

\* The image type is looked up, force or not.
Read ==
  /\ pc = "read"
  /\ IF Typed /\ image.fwType \notin DOMAIN AppTypeOf
     THEN End("keyError")
     ELSE pc' = "probe" /\ UNCHANGED outcome
  /\ UNCHANGED <<device, found, choiceVars>>

\* The bootloader answers at its baudrate only.
BootloaderHeard == Bootloader.baud \in Rates("GECKO")

\* With resets the bootloader is entered, and the application started from it if
\* there is one; without, a device in its bootloader stays there.  Only what is
\* probed for is found.
Probe ==
  /\ pc = "probe"
  /\ LET runs == /\ device.app # NoApp
                 /\ IF options.resets THEN BootloaderHeard ELSE ~device.boot
         boot == /\ BootloaderHeard
                 /\ options.resets \/ (device.boot /\ "GECKO" \in Methods)
     IN IF runs /\ Recognised(device.app)
        THEN /\ found' = device.app
             /\ device' = [device EXCEPT !.boot = FALSE]
             /\ pc' = "decide" /\ UNCHANGED outcome
        ELSE IF boot
        THEN /\ found' = InBootloader
             /\ device' = [device EXCEPT !.boot = TRUE]
             /\ pc' = "decide" /\ UNCHANGED outcome
        ELSE /\ End("notFound") /\ UNCHANGED found
             /\ device' = [device EXCEPT !.boot = @ \/ options.resets]
  /\ UNCHANGED choiceVars

-----------------------------------------------------------------------------
(***************************************************************************)
(* What is found against what is to be flashed.                            *)
(***************************************************************************)
\* Whatever was found has told its version.
Unchecked == options.force \/ ~image.readable

Cross == /\ image.fwType # "none" /\ found.type # "GECKO"
         /\ image.fwType # RunningType(found.type)

OtherBaud == image.baud # 0 /\ image.baud # found.baud
Inexact   == options.exact /\ found.version # PublicVersion

\* The versions are compared.
Compared == pc = "decide" /\ ~Unchecked /\ ~Cross /\ ~OtherBaud /\ ~Inexact

Decided == UNCHANGED <<device, found, choiceVars>>

RefuseCross ==
  /\ pc = "decide" /\ ~Unchecked /\ Cross /\ ~options.cross
  /\ End("refused")
  /\ Decided

\* Bug: the version is looked at before the baudrate.
KeepBeforeBaud ==
  /\ pc = "decide" /\ ~Unchecked /\ ~Cross /\ ~Inexact /\ PublicVersion # NoVersion
  /\ CompatibleWith(found.version, PublicVersion)
  /\ End("current")
  /\ Decided

Keep ==
  /\ Compared /\ PublicVersion # NoVersion
  /\ CompatibleWith(found.version, PublicVersion)
  /\ End("current")
  /\ Decided

KeepNewer ==
  /\ Compared /\ PublicVersion # NoVersion
  /\ ~CompatibleWith(found.version, PublicVersion)
  /\ ~options.downgrades /\ Greater(found.version, PublicVersion)
  /\ End("newer")
  /\ Decided

\* Metadata without any version: there is nothing to call.
NoVersionToCompare ==
  /\ Compared /\ PublicVersion = NoVersion
  /\ End("attributeError")
  /\ Decided

GoOn ==
  /\ pc = "decide"
  /\ \/ Unchecked
     \/ Cross /\ options.cross
     \/ ~Cross /\ (OtherBaud \/ Inexact)
     \/ /\ Compared /\ PublicVersion # NoVersion
        /\ ~CompatibleWith(found.version, PublicVersion)
        /\ options.downgrades \/ ~Greater(found.version, PublicVersion)
  /\ pc' = "flash"
  /\ UNCHANGED outcome
  /\ Decided

\* enter_bootloader and flash_firmware succeed, the latter also if the new
\* application does not start: run_firmware returns all the same.
Flash ==
  /\ pc = "flash" /\ BootloaderHeard
  /\ device' = [boot |-> ~image.boots, app |-> IF image.boots THEN image.app ELSE NoApp]
  /\ End("flashed")
  /\ UNCHANGED <<found, choiceVars>>

\* They fail: before the bootloader was entered, before the upload, or in it.
FlashFails ==
  /\ pc = "flash"
  /\ device' \in {device, [device EXCEPT !.boot = TRUE],
                  [boot |-> TRUE, app |-> NoApp]}
  /\ End("failed")
  /\ UNCHANGED <<found, choiceVars>>

Done == pc = "end" /\ UNCHANGED vars

Next == \/ Begin \/ Read \/ Probe
        \/ RefuseCross \/ Keep \/ KeepNewer \/ NoVersionToCompare \/ GoOn
        \/ Flash \/ FlashFails
        \/ Done

Spec == Init /\ [][Next]_vars

-----------------------------------------------------------------------------
(***************************************************************************)
(* Properties.                                                             *)
(***************************************************************************)

\* A command that leaves an application it found as "flashed" leaves the
\* device running the firmware the image stands for: its type if the metadata
\* say so, at its baudrate, with its version, exactly if that was asked for.
KeptIsCurrent ==
  outcome = "current" /\ found.type # "GECKO" =>
    /\ ~device.boot
    /\ image.fwType # "none" => device.app.type = AppTypeOf[image.fwType]
    /\ image.baud \in {0, device.app.baud}
    /\ CompatibleWith(device.app.version, PublicVersion)
    /\ options.exact => device.app.version = PublicVersion

\* The metadata are true of the application in the image, which tells at least
\* the numbers of its version that they have.
SelfDescribing ==
  /\ Typed /\ image.fwType \in DOMAIN AppTypeOf
  /\ image.app.type = AppTypeOf[image.fwType]
  /\ image.baud \in {0, image.app.baud}
  /\ PublicVersion # NoVersion /\ CompatibleWith(image.app.version, PublicVersion)
  /\ Len(image.app.version.num) >= Len(PublicVersion.num)

\* A command that flashed the device with an image that boots, given once more,
\* finds what it flashed and leaves it alone, also at a baudrate that is not among the defaults.
RepeatKeeps ==
  /\ pc = "end" /\ again
  /\ SelfDescribing /\ image.boots
  /\ ~options.force /\ options.methods = {} /\ options.rates = {}
  /\ options.exact => image.app.version = PublicVersion
  /\ image.baud = 0 => image.app.baud \in Baudrates[image.app.type]
  => outcome = "current"

\* Without an option that asks for it, an application that runs is never replaced
\* by an older one of its type.  Two things skip the check, and only they: an
\* image that names another baudrate, and an exact version that was asked for
\* and is another.
NoUnaskedDowngrade ==
  [][ /\ SelfDescribing /\ image.baud # 0
      /\ ~options.force /\ ~options.downgrades
      /\ ~device.boot /\ device.app.type = image.app.type
      /\ device'.app # device.app /\ device'.app # NoApp
      => \/ Less(device.app.version, device'.app.version)
         \/ device.app.baud # image.baud
         \/ options.exact /\ device.app.version # PublicVersion ]_device

\* "Firmware version %s does not upgrade current version %s" (flash.py:443):
\* a command that ends so leaves a device that runs an application.
NewerIsRunning ==
  pc = "end" /\ outcome = "newer" => device.app # NoApp
=============================================================================
