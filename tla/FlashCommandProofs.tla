-------------------------- MODULE FlashCommandProofs --------------------------
(***************************************************************************)
(* What the command `flash` guarantees for every set of images and options,  *)
(* every bootloader, any lists of probe methods and baudrates, and any       *)
(* number of commands.                                                      *)
(***************************************************************************)
EXTENDS FlashCommand, Integers, TLAPS

Apps == {i.app : i \in Images} \cup {NoApp}

\* An application that was found is the one that runs; if the bootloader was
\* found, nothing else runs.
FoundTruthful ==
  pc \in {"decide", "flash"} =>
    IF found.type = "GECKO"
    THEN device.boot
    ELSE /\ found = device.app /\ ~device.boot
         /\ \E f \in DOMAIN AppTypeOf : AppTypeOf[f] = found.type

\* What is flashed was not to be kept.
Outdated ==
  /\ ~Unchecked /\ ~Cross /\ ~OtherBaud /\ ~Inexact
  /\ ~CompatibleWith(found.version, PublicVersion)
  /\ options.downgrades \/ ~Greater(found.version, PublicVersion)

ToBeFlashed ==
  pc = "flash" =>
    \/ Unchecked
    \/ Cross
    \/ OtherBaud \/ Inexact
    \/ Outdated

IInv ==
  /\ image \in Images
  /\ device \in [boot : BOOLEAN, app : Apps]
  /\ pc # "end" => outcome = "running"
  /\ FoundTruthful
  /\ ToBeFlashed
  /\ KeptIsCurrent

-----------------------------------------------------------------------------
(***************************************************************************)
(* Types and versions.                                                     *)
(***************************************************************************)

\* The type of the image that runs is the inverse of the type looked up.
LEMMA RunningTypeInverts ==
  ASSUME NEW t, t # "GECKO", \E f \in DOMAIN AppTypeOf : AppTypeOf[f] = t
  PROVE  RunningType(t) \in DOMAIN AppTypeOf /\ AppTypeOf[RunningType(t)] = t
BY DEF RunningType

\* No two image types have the same application type.
LEMMA AppTypesDiffer ==
  ASSUME NEW f \in DOMAIN AppTypeOf, NEW g \in DOMAIN AppTypeOf,
         AppTypeOf[f] = AppTypeOf[g]
  PROVE  f = g
BY DEF AppTypeOf

LEMMA CompatibleWithItself ==
  ASSUME NEW v PROVE CompatibleWith(v, v)
BY DEF CompatibleWith

\* A version below another and not a prefix of it is below every longer version
\* that is compatible with the other.
LEMMA BelowCompatible ==
  ASSUME NEW v, NEW w, NEW a,
         v.num \in Seq(Nat), w.num \in Seq(Nat), a.num \in Seq(Nat),
         Less(v, w), ~CompatibleWith(v, w),
         CompatibleWith(a, w), Len(a.num) >= Len(w.num)
  PROVE  Less(v, a)
<1>1. PICK k \in 1..Len(w.num) :
        /\ k <= Len(v.num) => v.num[k] < w.num[k]
        /\ \A j \in 1..(k - 1) : j <= Len(v.num) /\ v.num[j] = w.num[j]
  BY DEF Less
<1>2. /\ Len(v.num) \in Nat /\ Len(w.num) \in Nat /\ Len(a.num) \in Nat
      /\ k \in Nat \ {0}
  OBVIOUS
<1>3. k <= Len(v.num)
  <2>1. SUFFICES ASSUME k > Len(v.num) PROVE FALSE
    BY <1>2
  <2>2. Smaller(Len(v.num), Len(w.num)) = Len(v.num)
    BY <2>1, <1>2 DEF Smaller
  <2>3. \A j \in 1..Len(v.num) : v.num[j] = w.num[j]
    BY <2>1, <1>1, <1>2
  <2> QED BY <2>2, <2>3 DEF CompatibleWith
<1>4. \A j \in 1..Len(w.num) : a.num[j] = w.num[j]
  <2>1. Smaller(Len(a.num), Len(w.num)) = Len(w.num)
    BY <1>2 DEF Smaller
  <2> QED BY <2>1 DEF CompatibleWith
<1>5. k \in 1..Len(a.num) /\ v.num[k] < a.num[k]
  BY <1>1, <1>2, <1>3, <1>4
<1>6. \A j \in 1..(k - 1) : j <= Len(v.num) /\ v.num[j] = a.num[j]
  BY <1>1, <1>2, <1>4, SMTT(30)
<1> QED BY <1>5, <1>6 DEF Less

\* The version in the metadata is one of theirs.
LEMMA PublicVersionKnown ==
  ASSUME image \in Images PROVE PublicVersion.num \in Seq(Nat)
<1> DEFINE order == <<"cpc", "ezsp", "ot_rcp", "sdk">>
           has   == {k \in DOMAIN order : order[k] \in DOMAIN image.versions}
           first == CHOOSE k \in has : \A j \in has : k <= j
<1>1. CASE has = {}
  BY <1>1 DEF PublicVersion, NoVersion
<1>2. CASE has # {}
  <2>1. DOMAIN order = 1..4
    OBVIOUS
  <2>2. \E k \in has : \A j \in has : k <= j
    <3>1. has \subseteq 1..4
      BY <2>1
    <3>2. 1 \in has \/ 2 \in has \/ 3 \in has \/ 4 \in has
      BY <1>2, <3>1
    <3> HIDE DEF has
    <3> QED BY <3>1, <3>2
  <2>3. first \in has
    <3> HIDE DEF has
    <3> QED BY <2>2
  <2>4. order[first] \in DOMAIN image.versions
    BY <2>3
  <2>5. PublicVersion = image.versions[order[first]]
    BY <1>2 DEF PublicVersion
  <2> QED BY <2>4, <2>5, FlashAssumption DEF FlashAssumption
<1> QED BY <1>1, <1>2

LEMMA AppsKnown ==
  ASSUME NEW a \in Apps
  PROVE  a.version.num \in Seq(Nat) /\ a.type # "GECKO"
<1>1. CASE \E i \in Images : a = i.app
  BY <1>1, FlashAssumption DEF FlashAssumption
<1>2. CASE a = NoApp
  <2>1. a.version = NoVersion /\ a.type = "none"
    BY <1>2 DEF NoApp
  <2> QED BY <2>1 DEF NoVersion
<1> QED BY <1>1, <1>2 DEF Apps

-----------------------------------------------------------------------------
(***************************************************************************)
(* The invariant.                                                          *)
(***************************************************************************)
LEMMA InitIInv == Init => IInv
<1> SUFFICES ASSUME Init PROVE IInv
  OBVIOUS
<1>1. image \in Images
  BY FlashAssumption DEF FlashAssumption, Init
<1>2. device \in [boot : BOOLEAN, app : Apps]
  <2>1. NoApp \in Apps /\ \A i \in Images : i.app \in Apps
    BY DEF Apps
  <2>2. CASE device \in {[boot |-> b, app |-> i.app] : b \in BOOLEAN, i \in Images}
    <3>1. PICK b \in BOOLEAN, i \in Images : device = [boot |-> b, app |-> i.app]
      BY <2>2
    <3> QED BY <2>1, <3>1
  <2>3. CASE device = [boot |-> TRUE, app |-> NoApp]
    BY <2>1, <2>3
  <2> QED BY <2>2, <2>3 DEF Init
<1> QED BY <1>1, <1>2 DEF Init, IInv, FoundTruthful, ToBeFlashed, KeptIsCurrent

\* What is decided does not change what it is decided from.
LEMMA DecidedStable ==
  ASSUME IInv, Decided
  PROVE  /\ image' \in Images
         /\ device' \in [boot : BOOLEAN, app : Apps]
         /\ PublicVersion' = PublicVersion
<1>1. image' = image /\ device' = device
  BY DEF Decided, choiceVars
<1>2. PublicVersion' = PublicVersion
  BY <1>1 DEF PublicVersion
<1> QED BY <1>1, <1>2 DEF IInv

LEMMA KeepKeepsCurrent ==
  ASSUME IInv, Keep
  PROVE  KeptIsCurrent'
<1> SUFFICES ASSUME found.type # "GECKO" PROVE
      /\ ~device.boot
      /\ image.fwType # "none" => device.app.type = AppTypeOf[image.fwType]
      /\ image.baud \in {0, device.app.baud}
      /\ CompatibleWith(device.app.version, PublicVersion)
      /\ options.exact => device.app.version = PublicVersion
  BY DEF KeptIsCurrent, Keep, Decided, choiceVars, PublicVersion
<1>1. /\ found = device.app /\ ~device.boot
      /\ \E f \in DOMAIN AppTypeOf : AppTypeOf[f] = found.type
  BY DEF IInv, FoundTruthful, Keep, Compared
<1>2. ~Cross /\ ~OtherBaud /\ ~Inexact /\ CompatibleWith(found.version, PublicVersion)
  BY DEF Keep, Compared
<1>3. image.fwType # "none" => device.app.type = AppTypeOf[image.fwType]
  <2>1. AppTypeOf[RunningType(found.type)] = found.type
    BY <1>1, RunningTypeInverts
  <2> QED BY <1>1, <1>2, <2>1 DEF Cross
<1> QED BY <1>1, <1>2, <1>3 DEF OtherBaud, Inexact

LEMMA GoOnToBeFlashed ==
  ASSUME GoOn
  PROVE  ToBeFlashed'
<1>1. Unchecked \/ Cross \/ OtherBaud \/ Inexact \/ Outdated
  BY DEF GoOn, Compared, Outdated
<1>2. UNCHANGED <<found, image, options>>
  BY DEF GoOn, Decided, choiceVars
<1>3. UNCHANGED <<Unchecked, Cross, OtherBaud, Inexact, PublicVersion>>
  BY <1>2 DEF Unchecked, Cross, OtherBaud, Inexact, PublicVersion
<1>4. Outdated' = Outdated
  BY <1>2, <1>3 DEF Outdated
<1> QED BY <1>1, <1>3, <1>4 DEF ToBeFlashed

LEMMA NextIInv == IInv /\ [Next]_vars => IInv'
<1> SUFFICES ASSUME IInv, [Next]_vars PROVE IInv'
  OBVIOUS
<1>1. CASE Begin
  BY <1>1 DEF IInv, Begin, FoundTruthful, ToBeFlashed, KeptIsCurrent
<1>2. CASE Read
  <2>1. /\ pc' \in {"probe", "end"} /\ outcome' # "current"
        /\ pc' # "end" => outcome' = "running"
        /\ image' = image /\ device' = device
    BY <1>2 DEF IInv, Read, End, choiceVars
  <2> QED BY <2>1 DEF IInv, FoundTruthful, ToBeFlashed, KeptIsCurrent
<1>3. CASE Probe
  <2>1. /\ pc' \in {"decide", "end"} /\ outcome' # "current"
        /\ pc' # "end" => outcome' = "running"
        /\ image' = image
    BY <1>3 DEF IInv, Probe, End, choiceVars
  <2>2. device' \in [boot : BOOLEAN, app : Apps]
    <3>1. \/ device' = [device EXCEPT !.boot = FALSE]
          \/ device' = [device EXCEPT !.boot = TRUE]
          \/ device' = [device EXCEPT !.boot = @ \/ options.resets]
      BY <1>3 DEF Probe
    <3> QED BY <3>1 DEF IInv
  <2>3. FoundTruthful'
    <3>1. CASE Recognised(device.app) /\ found' = device.app
                 /\ device' = [device EXCEPT !.boot = FALSE]
      <4>1. device.app.type # "GECKO"
        BY AppsKnown DEF IInv
      <4>2. device'.app = device.app /\ ~device'.boot
        BY <3>1 DEF IInv
      <4> QED BY <3>1, <4>1, <4>2 DEF FoundTruthful, Recognised
    <3>2. CASE found' = InBootloader /\ device' = [device EXCEPT !.boot = TRUE]
      <4>1. found'.type = "GECKO"
        BY <3>2 DEF InBootloader
      <4>2. device'.boot
        BY <3>2 DEF IInv
      <4> QED BY <4>1, <4>2 DEF FoundTruthful
    <3>3. CASE pc' = "end"
      BY <3>3 DEF FoundTruthful
    <3> QED BY <1>3, <3>1, <3>2, <3>3 DEF Probe, End
  <2> QED BY <2>1, <2>2, <2>3 DEF IInv, ToBeFlashed, KeptIsCurrent
<1>4. CASE Keep
  <2>1. pc' = "end" /\ Decided
    BY <1>4 DEF Keep, End
  <2> QED BY <1>4, <2>1, DecidedStable, KeepKeepsCurrent DEF IInv, FoundTruthful, ToBeFlashed
<1>5. CASE RefuseCross \/ KeepNewer \/ NoVersionToCompare
  <2>1. pc' = "end" /\ outcome' # "current" /\ Decided
    BY <1>5 DEF RefuseCross, KeepNewer, NoVersionToCompare, End
  <2> QED BY <2>1, DecidedStable DEF IInv, FoundTruthful, ToBeFlashed, KeptIsCurrent
<1>6. CASE GoOn
  <2>1. pc = "decide" /\ pc' = "flash" /\ outcome' = outcome /\ Decided
    BY <1>6 DEF GoOn
  <2>2. FoundTruthful'
    BY <2>1 DEF IInv, FoundTruthful, Decided
  <2>3. outcome' = "running"
    BY <2>1 DEF IInv
  <2> QED BY <1>6, <2>1, <2>2, <2>3, DecidedStable, GoOnToBeFlashed DEF IInv, KeptIsCurrent
<1>7. CASE Flash \/ FlashFails
  <2>1. pc' = "end" /\ outcome' # "current" /\ image' = image
    BY <1>7 DEF Flash, FlashFails, End, choiceVars
  <2>2. device' \in [boot : BOOLEAN, app : Apps]
    <3>1. image.app \in Apps /\ NoApp \in Apps
      BY DEF IInv, Apps
    <3>2. CASE Flash
      <4>1. device' = [boot |-> ~image.boots,
                       app  |-> IF image.boots THEN image.app ELSE NoApp]
        BY <3>2 DEF Flash
      <4>2. (~image.boots) \in BOOLEAN
        OBVIOUS
      <4>3. (IF image.boots THEN image.app ELSE NoApp) \in Apps
        BY <3>1
      <4> QED BY <4>1, <4>2, <4>3
    <3>3. CASE device' = device \/ device' = [device EXCEPT !.boot = TRUE]
      BY <3>3 DEF IInv
    <3>4. CASE device' = [boot |-> TRUE, app |-> NoApp]
      BY <3>1, <3>4
    <3> QED BY <1>7, <3>2, <3>3, <3>4 DEF Flash, FlashFails
  <2> QED BY <2>1, <2>2 DEF IInv, FoundTruthful, ToBeFlashed, KeptIsCurrent
<1>8. CASE UNCHANGED vars
  <2>1. PublicVersion' = PublicVersion
    BY <1>8 DEF vars, choiceVars, PublicVersion
  <2> QED BY <1>8, <2>1 DEF IInv, FoundTruthful, ToBeFlashed, KeptIsCurrent, vars, choiceVars,
             Unchecked, Cross, OtherBaud, Inexact, Outdated
<1> QED BY <1>1, <1>2, <1>3, <1>4, <1>5, <1>6, <1>7, <1>8 DEF Next, Done

LEMMA Invariance == Spec => []IInv
BY InitIInv, NextIInv, PTL DEF Spec

-----------------------------------------------------------------------------
\* A command that leaves an application as "flashed" leaves the device running
\* what the image stands for (flash.py:407-440).
THEOREM Kept == Spec => []KeptIsCurrent
<1>1. IInv => KeptIsCurrent
  BY DEF IInv
<1> QED BY <1>1, Invariance, PTL

\* The only step that puts an application on the device is Flash, and what it
\* replaces was found to be older than the metadata (flash.py:436-453).
LEMMA OnlyUpgrades ==
  ASSUME IInv, Flash,
         SelfDescribing, image.baud # 0,
         ~options.force, ~options.downgrades,
         ~device.boot, device.app.type = image.app.type,
         device.app.baud = image.baud,
         options.exact => device.app.version = PublicVersion
  PROVE  Less(device.app.version, image.app.version)
<1>1. /\ found = device.app
      /\ \E f \in DOMAIN AppTypeOf : AppTypeOf[f] = found.type
      /\ Unchecked \/ Cross \/ OtherBaud \/ Inexact \/ Outdated
  BY DEF IInv, FoundTruthful, ToBeFlashed, Flash
<1>2. ~Unchecked
  BY DEF Unchecked, SelfDescribing, Typed
<1>3. ~Cross
  <2>1. /\ RunningType(found.type) \in DOMAIN AppTypeOf
        /\ AppTypeOf[RunningType(found.type)] = found.type
    <3>1. found.type # "GECKO"
      BY <1>1, AppsKnown DEF IInv
    <3> QED BY <1>1, <3>1, RunningTypeInverts
  <2>2. image.fwType \in DOMAIN AppTypeOf /\ AppTypeOf[image.fwType] = found.type
    BY <1>1 DEF SelfDescribing
  <2>3. image.fwType = RunningType(found.type)
    BY <2>1, <2>2, AppTypesDiffer
  <2> QED BY <2>3 DEF Cross
<1>4. ~OtherBaud /\ ~Inexact
  BY <1>1 DEF OtherBaud, Inexact, SelfDescribing
<1>5. /\ ~CompatibleWith(found.version, PublicVersion)
      /\ ~Greater(found.version, PublicVersion)
  BY <1>1, <1>2, <1>3, <1>4 DEF Outdated
<1>6. Less(found.version, PublicVersion)
  BY <1>5, CompatibleWithItself DEF Greater
<1>7. /\ found.version.num \in Seq(Nat)
      /\ image.app.version.num \in Seq(Nat)
      /\ PublicVersion.num \in Seq(Nat)
  BY <1>1, AppsKnown, PublicVersionKnown DEF IInv, Apps
<1> QED BY <1>1, <1>5, <1>6, <1>7, BelowCompatible DEF SelfDescribing

\* No application that runs is replaced by an older one of its type unless an
\* option asks for it or a baudrate or exact version skips the check
\* (flash.py:420-447).
THEOREM NotDowngraded == Spec => NoUnaskedDowngrade
<1> DEFINE Asked == /\ SelfDescribing /\ image.baud # 0
                    /\ ~options.force /\ ~options.downgrades
                    /\ ~device.boot /\ device.app.type = image.app.type
                    /\ device'.app # device.app /\ device'.app # NoApp
           Skipped == \/ device.app.baud # image.baud
                      \/ options.exact /\ device.app.version # PublicVersion
           Step  == Asked => Less(device.app.version, device'.app.version) \/ Skipped
<1>1. ASSUME IInv, [Next]_vars PROVE [Step]_device
  <2> SUFFICES ASSUME Asked, ~Skipped, device' # device
               PROVE  Less(device.app.version, device'.app.version)
    OBVIOUS
  <2>1. Flash
    <3>1. Probe => device'.app = device.app
      <4>1. Probe => \/ device' = [device EXCEPT !.boot = FALSE]
                     \/ device' = [device EXCEPT !.boot = TRUE]
                     \/ device' = [device EXCEPT !.boot = @ \/ options.resets]
        BY DEF Probe
      <4> QED BY <1>1, <4>1 DEF IInv
    <3>2. FlashFails => device'.app \in {device.app, NoApp}
      BY <1>1 DEF FlashFails, IInv
    <3> QED BY <1>1, <3>1, <3>2 DEF Next, vars, choiceVars, Begin, Read, RefuseCross, Keep,
               KeepNewer, NoVersionToCompare, GoOn, Decided, Done
  <2>2. device'.app = image.app
    <3>1. device'.app \in {image.app, NoApp}
      BY <2>1 DEF Flash
    <3> QED BY <3>1
  <2> QED BY <1>1, <2>1, <2>2, OnlyUpgrades
<1>2. [][Step]_device => NoUnaskedDowngrade
  BY PTL DEF NoUnaskedDowngrade
<1> QED BY <1>1, <1>2, Invariance, PTL DEF Spec

-----------------------------------------------------------------------------
(***************************************************************************)
(* A command is given once more.                                           *)
(***************************************************************************)
Installed == [boot |-> FALSE, app |-> image.app]

\* Metadata that are true of an image that boots, no option against the defaults,
\* and an application at a rate that is probed.
Repeatable ==
  /\ SelfDescribing /\ image.boots
  /\ ~options.force /\ options.methods = {} /\ options.rates = {}
  /\ options.exact => image.app.version = PublicVersion
  /\ image.baud = 0 => image.app.baud \in Baudrates[image.app.type]

\* Until it is decided, the device runs what the command before has flashed;
\* then that is what was found; and nothing is flashed again.
OnceMore ==
  again /\ Repeatable =>
    /\ pc # "flash"
    /\ pc \in {"read", "probe"} => device = Installed
    /\ pc = "decide" => found = image.app
    /\ pc = "end" => outcome = "current"

RInv ==
  /\ pc \in {"read", "probe", "decide", "flash", "end"}
  /\ pc = "end" /\ outcome = "flashed" =>
       BootloaderHeard /\ (image.boots => device = Installed)
  /\ again => BootloaderHeard
  /\ OnceMore

\* The application of such an image is probed for at its rate.
LEMMA RepeatableRecognised ==
  ASSUME Repeatable
  PROVE  Recognised(image.app) /\ image.app # NoApp
<1>1. /\ image.fwType \in DOMAIN AppTypeOf /\ image.app.type = AppTypeOf[image.fwType]
      /\ Typed /\ image.baud \in {0, image.app.baud}
  BY DEF Repeatable, SelfDescribing
<1>2. image.app.type \in Methods
  BY <1>1 DEF Repeatable, Methods, PutFirst
<1>3. image.app.baud \in Rates(image.app.type)
  <2>1. CASE image.baud = 0
    BY <1>1, <2>1 DEF Repeatable, Rates
  <2>2. CASE image.baud # 0
    BY <1>1, <2>2 DEF Repeatable, Rates, PutFirst
  <2> QED BY <2>1, <2>2
<1>4. image.app.type # "none"
  BY <1>1 DEF AppTypeOf
<1> QED BY <1>1, <1>2, <1>3, <1>4 DEF Recognised, NoApp

\* What is found then is exactly what is to be flashed.
LEMMA RepeatableKept ==
  ASSUME IInv, Repeatable, pc = "decide", found = image.app
  PROVE  /\ Compared /\ PublicVersion # NoVersion
         /\ CompatibleWith(found.version, PublicVersion)
<1>1. ~Unchecked
  BY DEF Unchecked, Repeatable, SelfDescribing, Typed
<1>2. /\ image.fwType \in DOMAIN AppTypeOf /\ found.type = AppTypeOf[image.fwType]
      /\ found.type # "GECKO"
  BY AppsKnown DEF Repeatable, SelfDescribing, IInv, Apps
<1>3. image.fwType = RunningType(found.type)
  BY <1>2, RunningTypeInverts, AppTypesDiffer
<1>4. ~Cross /\ ~OtherBaud /\ ~Inexact
  BY <1>3 DEF Cross, OtherBaud, Inexact, Repeatable, SelfDescribing
<1> QED BY <1>1, <1>4 DEF Compared, Repeatable, SelfDescribing

LEMMA InitRInv == Init => RInv
BY DEF Init, RInv, OnceMore

\* Nothing that is left alone decides whether a command can be repeated.
LEMMA ChoiceStable ==
  ASSUME UNCHANGED choiceVars
  PROVE  Repeatable' = Repeatable /\ Installed' = Installed /\ again' = again
         /\ image' = image /\ BootloaderHeard' = BootloaderHeard
<1>1. image' = image /\ options' = options /\ again' = again
  BY DEF choiceVars
<1>2. BootloaderHeard' = BootloaderHeard
  BY <1>1 DEF BootloaderHeard, Rates, Typed
<1> QED BY <1>1, <1>2 DEF Repeatable, SelfDescribing, Typed, PublicVersion, Installed

LEMMA NextRInv == IInv /\ RInv /\ [Next]_vars => RInv'
<1> SUFFICES ASSUME IInv, RInv, [Next]_vars PROVE RInv'
  OBVIOUS
<1>1. CASE Begin
  <2>1. pc' = "read" /\ device' = device /\ outcome' = "running"
    BY <1>1 DEF Begin
  <2>2. again' => /\ BootloaderHeard'
                  /\ Repeatable' => device' = Installed'
    <3> SUFFICES ASSUME again' PROVE BootloaderHeard' /\ (Repeatable' => device' = Installed')
      OBVIOUS
    <3>1. /\ pc = "end" /\ outcome = "flashed"
          /\ image' = image /\ options' = options
      BY <1>1 DEF Begin
    <3>2. BootloaderHeard' = BootloaderHeard /\ Installed' = Installed
      BY <3>1 DEF BootloaderHeard, Rates, Typed, Installed
    <3>3. Repeatable' => image.boots
      BY <3>1 DEF Repeatable
    <3> QED BY <2>1, <3>1, <3>2, <3>3 DEF RInv
  <2> QED BY <2>1, <2>2 DEF RInv, OnceMore
<1>2. CASE Read
  <2>1. pc = "read" /\ UNCHANGED choiceVars /\ device' = device
    BY <1>2 DEF Read
  <2>2. CASE pc' = "probe" /\ UNCHANGED outcome
    BY <2>1, <2>2, ChoiceStable DEF RInv, OnceMore
  <2>3. CASE image.fwType \notin DOMAIN AppTypeOf /\ End("keyError")
    <3>1. ~Repeatable
      BY <2>3 DEF Repeatable, SelfDescribing
    <3> QED BY <2>1, <2>3, <3>1, ChoiceStable DEF RInv, OnceMore, End
  <2> QED BY <1>2, <2>2, <2>3 DEF Read
<1>3. CASE Probe
  <2>1. pc = "probe" /\ UNCHANGED choiceVars
    BY <1>3 DEF Probe
  <2>2. ASSUME again, Repeatable
        PROVE  pc' = "decide" /\ found' = image.app
    <3>1. device = Installed
      BY <2>1, <2>2 DEF RInv, OnceMore
    <3>2. device.app = image.app /\ ~device.boot
      BY <3>1 DEF Installed
    <3>3. BootloaderHeard
      BY <2>2 DEF RInv
    <3> QED BY <1>3, <2>2, <3>2, <3>3, RepeatableRecognised DEF Probe
  <2>3. pc' \in {"decide", "end"} /\ (pc' = "end" => outcome' = "notFound")
    BY <1>3 DEF Probe, End
  <2> QED BY <2>1, <2>2, <2>3, ChoiceStable DEF RInv, OnceMore
<1>4. CASE Keep
  <2>1. /\ pc' = "end" /\ outcome' = "current" /\ UNCHANGED choiceVars
    BY <1>4 DEF Keep, End, Decided
  <2> QED BY <2>1, ChoiceStable DEF RInv, OnceMore
<1>5. CASE RefuseCross \/ KeepNewer \/ NoVersionToCompare \/ GoOn
  <2>1. /\ pc = "decide" /\ pc' \in {"end", "flash"} /\ UNCHANGED choiceVars
        /\ pc' = "end" => outcome' # "flashed"
    BY <1>5 DEF RefuseCross, KeepNewer, NoVersionToCompare, GoOn, End, Decided, Compared
  <2>2. ~(again /\ Repeatable)
    <3> SUFFICES ASSUME again, Repeatable PROVE FALSE
      OBVIOUS
    <3>1. found = image.app
      BY <2>1 DEF RInv, OnceMore
    <3> QED BY <1>5, <2>1, <3>1, RepeatableKept
            DEF RefuseCross, KeepNewer, NoVersionToCompare, GoOn, Compared
  <2> QED BY <2>1, <2>2, ChoiceStable DEF RInv, OnceMore
<1>6. CASE Flash \/ FlashFails
  <2>1. /\ pc = "flash" /\ pc' = "end" /\ UNCHANGED choiceVars
        /\ outcome' = "flashed" =>
             BootloaderHeard /\ (image.boots => device' = Installed)
    BY <1>6 DEF Flash, FlashFails, End, Installed
  <2>2. ~(again /\ Repeatable)
    BY <2>1 DEF RInv, OnceMore
  <2> QED BY <2>1, <2>2, ChoiceStable DEF RInv, OnceMore
<1>7. CASE UNCHANGED vars
  <2>1. UNCHANGED <<pc, outcome, device, found>> /\ UNCHANGED choiceVars
    BY <1>7 DEF vars
  <2> QED BY <2>1, ChoiceStable DEF RInv, OnceMore
<1> QED BY <1>1, <1>2, <1>3, <1>4, <1>5, <1>6, <1>7 DEF Next, Done

\* A command that flashed the device with an image that boots, given once more,
\* finds what it flashed and leaves it alone (flash.py:345-370, 407-440).
THEOREM RepeatedOnce == Spec => []RepeatKeeps
<1>1. RInv => RepeatKeeps
  BY DEF RInv, OnceMore, RepeatKeeps, Repeatable
<1> QED BY <1>1, InitIInv, NextIInv, InitRInv, NextRInv, PTL DEF Spec
===============================================================================
