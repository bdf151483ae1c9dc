----------------------------- MODULE FlasherProofs -----------------------------
(***************************************************************************)
(* What Flasher records of the device and where it leaves it, for every      *)
(* choice of baudrates, probe methods and reset targets, every device, and   *)
(* any number of attempts that are missed.                                  *)
(***************************************************************************)
EXTENDS Flasher, Integers, SequenceTheorems, WellFoundedInduction, TLAPS

\* Where probe_app_type has just returned to.
Probed ==
  \/ pc \in {"probed", "decide", "write"}
  \/ pc = "enter" /\ task = "enterFlash" /\ appType # "none"

\* The baudrates of the bootloader that were learnt from it are its own.
RatesLearnt ==
  /\ bootProbe \in {None, setup.bootBaud}
  /\ task # "guiFlash" => bootBaud \in {None, setup.bootBaud}

\* The second reset comes after the bootloader has answered.  Once one of the
\* configured resets was made, and works, the device is in its bootloader.
SecondReset ==
  pc = "reset2" =>
    /\ bootProbe = setup.bootBaud
    /\ setup.targets # << >>
    /\ targets \in Seq(ResetTargets) /\ ToSet(targets) \subseteq ToSet(setup.targets)
    /\ ResetsWork => \/ mode = "GECKO"
                     \/ targets = setup.targets /\ rates = << >>

IInv ==
  /\ setup \in Setups
  /\ pc = "start" => appType = "none"
  /\ after \notin {"start", "reset2"}
  /\ RatesLearnt
  /\ SecondReset
  /\ Probed /\ ResetsWork => Listens(appType, appBaud)

-----------------------------------------------------------------------------
(***************************************************************************)
(* The reset lines.                                                        *)
(***************************************************************************)

\* A chip starts only when reset rises, and in its bootloader if boot is low.
LEMMA StartsWhen ==
  /\ \A l, m : l.reset \/ ~m.reset => Starts(l, m) = {}
  /\ \A l, m : ~l.reset /\ m.reset /\ ~m.boot => Starts(l, m) = {"GECKO"}
BY DEF Starts

LEMMA LeastElement ==
  ASSUME NEW S, S \subseteq Nat, NEW n \in S, \A k \in S : n <= k
  PROVE  Min(S) = n
<1>1. \A k \in S : (\A j \in S : k <= j) => k = n
  OBVIOUS
<1> QED BY <1>1 DEF Min

Signals == [boot : BOOLEAN, reset : BOOLEAN]

LEMMA PatternTyped ==
  ASSUME NEW target \in ResetTargets, target # "baudrate"
  PROVE  Pattern(target) \in Seq(Signals)
<1>2. CASE target = "rts_dtr"
  <2>1. Pattern(target) = << Levels(TRUE, FALSE), Levels(FALSE, TRUE), Levels(TRUE, TRUE) >>
    BY <1>2, ZenonT(60) DEF Pattern
  <2> QED BY <2>1 DEF Levels, Signals
<1>3. CASE target \in {"yellow", "ihost", "slzb07"}
  <2>1. Pattern(target) = << Levels(TRUE, TRUE), Levels(FALSE, FALSE), Levels(FALSE, TRUE),
                             Levels(TRUE, TRUE) >>
    <3>1. CASE target = "yellow"
      BY <3>1, ZenonT(60) DEF Pattern
    <3>2. CASE target = "ihost"
      BY <3>2, ZenonT(60) DEF Pattern
    <3>3. CASE target = "slzb07"
      BY <3>3, ZenonT(60) DEF Pattern
    <3> QED BY <1>3, <3>1, <3>2, <3>3
  <2> QED BY <2>1 DEF Levels, Signals
<1> QED BY <1>2, <1>3 DEF ResetTargets

\* When it is over, nothing pulls a line low, whatever the steps made of it.
LEMMA ReleasedAfter ==
  ASSUME NEW steps \in Seq(Signals)
  PROVE  Last(Lines(steps)) = Idle /\ Idle.reset
<1>1. Idle \in Signals /\ Idle.reset
  BY DEF Idle, Levels, Signals
<1>2. <<Idle>> \in Seq(Signals) /\ Len(<<Idle>>) = 1 /\ <<Idle>>[1] = Idle
  BY <1>1
<1> DEFINE p == <<Idle>> \o steps
<1>3. p \in Seq(Signals)
  BY <1>2, ConcatProperties
<1> HIDE DEF p
<1>4. /\ Len(p \o <<Idle>>) = Len(p) + 1
      /\ (p \o <<Idle>>)[Len(p) + 1] = Idle
  <2>1. Len(p) \in Nat
    BY <1>3, LenProperties
  <2> QED BY <1>2, <1>3, <2>1, ConcatProperties
<1>5. Lines(steps) = p \o <<Idle>>
  BY DEF Lines, p
<1> QED BY <1>1, <1>4, <1>5 DEF Last

\* A pattern with the released lines before and after it.
LEMMA Between ==
  ASSUME NEW S, NEW r \in S, NEW p \in Seq(S),
         NEW level, level = <<r>> \o SubSeq(p, 1, Len(p)) \o <<r>>
  PROVE  /\ Len(level) = Len(p) + 2
         /\ level[1] = r
         /\ \A i \in 1..Len(p) : level[i + 1] = p[i]
<1>1. level = (<<r>> \o p) \o <<r>>
  BY SubSeqFull
<1>2. <<r>> \in Seq(S) /\ Len(<<r>>) = 1 /\ <<r>>[1] = r
  OBVIOUS
<1>3. /\ <<r>> \o p \in Seq(S) /\ Len(<<r>> \o p) = Len(p) + 1
      /\ (<<r>> \o p)[1] = r
      /\ \A i \in 1..Len(p) : (<<r>> \o p)[i + 1] = p[i]
  <2>1. Len(p) \in Nat
    BY LenProperties
  <2> QED BY <1>2, <2>1, ConcatProperties
<1>4. Len(p) \in Nat
  BY LenProperties
<1> DEFINE q == <<r>> \o p
<1>5. /\ Len(q \o <<r>>) = Len(q) + 1
      /\ \A i \in 1..Len(q) : (q \o <<r>>)[i] = q[i]
  <2> HIDE DEF q
  <2>1. q \in Seq(S)
    BY <1>3 DEF q
  <2> QED BY <1>2, <2>1, ConcatProperties, LenProperties
<1>6. /\ level = q \o <<r>> /\ Len(q) = Len(p) + 1 /\ q[1] = r
      /\ \A i \in 1..Len(p) : q[i + 1] = p[i]
  BY <1>1, <1>3
<1> HIDE DEF q
<1>7. Len(level) = Len(p) + 2
  BY <1>4, <1>5, <1>6
<1>8. level[1] = r
  BY <1>4, <1>5, <1>6
<1>9. ASSUME NEW i \in 1..Len(p) PROVE level[i + 1] = p[i]
  <2>1. i + 1 \in 1..Len(q)
    BY <1>4, <1>6
  <2> QED BY <1>5, <1>6, <2>1
<1> QED BY <1>7, <1>8, <1>9

\* Every pattern that is completed leaves the chip in its bootloader.
LEMMA PatternsReset ==
  ASSUME NEW target \in ResetTargets
  PROVE  ResetBy[target] = {"GECKO"}
<1> DEFINE n     == Len(Pattern(target))
           level == Lines(SubSeq(Pattern(target), 1, n))
<1>1. SUFFICES Run(target, n) = {"GECKO"}
  BY DEF ResetBy
<1>5. ASSUME target # "baudrate"
      PROVE  Run(target, n) = IF Rises(level) = {} THEN {"same"}
               ELSE Starts(level[Min(Rises(level))], level[Min(Rises(level)) + 1])
  <2>1. Pattern(target) \in Seq(Signals)
    BY <1>5, PatternTyped
  <2>2. SubSeq(Pattern(target), 1, n) = Pattern(target)
    BY <2>1, SubSeqFull
  <2>3. Last(level).reset
    BY <2>1, <2>2, ReleasedAfter
  <2> HIDE DEF level
  <2>4. Run(target, n) =
          CASE ~Last(level).reset -> {"held"}
            [] Last(level).reset /\ Rises(level) = {}  -> {"same"}
            [] Last(level).reset /\ Rises(level) # {} ->
                 Starts(level[Min(Rises(level))], level[Min(Rises(level)) + 1])
    BY <1>5 DEF Run, level
  <2>5. CASE Rises(level) = {}
    BY <2>3, <2>4, <2>5
  <2>6. CASE Rises(level) # {}
    BY <2>3, <2>4, <2>6
  <2> QED BY <2>5, <2>6
<1>2. CASE target = "baudrate"
  <2>1. Pattern(target) = << At(150, "nothing"), At(300, "nothing"), At(1200, "BZ") >>
    BY <1>2 DEF Pattern
  <2>2. 3 \in 1..n /\ Pattern(target)[3] = At(1200, "BZ")
    BY <2>1
  <2> QED BY <1>2, <2>2 DEF Run
<1>3. CASE target = "rts_dtr"
  <2>1. Pattern(target) = << Levels(TRUE, FALSE), Levels(FALSE, TRUE), Levels(TRUE, TRUE) >>
    BY <1>3, ZenonT(60) DEF Pattern
  <2>2. /\ Len(level) = 5 /\ level[1] = Idle
        /\ level[2] = Levels(TRUE, FALSE)
        /\ level[3] = Levels(FALSE, TRUE)
        /\ level[4] = Levels(TRUE, TRUE)
    <3>1. Idle \in Signals /\ Pattern(target) \in Seq(Signals) /\ n = 3
      BY <1>3, <2>1, PatternTyped DEF Idle, Levels, Signals
    <3>2. /\ Len(level) = n + 2 /\ level[1] = Idle
          /\ \A i \in 1..n : level[i + 1] = Pattern(target)[i]
      <4>1. level = <<Idle>> \o SubSeq(Pattern(target), 1, Len(Pattern(target))) \o <<Idle>>
        BY DEF Lines
      <4> HIDE DEF level
      <4> QED BY <3>1, <4>1, Between
    <3> HIDE DEF level
    <3>3. 1 \in 1..n /\ 2 \in 1..n /\ 3 \in 1..n
      BY <3>1
    <3>4. level[2] = Pattern(target)[1] /\ level[3] = Pattern(target)[2] /\ level[4] = Pattern(target)[3]
      BY <3>2, <3>3
    <3> QED BY <2>1, <3>1, <3>2, <3>4
  <2>3. Run(target, n) = IF Rises(level) = {} THEN {"same"}
                         ELSE Starts(level[Min(Rises(level))], level[Min(Rises(level)) + 1])
    BY <1>3, <1>5
  <2> HIDE DEF level
  <2>4. /\ Starts(level[1], level[2]) = {} /\ Starts(level[2], level[3]) = {"GECKO"}
    BY <2>2, StartsWhen DEF Idle, Levels
  <2>5. /\ Rises(level) \subseteq Nat /\ 2 \in Rises(level)
        /\ \A k \in Rises(level) : 2 <= k
    <3>1. Rises(level) = {k \in 1..4 : Starts(level[k], level[k + 1]) # {}}
      BY <2>2 DEF Rises
    <3> QED BY <2>4, <3>1
  <2>6. Min(Rises(level)) = 2
    BY <2>5, LeastElement
  <2> QED BY <2>3, <2>4, <2>5, <2>6
<1>4. CASE target \in {"yellow", "ihost", "slzb07"}
  <2>1. Pattern(target) = << Levels(TRUE, TRUE), Levels(FALSE, FALSE), Levels(FALSE, TRUE),
                             Levels(TRUE, TRUE) >>
    <3>1. CASE target = "yellow"
      BY <3>1, ZenonT(60) DEF Pattern
    <3>2. CASE target = "ihost"
      BY <3>2, ZenonT(60) DEF Pattern
    <3>3. CASE target = "slzb07"
      BY <3>3, ZenonT(60) DEF Pattern
    <3> QED BY <1>4, <3>1, <3>2, <3>3
  <2>2. /\ Len(level) = 6 /\ level[1] = Idle
        /\ level[2] = Levels(TRUE, TRUE)
        /\ level[3] = Levels(FALSE, FALSE)
        /\ level[4] = Levels(FALSE, TRUE)
    <3>1. Idle \in Signals /\ Pattern(target) \in Seq(Signals) /\ n = 4
      BY <1>4, <2>1, PatternTyped DEF Idle, Levels, Signals
    <3>2. /\ Len(level) = n + 2 /\ level[1] = Idle
          /\ \A i \in 1..n : level[i + 1] = Pattern(target)[i]
      <4>1. level = <<Idle>> \o SubSeq(Pattern(target), 1, Len(Pattern(target))) \o <<Idle>>
        BY DEF Lines
      <4> HIDE DEF level
      <4> QED BY <3>1, <4>1, Between
    <3> HIDE DEF level
    <3>3. 1 \in 1..n /\ 2 \in 1..n /\ 3 \in 1..n
      BY <3>1
    <3>4. level[2] = Pattern(target)[1] /\ level[3] = Pattern(target)[2] /\ level[4] = Pattern(target)[3]
      BY <3>2, <3>3
    <3> QED BY <2>1, <3>1, <3>2, <3>4
  <2>3. Run(target, n) = IF Rises(level) = {} THEN {"same"}
                         ELSE Starts(level[Min(Rises(level))], level[Min(Rises(level)) + 1])
    BY <1>4, <1>5
  <2> HIDE DEF level
  <2>4. /\ Starts(level[1], level[2]) = {} /\ Starts(level[2], level[3]) = {}
        /\ Starts(level[3], level[4]) = {"GECKO"}
    BY <2>2, StartsWhen DEF Idle, Levels
  <2>5. /\ Rises(level) \subseteq Nat /\ 3 \in Rises(level)
        /\ \A k \in Rises(level) : 3 <= k
    <3>1. Rises(level) = {k \in 1..5 : Starts(level[k], level[k + 1]) # {}}
      BY <2>2 DEF Rises
    <3> QED BY <2>4, <3>1
  <2>6. Min(Rises(level)) = 3
    BY <2>5, LeastElement
  <2> QED BY <2>3, <2>4, <2>5, <2>6
<1> QED BY <1>2, <1>3, <1>4 DEF ResetTargets

LEMMA WorkingReset ==
  ASSUME NEW target \in ResetTargets, target \in setup.wired,
         NEW m \in ModeAfterReset(target)
  PROVE  m = "GECKO"
BY PatternsReset DEF ModeAfterReset, ModeAfter

-----------------------------------------------------------------------------
LEMMA InitIInv == Init => IInv
BY DEF Init, IInv, RatesLearnt, SecondReset, Probed

\* A probe begins with nothing learnt about the bootloader.
LEMMA ProbeBegins ==
  ASSUME IInv, NEW types, NEW first, NEW return,
         return \notin {"start", "reset2"},
         ProbeAppType(types, first, return), UNCHANGED <<task, setup, bootBaud>>
  PROVE  IInv'
<1>1. /\ pc' = "reset1" /\ bootProbe' = None /\ after' = return
      /\ UNCHANGED <<task, setup, bootBaud>>
  BY DEF ProbeAppType, Goto
<1> QED BY <1>1 DEF IInv, RatesLearnt, SecondReset, Probed

\* Steps that learn nothing and end where nothing is claimed.
LEMMA Elsewhere ==
  ASSUME IInv, UNCHANGED <<task, setup, after, bootBaud, bootProbe>>,
         pc' \in {"reset1", "loop", "fallback", "verify", "flash", "end"}
  PROVE  IInv'
BY DEF IInv, RatesLearnt, SecondReset, Probed

LEMMA NextIInv == IInv /\ [Next]_vars => IInv'
<1> SUFFICES ASSUME IInv, [Next]_vars PROVE IInv'
  OBVIOUS
<1>0. UNCHANGED <<task, setup>>
  BY DEF Next, Step, vars, deviceVars, Begin, ProbeTwice, Decide, Reset, ResetFails,
     ResetMissed, ResetFound, ResetExhausted, LoopSkip, LoopMissed, LoopFound, LoopExhausted,
     Reset2Done, EnterUnknown, EnterAlready, EnterObeyed, EnterUnanswered, EnterFails,
     Fallback, FallbackFails, Verify, Flash, Write, PortFails, Done
<1>1. CASE Begin
  <2>1. CASE \E types, first, return : return \notin {"start", "reset2"}
             /\ ProbeAppType(types, first, return)
             /\ UNCHANGED objectVars
    BY <1>0, <2>1, ProbeBegins DEF objectVars
  <2>2. CASE /\ task = "guiFlash" /\ pc' = "enter" /\ UNCHANGED probeVars
    BY <1>0, <2>2 DEF IInv, RatesLearnt, SecondReset, Probed, probeVars
  <2>3. CASE /\ task = "enterFlash" /\ pc' = "enter" /\ UNCHANGED <<objectVars, probeVars>>
    BY <1>0, <1>1, <2>3 DEF Begin, IInv, RatesLearnt, SecondReset, Probed, objectVars, probeVars
  <2> QED BY <1>1, <2>1, <2>2, <2>3 DEF Begin, Goto
<1>2. CASE ProbeTwice \/ EnterUnknown
  BY <1>0, <1>2, ProbeBegins DEF ProbeTwice, EnterUnknown, objectVars
<1>3. CASE Decide
  <2>1. /\ pc = "decide" /\ pc' \in {"enter", "end"}
        /\ pc' = "enter" => UNCHANGED <<appType, appBaud, mode>>
        /\ UNCHANGED <<after, bootBaud, bootProbe>>
    BY <1>3 DEF Decide, Goto, Finish, objectVars, probeVars, deviceVars
  <2> QED BY <1>0, <2>1 DEF IInv, RatesLearnt, SecondReset, Probed, Listens, ResetsWork
<1>4. CASE Reset
  <2>1. /\ pc' = pc /\ pc \in {"reset1", "reset2"} /\ targets # << >>
        /\ mode' \in ModeAfterReset(Head(targets)) /\ targets' = Tail(targets)
        /\ UNCHANGED <<after, bootBaud, bootProbe>>
    BY <1>4 DEF Reset, objectVars, probeVars
  <2>2. RatesLearnt' /\ ~Probed'
    BY <1>0, <2>1 DEF IInv, RatesLearnt, Probed
  <2>3. SecondReset'
    <3> SUFFICES ASSUME pc = "reset2" PROVE SecondReset'
      BY <2>1 DEF SecondReset
    <3>1. /\ targets \in Seq(ResetTargets) /\ ToSet(targets) \subseteq ToSet(setup.targets)
          /\ bootProbe = setup.bootBaud /\ setup.targets # << >>
      BY DEF IInv, SecondReset
    <3>2. /\ Head(targets) \in ResetTargets /\ Head(targets) \in ToSet(targets)
          /\ targets' \in Seq(ResetTargets) /\ ToSet(targets') \subseteq ToSet(targets)
      BY <2>1, <3>1 DEF ToSet
    <3>3. ResetsWork => mode' = "GECKO"
      BY <2>1, <3>1, <3>2, WorkingReset DEF ResetsWork
    <3>4. ResetsWork' = ResetsWork
      BY <1>0 DEF ResetsWork
    <3> QED BY <1>0, <2>1, <3>1, <3>2, <3>3, <3>4 DEF SecondReset
  <2> QED BY <1>0, <2>1, <2>2, <2>3 DEF IInv
<1>5. CASE ResetMissed
  <2>1. /\ pc' = pc /\ pc \in {"reset1", "reset2"} /\ rates # << >>
        /\ UNCHANGED <<after, bootBaud, bootProbe, mode, targets>>
    BY <1>5 DEF ResetMissed, objectVars, probeVars, deviceVars
  <2> QED BY <1>0, <2>1 DEF IInv, RatesLearnt, SecondReset, Probed, ResetsWork
<1>6. CASE ResetFound
  <2>1. /\ pc' = "loop" /\ bootProbe' = setup.bootBaud /\ UNCHANGED <<after, bootBaud>>
    BY <1>6 DEF ResetFound, Goto, Heard, Listens, objectVars
  <2> QED BY <1>0, <2>1 DEF IInv, RatesLearnt, SecondReset, Probed
<1>7. CASE LoopSkip \/ LoopMissed
  <2>1. pc' = "loop" /\ UNCHANGED <<after, bootBaud, bootProbe>>
    BY <1>7 DEF LoopSkip, LoopMissed, Probing, objectVars
  <2> QED BY <1>0, <2>1, Elsewhere
<1>8. CASE LoopFound
  <2>1. PICK t \in Types, b \in Rates :
          /\ Probing(t, b) /\ Listens(t, b) /\ after' = after
          /\ IF t = "GECKO" THEN bootProbe' = b /\ bootBaud' = b
                            ELSE UNCHANGED <<bootProbe, bootBaud>>
          /\ \/ pc' = pc
             \/ appType' = t /\ appBaud' = b /\ pc' = after /\ mode' = mode
    BY <1>8 DEF LoopFound, Heard, Goto
  <2>2. RatesLearnt'
    BY <1>0, <2>1 DEF IInv, RatesLearnt, Listens
  <2>3. Probed' => Listens(appType, appBaud)'
    BY <1>0, <2>1 DEF Probed, Probing, Listens
  <2>4. SecondReset' /\ pc' # "start"
    BY <2>1 DEF IInv, SecondReset, Probing
  <2> QED BY <1>0, <2>1, <2>2, <2>3, <2>4 DEF IInv, ResetsWork
<1>9. CASE LoopExhausted
  <2>1. /\ UNCHANGED <<after, bootBaud, bootProbe>>
        /\ \/ pc' = "end"
           \/ /\ pc' = "reset2" /\ bootProbe # None /\ setup.targets # << >>
              /\ targets' = setup.targets /\ rates' = << >>
    BY <1>9 DEF LoopExhausted, Goto, Finish, objectVars, probeVars
  <2>2. setup.targets \in Seq(ResetTargets)
    BY FlasherAssumption DEF FlasherAssumption, IInv, Setups
  <2>3. RatesLearnt' /\ ~Probed'
    BY <1>0, <2>1 DEF IInv, RatesLearnt, Probed
  <2>4. SecondReset'
    BY <1>0, <2>1, <2>2 DEF IInv, RatesLearnt, SecondReset
  <2> QED BY <1>0, <2>1, <2>3, <2>4 DEF IInv
<1>10. CASE Reset2Done
  <2>1. /\ pc = "reset2" /\ pc' = after
        /\ appType' = "GECKO" /\ appBaud' = bootProbe /\ bootBaud' = bootProbe
        /\ UNCHANGED <<after, bootProbe, mode, targets>>
        /\ targets = << >> \/ mode = "GECKO"
    BY <1>10 DEF Reset2Done, Goto, Heard, Listens, probeVars, resetVars, deviceVars
  <2>2. bootProbe = setup.bootBaud /\ (ResetsWork => mode = "GECKO")
    BY <2>1 DEF IInv, SecondReset
  <2>3. RatesLearnt' /\ (ResetsWork => Listens(appType, appBaud)')
    BY <1>0, <2>1, <2>2 DEF RatesLearnt, Listens
  <2>4. SecondReset' /\ pc' # "start"
    BY <2>1 DEF IInv, SecondReset
  <2> QED BY <1>0, <2>1, <2>3, <2>4 DEF IInv, ResetsWork
<1>11. CASE \/ ResetExhausted \/ EnterAlready \/ EnterObeyed \/ EnterUnanswered
            \/ EnterFails \/ Fallback \/ FallbackFails \/ ResetFails
            \/ Flash \/ Write \/ PortFails
  <2>1. UNCHANGED <<after, bootBaud, bootProbe>>
    BY <1>11 DEF ResetExhausted, EnterAlready, EnterObeyed, EnterUnanswered, EnterFails,
       Fallback, FallbackFails, ResetFails, Flash, Write, PortFails, objectVars, probeVars
  <2>2. pc' \in {"loop", "fallback", "verify", "end"}
    <3>1. CASE EnterUnanswered
      BY <3>1 DEF EnterUnanswered, Goto, Finish, Apps
    <3> QED BY <1>11, <3>1 DEF ResetExhausted, EnterAlready, EnterObeyed, EnterFails,
       Fallback, FallbackFails, ResetFails, Flash, Write, PortFails, Goto, Finish
  <2> QED BY <1>0, <2>1, <2>2, Elsewhere
<1>12. CASE Verify
  <2>1. CASE ProbeAppType(<<"GECKO">>, {}, "flash")
    BY <1>0, <1>12, <2>1, ProbeBegins DEF Verify, objectVars
  <2>2. CASE pc' = "flash" /\ UNCHANGED probeVars
    BY <1>0, <1>12, <2>2, Elsewhere DEF Verify, objectVars, probeVars
  <2> QED BY <1>12, <2>1, <2>2 DEF Verify, Goto
<1>13. CASE UNCHANGED vars
  BY <1>13 DEF vars, objectVars, probeVars, resetVars, deviceVars, IInv, RatesLearnt,
     SecondReset, Probed, ResetsWork, Listens
<1> QED BY <1>1, <1>2, <1>3, <1>4, <1>5, <1>6, <1>7, <1>8, <1>9, <1>10, <1>11, <1>12, <1>13
    DEF Next, Step, Done

LEMMA Invariance == Spec => []IInv
BY InitIInv, NextIInv, PTL DEF Spec

-----------------------------------------------------------------------------
\* A baudrate recorded for the bootloader is the bootloader's (flasher.py:275-303).
THEOREM BootBaudRecorded == Spec => []BootBaudTruthful
<1>1. IInv => BootBaudTruthful
  BY DEF IInv, RatesLearnt, BootBaudTruthful
<1> QED BY <1>1, Invariance, PTL

\* What probe_app_type has detected is what the device now runs, at the baudrate
\* recorded (flasher.py:226-308).
THEOREM ProbeTruthful == Spec => []ProbedTruthfully
<1>1. IInv => ProbedTruthfully
  BY DEF IInv, Probed, ProbedTruthfully
<1> QED BY <1>1, Invariance, PTL

-----------------------------------------------------------------------------
(***************************************************************************)
(* Types.                                                                  *)
(***************************************************************************)
Returns  == {"none", "enter", "flash", "decide", "probed", "write"}
Outcomes == {"running", "kept", "flashed", "written", "unchanged", "failed"}

ObjectOK ==
  /\ appType \in TypesOrNone
  /\ appBaud \in RatesOrNone /\ (appType = "none" <=> appBaud = None)
  /\ bootBaud \in RatesOrNone

ProbeOK ==
  /\ after \in Returns /\ runFw \in BOOLEAN /\ bootProbe \in RatesOrNone
  /\ \A a \in queue : /\ a.type \in Types /\ a.baud \in ToSet(Baudrates[a.type])
                      /\ a.place \in Nat \X Nat \X Nat

ResetOK ==
  /\ targets \in Seq(ResetTargets) /\ ToSet(targets) \subseteq ToSet(setup.targets)
  /\ rates \in Seq(Nat \ {0}) /\ ToSet(rates) \subseteq ToSet(Baudrates["GECKO"])

EndOK == pc \in Pcs /\ outcome \in Outcomes /\ (outcome = "running" <=> pc # "end")

DeviceOK ==
  /\ task \in Tasks /\ setup \in Setups /\ Relevant(setup, task)
  /\ mode \in Types \cup {"other", "new"} /\ ieee \in {"old", "new"}
  /\ misses \in 0..MaxMisses

Typed == ObjectOK /\ ProbeOK /\ ResetOK /\ EndOK /\ DeviceOK

\* A nonempty set of numbers has a least one.
LEMMA LeastNat ==
  ASSUME NEW S, S \subseteq Nat, S # {}
  PROVE  \E m \in S : \A k \in S : m <= k
<1> DEFINE R == {p \in Nat \X Nat : p[1] < p[2]}
<1>1. IsWellFoundedOn(R, Nat)
  BY NatLessThanWellFounded DEF OpToRel
<1>2. PICK m \in S : \A k \in S : <<k, m>> \notin R
  <2> HIDE DEF R
  <2> QED BY <1>1, WFMin
<1>3. \A k \in S : ~(k < m)
  BY <1>2
<1>4. \A k \in S : m <= k
  BY <1>3
<1> QED BY <1>4

\* There is a pair whose turn it is as long as there is one.
LEMMA CurrentQueued ==
  ASSUME queue # {}, \A a \in queue : a.place \in Nat \X Nat \X Nat
  PROVE  Current \in queue
<1> DEFINE First  == {a.place[1] : a \in queue}
<1>1. PICK x \in First : \A k \in First : x <= k
  <2>1. First \subseteq Nat /\ First # {}
    OBVIOUS
  <2> HIDE DEF First
  <2> QED BY <2>1, LeastNat
<1> DEFINE Second == {a.place[2] : a \in {b \in queue : b.place[1] = x}}
<1>2. PICK y \in Second : \A k \in Second : y <= k
  <2>1. Second \subseteq Nat /\ Second # {}
    OBVIOUS
  <2> HIDE DEF Second
  <2> QED BY <2>1, LeastNat
<1> DEFINE Third == {a.place[3] : a \in {b \in queue : b.place[1] = x /\ b.place[2] = y}}
<1>3. PICK z \in Third : \A k \in Third : z <= k
  <2>1. Third \subseteq Nat /\ Third # {}
    OBVIOUS
  <2> HIDE DEF Third
  <2> QED BY <2>1, LeastNat
<1>4. PICK a \in queue : a.place[1] = x /\ a.place[2] = y /\ a.place[3] = z
  OBVIOUS
<1>5. \A b \in queue : NotAfter(a.place, b.place)
  <2> SUFFICES ASSUME NEW b \in queue PROVE NotAfter(a.place, b.place)
    OBVIOUS
  <2>1. /\ b.place[1] \in Nat /\ b.place[2] \in Nat /\ b.place[3] \in Nat
        /\ a.place[1] \in Nat /\ a.place[2] \in Nat /\ a.place[3] \in Nat
    OBVIOUS
  <2>2. x <= b.place[1]
    BY <1>1
  <2>3. b.place[1] = x => y <= b.place[2]
    BY <1>2
  <2>4. b.place[1] = x /\ b.place[2] = y => z <= b.place[3]
    BY <1>3
  <2> QED BY <1>4, <2>1, <2>2, <2>3, <2>4 DEF NotAfter
<1> QED BY <1>4, <1>5 DEF Current

LEMMA MethodsTyped == Methods \in Seq(Types) /\ ToSet(Methods) \subseteq Types
<1>1. <<"EZSP", "GECKO">> \in Seq(Types)
  BY DEF Types, Apps
<1>2. Methods \in Seq(Types)
  BY <1>1, FlasherAssumption DEF FlasherAssumption, Methods
<1> QED BY <1>2 DEF ToSet

\* A pair is among those.
Offers(pairs, t, b) == \E a \in pairs : a.type = t /\ a.baud = b

\* Every type is tried at every rate of its, and nothing else.
LEMMA AttemptsTyped ==
  ASSUME NEW types \in Seq(Types), NEW first, NEW a \in Attempts(types, first)
  PROVE  /\ a.type \in ToSet(types) /\ a.baud \in ToSet(Baudrates[a.type])
         /\ a.place \in Nat \X Nat \X Nat
<1>1. PICK k \in DOMAIN types : \E j \in DOMAIN Baudrates[types[k]] :
        a = [type |-> types[k], baud |-> Baudrates[types[k]][j],
             place |-> <<IF types[k] \in first THEN 1 ELSE 2, k, j>>]
  BY DEF Attempts
<1>2. PICK j \in DOMAIN Baudrates[types[k]] :
        a = [type |-> types[k], baud |-> Baudrates[types[k]][j],
             place |-> <<IF types[k] \in first THEN 1 ELSE 2, k, j>>]
  BY <1>1
<1>3. types[k] \in Types /\ types[k] \in ToSet(types) /\ k \in Nat
  BY <1>1 DEF ToSet
<1>4. Baudrates[types[k]] \in Seq(Nat \ {0})
  BY <1>3, FlasherAssumption DEF FlasherAssumption
<1>5. j \in Nat /\ Baudrates[types[k]][j] \in ToSet(Baudrates[types[k]])
  BY <1>4 DEF ToSet
<1> QED BY <1>2, <1>3, <1>5

LEMMA AttemptsComplete ==
  ASSUME NEW types \in Seq(Types), NEW first,
         NEW t \in ToSet(types), NEW b \in ToSet(Baudrates[t])
  PROVE  Offers(Attempts(types, first), t, b)
<1>1. PICK k \in DOMAIN types : types[k] = t
  BY DEF ToSet
<1>2. t \in Types
  BY <1>1
<1>3. PICK j \in DOMAIN Baudrates[t] : Baudrates[t][j] = b
  BY <1>2, FlasherAssumption DEF FlasherAssumption, ToSet
<1> DEFINE a == [type |-> t, baud |-> b,
                 place |-> <<IF t \in first THEN 1 ELSE 2, k, j>>]
<1>4. a \in Attempts(types, first)
  BY <1>1, <1>3 DEF Attempts
<1> QED BY <1>4 DEF Offers

\* The rates are numbers above 0.
LEMMA RatesTyped ==
  /\ Rates \subseteq Nat \ {0}
  /\ \A t \in Types : ToSet(Baudrates[t]) \subseteq Rates
  /\ Baudrates["GECKO"] \in Seq(Nat \ {0})
  /\ Baudrates["GECKO"][1] \in Rates
<1>1. \A t \in Types : Baudrates[t] \in Seq(Nat \ {0})
  BY FlasherAssumption DEF FlasherAssumption
<1>2. \A t \in Types : ToSet(Baudrates[t]) \subseteq Nat \ {0}
  BY <1>1 DEF ToSet
<1>3. "GECKO" \in Types /\ Baudrates["GECKO"] # << >>
  BY FlasherAssumption DEF FlasherAssumption, Types
<1>4. Baudrates["GECKO"][1] \in ToSet(Baudrates["GECKO"])
  BY <1>1, <1>3, EmptySeq DEF ToSet
<1> QED BY <1>1, <1>2, <1>3, <1>4 DEF Rates

LEMMA InitTyped == Init => Typed
<1> SUFFICES ASSUME Init PROVE Typed
  OBVIOUS
<1>1. setup \in Setups /\ Relevant(setup, task) /\ task \in Tasks
  BY DEF Init
<1>2. Application \in Types \cup {"other"}
  BY <1>1 DEF Application, Setups, Types
<1>3. mode \in Types \cup {"other", "new"}
  BY <1>2 DEF Init, Types
<1>4. ieee \in {"old", "new"} /\ misses \in 0..MaxMisses
  BY FlasherAssumption DEF Init, FlasherAssumption
<1>5. DeviceOK
  BY <1>1, <1>3, <1>4 DEF DeviceOK
<1>6. ObjectOK /\ ProbeOK /\ EndOK
  BY DEF Init, ObjectOK, ProbeOK, EndOK, TypesOrNone, RatesOrNone, Returns, Pcs, Outcomes
<1>7. ResetOK
  <2>1. targets = << >> /\ rates = << >>
    BY DEF Init
  <2> QED BY <2>1 DEF ResetOK, ToSet
<1> QED BY <1>5, <1>6, <1>7 DEF Typed

\* A probe begins: its pairs are those of the types it is given.
LEMMA ProbeStarts ==
  ASSUME Typed, NEW types \in Seq(Types), NEW first,
         NEW return \in Returns, ProbeAppType(types, first, return),
         setup' = setup, pc # "end"
  PROVE  /\ ProbeOK' /\ ResetOK' /\ EndOK'
         /\ \A a \in queue' : a.type \in ToSet(types)
         /\ \A t \in ToSet(types) : \A b \in ToSet(Baudrates[t]) : Offers(queue', t, b)
         /\ pc' = "reset1" /\ bootProbe' = None /\ after' = return /\ outcome' = outcome
         /\ (runFw' => setup.targets # << >>)
         /\ targets' = setup.targets /\ rates' = << >>
<1>1. /\ queue' = Attempts(types, first) /\ pc' = "reset1"
      /\ bootProbe' = None /\ after' = return /\ outcome' = outcome
      /\ targets' = setup.targets /\ rates' = << >>
      /\ runFw' = (setup.targets # << >> /\ types # <<"GECKO">>)
  BY DEF ProbeAppType, Goto
<1>2. /\ \A a \in queue' :
           /\ a.type \in ToSet(types) /\ a.baud \in ToSet(Baudrates[a.type])
           /\ a.place \in Nat \X Nat \X Nat
      /\ \A t \in ToSet(types) : \A b \in ToSet(Baudrates[t]) : Offers(queue', t, b)
  <2> DEFINE made == Attempts(types, first)
  <2>1. ASSUME NEW a \in made
        PROVE  /\ a.type \in ToSet(types) /\ a.baud \in ToSet(Baudrates[a.type])
               /\ a.place \in Nat \X Nat \X Nat
    BY AttemptsTyped
  <2>2. ASSUME NEW t \in ToSet(types), NEW b \in ToSet(Baudrates[t])
        PROVE  Offers(made, t, b)
    BY AttemptsComplete
  <2> HIDE DEF made
  <2>3. queue' = made
    BY <1>1 DEF made
  <2> QED BY <2>1, <2>2, <2>3
<1>3. ToSet(types) \subseteq Types
  BY DEF ToSet
<1>4. ProbeOK'
  BY <1>1, <1>2, <1>3 DEF ProbeOK, RatesOrNone
<1>5. ResetOK'
  <2>1. setup.targets \in Seq(ResetTargets)
    BY FlasherAssumption DEF FlasherAssumption, Typed, DeviceOK, Setups
  <2>2. ToSet(rates') = {}
    BY <1>1 DEF ToSet
  <2> QED BY <1>1, <2>1, <2>2 DEF ResetOK
<1>6. EndOK'
  <2>1. outcome = "running"
    BY DEF ProbeAppType, Goto, Typed, EndOK
  <2> QED BY <1>1, <2>1 DEF EndOK, Pcs, Outcomes
<1> QED BY <1>1, <1>2, <1>4, <1>5, <1>6

\* Whoever probes gives it types.
Asks(types, first, return) ==
  /\ ProbeAppType(types, first, return) /\ pc # "end" /\ setup' = setup /\ task' = task
  /\ types \in Seq(Types) /\ return \in Returns

LEMMA WhoAsks ==
  ASSUME Typed
  PROVE  /\ ProbeTwice => Asks(Methods, {"GECKO", "EZSP"}, "write")
         /\ EnterUnknown => Asks(Methods, {}, "enter")
         /\ Verify => \/ bootBaud = None /\ Asks(<<"GECKO">>, {}, "flash")
                      \/ bootBaud # None /\ Goto("flash") /\ UNCHANGED <<probeVars, resetVars>>
         /\ Begin => \/ task = "flash" /\ Asks(Methods, {}, "decide") /\ UNCHANGED <<objectVars, mode>>
                     \/ /\ task \in Writes
                        /\ Asks(Methods, {"GECKO", "EZSP"},
                                IF task = "guiWrite" THEN "probed" ELSE "write")
                        /\ UNCHANGED <<objectVars, mode>>
                     \/ /\ task \in {"guiFlash", "enterFlash"} /\ Goto("enter")
                        /\ UNCHANGED <<probeVars, resetVars, task, setup>>
<1>1. <<"GECKO">> \in Seq(Types)
  BY DEF Types
<1>2. Methods \in Seq(Types)
  BY MethodsTyped
<1> USE DEF Asks, Returns, deviceVars
<1>3. ProbeTwice => Asks(Methods, {"GECKO", "EZSP"}, "write")
  BY <1>2 DEF ProbeTwice
<1>4. EnterUnknown => Asks(Methods, {}, "enter")
  BY <1>2 DEF EnterUnknown
<1>5. Verify => \/ bootBaud = None /\ Asks(<<"GECKO">>, {}, "flash")
                \/ bootBaud # None /\ Goto("flash") /\ UNCHANGED <<probeVars, resetVars>>
  BY <1>1 DEF Verify
<1>6. Begin => \/ task = "flash" /\ Asks(Methods, {}, "decide") /\ UNCHANGED <<objectVars, mode>>
               \/ /\ task \in Writes
                  /\ Asks(Methods, {"GECKO", "EZSP"},
                          IF task = "guiWrite" THEN "probed" ELSE "write")
                  /\ UNCHANGED <<objectVars, mode>>
               \/ /\ task \in {"guiFlash", "enterFlash"} /\ Goto("enter")
                  /\ UNCHANGED <<probeVars, resetVars, task, setup>>
  BY <1>2 DEF Begin
<1> QED BY <1>3, <1>4, <1>5, <1>6

LEMMA Stable == [Next]_vars => UNCHANGED <<task, setup>>
BY DEF Next, Step, vars, deviceVars, Begin, ProbeTwice, Decide, Reset, ResetFails,
   ResetMissed, ResetFound, ResetExhausted, LoopSkip, LoopMissed, LoopFound, LoopExhausted,
   Reset2Done, EnterUnknown, EnterAlready, EnterObeyed, EnterUnanswered, EnterFails,
   Fallback, FallbackFails, Verify, Flash, Write, PortFails, Done

\* What is recorded of the device is recorded by Begin, LoopFound and Reset2Done.
LEMMA NextObjectOK ==
  ASSUME Typed, IInv, [Next]_vars
  PROVE  ObjectOK'
<1>1. CASE UNCHANGED objectVars
  BY <1>1 DEF Typed, ObjectOK, objectVars
<1>2. CASE Begin
  <2>1. CASE /\ appType' = "GECKO" /\ appBaud' = Baudrates["GECKO"][1]
             /\ bootBaud' = Baudrates["GECKO"][1]
    BY <2>1, RatesTyped DEF ObjectOK, TypesOrNone, RatesOrNone, Types, None
  <2> QED BY <1>1, <1>2, <2>1 DEF Begin
<1>3. CASE LoopFound
  <2>1. PICK t \in Types, b \in Rates :
          /\ IF t = "GECKO" THEN bootBaud' = b ELSE bootBaud' = bootBaud
          /\ \/ UNCHANGED <<appType, appBaud>>
             \/ appType' = t /\ appBaud' = b
    BY <1>3 DEF LoopFound
  <2>2. t # "none" /\ b # None
    BY RatesTyped DEF Types, Apps, None
  <2> QED BY <2>1, <2>2 DEF Typed, ObjectOK, TypesOrNone, RatesOrNone
<1>4. CASE Reset2Done
  <2>1. setup.bootBaud \in Rates
    BY DEF Typed, DeviceOK, Setups
  <2>2. appType' = "GECKO" /\ appBaud' = setup.bootBaud /\ bootBaud' = setup.bootBaud
    BY <1>4 DEF Reset2Done, IInv, SecondReset
  <2> QED BY <2>1, <2>2, RatesTyped DEF ObjectOK, TypesOrNone, RatesOrNone, Types, None
<1> QED BY <1>1, <1>2, <1>3, <1>4 DEF Next, Step, vars, ProbeTwice, Decide, Reset, ResetFails,
   ResetMissed, ResetFound, ResetExhausted, LoopSkip, LoopMissed, LoopExhausted,
   EnterUnknown, EnterAlready, EnterObeyed, EnterUnanswered, EnterFails,
   Fallback, FallbackFails, Verify, Flash, Write, PortFails, Done

LEMMA NextProbeOK ==
  ASSUME Typed, [Next]_vars
  PROVE  \/ ProbeOK' /\ queue' \subseteq queue
         \/ \E types, first, return : Asks(types, first, return)
<1>1. CASE UNCHANGED probeVars
  BY <1>1 DEF Typed, ProbeOK, probeVars
<1>2. CASE ProbeTwice \/ EnterUnknown \/ Verify \/ Begin
  BY <1>1, <1>2, WhoAsks
<1>3. CASE ResetFound
  <2>1. bootProbe' = Head(rates) /\ UNCHANGED <<after, queue, runFw>> /\ rates # << >>
    BY <1>3 DEF ResetFound
  <2>2. Head(rates) \in Rates
    <3>1. Head(rates) \in ToSet(rates)
      BY <2>1 DEF Typed, ResetOK, ToSet
    <3>2. "GECKO" \in Types
      BY DEF Types
    <3> QED BY <3>1, <3>2, RatesTyped DEF Typed, ResetOK
  <2> QED BY <2>1, <2>2 DEF Typed, ProbeOK, RatesOrNone
<1>4. CASE LoopSkip \/ LoopMissed
  <2>1. queue' = queue \ {Current} /\ UNCHANGED <<after, runFw, bootProbe>>
    BY <1>4 DEF LoopSkip, LoopMissed
  <2> QED BY <2>1 DEF Typed, ProbeOK
<1>5. CASE LoopFound
  <2>1. PICK t \in Types, b \in Rates :
          /\ IF t = "GECKO" THEN bootProbe' = b ELSE bootProbe' = bootProbe
          /\ queue' \in {queue, queue \ {Current}} /\ UNCHANGED <<after, runFw>>
    BY <1>5 DEF LoopFound
  <2> QED BY <2>1 DEF Typed, ProbeOK, RatesOrNone
<1> QED BY <1>1, <1>2, <1>3, <1>4, <1>5 DEF Next, Step, vars, Decide, Reset, ResetFails,
   ResetMissed, ResetExhausted, LoopExhausted, Reset2Done,
   EnterAlready, EnterObeyed, EnterUnanswered, EnterFails,
   Fallback, FallbackFails, Flash, Write, PortFails, Done

LEMMA NextResetOK ==
  ASSUME Typed, [Next]_vars
  PROVE  ResetOK' \/ \E types, first, return : Asks(types, first, return)
<1>0. setup' = setup
  BY Stable
<1>1. CASE UNCHANGED resetVars
  BY <1>0, <1>1 DEF Typed, ResetOK, resetVars
<1>2. CASE ProbeTwice \/ EnterUnknown \/ Verify \/ Begin
  BY <1>1, <1>2, WhoAsks
<1>3. CASE Reset
  <2>1. targets # << >> /\ targets' = Tail(targets) /\ rates' = Baudrates["GECKO"]
    BY <1>3 DEF Reset
  <2>2. targets \in Seq(ResetTargets) /\ ToSet(targets) \subseteq ToSet(setup.targets)
    BY DEF Typed, ResetOK
  <2>3. Tail(targets) \in Seq(ResetTargets) /\ ToSet(Tail(targets)) \subseteq ToSet(targets)
    BY <2>1, <2>2 DEF ToSet
  <2> QED BY <1>0, <2>1, <2>2, <2>3, RatesTyped DEF ResetOK
<1>4. CASE ResetMissed
  <2>1. rates # << >> /\ rates' = Tail(rates) /\ targets' = targets
    BY <1>4 DEF ResetMissed
  <2>2. rates \in Seq(Nat \ {0})
    BY DEF Typed, ResetOK
  <2>3. Tail(rates) \in Seq(Nat \ {0}) /\ ToSet(Tail(rates)) \subseteq ToSet(rates)
    BY <2>1, <2>2 DEF ToSet
  <2> QED BY <1>0, <2>1, <2>3 DEF Typed, ResetOK
<1>5. CASE LoopExhausted
  <2>1. CASE UNCHANGED resetVars
    BY <1>1, <2>1
  <2>2. CASE targets' = setup.targets /\ rates' = << >>
    <3>1. setup.targets \in Seq(ResetTargets)
      BY FlasherAssumption DEF FlasherAssumption, Typed, DeviceOK, Setups
    <3>2. ToSet(rates') = {}
      BY <2>2 DEF ToSet
    <3> QED BY <1>0, <2>2, <3>1, <3>2 DEF ResetOK
  <2> QED BY <1>5, <2>1, <2>2 DEF LoopExhausted
<1> QED BY <1>1, <1>2, <1>3, <1>4, <1>5 DEF Next, Step, vars, Decide, ResetFails,
   ResetFound, ResetExhausted, LoopSkip, LoopMissed, LoopFound, Reset2Done,
   EnterAlready, EnterObeyed, EnterUnanswered, EnterFails,
   Fallback, FallbackFails, Flash, Write, PortFails, Done

-----------------------------------------------------------------------------
(***************************************************************************)
(* Where the callers can be.                                               *)
(***************************************************************************)
Prober == {"start", "reset1", "reset2", "loop", "end"}
Enterer == {"enter", "fallback", "verify", "flash"}

\* The types that are probed for.
Sought == IF after = "flash" THEN {"GECKO"} ELSE ToSet(Methods)

Flow ==
  /\ task \in Writes => /\ pc \in Prober \cup {"probed", "write"}
                        /\ after \in {"none", "probed", "write"}
  /\ task = "flash" => /\ pc \in Prober \cup Enterer \cup {"decide"}
                       /\ after \in {"none", "decide", "flash"}
                       /\ pc \in {"decide", "enter"} => appType # "none"
  /\ task = "enterFlash" => /\ pc \in Prober \cup Enterer
                            /\ after \in {"none", "enter", "flash"}
  /\ task = "guiFlash" => /\ pc \in {"start", "enter", "verify", "flash", "end"}
                          /\ pc \in Enterer => /\ appType = "GECKO"
                                               /\ bootBaud = Baudrates["GECKO"][1]
  /\ pc = "start" => after = "none"
  /\ pc \in {"reset1", "reset2", "loop"} =>
       /\ after # "none"
       /\ runFw => setup.targets # << >>
       /\ \A a \in queue : a.type \in Sought
  /\ pc = "reset1" =>
       /\ bootProbe = None
       /\ \A t \in Sought : \A b \in ToSet(Baudrates[t]) : Offers(queue, t, b)

LEMMA InitFlow == Init => Flow
BY DEF Init, Flow, Tasks, Writes, Prober, Enterer

LEMMA AsksFlow ==
  ASSUME Flow, Typed, NEW types, NEW first, NEW return,
         Asks(types, first, return),
         \/ task \in Writes /\ return \in {"probed", "write"}
         \/ task = "flash" /\ return \in {"decide", "flash"}
         \/ task = "enterFlash" /\ return \in {"enter", "flash"},
         ToSet(types) = IF return = "flash" THEN {"GECKO"} ELSE ToSet(Methods)
  PROVE  Flow'
<1>1. /\ \A a \in queue' : a.type \in ToSet(types)
      /\ \A t \in ToSet(types) : \A b \in ToSet(Baudrates[t]) : Offers(queue', t, b)
      /\ pc' = "reset1" /\ bootProbe' = None /\ after' = return
      /\ runFw' => setup.targets # << >>
      /\ task' = task /\ setup' = setup
  BY ProbeStarts DEF Asks
<1>2. Sought' = ToSet(types)
  BY <1>1 DEF Sought, Methods
<1> QED BY <1>1, <1>2 DEF Flow, Prober, Enterer, Writes

LEMMA NextFlow == Typed /\ Flow /\ [Next]_vars => Flow'
<1> SUFFICES ASSUME Typed, Flow, [Next]_vars PROVE Flow'
  OBVIOUS
<1>0. UNCHANGED <<task, setup>>
  BY Stable
<1>1. CASE ProbeTwice
  <2>1. Asks(Methods, {"GECKO", "EZSP"}, "write") /\ task \in Writes
    BY <1>1, WhoAsks DEF ProbeTwice, Flow, Typed, DeviceOK, Tasks, Prober, Enterer
  <2> QED BY <2>1, AsksFlow
<1>2. CASE EnterUnknown
  <2>1. Asks(Methods, {}, "enter") /\ task = "enterFlash"
    BY <1>2, WhoAsks DEF EnterUnknown, Flow, Typed, DeviceOK, Tasks, Prober, Enterer
  <2> QED BY <2>1, AsksFlow
<1>3. CASE Verify
  <2>1. CASE bootBaud = None /\ Asks(<<"GECKO">>, {}, "flash")
    <3>1. task \in {"flash", "enterFlash"}
      <4>1. Baudrates["GECKO"][1] # None
        BY RatesTyped DEF None
      <4> QED BY <1>3, <2>1, <4>1 DEF Verify, Flow, Typed, DeviceOK, Tasks, Prober, Enterer
    <3>2. ToSet(<<"GECKO">>) = {"GECKO"}
      BY DEF ToSet
    <3> QED BY <2>1, <3>1, <3>2, AsksFlow
  <2>2. CASE pc' = "flash" /\ UNCHANGED <<probeVars, resetVars>>
    <3>1. pc = "verify" /\ UNCHANGED <<objectVars, after>>
      BY <1>3, <2>2 DEF Verify, probeVars
    <3> QED BY <1>0, <2>2, <3>1 DEF Flow, Prober, Enterer, objectVars, Writes
  <2> QED BY <1>3, <2>1, <2>2, WhoAsks DEF Goto
<1>4. CASE Begin
  <2>1. CASE task = "flash" /\ Asks(Methods, {}, "decide")
    BY <2>1, AsksFlow
  <2>2. CASE task \in Writes
             /\ Asks(Methods, {"GECKO", "EZSP"}, IF task = "guiWrite" THEN "probed" ELSE "write")
    BY <2>2, AsksFlow
  <2>3. CASE task \in {"guiFlash", "enterFlash"} /\ pc' = "enter" /\ after' = after
    <3>1. task = "guiFlash" => appType' = "GECKO" /\ bootBaud' = Baudrates["GECKO"][1]
      BY <1>4, <2>3 DEF Begin, Writes
    <3>2. pc = "start"
      BY <1>4 DEF Begin
    <3> QED BY <1>0, <2>3, <3>1, <3>2 DEF Flow, Prober, Enterer, Writes
  <2> QED BY <1>4, <2>1, <2>2, <2>3, WhoAsks DEF Goto, probeVars
<1>5. CASE Decide
  <2>1. pc = "decide" /\ pc' \in {"enter", "end"} /\ UNCHANGED <<after, appType, bootBaud>>
    BY <1>5 DEF Decide, Goto, Finish, objectVars, probeVars
  <2> QED BY <1>0, <2>1 DEF Flow, Prober, Enterer, Writes
<1>6. CASE Reset \/ ResetMissed
  <2>1. pc' = pc /\ UNCHANGED <<objectVars, probeVars>>
    BY <1>6 DEF Reset, ResetMissed
  <2>2. Sought' = Sought
    BY <1>0, <2>1 DEF Sought, Methods, probeVars
  <2> QED BY <1>0, <2>1, <2>2 DEF Flow, objectVars, probeVars
<1>7. CASE ResetFound \/ ResetExhausted
  <2>1. /\ pc = "reset1" /\ pc' = "loop"
        /\ UNCHANGED <<appType, bootBaud, after, queue, runFw>>
    BY <1>7 DEF ResetFound, ResetExhausted, objectVars, probeVars, Goto
  <2>2. Sought' = Sought
    BY <1>0, <2>1 DEF Sought, Methods
  <2> QED BY <1>0, <2>1, <2>2 DEF Flow, Prober, Enterer, Writes
<1>8. CASE LoopSkip \/ LoopMissed
  <2>1. /\ pc = "loop" /\ pc' = "loop" /\ queue' \subseteq queue
        /\ UNCHANGED <<appType, bootBaud, after, runFw>>
    BY <1>8 DEF LoopSkip, LoopMissed, Probing, objectVars
  <2>2. Sought' = Sought
    BY <1>0, <2>1 DEF Sought, Methods
  <2> QED BY <1>0, <2>1, <2>2 DEF Flow, Prober, Enterer, Writes
<1>9. CASE LoopFound \/ Reset2Done
  <2>1. /\ pc \in {"loop", "reset2"} /\ queue' \subseteq queue /\ UNCHANGED <<after, runFw>>
        /\ \/ pc' = "loop" /\ UNCHANGED appType
           \/ pc' = after /\ appType' # "none"
    BY <1>9 DEF LoopFound, Reset2Done, Probing, Goto, probeVars, Types, Apps
  <2>2. Sought' = Sought
    BY <1>0, <2>1 DEF Sought, Methods
  <2>3. after \in Returns \ {"none"} /\ task # "guiFlash"
    BY <2>1 DEF Typed, ProbeOK, Flow
  <2> QED BY <1>0, <2>1, <2>2, <2>3 DEF Flow, Prober, Enterer, Writes, Returns
<1>10. CASE LoopExhausted
  <2>1. /\ pc = "loop" /\ pc' \in {"reset2", "end"} /\ UNCHANGED probeVars
        /\ UNCHANGED objectVars
    BY <1>10 DEF LoopExhausted, Goto, Finish
  <2>2. Sought' = Sought
    BY <1>0, <2>1 DEF Sought, Methods, probeVars
  <2> QED BY <1>0, <2>1, <2>2 DEF Flow, Prober, Enterer, Writes, objectVars, probeVars
<1>11. CASE EnterAlready \/ EnterObeyed \/ EnterUnanswered \/ EnterFails
            \/ Fallback \/ FallbackFails
  <2>1. UNCHANGED <<objectVars, probeVars>> /\ pc \in {"enter", "fallback"}
    BY <1>11 DEF EnterAlready, EnterObeyed, EnterUnanswered, EnterFails, Fallback, FallbackFails
  <2>2. pc' \in {"fallback", "verify", "end"} /\ (pc' = "fallback" => appType # "GECKO")
    <3>1. CASE EnterUnanswered
      BY <3>1 DEF EnterUnanswered, Goto, Finish, Apps
    <3> QED BY <1>11, <3>1 DEF EnterAlready, EnterObeyed, EnterFails, Fallback, FallbackFails,
               Goto, Finish, Flow
  <2> QED BY <1>0, <2>1, <2>2 DEF Flow, Prober, Enterer, Writes, objectVars, probeVars
<1>12. CASE Flash \/ Write \/ PortFails \/ ResetFails
  <2>1. UNCHANGED <<objectVars, probeVars>> /\ pc' = "end"
    BY <1>12 DEF Flash, Write, PortFails, ResetFails, Finish
  <2> QED BY <1>0, <2>1 DEF Flow, Prober, Enterer, Writes, objectVars, probeVars
<1>13. CASE UNCHANGED vars
  <2>1. UNCHANGED <<objectVars, probeVars, pc>>
    BY <1>13 DEF vars
  <2>2. Sought' = Sought
    BY <1>0, <2>1 DEF Sought, Methods, probeVars
  <2> QED BY <1>0, <2>1, <2>2 DEF Flow, objectVars, probeVars
<1> QED BY <1>1, <1>2, <1>3, <1>4, <1>5, <1>6, <1>7, <1>8, <1>9, <1>10, <1>11, <1>12, <1>13
    DEF Next, Step, Done

-----------------------------------------------------------------------------
(***************************************************************************)
(* The device, and where the coroutine ends.                               *)
(***************************************************************************)
LEMMA NextEndOK ==
  ASSUME Typed, Flow, [Next]_vars
  PROVE  EndOK'
<1>1. CASE UNCHANGED <<pc, outcome>>
  BY <1>1 DEF Typed, EndOK
<1>2. CASE pc' = "end" /\ outcome' \in Outcomes \ {"running"}
  BY <1>2 DEF EndOK, Pcs
<1>3. CASE pc # "end" /\ pc' \in Pcs \ {"end"} /\ UNCHANGED outcome
  BY <1>3 DEF Typed, EndOK
<1>4. CASE ProbeTwice \/ EnterUnknown \/ Verify \/ Begin
  <2>1. pc' \in {"reset1", "flash", "enter"} /\ UNCHANGED outcome /\ pc # "end"
    BY <1>4 DEF ProbeTwice, EnterUnknown, Verify, Begin, ProbeAppType, Goto
  <2> QED BY <1>3, <2>1 DEF Pcs
<1>5. CASE LoopFound \/ Reset2Done
  <2>1. /\ pc \in {"loop", "reset2"} /\ UNCHANGED outcome /\ pc' \in {"loop", after}
    BY <1>5 DEF LoopFound, Reset2Done, Probing, Goto
  <2>2. after \in Pcs \ {"end"}
    BY <2>1 DEF Flow, Typed, ProbeOK, Returns, Pcs
  <2> QED BY <1>3, <2>1, <2>2 DEF Pcs
<1>6. CASE EnterUnanswered
  <2>1. \/ pc' \in {"fallback", "verify"} /\ UNCHANGED outcome
        \/ pc' = "end" /\ outcome' = "failed"
    BY <1>6 DEF EnterUnanswered, Goto, Finish, Apps
  <2> QED BY <1>2, <1>3, <1>6, <2>1 DEF EnterUnanswered, Outcomes, Pcs
<1>7. CASE Decide \/ LoopExhausted
  <2>1. /\ pc # "end"
        /\ \/ pc' \in {"enter", "reset2"} /\ UNCHANGED outcome
           \/ pc' = "end" /\ outcome' \in {"failed", "kept"}
    BY <1>7 DEF Decide, LoopExhausted, Goto, Finish
  <2> QED BY <1>2, <1>3, <2>1 DEF Outcomes, Pcs
<1>8. CASE Flash \/ Write \/ PortFails \/ ResetFails \/ EnterFails \/ FallbackFails
  <2>1. pc' = "end" /\ outcome' \in Outcomes \ {"running"}
    BY <1>8 DEF Flash, Write, PortFails, ResetFails, EnterFails, FallbackFails, Finish, Outcomes
  <2> QED BY <1>2, <2>1
<1>9. CASE ResetFound \/ ResetExhausted \/ EnterAlready \/ EnterObeyed \/ Fallback
  <2>1. pc' \in {"loop", "verify"} /\ UNCHANGED outcome /\ pc # "end"
    BY <1>9 DEF ResetFound, ResetExhausted, EnterAlready, EnterObeyed, Fallback, Goto
  <2> QED BY <1>3, <2>1 DEF Pcs
<1> QED BY <1>1, <1>4, <1>5, <1>6, <1>7, <1>8, <1>9
    DEF Next, Step, vars, Reset, ResetMissed, LoopSkip, LoopMissed, Done

\* A chip starts the application or the bootloader, or is not started.
LEMMA RunOutcomes ==
  ASSUME NEW target \in ResetTargets, NEW n \in 0..Len(Pattern(target))
  PROVE  Run(target, n) \subseteq {"GECKO", "app", "same"}
<1>1. \A l, m : Starts(l, m) \subseteq {"GECKO", "app"}
  BY DEF Starts
<1>2. CASE target = "baudrate"
  BY <1>2 DEF Run
<1>3. CASE target # "baudrate"
  <2> DEFINE level == Lines(SubSeq(Pattern(target), 1, n))
  <2>1. Pattern(target) \in Seq(Signals)
    BY <1>3, PatternTyped
  <2>2. SubSeq(Pattern(target), 1, n) \in Seq(Signals)
    BY <2>1
  <2>3. Last(level).reset
    BY <2>2, ReleasedAfter
  <2> HIDE DEF level
  <2>4. Run(target, n) =
          CASE ~Last(level).reset -> {"held"}
            [] Last(level).reset /\ Rises(level) = {}  -> {"same"}
            [] Last(level).reset /\ Rises(level) # {} ->
                 Starts(level[Min(Rises(level))], level[Min(Rises(level)) + 1])
    BY <1>3 DEF Run, level
  <2>5. CASE Rises(level) = {}
    BY <2>3, <2>4, <2>5
  <2>6. CASE Rises(level) # {}
    BY <1>1, <2>3, <2>4, <2>6
  <2> QED BY <2>5, <2>6
<1> QED BY <1>2, <1>3

LEMMA ModesAfter ==
  ASSUME NEW target \in ResetTargets, NEW starts \in {ResetBy, CutShort},
         NEW m \in ModeAfter(target, starts)
  PROVE  m \in {mode, Application, "GECKO"}
<1>1. starts[target] \subseteq {"GECKO", "app", "same"}
  <2>0. Len(Pattern(target)) \in 0..Len(Pattern(target))
    <3>1. CASE target = "baudrate"
      <4>1. Pattern(target) = << At(150, "nothing"), At(300, "nothing"), At(1200, "BZ") >>
        BY <3>1 DEF Pattern
      <4> QED BY <4>1
    <3>2. CASE target # "baudrate"
      BY <3>2, PatternTyped, LenProperties
    <3> QED BY <3>1, <3>2
  <2>1. CASE starts = ResetBy
    BY <2>0, <2>1, RunOutcomes DEF ResetBy
  <2>2. CASE starts = CutShort
    BY <2>2, RunOutcomes DEF CutShort
  <2> QED BY <2>1, <2>2
<1> DEFINE runs(k) == CASE k = "app" -> Application [] k = "same" -> mode [] OTHER -> k
<1>2. ASSUME NEW k \in starts[target]
      PROVE  runs(k) \in {mode, Application, "GECKO"}
  <2>1. CASE k = "GECKO"
    BY <2>1
  <2>2. CASE k = "app"
    BY <2>2
  <2>3. CASE k = "same"
    BY <2>3
  <2> QED BY <1>1, <2>1, <2>2, <2>3
<1>3. ModeAfter(target, starts) =
        IF target \notin setup.wired THEN {mode} ELSE {runs(k) : k \in starts[target]}
  BY DEF ModeAfter
<1> HIDE DEF runs
<1> QED BY <1>2, <1>3

LEMMA NextDeviceOK ==
  ASSUME Typed, [Next]_vars
  PROVE  DeviceOK'
<1>0. UNCHANGED <<task, setup>>
  BY Stable
<1>1. misses' \in 0..MaxMisses
  <2>1. misses \in 0..MaxMisses /\ MaxMisses \in Nat
    BY FlasherAssumption DEF FlasherAssumption, Typed, DeviceOK
  <2>2. misses' = misses \/ (misses < MaxMisses /\ misses' = misses + 1)
    BY DEF Next, Step, vars, Begin, ProbeTwice, Decide, Reset, ResetFails,
       ResetMissed, ResetFound, ResetExhausted, LoopSkip, LoopMissed, LoopFound, LoopExhausted,
       Reset2Done, EnterUnknown, EnterAlready, EnterObeyed, EnterUnanswered, EnterFails,
       Fallback, FallbackFails, Verify, Flash, Write, PortFails, Done,
       Heard, Missed, Mishap
  <2> QED BY <2>1, <2>2
<1>2. ieee' \in {"old", "new"}
  BY DEF Typed, DeviceOK, Next, Step, vars, deviceVars, Begin, ProbeTwice, Decide, Reset,
     ResetFails, ResetMissed, ResetFound, ResetExhausted, LoopSkip, LoopMissed, LoopFound,
     LoopExhausted, Reset2Done, EnterUnknown, EnterAlready, EnterObeyed, EnterUnanswered,
     EnterFails, Fallback, FallbackFails, Verify, Flash, Write, PortFails, Done
<1>3. mode' \in Types \cup {"other", "new"}
  <2>1. CASE mode' = mode
    BY <2>1 DEF Typed, DeviceOK
  <2>2. CASE mode' = Application
    BY <2>2 DEF Application, Typed, DeviceOK, Setups, Types
  <2>3. CASE mode' \in {"GECKO", "new"}
    BY <2>3 DEF Types
  <2>4. CASE \E target \in ResetTargets : \E starts \in {ResetBy, CutShort} :
               mode' \in ModeAfter(target, starts)
    BY <2>1, <2>2, <2>3, <2>4, ModesAfter
  <2>5. CASE Reset \/ ResetFails \/ Fallback \/ FallbackFails \/ Begin
    <3>1. "rts_dtr" \in ResetTargets
      BY DEF ResetTargets
    <3>2. targets # << >> => Head(targets) \in ResetTargets
      BY DEF Typed, ResetOK
    <3> QED BY <2>1, <2>4, <2>5, <3>1, <3>2
            DEF Reset, ResetFails, Fallback, FallbackFails, Begin, ModeAfterReset
  <2>6. CASE ResetFound \/ LoopFound \/ EnterObeyed \/ EnterUnanswered \/ Flash
    <3>1. mode' \in {mode, Application, "GECKO", "new"}
      BY <2>6 DEF ResetFound, LoopFound, EnterObeyed, EnterUnanswered, Flash
    <3> QED BY <2>1, <2>2, <2>3, <3>1
  <2> QED BY <2>1, <2>5, <2>6 DEF Next, Step, vars, deviceVars, ProbeTwice, Decide,
     ResetMissed, ResetExhausted, LoopSkip, LoopMissed, LoopExhausted, Reset2Done,
     EnterUnknown, EnterAlready, EnterFails, Verify, Write, PortFails, Done
<1> QED BY <1>0, <1>1, <1>2, <1>3 DEF Typed, DeviceOK

LEMMA NextTyped == IInv /\ Typed /\ Flow /\ [Next]_vars => Typed'
<1> SUFFICES ASSUME IInv, Typed, Flow, [Next]_vars PROVE Typed'
  OBVIOUS
<1>1. ProbeOK' /\ ResetOK'
  <2>1. CASE \E types, first, return : Asks(types, first, return)
    BY <2>1, ProbeStarts DEF Asks
  <2> QED BY <2>1, NextProbeOK, NextResetOK
<1> QED BY <1>1, NextObjectOK, NextEndOK, NextDeviceOK DEF Typed

LEMMA TypedInvariance == Spec => [](IInv /\ Typed /\ Flow)
BY InitIInv, InitTyped, InitFlow, NextIInv, NextTyped, NextFlow, PTL DEF Spec

\* The variables have their types: a type that was detected is recorded with its
\* baudrate, and the loop never holds a pair that was not asked for.
THEOREM TypeCorrect == Spec => []TypeOK
<1>1. ASSUME Typed PROVE TypeOK
  <2>1. mode \in TypesOrNone \cup {"other", "new"}
    BY <1>1 DEF Typed, DeviceOK, TypesOrNone
  <2>2. after \in Pcs \cup {"none"}
    BY <1>1 DEF Typed, ProbeOK, Returns, Pcs
  <2> QED BY <1>1, <2>1, <2>2
          DEF Typed, ObjectOK, ProbeOK, ResetOK, EndOK, DeviceOK, TypeOK, Outcomes
<1> QED BY <1>1, TypedInvariance, PTL

-----------------------------------------------------------------------------
(***************************************************************************)
(* A course on which nothing is missed.                                    *)
(***************************************************************************)

\* Nothing is flashed, or it is not yet decided.
Watched ==
  \/ task \in Writes \/ pc = "decide" \/ outcome = "kept"
  \/ task = "flash" /\ pc \in Prober \ {"end"} /\ after # "flash"

\* An application that can be probed runs, but for a reset that is followed by
\* the probes that find the bootloader and start it again; and it will be found.
AppRuns ==
  misses = 0 /\ setup.start = "app" /\ Detectable /\ Watched =>
    /\ pc # "reset2"
    /\ IF pc = "reset1"
       THEN mode = setup.app \/ (mode = "GECKO" /\ setup.bootBaud \in ToSet(rates))
       ELSE mode = setup.app
    /\ pc = "loop" => Offers(queue, setup.app, setup.appBaud)

InitialMode == IF setup.start = "app" THEN Application ELSE "GECKO"

\* What runs while a device without resets is probed.
ModeBefore == IF after = "flash" THEN "GECKO" ELSE InitialMode

\* What runs can still be found.
Findable ==
  \A t \in Sought : \A b \in ToSet(Baudrates[t]) :
    Listens(t, b) /\ ~(t = "GECKO" /\ bootProbe # None) => Offers(queue, t, b)

\* Where the device is at each point of the coroutine.
AtReset ==
  pc = "reset1" =>
    IF setup.targets = << >>
    THEN targets = << >> /\ rates = << >> /\ mode = ModeBefore
    ELSE \/ targets = setup.targets /\ rates = << >>
         \/ mode = "GECKO" /\ setup.bootBaud \in ToSet(rates)

AtLoop ==
  pc = "loop" =>
    /\ IF setup.targets = << >> THEN bootProbe = None /\ mode = ModeBefore
                                ELSE bootProbe # None /\ mode = Application
    /\ Findable

\* Written to is only EmberZNet: if it can be, it is what was found.
AtWrite ==
  /\ pc = "reset2" /\ task \in Writes => ~Reachable
  /\ pc \in {"probed", "write"} => /\ Reachable => mode = "EZSP"
                                   /\ setup.targets = << >> => mode = InitialMode

AtEnter ==
  pc = "enter" =>
    IF appType = "none" THEN setup.targets = << >> => mode = InitialMode
    ELSE mode = appType /\ (task # "guiFlash" => Listens(appType, appBaud))

AtFlash ==
  /\ pc # "fallback"
  /\ pc \in {"verify", "flash"} => mode = "GECKO"
  /\ pc = "flash" /\ task # "guiFlash" => bootBaud # None

Place ==
  /\ pc = "start" => mode = InitialMode
  /\ AtReset /\ AtLoop /\ AtWrite /\ AtEnter /\ AtFlash
  /\ outcome = "failed" => ~Reachable

Course == misses = 0 /\ ResetsWork => Place

\* What depends on the task and the device alone.
LEMMA SetupStable ==
  ASSUME UNCHANGED <<task, setup>>
  PROVE  /\ Detectable' = Detectable /\ ResetsWork' = ResetsWork /\ Reachable' = Reachable
         /\ Application' = Application /\ InitialMode' = InitialMode /\ Methods' = Methods
<1>1. Methods' = Methods
  BY DEF Methods
<1>2. Detectable' = Detectable /\ ResetsWork' = ResetsWork /\ Application' = Application
  BY <1>1 DEF Detectable, ResetsWork, Application
<1> QED BY <1>1, <1>2 DEF Reachable, InitialMode

\* The number of misses only grows.
LEMMA NothingMissed ==
  ASSUME Typed, [Next]_vars, misses' = 0
  PROVE  /\ misses = 0 /\ ~Mishap
         /\ \A t, b : Missed(t, b) => ~Listens(t, b)
<1>1. misses \in Nat
  BY DEF Typed, DeviceOK
<1>2. misses' = misses \/ (misses < MaxMisses /\ misses' = misses + 1)
  BY DEF Next, Step, vars, Begin, ProbeTwice, Decide, Reset, ResetFails,
     ResetMissed, ResetFound, ResetExhausted, LoopSkip, LoopMissed, LoopFound, LoopExhausted,
     Reset2Done, EnterUnknown, EnterAlready, EnterObeyed, EnterUnanswered, EnterFails,
     Fallback, FallbackFails, Verify, Flash, Write, PortFails, Done,
     Heard, Missed, Mishap
<1> QED BY <1>1, <1>2 DEF Missed, Mishap

LEMMA DeviceKnown ==
  ASSUME Typed
  PROVE  /\ setup.bootBaud \in ToSet(Baudrates["GECKO"]) /\ setup.bootBaud # None
         /\ Detectable => /\ setup.app \in Apps /\ setup.app \in Types \ {"GECKO"}
                          /\ Application = setup.app
<1>1. setup.bootBaud \in ToSet(Baudrates["GECKO"]) /\ setup.app \in Apps \cup {"other", "none"}
  BY DEF Typed, DeviceOK, Relevant, Setups
<1>2. "GECKO" \in Types
  BY DEF Types
<1>3. Detectable => setup.app \in Types
  BY MethodsTyped DEF Detectable
<1>4. Detectable => /\ setup.app \in Apps /\ setup.app \in Types \ {"GECKO"}
                    /\ Application = setup.app
  BY <1>1, <1>3 DEF Types, Apps, Application
<1> QED BY <1>1, <1>2, <1>4, RatesTyped DEF None

\* A reset that works is followed by probes that will find the bootloader.
LEMMA ResetGoes ==
  ASSUME Typed, Reset
  PROVE  /\ targets # << >> /\ rates = << >> /\ pc' = pc /\ pc \in {"reset1", "reset2"}
         /\ mode' = "GECKO" \/ (mode' = mode /\ ~ResetsWork)
         /\ setup.bootBaud \in ToSet(rates')
<1>1. /\ pc \in {"reset1", "reset2"} /\ rates = << >> /\ targets # << >> /\ pc' = pc
      /\ mode' \in ModeAfterReset(Head(targets)) /\ rates' = Baudrates["GECKO"]
  BY DEF Reset
<1>2. Head(targets) \in ResetTargets /\ Head(targets) \in ToSet(setup.targets)
  <2>1. targets \in Seq(ResetTargets) /\ ToSet(targets) \subseteq ToSet(setup.targets)
    BY DEF Typed, ResetOK
  <2>2. Head(targets) \in ResetTargets /\ Head(targets) \in ToSet(targets)
    BY <1>1, <2>1 DEF ToSet
  <2> QED BY <2>1, <2>2
<1>3. CASE Head(targets) \in setup.wired
  BY <1>1, <1>2, <1>3, WorkingReset, DeviceKnown
<1>4. CASE Head(targets) \notin setup.wired
  <2>1. mode' = mode /\ ~ResetsWork
    BY <1>1, <1>2, <1>4 DEF ModeAfterReset, ModeAfter, ResetsWork
  <2> QED BY <1>1, <2>1, DeviceKnown
<1> QED BY <1>3, <1>4

LEMMA ResetMissedGoes ==
  ASSUME Typed, ResetMissed, misses' = 0,
         mode = "GECKO", setup.bootBaud \in ToSet(rates)
  PROVE  setup.bootBaud \in ToSet(rates')
<1>1. rates # << >> /\ Missed("GECKO", Head(rates)) /\ rates' = Tail(rates)
  BY DEF ResetMissed
<1>2. Head(rates) # setup.bootBaud
  BY <1>1, NothingMissed DEF Listens, Next, Step
<1>3. rates \in Seq(Nat \ {0})
  BY DEF Typed, ResetOK
<1>4. PICK k \in 1..Len(rates) : rates[k] = setup.bootBaud
  BY <1>3 DEF ToSet
<1>5. k # 1 /\ k - 1 \in 1..Len(Tail(rates)) /\ Tail(rates)[k - 1] = rates[k]
  BY <1>1, <1>2, <1>3, <1>4
<1>6. Tail(rates) \in Seq(Nat \ {0})
  BY <1>1, <1>3
<1> QED BY <1>1, <1>4, <1>5, <1>6 DEF ToSet

\* A pair that would be answered is not skipped, and not missed.
LEMMA LoopGoes ==
  ASSUME Typed, LoopSkip \/ LoopMissed, misses' = 0,
         NEW t, NEW b, Offers(queue, t, b), Listens(t, b), ~(t = "GECKO" /\ bootProbe # None)
  PROVE  Offers(queue', t, b)
<1>1. queue # {} /\ queue' = queue \ {Current}
  BY DEF LoopSkip, LoopMissed, Probing
<1>2. PICK a \in queue : a.type = t /\ a.baud = b
  BY DEF Offers
<1>3. a # Current
  <2>1. CASE LoopSkip
    BY <1>2, <2>1 DEF LoopSkip
  <2>2. CASE LoopMissed
    <3>1. PICK u \in Types, c \in Rates : Probing(u, c) /\ Missed(u, c)
      BY <2>2 DEF LoopMissed
    <3>2. ~Listens(Current.type, Current.baud)
      BY <2>2, <3>1, NothingMissed DEF Probing, Next, Step
    <3> QED BY <1>2, <3>2
  <2> QED BY <2>1, <2>2
<1> QED BY <1>1, <1>2, <1>3 DEF Offers

LEMMA InitAppRuns == Init => AppRuns
<1> SUFFICES ASSUME Init, setup.start = "app", Detectable PROVE AppRuns
  BY DEF AppRuns
<1>1. Application = setup.app
  BY InitTyped, DeviceKnown
<1> QED BY <1>1 DEF Init, AppRuns

LEMMA NextAppRuns == Typed /\ Flow /\ AppRuns /\ [Next]_vars => AppRuns'
<1> SUFFICES ASSUME Typed, Flow, AppRuns, [Next]_vars,
                    misses' = 0, setup.start = "app", Detectable, Watched'
             PROVE  /\ pc' # "reset2"
                    /\ IF pc' = "reset1"
                       THEN mode' = setup.app
                            \/ (mode' = "GECKO" /\ setup.bootBaud \in ToSet(rates'))
                       ELSE mode' = setup.app
                    /\ pc' = "loop" => Offers(queue', setup.app, setup.appBaud)
  BY Stable, SetupStable DEF AppRuns
<1>0. UNCHANGED <<task, setup>>
  BY Stable
<1>1. /\ misses = 0 /\ ~Mishap /\ \A t, b : Missed(t, b) => ~Listens(t, b)
  BY NothingMissed
<1>2. /\ setup.app \in Types \ {"GECKO"} /\ Application = setup.app
  BY DeviceKnown
<1>3. Watched => /\ pc # "reset2"
                 /\ IF pc = "reset1"
                    THEN mode = setup.app \/ (mode = "GECKO" /\ setup.bootBaud \in ToSet(rates))
                    ELSE mode = setup.app
                 /\ pc = "loop" => Offers(queue, setup.app, setup.appBaud)
  BY <1>1 DEF AppRuns
<1>4. \/ task \in Writes \/ pc' = "decide" \/ outcome' = "kept"
      \/ task = "flash" /\ pc' \in Prober \ {"end"} /\ after' # "flash"
  BY <1>0 DEF Watched
<1>12. pc # "end" => outcome = "running"
  BY DEF Typed, EndOK
<1>5. CASE Begin \/ ProbeTwice
  <2>1. pc' = "reset1" /\ mode' = mode /\ pc \in {"start", "probed"} /\ Watched
    <3>1. CASE Begin
      <4>1. /\ task \in Writes \cup {"flash"} => pc' = "reset1" /\ mode' = mode
            /\ pc' \in {"reset1", "enter"} /\ outcome' = outcome
        BY <3>1 DEF Begin, ProbeAppType, Goto, Writes
      <4>2. pc = "start" /\ after = "none"
        BY <3>1 DEF Begin, Flow
      <4> QED BY <1>4, <1>12, <4>1, <4>2 DEF Watched, Prober
    <3>2. CASE ProbeTwice
      <4>1. pc = "probed" /\ pc' = "reset1" /\ mode' = mode /\ task \in Writes
        BY <3>2 DEF ProbeTwice, ProbeAppType, Goto, deviceVars, Flow, Typed, DeviceOK, Tasks,
                    Prober, Enterer
      <4> QED BY <4>1 DEF Watched
    <3> QED BY <1>5, <3>1, <3>2
  <2> QED BY <1>3, <2>1
<1>6. CASE EnterUnknown \/ Verify
  <2>1. /\ \/ after' = "enter" /\ pc = "enter" /\ appType = "none"
           \/ after' = "flash"
           \/ pc' = "flash"
        /\ pc' \in {"reset1", "flash"} /\ outcome' = outcome
    BY <1>6 DEF EnterUnknown, Verify, ProbeAppType, Goto
  <2>2. pc \in Enterer
    BY <1>6 DEF EnterUnknown, Verify, Enterer
  <2> QED BY <1>4, <1>12, <2>1, <2>2 DEF Flow, Prober, Enterer, Writes
<1>7. CASE Decide \/ Write
  <2>1. /\ pc \in {"decide", "write"} /\ mode' = mode /\ pc' \in {"enter", "end"}
    BY <1>7 DEF Decide, Write, Finish, Goto, deviceVars
  <2>2. Watched
    BY <2>1 DEF Watched, Flow, Typed, DeviceOK, Tasks, Prober, Enterer
  <2> QED BY <1>3, <2>1, <2>2
<1>8. CASE ResetFails \/ EnterFails \/ FallbackFails \/ PortFails
  BY <1>1, <1>8 DEF ResetFails, EnterFails, FallbackFails, PortFails
<1>9. CASE EnterAlready \/ EnterObeyed \/ EnterUnanswered \/ Fallback \/ Flash
  <2>1. /\ pc \in Enterer /\ pc' \in Enterer \cup {"end"}
        /\ outcome' = outcome \/ outcome' \in {"failed", "flashed"}
    <3>1. CASE EnterUnanswered
      BY <3>1 DEF EnterUnanswered, Goto, Finish, Enterer, Apps
    <3> QED BY <1>9, <3>1 DEF EnterAlready, EnterObeyed, Fallback, Flash, Goto, Finish, Enterer
  <2> QED BY <1>4, <1>12, <2>1 DEF Flow, Prober, Enterer, Writes
<1>10. CASE Reset \/ ResetMissed \/ ResetFound \/ ResetExhausted \/ LoopSkip \/ LoopMissed
            \/ LoopFound \/ LoopExhausted \/ Reset2Done
  <2>1. /\ pc \in {"reset1", "reset2", "loop"} /\ after' = after
        /\ \/ pc' \in {"reset1", "reset2", "loop", after} /\ outcome' = outcome
           \/ pc' = "end" /\ outcome' = "failed"
    BY <1>10 DEF Reset, ResetMissed, ResetFound, ResetExhausted, LoopSkip, LoopMissed,
                 LoopFound, LoopExhausted, Reset2Done, Probing, probeVars, Goto, Finish
  <2>2. Watched
    <3>1. after = "decide" => task = "flash"
      BY <2>1 DEF Flow, Typed, DeviceOK, Tasks
    <3> QED BY <1>4, <1>12, <2>1, <3>1 DEF Watched, Prober
  <2>3. CASE Reset
    BY <1>3, <2>2, <2>3, ResetGoes
  <2>4. CASE ResetMissed
    <3>1. pc' = pc /\ mode' = mode /\ pc \in {"reset1", "reset2"}
      BY <2>4 DEF ResetMissed, deviceVars
    <3> QED BY <1>3, <2>2, <2>4, <3>1, ResetMissedGoes
  <2>5. CASE ResetFound \/ ResetExhausted
    <3>1. /\ pc = "reset1" /\ pc' = "loop" /\ queue' = queue
          /\ mode' = Application \/ (mode' = mode /\ rates = << >>)
      BY <2>5 DEF ResetFound, ResetExhausted, Goto, probeVars, deviceVars
    <3>2. rates = << >> => ToSet(rates) = {}
      BY DEF ToSet
    <3>3. Offers(queue, setup.app, setup.appBaud)
      <4>1. setup.app \in Sought
        <5>1. after # "flash"
          BY <1>12, <2>2, <3>1 DEF Watched, Flow
        <5> QED BY <5>1 DEF Sought, Detectable
      <4> QED BY <3>1, <4>1 DEF Flow, Detectable
    <3> QED BY <1>2, <1>3, <2>2, <3>1, <3>2, <3>3
  <2>6. CASE LoopSkip \/ LoopMissed
    <3>1. pc = "loop" /\ pc' = "loop" /\ mode' = mode
      BY <2>6 DEF LoopSkip, LoopMissed, Probing, deviceVars
    <3>2. mode = setup.app /\ Offers(queue, setup.app, setup.appBaud)
      BY <1>3, <2>2, <3>1
    <3>3. Listens(setup.app, setup.appBaud)
      BY <1>2, <3>2 DEF Listens
    <3>4. Offers(queue', setup.app, setup.appBaud)
      BY <1>2, <2>6, <3>2, <3>3, LoopGoes
    <3> QED BY <3>1, <3>2, <3>4
  <2>7. CASE LoopFound
    <3>1. PICK t \in Types, b \in Rates :
            /\ pc = "loop" /\ Listens(t, b)
            /\ t # "GECKO" => mode' = mode /\ pc' = after
      BY <2>7 DEF LoopFound, Probing, Heard, Goto
    <3>2. mode = setup.app
      BY <1>3, <2>2, <3>1
    <3>3. mode' = mode /\ pc' = after
      BY <1>2, <3>1, <3>2 DEF Listens
    <3>4. after \in {"decide", "probed", "write"}
      BY <1>12, <2>2, <3>1 DEF Watched, Flow
    <3> QED BY <3>2, <3>3, <3>4
  <2>8. CASE LoopExhausted
    <3>1. pc = "loop" /\ queue = {}
      BY <2>8 DEF LoopExhausted
    <3> QED BY <1>3, <2>2, <3>1 DEF Offers
  <2>9. CASE Reset2Done
    BY <1>3, <2>2, <2>9 DEF Reset2Done
  <2> QED BY <1>10, <2>3, <2>4, <2>5, <2>6, <2>7, <2>8, <2>9
<1>11. CASE UNCHANGED vars
  <2>1. UNCHANGED <<task, pc, after, outcome, mode, queue, rates>>
    BY <1>11 DEF vars, deviceVars, probeVars, resetVars
  <2>2. Watched
    BY <1>4, <2>1 DEF Watched
  <2> QED BY <1>3, <2>1, <2>2
<1> QED BY <1>5, <1>6, <1>7, <1>8, <1>9, <1>10, <1>11 DEF Next, Step, Done

\* An application that was detected is the one that runs, or ran at the end.
Recorded ==
  /\ pc = "decide" \/ outcome = "kept" => appType = "GECKO" \/ mode = appType
  /\ outcome \in {"written", "unchanged"} => mode = "EZSP"
  /\ outcome = "flashed" => task \notin Writes

LEMMA NextRecorded == Typed /\ Flow /\ Recorded /\ [Next]_vars => Recorded'
<1> SUFFICES ASSUME Typed, Flow, Recorded, [Next]_vars PROVE Recorded'
  OBVIOUS
<1>1. (pc # "end" => outcome = "running") /\ after # "end"
  BY DEF Typed, EndOK, ProbeOK, Returns
<1>0. task' = task
  BY Stable
<1>2. CASE UNCHANGED <<pc, outcome, appType, mode>>
  BY <1>0, <1>2 DEF Recorded
<1>3. CASE pc' # "decide" /\ outcome' \in {"running", "failed"}
  BY <1>3 DEF Recorded
<1>4. CASE ProbeTwice \/ EnterUnknown \/ Verify \/ Begin
  <2>1. pc' \in {"reset1", "flash", "enter"} /\ UNCHANGED outcome /\ pc # "end"
    BY <1>4 DEF ProbeTwice, EnterUnknown, Verify, Begin, ProbeAppType, Goto
  <2> QED BY <1>1, <1>3, <2>1
<1>5. CASE Decide
  <2>1. /\ pc = "decide" /\ UNCHANGED <<appType, mode>>
        /\ \/ pc' = "enter" /\ UNCHANGED outcome
           \/ pc' = "end" /\ outcome' = "kept"
    BY <1>5 DEF Decide, Goto, Finish, objectVars, deviceVars
  <2> QED BY <1>1, <2>1 DEF Recorded
<1>6. CASE Write
  <2>1. /\ pc = "write" /\ pc' = "end" /\ mode' = mode
        /\ \/ outcome' = "failed"
           \/ mode = "EZSP" /\ outcome' \in {"written", "unchanged"}
    BY <1>6 DEF Write, Finish, Listens
  <2> QED BY <2>1 DEF Recorded
<1>7. CASE LoopFound \/ Reset2Done
  <2>1. /\ pc \in {"loop", "reset2"} /\ UNCHANGED outcome
        /\ \/ pc' = pc
           \/ pc' = after /\ (appType' = "GECKO" \/ mode' = appType')
    BY <1>7 DEF LoopFound, Reset2Done, Probing, Heard, Listens, Goto
  <2> QED BY <1>1, <2>1 DEF Recorded
<1>8. CASE EnterUnanswered
  <2>1. /\ pc = "enter"
        /\ \/ pc' \in {"fallback", "verify"} /\ UNCHANGED outcome
           \/ pc' = "end" /\ outcome' = "failed"
    BY <1>8 DEF EnterUnanswered, Goto, Finish, Apps
  <2> QED BY <1>1, <1>3, <2>1
<1>9. CASE ResetFound \/ ResetExhausted \/ LoopExhausted \/ EnterAlready \/ EnterObeyed
           \/ Fallback \/ PortFails \/ ResetFails \/ EnterFails \/ FallbackFails
  <2>1. \/ pc # "end" /\ pc' \in {"loop", "reset2", "verify"} /\ UNCHANGED outcome
        \/ pc' = "end" /\ outcome' = "failed"
    BY <1>9 DEF ResetFound, ResetExhausted, LoopExhausted, EnterAlready, EnterObeyed,
       Fallback, PortFails, ResetFails, EnterFails, FallbackFails, Goto, Finish
  <2> QED BY <1>1, <1>3, <2>1
<1>10. CASE Reset \/ ResetMissed \/ LoopSkip \/ LoopMissed
  <2>1. pc \in {"reset1", "reset2", "loop"} /\ pc' = pc /\ UNCHANGED outcome
    BY <1>10 DEF Reset, ResetMissed, LoopSkip, LoopMissed, Probing
  <2> QED BY <1>1, <1>3, <2>1
<1>11. CASE Flash
  <2>1. pc = "flash" /\ pc' = "end" /\ outcome' \in {"flashed", "failed"}
    BY <1>11 DEF Flash, Finish
  <2>2. task \notin Writes
    BY <2>1 DEF Flow, Prober
  <2> QED BY <1>0, <2>1, <2>2 DEF Recorded
<1> QED BY <1>2, <1>4, <1>5, <1>6, <1>7, <1>8, <1>9, <1>10, <1>11
    DEF Next, Step, Done, vars, objectVars, deviceVars

LEMMA NextLeftRunning == Typed /\ LeftRunning /\ [Next]_vars => LeftRunning'
<1> SUFFICES ASSUME Typed, LeftRunning, [Next]_vars PROVE LeftRunning'
  OBVIOUS
<1>1. Application' = Application
  BY Stable, SetupStable
<1>2. SUFFICES mode' \in {mode, Application, "GECKO", "new"}
  BY <1>1 DEF LeftRunning
<1>3. CASE Reset \/ ResetFails \/ Fallback \/ FallbackFails \/ Begin
  <2>1. "rts_dtr" \in ResetTargets /\ (targets # << >> => Head(targets) \in ResetTargets)
    BY DEF ResetTargets, Typed, ResetOK
  <2>2. \/ mode' = mode
        \/ \E target \in ResetTargets : \E starts \in {ResetBy, CutShort} :
             mode' \in ModeAfter(target, starts)
    BY <1>3, <2>1 DEF Reset, ResetFails, Fallback, FallbackFails, Begin, ModeAfterReset
  <2> QED BY <2>2, ModesAfter
<1>4. CASE ResetFound \/ LoopFound \/ EnterObeyed \/ EnterUnanswered \/ Flash
  BY <1>4 DEF ResetFound, LoopFound, EnterObeyed, EnterUnanswered, Flash
<1>5. CASE UNCHANGED mode
  BY <1>5
<1> QED BY <1>3, <1>4, <1>5 DEF Next, Step, vars, deviceVars, ProbeTwice, Decide,
     ResetMissed, ResetExhausted, LoopSkip, LoopMissed, LoopExhausted, Reset2Done,
     EnterUnknown, EnterAlready, EnterFails, Verify, Write, PortFails, Done

LEMMA InitRuns == Init => Recorded /\ LeftRunning
BY DEF Init, Recorded, LeftRunning

\* No call leaves the chip held in reset, not even one whose reset was broken off
\* half way (flasher.py:81-123, gpio.py:66-88).
THEOREM NeverHeld == Spec => []LeftRunning
BY InitRuns, NextLeftRunning, TypedInvariance, PTL DEF Spec

\* Finding out what runs does not stop it unnoticed: when nothing is flashed, an
\* application that could be probed runs on, although the probes went through the
\* bootloader, or the call has failed or recorded the bootloader, which it does only
\* if an attempt failed (flasher.py:204-316).
THEOREM ProbingHarmless == Spec => []ProbingLeavesAppRunning
<1>1. ASSUME Typed, Flow, AppRuns, Recorded, LeftRunning PROVE ProbingLeavesAppRunning
  <2> SUFFICES ASSUME pc = "end", task \in Writes \/ outcome = "kept",
                      setup.start = "app", Detectable
               PROVE  mode = setup.app \/ (misses > 0 /\ (outcome = "failed" \/ appType = "GECKO"))
    BY DEF ProbingLeavesAppRunning
  <2>1. CASE misses = 0
    BY <1>1, <2>1 DEF Watched, AppRuns
  <2>2. CASE misses # 0 /\ outcome # "failed" /\ appType # "GECKO"
    <3>1. setup.app \in Apps /\ Application = setup.app
      BY <1>1, DeviceKnown
    <3>2. mode \in Apps => mode = setup.app
      BY <1>1, <3>1 DEF LeftRunning, Apps
    <3>3. CASE outcome = "kept"
      <4>1. mode = appType /\ appType \in Types \cup {"none"}
        BY <1>1, <2>2, <3>3 DEF Recorded, Typed, ObjectOK, TypesOrNone
      <4>2. mode # "none"
        BY <1>1, <3>1 DEF LeftRunning, Apps
      <4> QED BY <2>2, <3>2, <4>1, <4>2 DEF Types
    <3>4. CASE outcome # "kept"
      <4>1. outcome \in {"written", "unchanged"}
        <5>1. outcome = "flashed" => task \notin Writes
          BY <1>1 DEF Recorded
        <5> QED BY <1>1, <2>2, <3>4, <5>1 DEF Typed, EndOK, Outcomes
      <4>2. mode = "EZSP"
        BY <1>1, <4>1 DEF Recorded
      <4> QED BY <3>2, <4>2 DEF Apps
    <3> QED BY <3>3, <3>4
  <2>3. misses # 0 => misses > 0
    BY <1>1 DEF Typed, DeviceOK
  <2> QED BY <2>1, <2>2, <2>3
<1> QED BY <1>1, TypedInvariance, InitAppRuns, NextAppRuns, InitRuns, NextRecorded,
           NextLeftRunning, PTL DEF Spec

-----------------------------------------------------------------------------
LEMMA InitCourse == Init => Course
<1> SUFFICES ASSUME Init PROVE Place
  BY DEF Course
<1> QED BY DEF Init, Place, InitialMode, AtReset, AtLoop, AtWrite, AtEnter, AtFlash

\* What is sought and what runs at first depend on where the probe returns to.
LEMMA SoughtStable ==
  ASSUME UNCHANGED <<task, setup, after>>
  PROVE  Sought' = Sought /\ ModeBefore' = ModeBefore
BY SetupStable DEF Sought, ModeBefore

\* Unless a device cannot be used, what the loop seeks includes what runs.
LEMMA SoughtFound ==
  ASSUME IInv, Typed, Flow, Place, ResetsWork, pc = "loop",
         \/ setup.targets = << >> /\ (after = "flash" \/ Reachable)
         \/ task \in Writes /\ Reachable
  PROVE  queue # {}
<1>1. after \in Returns /\ after # "none" /\ task # "guiFlash"
  BY DEF Typed, ProbeOK, Flow
<1>2. AtLoop /\ "GECKO" \in Types
  BY DEF Place, Types
<1>3. CASE setup.targets = << >> /\ after = "flash"
  <2>1. mode = "GECKO" /\ bootProbe = None /\ Findable /\ Sought = {"GECKO"}
    BY <1>2, <1>3 DEF AtLoop, ModeBefore, Sought
  <2>2. Listens("GECKO", setup.bootBaud)
    BY <2>1 DEF Listens
  <2>3. Offers(queue, "GECKO", setup.bootBaud)
    BY <2>1, <2>2, DeviceKnown DEF Findable
  <2> QED BY <2>3 DEF Offers
<1>4. CASE after # "flash" /\ Detectable /\ mode = setup.app
  <2>1. setup.app # "GECKO" /\ setup.app \in Sought
    BY <1>4, DeviceKnown DEF Sought, Detectable
  <2>2. Listens(setup.app, setup.appBaud) /\ setup.appBaud \in ToSet(Baudrates[setup.app])
    BY <1>4, <2>1 DEF Listens, Detectable
  <2>3. Offers(queue, setup.app, setup.appBaud)
    BY <1>2, <2>1, <2>2 DEF AtLoop, Findable
  <2> QED BY <2>3 DEF Offers
<1>5. CASE after # "flash" /\ task \in Writes /\ Reachable
  <2>1. Detectable /\ (setup.start = "app" \/ setup.targets # << >>)
    BY <1>5 DEF Reachable, Writes
  <2>2. mode = setup.app
    BY <1>2, <1>5, <2>1, DeviceKnown DEF AtLoop, ModeBefore, InitialMode
  <2> QED BY <1>4, <1>5, <2>1, <2>2
<1>6. CASE after # "flash" /\ task \notin Writes /\ Reachable /\ setup.targets = << >>
  <2>1. \/ setup.start = "app" /\ Detectable
        \/ setup.start = "bootloader" /\ "GECKO" \in ToSet(Methods)
    BY <1>1, <1>6 DEF Reachable
  <2>2. mode = InitialMode /\ bootProbe = None /\ Findable
    BY <1>2, <1>6 DEF AtLoop, ModeBefore
  <2>3. CASE setup.start = "app" /\ Detectable
    <3>1. mode = setup.app
      BY <2>2, <2>3, DeviceKnown DEF InitialMode
    <3> QED BY <1>4, <1>6, <2>3, <3>1
  <2>4. CASE setup.start = "bootloader" /\ "GECKO" \in ToSet(Methods)
    <3>1. Listens("GECKO", setup.bootBaud) /\ "GECKO" \in Sought
      BY <1>6, <2>2, <2>4 DEF Listens, InitialMode, Sought
    <3>2. Offers(queue, "GECKO", setup.bootBaud)
      BY <2>2, <3>1, DeviceKnown DEF Findable
    <3> QED BY <3>2 DEF Offers
  <2> QED BY <2>1, <2>3, <2>4
<1>7. task \in Writes => after # "flash"
  BY DEF Flow
<1> QED BY <1>3, <1>5, <1>6, <1>7

\* What was just found, or reset into its bootloader, is where it returns to.
LEMMA Returned ==
  ASSUME Typed, Flow, UNCHANGED <<task, setup, after>>,
         pc \in {"loop", "reset2"}, pc' = after, outcome' = outcome,
         appType' # "none", Listens(appType, appBaud)',
         after = "flash" => mode' = "GECKO" /\ bootBaud' # None,
         after \in {"probed", "write"} =>
           /\ Reachable => mode' = "EZSP"
           /\ setup.targets = << >> => mode' = InitialMode
  PROVE  Place'
<1>1. after \in {"enter", "flash", "decide", "probed", "write"} /\ task # "guiFlash"
  BY DEF Typed, ProbeOK, Flow, Returns
<1>2. outcome' = "running"
  BY DEF Typed, EndOK
<1>3. Reachable' = Reachable /\ InitialMode' = InitialMode
  BY SetupStable
<1>4. mode' = appType'
  BY DEF Listens
<1>5. AtReset' /\ AtLoop' /\ pc' # "start"
  BY <1>1 DEF AtReset, AtLoop
<1>6. AtWrite'
  BY <1>1, <1>3 DEF AtWrite
<1>7. AtEnter'
  BY <1>4 DEF AtEnter
<1>8. AtFlash'
  BY <1>1 DEF AtFlash
<1> QED BY <1>2, <1>5, <1>6, <1>7, <1>8 DEF Place

\* A probe begins where the device is known.
LEMMA AsksPlace ==
  ASSUME Typed, NEW types, NEW first, NEW return, Asks(types, first, return),
         setup.targets = << >> =>
           mode' = IF return = "flash" THEN "GECKO" ELSE InitialMode
  PROVE  Place'
<1>1. /\ pc' = "reset1" /\ after' = return /\ outcome' = outcome
      /\ targets' = setup.targets /\ rates' = << >> /\ UNCHANGED <<task, setup>>
  BY ProbeStarts DEF Asks
<1>2. outcome = "running"
  BY DEF Typed, EndOK, Asks
<1>3. InitialMode' = InitialMode
  BY <1>1, SetupStable
<1>4. AtReset'
  BY <1>1, <1>3 DEF AtReset, ModeBefore
<1> QED BY <1>1, <1>2, <1>4 DEF Place, AtLoop, AtWrite, AtEnter, AtFlash

LEMMA NextCourse == IInv /\ Typed /\ Flow /\ Course /\ [Next]_vars => Course'
<1> SUFFICES ASSUME IInv, Typed, Flow, Course, [Next]_vars, misses' = 0, ResetsWork'
             PROVE  Place'
  BY DEF Course
<1>0. UNCHANGED <<task, setup>>
  BY Stable
<1>1. /\ Reachable' = Reachable /\ InitialMode' = InitialMode /\ ResetsWork
      /\ Application' = Application
  BY <1>0, SetupStable
<1>2. /\ misses = 0 /\ ~Mishap /\ (\A t, b : Missed(t, b) => ~Listens(t, b))
      /\ Place
  BY <1>1, NothingMissed DEF Course
<1>3. AtReset /\ AtLoop /\ AtWrite /\ AtEnter /\ AtFlash /\ (pc = "start" => mode = InitialMode)
  BY <1>2 DEF Place
<1>4. /\ pc # "end" => outcome = "running"
      /\ after \in Returns /\ RatesLearnt /\ SecondReset
      /\ Probed => Listens(appType, appBaud)
  BY <1>1 DEF Typed, EndOK, ProbeOK, IInv
<1>5. CASE Begin
  <2>1. pc = "start" /\ mode = InitialMode /\ appType = "none" /\ outcome = "running"
    BY <1>3, <1>4, <1>5 DEF Begin, IInv
  <2>2. CASE \E types, first, return : return # "flash" /\ Asks(types, first, return) /\ mode' = mode
    BY <1>0, <2>1, <2>2, AsksPlace
  <2>3. CASE task \in {"guiFlash", "enterFlash"} /\ pc' = "enter" /\ outcome' = outcome
    <3>1. CASE task = "enterFlash"
      <4>1. mode' = mode /\ appType' = "none"
        BY <1>5, <2>1, <3>1 DEF Begin, objectVars, Writes
      <4> QED BY <1>0, <1>1, <2>1, <2>3, <4>1
              DEF Place, AtReset, AtLoop, AtWrite, AtEnter, AtFlash
    <3>2. CASE task = "guiFlash"
      <4>1. mode' \in ModeAfterReset("rts_dtr") /\ appType' = "GECKO"
        BY <1>5, <3>2 DEF Begin, Writes
      <4>2. "rts_dtr" \in ResetTargets /\ "rts_dtr" \in setup.wired
        <5>1. setup.targets = <<"rts_dtr">>
          BY <3>2 DEF Typed, DeviceOK, Relevant, TargetsOf
        <5>2. "rts_dtr" \in ToSet(setup.targets)
          BY <5>1 DEF ToSet
        <5> QED BY <1>1, <5>2 DEF ResetsWork, ResetTargets
      <4>3. mode' = "GECKO"
        BY <4>1, <4>2, WorkingReset
      <4> QED BY <1>0, <2>1, <2>3, <3>2, <4>1, <4>3
              DEF Place, AtReset, AtLoop, AtWrite, AtEnter, AtFlash
    <3> QED BY <2>3, <3>1, <3>2
  <2> QED BY <1>5, <2>2, <2>3, WhoAsks DEF Goto
<1>6. CASE ProbeTwice
  <2>1. Asks(Methods, {"GECKO", "EZSP"}, "write") /\ pc = "probed" /\ mode' = mode
    BY <1>6, WhoAsks DEF ProbeTwice, deviceVars
  <2> QED BY <1>3, <2>1, AsksPlace DEF AtWrite
<1>7. CASE EnterUnknown
  <2>1. Asks(Methods, {}, "enter") /\ pc = "enter" /\ appType = "none" /\ mode' = mode
    BY <1>7, WhoAsks DEF EnterUnknown, deviceVars
  <2> QED BY <1>3, <2>1, AsksPlace DEF AtEnter
<1>8. CASE Verify
  <2>1. mode = "GECKO" /\ UNCHANGED <<mode, bootBaud>> /\ outcome = "running"
    BY <1>3, <1>4, <1>8 DEF AtFlash, Verify, deviceVars, objectVars
  <2>2. CASE Asks(<<"GECKO">>, {}, "flash")
    BY <2>1, <2>2, AsksPlace
  <2>3. CASE bootBaud # None /\ pc' = "flash" /\ outcome' = outcome
    BY <2>1, <2>3 DEF Place, AtReset, AtLoop, AtWrite, AtEnter, AtFlash
  <2> QED BY <1>8, <2>2, <2>3, WhoAsks DEF Goto
<1>9. CASE Decide
  <2>1. /\ pc = "decide" /\ UNCHANGED <<appType, appBaud, mode>>
        /\ \/ pc' = "enter" /\ outcome' = outcome
           \/ pc' = "end" /\ outcome' = "kept"
    BY <1>9 DEF Decide, Goto, Finish, objectVars, deviceVars
  <2>2. Listens(appType, appBaud) /\ appType # "none" /\ outcome = "running"
    BY <1>4, <2>1 DEF Probed, Flow, Typed, DeviceOK, Tasks, Writes, Prober, Enterer
  <2>3. mode' = appType' /\ Listens(appType, appBaud)'
    BY <1>0, <2>1, <2>2 DEF Listens
  <2> QED BY <2>1, <2>2, <2>3 DEF Place, AtReset, AtLoop, AtWrite, AtEnter, AtFlash
<1>10. CASE Reset \/ ResetMissed
  <2>1. /\ pc \in {"reset1", "reset2"} /\ pc' = pc /\ UNCHANGED <<outcome, after>>
    BY <1>10 DEF Reset, ResetMissed, probeVars
  <2>2. CASE pc = "reset1"
    <3>1. AtReset'
      <4>1. CASE Reset
        <5>1. mode' = "GECKO" /\ setup.bootBaud \in ToSet(rates') /\ targets # << >>
          BY <1>1, <4>1, ResetGoes
        <5>2. setup.targets # << >>
          BY <1>3, <2>2, <5>1 DEF AtReset
        <5> QED BY <1>0, <5>1, <5>2 DEF AtReset
      <4>2. CASE ResetMissed
        <5>1. rates # << >> /\ mode' = mode
          BY <4>2 DEF ResetMissed, deviceVars
        <5>2. setup.targets # << >> /\ mode = "GECKO" /\ setup.bootBaud \in ToSet(rates)
          BY <1>3, <2>2, <5>1 DEF AtReset
        <5>3. setup.bootBaud \in ToSet(rates')
          BY <4>2, <5>2, ResetMissedGoes
        <5> QED BY <1>0, <5>1, <5>2, <5>3 DEF AtReset
      <4> QED BY <1>10, <4>1, <4>2
    <3> QED BY <1>4, <2>1, <2>2, <3>1 DEF Place, AtLoop, AtWrite, AtEnter, AtFlash
  <2>3. CASE pc = "reset2"
    BY <1>0, <1>1, <1>3, <1>4, <2>1, <2>3 DEF Place, AtReset, AtLoop, AtWrite, AtEnter, AtFlash
  <2> QED BY <2>1, <2>2, <2>3
<1>11. CASE ResetFound \/ ResetExhausted
  <2>1. /\ pc = "reset1" /\ pc' = "loop" /\ UNCHANGED <<after, queue, outcome>>
        /\ \/ rates # << >> /\ bootProbe' = Head(rates) /\ mode' = Application
           \/ rates = << >> /\ targets = << >> /\ bootProbe' = bootProbe /\ mode' = mode
    BY <1>11 DEF ResetFound, ResetExhausted, Goto, probeVars, deviceVars
  <2>2. Sought' = Sought /\ ModeBefore' = ModeBefore
    BY <1>0, <2>1, SoughtStable
  <2>3. rates # << >> => Head(rates) # None
    BY DEF Typed, ResetOK, None
  <2>4. rates = << >> => ToSet(rates) = {}
    BY DEF ToSet
  <2>5. Findable'
    BY <2>1, <2>2 DEF Findable, Flow
  <2>6. AtLoop'
    BY <1>0, <1>1, <1>3, <2>1, <2>2, <2>3, <2>4, <2>5 DEF AtLoop, AtReset, Flow
  <2> QED BY <1>4, <2>1, <2>6 DEF Place, AtReset, AtWrite, AtEnter, AtFlash
<1>12. CASE LoopSkip \/ LoopMissed
  <2>1. /\ pc = "loop" /\ pc' = "loop" /\ UNCHANGED <<after, bootProbe, outcome, mode>>
    BY <1>12 DEF LoopSkip, LoopMissed, Probing, deviceVars
  <2>2. Sought' = Sought /\ ModeBefore' = ModeBefore
    BY <1>0, <2>1, SoughtStable
  <2>3. Findable'
    <3> SUFFICES ASSUME NEW t \in Sought, NEW b \in ToSet(Baudrates[t]),
                        Listens(t, b), ~(t = "GECKO" /\ bootProbe # None)
                 PROVE  Offers(queue', t, b)
      BY <1>0, <2>1, <2>2 DEF Findable, Listens
    <3>1. Offers(queue, t, b)
      BY <1>3, <2>1 DEF AtLoop, Findable
    <3> QED BY <1>12, <3>1, LoopGoes
  <2>4. AtLoop'
    BY <1>0, <1>1, <1>3, <2>1, <2>2, <2>3 DEF AtLoop
  <2> QED BY <1>4, <2>1, <2>4 DEF Place, AtReset, AtWrite, AtEnter, AtFlash
<1>13. CASE LoopFound
  <2>1. PICK t \in Types, b \in Rates :
          /\ Probing(t, b) /\ Listens(t, b) /\ after' = after
          /\ IF t = "GECKO" THEN bootBaud' = b ELSE bootBaud' = bootBaud
          /\ IF t = "GECKO" /\ runFw THEN TRUE
             ELSE /\ appType' = t /\ appBaud' = b /\ pc' = after /\ outcome' = outcome
                  /\ mode' = mode
    BY <1>13 DEF LoopFound, Heard, Goto
  <2>2. pc = "loop" /\ queue # {} /\ ~(t = "GECKO" /\ bootProbe # None) /\ t \in Sought
    BY <2>1, CurrentQueued DEF Probing, Flow, Typed, ProbeOK
  <2>3. ~(t = "GECKO" /\ runFw)
    BY <1>3, <2>2 DEF AtLoop, Flow
  <2>4. mode = t /\ b # None /\ t # "none"
    BY <2>1, RatesTyped DEF Listens, None, Types, Apps
  <2>5. after = "flash" => mode' = "GECKO" /\ bootBaud' # None
    BY <2>1, <2>2, <2>3, <2>4 DEF Sought
  <2>6. after \in {"probed", "write"} => /\ Reachable => mode' = "EZSP"
                                         /\ setup.targets = << >> => mode' = InitialMode
    <3> SUFFICES ASSUME after \in {"probed", "write"}
                 PROVE  /\ Reachable => mode = "EZSP"
                        /\ setup.targets = << >> => mode = InitialMode
      BY <2>1, <2>3
    <3>1. task \in Writes
      BY <2>2 DEF Flow, Typed, DeviceOK, Tasks, Writes
    <3>2. IF setup.targets = << >> THEN mode = InitialMode ELSE mode = Application
      BY <1>3, <2>2 DEF AtLoop, ModeBefore
    <3>3. Reachable => setup.app = "EZSP" /\ (setup.start = "app" \/ setup.targets # << >>)
      BY <3>1 DEF Reachable, Writes
    <3> QED BY <3>2, <3>3 DEF InitialMode, Application
  <2>7. Listens(appType, appBaud)' /\ appType' # "none"
    BY <1>0, <2>1, <2>3, <2>4 DEF Listens
  <2> QED BY <1>0, <2>1, <2>2, <2>3, <2>5, <2>6, <2>7, Returned
<1>14. CASE LoopExhausted
  <2>1. /\ pc = "loop" /\ queue = {}
        /\ IF bootProbe # None /\ setup.targets # << >>
           THEN pc' = "reset2" /\ outcome' = outcome
           ELSE pc' = "end"
    BY <1>14 DEF LoopExhausted, Goto, Finish
  <2>2. ~(\/ setup.targets = << >> /\ (after = "flash" \/ Reachable)
          \/ task \in Writes /\ Reachable)
    BY <1>1, <1>2, <2>1, SoughtFound
  <2>3. CASE pc' = "reset2" /\ outcome' = outcome
    BY <1>0, <1>1, <1>4, <2>1, <2>2, <2>3 DEF Place, AtReset, AtLoop, AtWrite, AtEnter, AtFlash
  <2>4. CASE pc' = "end" /\ ~(bootProbe # None /\ setup.targets # << >>)
    <3>1. ~Reachable
      BY <1>3, <2>1, <2>2, <2>4 DEF AtLoop
    <3> QED BY <1>1, <2>4, <3>1 DEF Place, AtReset, AtLoop, AtWrite, AtEnter, AtFlash
  <2> QED BY <2>1, <2>3, <2>4
<1>15. CASE Reset2Done
  <2>1. /\ pc = "reset2" /\ pc' = after /\ UNCHANGED <<after, outcome, mode>>
        /\ appType' = "GECKO" /\ appBaud' = bootProbe /\ bootBaud' = bootProbe
        /\ targets = << >> \/ rates # << >>
    BY <1>15 DEF Reset2Done, Goto, probeVars, deviceVars
  <2>2. mode = "GECKO" /\ bootProbe = setup.bootBaud /\ setup.targets # << >>
    BY <1>1, <1>4, <2>1 DEF SecondReset
  <2>3. Listens(appType, appBaud)' /\ bootBaud' # None /\ appType' # "none"
    BY <1>0, <2>1, <2>2, DeviceKnown DEF Listens
  <2>4. after \in {"probed", "write"} => ~Reachable
    BY <1>3, <2>1 DEF AtWrite, Flow, Typed, DeviceOK, Tasks, Writes
  <2> QED BY <1>0, <2>1, <2>2, <2>3, <2>4, Returned
<1>16. CASE EnterAlready \/ EnterObeyed
  <2>1. pc = "enter" /\ appType # "none" /\ pc' = "verify" /\ outcome' = outcome
        /\ \/ mode' = "GECKO"
           \/ mode' = mode /\ appType = "GECKO"
    BY <1>16 DEF EnterAlready, EnterObeyed, Goto, deviceVars, Apps
  <2>2. mode' = "GECKO"
    BY <1>3, <2>1 DEF AtEnter
  <2> QED BY <1>4, <2>1, <2>2 DEF Place, AtReset, AtLoop, AtWrite, AtEnter, AtFlash
<1>17. CASE EnterUnanswered
  <2>1. pc = "enter" /\ appType \in Apps /\ ~Listens(appType, appBaud)
    BY <1>2, <1>17 DEF EnterUnanswered
  <2>2. task # "guiFlash"
    BY <2>1 DEF Flow, Apps, Enterer
  <2> QED BY <1>3, <2>1, <2>2 DEF AtEnter, Apps
<1>18. CASE Fallback \/ FallbackFails \/ ResetFails \/ EnterFails \/ PortFails
  BY <1>2, <1>3, <1>18 DEF Fallback, FallbackFails, ResetFails, EnterFails, PortFails, AtFlash
<1>19. CASE Flash
  <2>1. pc = "flash" /\ pc' = "end" /\ (outcome' = "failed" => ~Listens("GECKO", bootBaud))
    BY <1>19 DEF Flash, Finish
  <2>2. Reachable => Listens("GECKO", bootBaud)
    <3>1. mode = "GECKO" /\ (task # "guiFlash" => bootBaud = setup.bootBaud)
      BY <1>3, <1>4, <2>1 DEF AtFlash, RatesLearnt
    <3>2. task = "guiFlash" => bootBaud = Baudrates["GECKO"][1]
      BY <2>1 DEF Flow, Enterer
    <3>3. task = "guiFlash" /\ Reachable => setup.bootBaud = Baudrates["GECKO"][1]
      BY DEF Reachable, Writes
    <3> QED BY <3>1, <3>2, <3>3 DEF Listens
  <2> QED BY <1>1, <2>1, <2>2 DEF Place, AtReset, AtLoop, AtWrite, AtEnter, AtFlash
<1>20. CASE Write
  <2>1. /\ pc = "write" /\ pc' = "end"
        /\ outcome' = "failed" => appType # "EZSP" \/ ~Listens("EZSP", appBaud)
    BY <1>20 DEF Write, Finish
  <2>2. Reachable => appType = "EZSP" /\ Listens("EZSP", appBaud)
    BY <1>3, <1>4, <2>1 DEF AtWrite, Probed, Listens
  <2> QED BY <1>1, <2>1, <2>2 DEF Place, AtReset, AtLoop, AtWrite, AtEnter, AtFlash
<1>21. CASE UNCHANGED vars
  <2>1. UNCHANGED <<objectVars, task, pc, after, queue, bootProbe, targets, rates, outcome, mode>>
    BY <1>21 DEF vars, probeVars, resetVars, deviceVars
  <2>2. UNCHANGED <<Sought, ModeBefore>>
    BY <1>0, <2>1, SoughtStable
  <2>3. (AtLoop /\ AtEnter)'
    BY <1>0, <1>1, <1>3, <2>1, <2>2 DEF AtLoop, AtEnter, Findable, Listens, objectVars
  <2> QED BY <1>0, <1>1, <1>2, <1>3, <2>1, <2>2, <2>3
          DEF Place, AtReset, AtWrite, AtFlash, objectVars
<1> QED BY <1>5, <1>6, <1>7, <1>8, <1>9, <1>10, <1>11, <1>12, <1>13, <1>14, <1>15, <1>16,
           <1>17, <1>18, <1>19, <1>20, <1>21 DEF Next, Step, Done

LEMMA CourseInvariance == Spec => [](IInv /\ Typed /\ Flow /\ Course)
BY InitIInv, InitTyped, InitFlow, InitCourse, NextIInv, NextTyped, NextFlow, NextCourse, PTL
   DEF Spec

-----------------------------------------------------------------------------
(***************************************************************************)
(* Entering the bootloader, whatever is missed on the way.                 *)
(***************************************************************************)

\* The bootloader's own probe never runs the application, and comes last.
Verifying ==
  /\ pc \in {"start", "decide", "enter", "fallback", "verify"} => after # "flash"
  /\ pc \in {"reset1", "loop"} /\ after = "flash" => ~runFw
  /\ pc = "flash" => bootBaud # None

\* The command goes to what runs; the device obeys it, or is left as it was.
Entering ==
  /\ pc = "enter" /\ task = "flash" => Listens(appType, appBaud)
  /\ pc \in Enterer /\ task = "guiFlash" => mode = "GECKO"
  /\ pc = "fallback" =>
       /\ misses > 0 /\ appType \in {"CPC", "ROUTER"}
       /\ mode = "GECKO" \/ Listens(appType, appBaud)
  /\ pc = "verify" \/ (pc = "flash" /\ after # "flash") => mode = "GECKO" \/ Disobeyed
  /\ pc = "flash" /\ after = "flash" => mode = "GECKO"

EnterInv == Verifying /\ (ResetsWork => Entering)

LEMMA InitEnterInv == Init => EnterInv
BY DEF Init, EnterInv, Verifying, Entering, Enterer

LEMMA NextVerifying == IInv /\ Typed /\ Flow /\ Verifying /\ [Next]_vars => Verifying'
<1> SUFFICES ASSUME IInv, Typed, Flow, Verifying, [Next]_vars PROVE Verifying'
  OBVIOUS
<1>0. pc # "end" => outcome = "running"
  BY DEF Typed, EndOK
<1>1. CASE UNCHANGED <<pc, after, runFw, bootBaud>>
  BY <1>1 DEF Verifying
<1>2. CASE Begin \/ ProbeTwice \/ EnterUnknown
  <2>1. /\ pc' = "reset1" /\ after' # "flash"
        \/ /\ pc' = "enter" /\ pc = "start" /\ after' = after
    BY <1>2 DEF Begin, ProbeTwice, EnterUnknown, ProbeAppType, Goto, probeVars
  <2> QED BY <2>1 DEF Verifying
<1>3. CASE Verify
  <2>1. \/ pc' = "reset1" /\ ~runFw'
        \/ pc' = "flash" /\ bootBaud # None /\ bootBaud' = bootBaud
    BY <1>3 DEF Verify, ProbeAppType, Goto, objectVars
  <2> QED BY <2>1 DEF Verifying
<1>4. CASE Decide
  <2>1. pc = "decide" /\ pc' \in {"enter", "end"} /\ after' = after
    BY <1>4 DEF Decide, Goto, Finish, probeVars
  <2> QED BY <2>1 DEF Verifying
<1>5. CASE ResetFound \/ ResetExhausted \/ LoopSkip \/ LoopMissed \/ LoopExhausted
  <2>1. /\ pc \in {"reset1", "loop"} /\ pc' \in {"loop", "reset2", "end"}
        /\ UNCHANGED <<after, runFw>>
    BY <1>5 DEF ResetFound, ResetExhausted, LoopSkip, LoopMissed, LoopExhausted, Probing,
                Goto, Finish, probeVars
  <2> QED BY <2>1 DEF Verifying
<1>6. CASE LoopFound
  <2>1. PICK t \in Types, b \in Rates :
          /\ Probing(t, b) /\ UNCHANGED <<after, runFw>>
          /\ t = "GECKO" => bootBaud' = b
          /\ pc' = pc \/ pc' = after
    BY <1>6 DEF LoopFound, Goto
  <2>2. pc = "loop" /\ queue # {} /\ t = Current.type
    BY <2>1 DEF Probing
  <2>3. after = "flash" => t = "GECKO"
    BY <2>2, CurrentQueued DEF Flow, Sought, Typed, ProbeOK
  <2>4. b # None
    BY RatesTyped DEF None
  <2>5. after \in Returns \ {"none"}
    BY <2>2 DEF Typed, ProbeOK, Flow
  <2> QED BY <2>1, <2>2, <2>3, <2>4, <2>5 DEF Verifying, Returns
<1>7. CASE Reset2Done
  <2>1. pc = "reset2" /\ pc' = after /\ bootBaud' = bootProbe /\ after' = after
    BY <1>7 DEF Reset2Done, Goto, probeVars
  <2>2. bootProbe # None
    BY <2>1, DeviceKnown DEF IInv, SecondReset
  <2>3. after \in Returns \ {"none"}
    BY <2>1 DEF Typed, ProbeOK, Flow
  <2> QED BY <2>1, <2>2, <2>3 DEF Verifying, Returns
<1>8. CASE EnterAlready \/ EnterObeyed \/ EnterUnanswered \/ EnterFails \/ Fallback
           \/ FallbackFails
  <2>1. pc \in {"enter", "fallback"} /\ after' = after
    BY <1>8 DEF EnterAlready, EnterObeyed, EnterUnanswered, EnterFails, Fallback,
                FallbackFails, probeVars
  <2>2. pc' \in {"fallback", "verify", "end"}
    <3>1. CASE EnterUnanswered
      BY <3>1 DEF EnterUnanswered, Goto, Finish, Apps
    <3> QED BY <1>8, <3>1 DEF EnterAlready, EnterObeyed, EnterFails, Fallback, FallbackFails,
                              Goto, Finish
  <2> QED BY <2>1, <2>2 DEF Verifying
<1>9. CASE Flash \/ Write \/ PortFails \/ ResetFails
  <2>1. pc' = "end"
    BY <1>9 DEF Flash, Write, PortFails, ResetFails, Finish
  <2> QED BY <2>1 DEF Verifying
<1> QED BY <1>1, <1>2, <1>3, <1>4, <1>5, <1>6, <1>7, <1>8, <1>9
    DEF Next, Step, Done, vars, objectVars, probeVars, Reset, ResetMissed

LEMMA NextEntering ==
  ASSUME IInv, Typed, Flow, Verifying, Entering, ResetsWork, [Next]_vars
  PROVE  Entering'
<1>0. UNCHANGED <<task, setup>>
  BY Stable
<1>1. /\ after \in Returns /\ misses \in Nat
      /\ Probed => Listens(appType, appBaud)
  BY DEF Typed, ProbeOK, DeviceOK, IInv
<1>2. CASE pc' \in {"reset1", "reset2", "loop", "probed", "decide", "write", "end"}
  BY <1>2 DEF Entering, Enterer
<1>3. CASE UNCHANGED vars
  <2>1. UNCHANGED <<pc, after, appType, appBaud, mode, misses>>
    BY <1>3 DEF vars, objectVars, probeVars, deviceVars
  <2> QED BY <1>0, <2>1 DEF Entering, Enterer, Listens, Disobeyed
<1>4. CASE Begin
  <2>1. CASE task = "guiFlash"
    <3>1. mode' \in ModeAfterReset("rts_dtr") /\ pc' = "enter"
      BY <1>4, <2>1 DEF Begin, Writes, Goto
    <3>2. "rts_dtr" \in ResetTargets /\ "rts_dtr" \in setup.wired
      <4>1. setup.targets = <<"rts_dtr">>
        BY <2>1 DEF Typed, DeviceOK, Relevant, TargetsOf
      <4>2. "rts_dtr" \in ToSet(setup.targets)
        BY <4>1 DEF ToSet
      <4> QED BY <4>2 DEF ResetsWork, ResetTargets
    <3>3. mode' = "GECKO"
      BY <3>1, <3>2, WorkingReset
    <3> QED BY <1>0, <2>1, <3>1, <3>3 DEF Entering, Enterer
  <2>2. CASE task # "guiFlash"
    <3>1. pc' = "reset1" \/ (pc' = "enter" /\ task = "enterFlash")
      BY <1>4, <2>2 DEF Begin, ProbeAppType, Goto
    <3> QED BY <1>0, <1>2, <2>2, <3>1 DEF Entering, Enterer
  <2> QED BY <2>1, <2>2
<1>5. CASE ProbeTwice \/ EnterUnknown \/ ResetFound \/ ResetExhausted \/ LoopSkip
           \/ LoopMissed \/ LoopExhausted
  BY <1>2, <1>5 DEF ProbeTwice, EnterUnknown, ProbeAppType, ResetFound, ResetExhausted,
     LoopSkip, LoopMissed, LoopExhausted, Probing, Goto, Finish
<1>6. CASE Reset \/ ResetMissed
  BY <1>2, <1>6 DEF Reset, ResetMissed
<1>7. CASE Decide
  <2>1. /\ pc = "decide" /\ pc' \in {"enter", "end"}
        /\ UNCHANGED <<appType, appBaud, mode>>
    BY <1>7 DEF Decide, Goto, Finish, objectVars, deviceVars
  <2>2. Listens(appType, appBaud) /\ task # "guiFlash"
    BY <1>1, <2>1 DEF Probed, Flow, Enterer
  <2> QED BY <1>0, <2>1, <2>2 DEF Entering, Enterer, Listens
<1>8. CASE LoopFound \/ Reset2Done
  <2>1. /\ pc \in {"loop", "reset2"} /\ after' = after
        /\ \/ pc' = pc
           \/ pc' = after
    BY <1>8 DEF LoopFound, Reset2Done, Probing, Goto, probeVars
  <2>2. after # "none" /\ task # "guiFlash" /\ (after = "enter" => task # "flash")
    BY <2>1 DEF Flow
  <2>3. after = "flash" /\ pc' = after => mode' = "GECKO"
    <3>1. CASE LoopFound
      <4>1. PICK t \in Types, b \in Rates :
              /\ Probing(t, b) /\ Listens(t, b)
              /\ pc' = pc \/ mode' = mode
        BY <3>1 DEF LoopFound, Heard
      <4>2. pc = "loop" /\ queue # {} /\ t = Current.type
        BY <4>1 DEF Probing
      <4>3. after = "flash" => t = "GECKO"
        BY <4>2, CurrentQueued DEF Flow, Sought, Typed, ProbeOK
      <4> QED BY <4>1, <4>2, <4>3 DEF Listens
    <3>2. CASE Reset2Done
      <4>1. pc = "reset2" /\ mode' = mode /\ (targets = << >> \/ rates # << >>)
        BY <3>2 DEF Reset2Done, deviceVars
      <4>2. mode = "GECKO"
        <5>1. setup.targets # << >> /\ (mode = "GECKO" \/ (targets = setup.targets /\ rates = << >>))
          BY <4>1 DEF IInv, SecondReset
        <5> QED BY <4>1, <5>1
      <4> QED BY <4>1, <4>2
    <3> QED BY <1>8, <3>1, <3>2
  <2> QED BY <1>0, <1>1, <2>1, <2>2, <2>3 DEF Entering, Enterer, Returns
<1>9. CASE EnterAlready \/ EnterObeyed
  <2>1. /\ pc = "enter" /\ pc' = "verify" /\ after' = after /\ appType # "none"
        /\ mode' = "GECKO" \/ (mode' = mode /\ appType = "GECKO")
    BY <1>9 DEF EnterAlready, EnterObeyed, Goto, deviceVars, probeVars, Apps
  <2>2. task # "guiFlash" => Listens(appType, appBaud)
    BY <1>1, <2>1 DEF Entering, Probed, Flow, Typed, DeviceOK, Tasks, Prober, Enterer
  <2>3. mode' = "GECKO"
    BY <2>1, <2>2 DEF Listens, Entering, Enterer
  <2> QED BY <2>1, <2>3 DEF Entering
<1>10. CASE EnterUnanswered
  <2>1. /\ pc = "enter" /\ appType \in Apps /\ Missed(appType, appBaud)
        /\ mode' \in {mode, "GECKO"}
        /\ UNCHANGED <<after, appType, appBaud>>
    BY <1>10 DEF EnterUnanswered, objectVars, probeVars
  <2>2. task # "guiFlash"
    BY <2>1 DEF Flow, Apps, Enterer
  <2>3. Listens(appType, appBaud) /\ misses' > 0
    <3>1. Listens(appType, appBaud)
      BY <1>1, <2>1, <2>2 DEF Entering, Probed, Flow, Typed, DeviceOK, Tasks, Prober, Enterer, Apps
    <3> QED BY <1>1, <2>1, <3>1 DEF Missed
  <2>4. mode' = "GECKO" \/ Listens(appType, appBaud)'
    BY <1>0, <2>1, <2>3 DEF Listens
  <2>5. \/ pc' = "fallback" /\ appType' \in {"CPC", "ROUTER"}
        \/ pc' = "verify" /\ appType' # "ROUTER"
        \/ pc' = "end"
    BY <1>10, <2>1 DEF EnterUnanswered, Goto, Finish, Apps
  <2> QED BY <1>0, <2>1, <2>2, <2>3, <2>4, <2>5 DEF Entering, Disobeyed, Apps
<1>11. CASE Fallback
  <2>1. /\ pc = "fallback" /\ pc' = "verify" /\ mode' \in ModeAfterReset("rts_dtr")
        /\ UNCHANGED <<after, appType, appBaud, misses>>
    BY <1>11 DEF Fallback, Goto, objectVars, probeVars
  <2>2. /\ misses > 0 /\ appType \in {"CPC", "ROUTER"} /\ task # "guiFlash"
        /\ mode = "GECKO" \/ Listens(appType, appBaud)
    BY <2>1 DEF Entering, Flow, Enterer
  <2>3. CASE "rts_dtr" \in setup.wired
    <3>1. mode' = "GECKO"
      BY <2>1, <2>3, WorkingReset DEF ResetTargets
    <3> QED BY <1>0, <2>1, <2>2, <3>1 DEF Entering
  <2>4. CASE "rts_dtr" \notin setup.wired
    <3>1. mode' = mode
      BY <2>1, <2>4 DEF ModeAfterReset, ModeAfter
    <3>2. mode' = "GECKO" \/ Disobeyed'
      BY <1>0, <2>1, <2>2, <2>4, <3>1 DEF Disobeyed, Listens, Apps
    <3> QED BY <1>0, <2>1, <2>2, <3>2 DEF Entering
  <2> QED BY <2>3, <2>4
<1>12. CASE Verify
  <2>1. CASE pc' = "reset1"
    BY <1>2, <2>1
  <2>2. CASE pc' = "flash" /\ after' = after
    <3>1. pc = "verify" /\ UNCHANGED <<appType, appBaud, mode, misses>>
      BY <1>12 DEF Verify, objectVars, deviceVars
    <3>2. after # "flash" /\ (mode = "GECKO" \/ Disobeyed) /\ (task = "guiFlash" => mode = "GECKO")
      BY <3>1 DEF Verifying, Entering, Enterer
    <3>3. Disobeyed' = Disobeyed
      BY <1>0, <3>1 DEF Disobeyed, Listens
    <3> QED BY <1>0, <2>2, <3>1, <3>2, <3>3 DEF Entering, Enterer
  <2> QED BY <1>12, <2>1, <2>2 DEF Verify, ProbeAppType, Goto, probeVars
<1>13. CASE EnterFails \/ FallbackFails \/ Flash \/ Write \/ PortFails \/ ResetFails
  BY <1>2, <1>13 DEF EnterFails, FallbackFails, Flash, Write, PortFails, ResetFails, Finish
<1> QED BY <1>3, <1>4, <1>5, <1>6, <1>7, <1>8, <1>9, <1>10, <1>11, <1>12, <1>13
    DEF Next, Step, Done

LEMMA NextEnterInv == IInv /\ Typed /\ Flow /\ EnterInv /\ [Next]_vars => EnterInv'
<1> SUFFICES ASSUME IInv, Typed, Flow, EnterInv, [Next]_vars PROVE EnterInv'
  OBVIOUS
<1>1. ResetsWork' = ResetsWork
  BY Stable, SetupStable
<1> QED BY <1>1, NextVerifying, NextEntering DEF EnterInv

\* When enter_bootloader returns, however many attempts were missed, the device is
\* in its bootloader, reachable at the baudrate recorded, or runs untouched the
\* application whose launch was assumed (flasher.py:204-422).
THEOREM Entered == Spec => []EnteredOnReturn
<1>1. ASSUME IInv, Typed, Flow, EnterInv PROVE EnteredOnReturn
  <2> SUFFICES ASSUME pc = "flash", ResetsWork,
                      task = "guiFlash" => setup.bootBaud = Baudrates["GECKO"][1]
               PROVE  Listens("GECKO", bootBaud) \/ (after # "flash" /\ Disobeyed)
    BY DEF EnteredOnReturn
  <2>1. mode = "GECKO" \/ (after # "flash" /\ Disobeyed)
    BY <1>1 DEF EnterInv, Entering
  <2>2. task # "guiFlash" => bootBaud = setup.bootBaud
    BY <1>1 DEF IInv, RatesLearnt, EnterInv, Verifying
  <2>3. task = "guiFlash" => bootBaud = Baudrates["GECKO"][1]
    BY <1>1 DEF Flow, Enterer
  <2> QED BY <2>1, <2>2, <2>3 DEF Listens
<1> QED BY <1>1, TypedInvariance, InitEnterInv, NextEnterInv, PTL DEF Spec

\* A device that can be flashed, or whose address can be written, is, as long as
\* nothing is missed (flasher.py:204-496).
THEOREM ReachableSucceeds == Spec => []NoFalseFailure
<1>1. Course => NoFalseFailure
  BY DEF Course, Place, NoFalseFailure
<1> QED BY <1>1, CourseInvariance, PTL
==============================================================================
