--------------------------- MODULE ApplicationsProofs ---------------------------
(***************************************************************************)
(* What the Spinel and the router protocol tell Flasher, for every number of *)
(* retries, every choice of the waits in which Flasher's limit is not the    *)
(* longer one, and any number of mishaps.                                   *)
(***************************************************************************)
EXTENDS Applications, Integers, SequenceTheorems, WellFoundedInduction, TLAPS

Holds(s, x) == \E k \in 1..Len(s) : s[k] = x

LEMMA Concat ==
  ASSUME NEW S, NEW s \in Seq(S), NEW t \in Seq(S)
  PROVE  /\ s \o t \in Seq(S)
         /\ Len(s \o t) = Len(s) + Len(t) /\ Len(s) \in Nat /\ Len(t) \in Nat
         /\ \A k \in 1..Len(s) : (s \o t)[k] = s[k]
         /\ \A k \in 1..Len(t) : (s \o t)[Len(s) + k] = t[k]
OBVIOUS

\* What is in two sequences is in both together; a chunk and its rest are the whole.
LEMMA HoldsConcat ==
  ASSUME NEW S, NEW s \in Seq(S), NEW t \in Seq(S), NEW x
  PROVE  Holds(s \o t, x) <=> Holds(s, x) \/ Holds(t, x)
<1>1. /\ Len(s \o t) = Len(s) + Len(t) /\ Len(s) \in Nat /\ Len(t) \in Nat
      /\ \A k \in 1..Len(s) : (s \o t)[k] = s[k]
      /\ \A k \in 1..Len(t) : (s \o t)[Len(s) + k] = t[k]
  BY Concat
<1>2. ASSUME Holds(s \o t, x) PROVE Holds(s, x) \/ Holds(t, x)
  <2>1. PICK k \in 1..Len(s \o t) : (s \o t)[k] = x
    BY <1>2 DEF Holds
  <2>2. CASE k <= Len(s)
    BY <1>1, <2>1, <2>2 DEF Holds
  <2>3. CASE k > Len(s)
    <3>1. k - Len(s) \in 1..Len(t) /\ t[k - Len(s)] = x
      BY <1>1, <2>1, <2>3
    <3> QED BY <3>1 DEF Holds
  <2> QED BY <1>1, <2>2, <2>3
<1>3. ASSUME Holds(s, x) PROVE Holds(s \o t, x)
  BY <1>1, <1>3 DEF Holds
<1>4. ASSUME Holds(t, x) PROVE Holds(s \o t, x)
  <2>1. PICK k \in 1..Len(t) : t[k] = x
    BY <1>4 DEF Holds
  <2>2. Len(s) + k \in 1..Len(s \o t) /\ (s \o t)[Len(s) + k] = x
    BY <1>1, <2>1
  <2> QED BY <2>2 DEF Holds
<1> QED BY <1>2, <1>3, <1>4

LEMMA Chunks ==
  ASSUME NEW S, NEW s \in Seq(S), NEW k \in 1..Len(s)
  PROVE  /\ SubSeq(s, 1, k) \in Seq(S) /\ SubSeq(s, k + 1, Len(s)) \in Seq(S)
         /\ Len(SubSeq(s, 1, k)) = k /\ Len(SubSeq(s, k + 1, Len(s))) = Len(s) - k
         /\ \A i \in 1..k : SubSeq(s, 1, k)[i] = s[i]
         /\ \A i \in 1..(Len(s) - k) : SubSeq(s, k + 1, Len(s))[i] = s[k + i]
         /\ SubSeq(s, 1, k) \o SubSeq(s, k + 1, Len(s)) = s
  OBVIOUS

LEMMA HoldsTail ==
  ASSUME NEW S, NEW s \in Seq(S), s # << >>, NEW x, Holds(Tail(s), x)
  PROVE  Holds(s, x)
<1>1. PICK k \in 1..Len(Tail(s)) : Tail(s)[k] = x
  BY DEF Holds
<1>2. k + 1 \in 1..Len(s) /\ s[k + 1] = x
  BY <1>1
<1> QED BY <1>2 DEF Holds

-----------------------------------------------------------------------------
(***************************************************************************)
(* The router.                                                             *)
(***************************************************************************)
RouterTyped ==
  /\ task \in router!Tasks
  /\ buf \in Seq(router!Texts) /\ toHost \in Seq(router!Texts)
  /\ toDev \in Seq({"enter", "version", "reboot"})
  /\ sm \in {"STARTUP", "INFO", "BOOTWAIT", "READY"}
  /\ version \in BOOLEAN
  /\ clock \in Nat /\ deadline \in Nat
  /\ dmode \in {"app", "bootloader", "deaf"}

\* The bootloader's name, if no bootloader runs, is from before the connection: it
\* is the first text of all, and dropped with the first prompt.
NoStaleMenu ==
  dmode # "bootloader" =>
    /\ \A k \in 1..Len(toHost) : toHost[k] = "bootloader" => k = 1 /\ sm = "STARTUP"
    /\ Holds(buf, "bootloader") => sm = "STARTUP"

\* A connection that probes reboots nothing, and has a version from a router.
ProbeOnly ==
  task = "probe" =>
    /\ ~Holds(toDev, "reboot")
    /\ Holds(buf, "version") \/ Holds(toHost, "version") \/ version => dmode = "app"

Waiting ==
  /\ pc = "info" => /\ task = "probe" /\ sm \in {"INFO", "READY"}
                    /\ sm = "READY" => version
  /\ pc = "boot" => /\ task # "probe" /\ sm \in {"BOOTWAIT", "READY"}
                    /\ sm = "READY" => dmode = "bootloader"
                    /\ deadline >= BootWait

InTime == task # "enterAlone" => clock <= ProbeTimeout

RouterInv ==
  RouterTyped /\ NoStaleMenu /\ ProbeOnly /\ Waiting /\ InTime /\ router!EnteredTruthfully

LEMMA InitRouterInv == InitRouter => RouterInv
<1> SUFFICES ASSUME InitRouter PROVE RouterInv
  OBVIOUS
<1>1. router!Init
  BY DEF InitRouter
<1>2. /\ toHost \in Seq(router!Texts) /\ ~Holds(toHost, "version")
      /\ \A k \in 1..Len(toHost) : toHost[k] = "bootloader" => k = 1
  <2>1. CASE toHost = << >>
    BY <2>1 DEF Holds
  <2>2. CASE toHost = <<"prompt">>
    BY <2>2 DEF Holds, router!Texts
  <2>3. CASE toHost = <<"bootloader", "prompt">>
    <3>1. Len(toHost) = 2 /\ toHost[1] = "bootloader" /\ toHost[2] = "prompt"
      BY <2>3
    <3>2. \A k \in 1..2 : k = 1 \/ k = 2
      OBVIOUS
    <3> QED BY <2>3, <3>1, <3>2 DEF Holds, router!Texts
  <2> QED BY <1>1, <2>1, <2>2, <2>3 DEF router!Init, router!Menu
<1>3. RouterTyped
  <2>1. << >> \in Seq(router!Texts) /\ << >> \in Seq({"enter", "version", "reboot"})
    OBVIOUS
  <2>2. version \in BOOLEAN
    BY <1>1 DEF router!Init
  <2>3. /\ task \in router!Tasks /\ buf = << >> /\ toDev = << >> /\ sm = "STARTUP"
        /\ clock \in Nat /\ deadline \in Nat /\ dmode \in {"app", "bootloader", "deaf"}
    BY <1>1, ApplicationsAssumption DEF router!Init, ApplicationsAssumption
  <2> QED BY <1>2, <2>1, <2>2, <2>3 DEF RouterTyped
<1> QED BY <1>1, <1>2, <1>3, ApplicationsAssumption
        DEF router!Init, RouterInv, NoStaleMenu, ProbeOnly, Waiting, InTime, Holds,
            router!EnteredTruthfully, ApplicationsAssumption

\* Each state looks for its own text.
LEMMA DeliverKeeps ==
  ASSUME RouterInv, router!Deliver
  PROVE  RouterInv'
<1>1. PICK k \in 1..Len(toHost) :
        LET b == buf \o SubSeq(toHost, 1, k) IN
          /\ toHost' = SubSeq(toHost, k + 1, Len(toHost))
          /\ IF router!ToSet(b) \cap router!Awaited(sm) # {}
             THEN /\ sm' = "READY" /\ buf' = << >>
                  /\ version' = (version \/ sm = "INFO")
             ELSE buf' = b /\ UNCHANGED <<sm, version>>
  BY DEF router!Deliver
<1> DEFINE chunk == SubSeq(toHost, 1, k)
           b     == buf \o chunk
           found == router!ToSet(b) \cap router!Awaited(sm) # {}
<1>2. /\ UNCHANGED <<task, pc, clock, deadline, outcome, toDev, dmode>> /\ pc # "end"
      /\ RouterTyped /\ NoStaleMenu /\ ProbeOnly /\ Waiting /\ InTime
      /\ router!EnteredTruthfully
  BY DEF router!Deliver, RouterInv
<1>3. buf \in Seq(router!Texts) /\ toHost \in Seq(router!Texts)
  BY <1>2 DEF RouterTyped
<1>4. /\ chunk \in Seq(router!Texts) /\ toHost' \in Seq(router!Texts) /\ b \in Seq(router!Texts)
      /\ Len(chunk) = k /\ \A i \in 1..k : chunk[i] = toHost[i]
      /\ Len(toHost') = Len(toHost) - k
      /\ \A i \in 1..(Len(toHost) - k) : toHost'[i] = toHost[k + i]
  BY <1>1, <1>3, Chunks
<1>5. \A x : Holds(b, x) <=> Holds(buf, x) \/ Holds(chunk, x)
  <2> HIDE DEF chunk
  <2> QED BY <1>3, <1>4, HoldsConcat DEF b
<1>6. \A x : /\ Holds(chunk, x) => Holds(toHost, x)
             /\ Holds(toHost', x) => Holds(toHost, x)
  <2>1. Len(toHost) \in Nat
    BY <1>3
  <2>2. ASSUME NEW x, Holds(chunk, x) PROVE Holds(toHost, x)
    <3> HIDE DEF chunk
    <3>1. PICK i \in 1..k : chunk[i] = x
      BY <1>4, <2>2 DEF Holds
    <3>2. i \in 1..Len(toHost) /\ toHost[i] = x
      BY <1>4, <2>1, <3>1
    <3> QED BY <3>2 DEF Holds
  <2>3. ASSUME NEW x, Holds(toHost', x) PROVE Holds(toHost, x)
    <3>1. PICK i \in 1..(Len(toHost) - k) : toHost'[i] = x
      BY <1>4, <2>3 DEF Holds
    <3>2. k + i \in 1..Len(toHost) /\ toHost[k + i] = x
      BY <1>4, <2>1, <3>1
    <3> QED BY <3>2 DEF Holds
  <2> QED BY <2>2, <2>3
<1>7. \A i \in 1..Len(toHost') : toHost'[i] = "bootloader" => dmode = "bootloader"
  <2>1. Len(toHost) \in Nat
    BY <1>3
  <2>2. \A i \in 1..Len(toHost') : k + i \in 1..Len(toHost) /\ k + i # 1
    BY <1>4, <2>1
  <2> QED BY <1>2, <1>4, <2>2 DEF NoStaleMenu
<1>8. Holds(b, "bootloader") => dmode = "bootloader" \/ sm = "STARTUP"
  BY <1>2, <1>5, <1>6 DEF NoStaleMenu, Holds
<1>9. ASSUME found
      PROVE  /\ sm = "INFO" => Holds(b, "version")
             /\ sm = "BOOTWAIT" => Holds(b, "bootloader")
  <2>1. PICK x \in router!Awaited(sm) : x \in router!ToSet(b)
    BY <1>9
  <2>2. Holds(b, x)
    <3> HIDE DEF b
    <3> QED BY <1>4, <2>1 DEF router!ToSet, Holds
  <2>3. /\ sm = "INFO" => x = "version"
        /\ sm = "BOOTWAIT" => x = "bootloader"
    BY <2>1 DEF router!Awaited
  <2> QED BY <2>2, <2>3
<1>10. \/ found /\ sm' = "READY" /\ buf' = << >> /\ version' = (version \/ sm = "INFO")
       \/ buf' = b /\ UNCHANGED <<sm, version>>
  BY <1>1
<1> HIDE DEF chunk, b, found
<1>11. RouterTyped'
  <2>1. version' \in BOOLEAN
    BY <1>2, <1>10 DEF RouterTyped
  <2>2. buf' \in Seq(router!Texts) /\ sm' \in {"STARTUP", "INFO", "BOOTWAIT", "READY"}
    <3>1. << >> \in Seq(router!Texts)
      OBVIOUS
    <3> QED BY <1>2, <1>4, <1>10, <3>1 DEF RouterTyped
  <2> QED BY <1>2, <1>4, <2>1, <2>2 DEF RouterTyped
<1>12. ~Holds(<< >>, "bootloader") /\ ~Holds(<< >>, "version")
  BY DEF Holds
<1>13. NoStaleMenu'
  BY <1>2, <1>7, <1>8, <1>10, <1>12 DEF NoStaleMenu
<1>14. ProbeOnly'
  <2>1. task = "probe" /\ found /\ sm = "INFO" => dmode = "app"
    BY <1>2, <1>5, <1>6, <1>9 DEF ProbeOnly
  <2>2. task = "probe" /\ version' => dmode = "app"
    BY <1>2, <1>10, <2>1 DEF ProbeOnly
  <2>3. task = "probe" /\ Holds(buf', "version") => dmode = "app"
    BY <1>2, <1>5, <1>6, <1>10, <1>12 DEF ProbeOnly
  <2> QED BY <1>2, <1>6, <2>2, <2>3 DEF ProbeOnly
<1>15. Waiting'
  <2>1. CASE found /\ sm' = "READY" /\ version' = (version \/ sm = "INFO")
    <3>1. pc = "boot" => dmode = "bootloader"
      BY <1>2, <1>8, <1>9, <2>1 DEF Waiting
    <3> QED BY <1>2, <2>1, <3>1 DEF Waiting
  <2>2. CASE UNCHANGED <<sm, version>>
    BY <1>2, <2>2 DEF Waiting
  <2> QED BY <1>10, <2>1, <2>2
<1>16. InTime' /\ router!EnteredTruthfully'
  <2>1. version => version'
    BY <1>2, <1>10 DEF RouterTyped
  <2> QED BY <1>2, <2>1 DEF InTime, router!EnteredTruthfully
<1> QED BY <1>11, <1>13, <1>14, <1>15, <1>16 DEF RouterInv

LEMMA HostKeeps ==
  ASSUME RouterInv, router!Host
  PROVE  RouterInv'
<1>1. /\ RouterTyped /\ NoStaleMenu /\ ProbeOnly /\ Waiting /\ InTime
      /\ router!EnteredTruthfully
  BY DEF RouterInv
<1>2. UNCHANGED <<task, buf, version, clock, toHost, dmode>>
  BY DEF router!Host, router!Begin, router!Enter, router!Prompted, router!Informed, router!Booted,
         router!Limited, router!Cancelled, router!Expired, router!Others
<1>3. /\ Settle \in Nat /\ StateWait \in Nat /\ BootWait \in Nat /\ ProbeTimeout \in Nat
      /\ ProbeTimeout <= BootWait
  BY ApplicationsAssumption DEF ApplicationsAssumption
<1>4. clock \in Nat /\ deadline \in Nat /\ toDev \in Seq({"enter", "version", "reboot"})
  BY <1>1 DEF RouterTyped
<1>5. CASE router!Enter \/ router!Prompted
  <2>1. PICK command \in {"enter", "version", "reboot"}, limit \in {StateWait, BootWait} :
          /\ toDev' = Append(toDev, command) /\ deadline' = clock + limit /\ outcome' = outcome
          /\ \/ command = "enter" /\ pc' = "prompt" /\ sm' = sm
             \/ command = "version" /\ pc' = "info" /\ sm' = "INFO" /\ task = "probe"
                /\ sm = "READY"
             \/ command = "reboot" /\ pc' = "boot" /\ sm' = "BOOTWAIT" /\ task # "probe"
                /\ limit = BootWait /\ sm = "READY"
    BY <1>5 DEF router!Enter, router!Prompted, router!Wait
  <2>2. RouterTyped'
    BY <1>1, <1>2, <1>3, <1>4, <2>1 DEF RouterTyped
  <2>3. NoStaleMenu'
    BY <1>1, <1>2, <2>1 DEF NoStaleMenu
  <2>4. task = "probe" => ~Holds(toDev', "reboot")
    <3> SUFFICES ASSUME task = "probe", NEW k \in 1..Len(toDev'), toDev'[k] = "reboot"
                 PROVE  FALSE
      BY DEF Holds
    <3>1. command # "reboot"
      BY <2>1
    <3>2. k \in 1..Len(toDev) /\ toDev[k] = "reboot"
      BY <1>4, <2>1, <3>1
    <3> QED BY <1>1, <3>2 DEF ProbeOnly, Holds
  <2>5. ProbeOnly'
    BY <1>1, <1>2, <2>4 DEF ProbeOnly
  <2>6. Waiting'
    BY <1>2, <1>3, <1>4, <2>1 DEF Waiting
  <2>7. InTime' /\ router!EnteredTruthfully'
    BY <1>1, <1>2, <2>1 DEF InTime, router!EnteredTruthfully
  <2> QED BY <2>2, <2>3, <2>5, <2>6, <2>7 DEF RouterInv
<1>6. CASE router!Informed \/ router!Booted \/ router!Limited \/ router!Cancelled
            \/ router!Expired
  <2>1. UNCHANGED <<toDev, deadline>> /\ pc' \in {"cancelled", "end"}
    BY <1>6 DEF router!Informed, router!Booted, router!Limited, router!Cancelled,
       router!Expired, router!End
  <2>2. sm' = sm \/ (sm' = "READY" /\ sm \in {"BOOTWAIT", "READY"})
    BY <1>1, <1>6 DEF router!Informed, router!Booted, router!Limited, router!Cancelled,
       router!Expired, Waiting
  <2>3. RouterTyped' /\ NoStaleMenu' /\ ProbeOnly' /\ Waiting' /\ InTime'
    BY <1>1, <1>2, <2>1, <2>2 DEF RouterTyped, NoStaleMenu, ProbeOnly, Waiting, InTime
  <2>4. router!EnteredTruthfully'
    <3>1. CASE router!Informed
      <4>1. task = "probe" /\ version /\ dmode = "app" /\ outcome' = "ok"
        BY <1>1, <3>1 DEF router!Informed, router!End, Waiting, ProbeOnly
      <4> QED BY <1>2, <4>1 DEF router!EnteredTruthfully
    <3>2. CASE router!Booted
      <4>1. task # "probe" /\ dmode = "bootloader" /\ outcome' = "ok"
        BY <1>1, <3>2 DEF router!Booted, router!End, Waiting
      <4> QED BY <1>2, <4>1 DEF router!EnteredTruthfully
    <3>3. CASE router!Limited
      BY <1>1, <1>2, <3>3 DEF router!Limited, router!EnteredTruthfully
    <3>4. CASE router!Cancelled
      BY <1>2, <3>4 DEF router!Cancelled, router!End, router!EnteredTruthfully
    <3>5. CASE router!Expired
      <4>1. outcome' \in {"assumed", "timeout"} /\ (outcome' = "assumed" => pc = "boot")
            /\ clock = deadline /\ clock \notin router!Limits[task]
        BY <3>5 DEF router!Expired, router!End
      <4>2. outcome' = "assumed" => task = "enterAlone"
        <5> SUFFICES ASSUME pc = "boot", task # "enterAlone" PROVE FALSE
          BY <4>1
        <5>1. clock <= ProbeTimeout /\ deadline >= BootWait
          BY <1>1 DEF InTime, Waiting
        <5>2. clock = ProbeTimeout
          BY <1>3, <1>4, <4>1, <5>1
        <5>3. ProbeTimeout \in router!Limits[task]
          BY <1>1 DEF router!Limits, RouterTyped
        <5> QED BY <4>1, <5>2, <5>3
      <4> QED BY <1>2, <4>1, <4>2 DEF router!EnteredTruthfully
    <3> QED BY <1>6, <3>1, <3>2, <3>3, <3>4, <3>5
  <2> QED BY <2>3, <2>4 DEF RouterInv
<1>7. CASE router!Begin
  <2>1. /\ pc' = "settle" /\ deadline' = clock + Settle
        /\ UNCHANGED <<sm, toDev, outcome>>
    BY <1>7 DEF router!Begin
  <2> QED BY <1>1, <1>2, <1>3, <1>4, <2>1
          DEF RouterInv, RouterTyped, NoStaleMenu, ProbeOnly, Waiting, InTime,
              router!EnteredTruthfully
<1> QED BY <1>5, <1>6, <1>7 DEF router!Host

LEMMA TickKeeps ==
  ASSUME RouterInv, router!Tick
  PROVE  RouterInv'
<1>1. /\ clock' = clock + 1 /\ clock < deadline /\ clock \notin router!Limits[task]
      /\ UNCHANGED <<task, pc, sm, buf, version, deadline, outcome, toDev, toHost, dmode>>
  BY DEF router!Tick
<1>2. clock \in Nat /\ task \in router!Tasks /\ InTime /\ ProbeTimeout \in Nat
  BY ApplicationsAssumption DEF RouterInv, RouterTyped, ApplicationsAssumption
<1>3. task # "enterAlone" => clock # ProbeTimeout
  BY <1>1, <1>2 DEF router!Limits
<1>4. InTime'
  BY <1>1, <1>2, <1>3 DEF InTime
<1> QED BY <1>1, <1>2, <1>4 DEF RouterInv, RouterTyped, NoStaleMenu, ProbeOnly, Waiting,
           router!EnteredTruthfully

LEMMA ObeyKeeps ==
  ASSUME RouterInv, router!Obey
  PROVE  RouterInv'
<1> DEFINE reply == CASE dmode' = "bootloader" -> router!Menu
                      [] dmode' = "deaf"       -> << >>
                      [] dmode' = "app"        ->
                           IF Head(toDev) = "version" THEN <<"version", "prompt">> ELSE <<"prompt">>
<1>1. /\ toDev # << >> /\ toDev' = Tail(toDev)
      /\ dmode' = IF dmode = "app" /\ Head(toDev) = "reboot" THEN "bootloader" ELSE dmode
      /\ toHost' = toHost \o reply
      /\ UNCHANGED <<task, pc, sm, buf, version, clock, deadline, outcome>>
  BY DEF router!Obey
<1>2. /\ RouterTyped /\ NoStaleMenu /\ ProbeOnly /\ Waiting /\ InTime
      /\ router!EnteredTruthfully
  BY DEF RouterInv
<1>3. /\ toHost \in Seq(router!Texts) /\ toDev \in Seq({"enter", "version", "reboot"})
      /\ dmode \in {"app", "bootloader", "deaf"} /\ dmode' \in {"app", "bootloader", "deaf"}
  BY <1>1, <1>2 DEF RouterTyped
<1>4. \/ dmode' = "bootloader" /\ reply = <<"bootloader", "prompt">>
      \/ dmode' = "deaf" /\ reply = << >>
      \/ dmode' = "app" /\ reply \in {<<"version", "prompt">>, <<"prompt">>}
  BY <1>3 DEF router!Menu
<1> HIDE DEF reply
<1>5. /\ reply \in Seq(router!Texts)
      /\ Holds(reply, "version") => dmode' = "app"
      /\ Holds(reply, "bootloader") => dmode' = "bootloader"
  <2>1. /\ <<"bootloader", "prompt">> \in Seq(router!Texts)
        /\ <<"version", "prompt">> \in Seq(router!Texts) /\ <<"prompt">> \in Seq(router!Texts)
        /\ << >> \in Seq(router!Texts)
    BY DEF router!Texts
  <2>2. /\ ~Holds(<<"bootloader", "prompt">>, "version") /\ ~Holds(<< >>, "version")
        /\ ~Holds(<< >>, "bootloader")
        /\ ~Holds(<<"version", "prompt">>, "bootloader") /\ ~Holds(<<"prompt">>, "bootloader")
    BY DEF Holds
  <2> QED BY <1>4, <2>1, <2>2
<1>6. \A x : Holds(toHost', x) => Holds(toHost, x) \/ Holds(reply, x)
  BY <1>1, <1>3, <1>5, HoldsConcat
<1>7. \A x : Holds(toDev', x) => Holds(toDev, x)
  BY <1>1, <1>3, HoldsTail
<1>8. Head(toDev) = "reboot" => Holds(toDev, "reboot")
  <2>1. 1 \in 1..Len(toDev) /\ Head(toDev) = toDev[1]
    BY <1>1, <1>3
  <2> QED BY <2>1 DEF Holds
<1>9. RouterTyped'
  BY <1>1, <1>2, <1>3, <1>5 DEF RouterTyped
<1>10. NoStaleMenu'
  <2> SUFFICES ASSUME dmode' # "bootloader"
               PROVE  \A i \in 1..Len(toHost') :
                        toHost'[i] = "bootloader" => i = 1 /\ sm = "STARTUP"
    BY <1>1, <1>2 DEF NoStaleMenu
  <2>1. ~Holds(reply, "bootloader") /\ dmode # "bootloader"
    BY <1>1, <1>5
  <2> SUFFICES ASSUME NEW i \in 1..Len(toHost'), toHost'[i] = "bootloader"
               PROVE  i = 1 /\ sm = "STARTUP"
    OBVIOUS
  <2>2. /\ Len(toHost') = Len(toHost) + Len(reply) /\ Len(toHost) \in Nat /\ Len(reply) \in Nat
        /\ i <= Len(toHost) => toHost'[i] = toHost[i]
        /\ i > Len(toHost) => toHost'[i] = reply[i - Len(toHost)]
    BY <1>1, <1>3, <1>5
  <2>3. CASE i <= Len(toHost)
    BY <1>2, <2>1, <2>2, <2>3 DEF NoStaleMenu
  <2>4. CASE i > Len(toHost)
    <3>1. i - Len(toHost) \in 1..Len(reply)
      BY <2>2, <2>4
    <3> QED BY <2>1, <2>2, <2>4, <3>1 DEF Holds
  <2> QED BY <2>2, <2>3, <2>4
<1>11. ProbeOnly'
  BY <1>1, <1>2, <1>5, <1>6, <1>7, <1>8 DEF ProbeOnly
<1>12. Waiting' /\ InTime'
  BY <1>1, <1>2 DEF Waiting, InTime
<1>13. router!EnteredTruthfully'
  BY <1>1, <1>2, <1>8 DEF router!EnteredTruthfully, ProbeOnly
<1> QED BY <1>9, <1>10, <1>11, <1>12, <1>13 DEF RouterInv

LEMMA LoseKeeps ==
  ASSUME RouterInv, router!Lose
  PROVE  RouterInv'
<1>1. /\ UNCHANGED <<task, pc, sm, buf, version, clock, deadline, outcome, dmode>>
      /\ \/ toDev # << >> /\ toDev' = Tail(toDev) /\ UNCHANGED toHost
         \/ toHost # << >> /\ toHost' = Tail(toHost) /\ UNCHANGED toDev
  BY DEF router!Lose
<1>2. /\ RouterTyped /\ NoStaleMenu /\ ProbeOnly /\ Waiting /\ InTime
      /\ router!EnteredTruthfully
  BY DEF RouterInv
<1>3. /\ toHost \in Seq(router!Texts) /\ toDev \in Seq({"enter", "version", "reboot"})
  BY <1>2 DEF RouterTyped
<1>4. \A x : /\ Holds(toDev', x) => Holds(toDev, x)
             /\ Holds(toHost', x) => Holds(toHost, x)
  BY <1>1, <1>3, HoldsTail
<1>5. RouterTyped'
  <2>1. /\ toHost # << >> => Tail(toHost) \in Seq(router!Texts)
        /\ toDev # << >> => Tail(toDev) \in Seq({"enter", "version", "reboot"})
    BY <1>3
  <2>2. toHost' \in Seq(router!Texts) /\ toDev' \in Seq({"enter", "version", "reboot"})
    BY <1>1, <1>3, <2>1
  <2>3. version' \in BOOLEAN
    BY <1>1, <1>2 DEF RouterTyped
  <2> QED BY <1>1, <1>2, <2>2, <2>3 DEF RouterTyped
<1>6. NoStaleMenu'
  <2> SUFFICES ASSUME dmode # "bootloader", toHost # << >>, toHost' = Tail(toHost),
                      NEW i \in 1..Len(toHost'), toHost'[i] = "bootloader"
               PROVE  i = 1 /\ sm = "STARTUP"
    BY <1>1, <1>2 DEF NoStaleMenu
  <2>1. i + 1 \in 1..Len(toHost) /\ toHost[i + 1] = "bootloader" /\ i + 1 # 1
    BY <1>3
  <2> QED BY <1>2, <2>1 DEF NoStaleMenu
<1> QED BY <1>1, <1>2, <1>4, <1>5, <1>6
        DEF RouterInv, ProbeOnly, Waiting, InTime, router!EnteredTruthfully

-----------------------------------------------------------------------------
(***************************************************************************)
(* Spinel: what is in the buffer and on the line.                          *)
(***************************************************************************)
Tokens == {spinel!Flag, spinel!Noise} \cup (spinel!Frames \X {1, 2})
First1 == <<"answer", 1>>
First2 == <<"answer", 2>>

\* A whole answer between flags, at a place; somewhere.
LiveAt(s, k) ==
  /\ s[k] = First1 /\ s[k + 1] = First2 /\ s[k + 2] = spinel!Flag
  /\ k > 1 => s[k - 1] = spinel!Flag

Live(s) == \E k \in 1..(Len(s) - 2) : LiveAt(s, k)

LEMMA TokensDiffer ==
  /\ First1 # spinel!Flag /\ First2 # spinel!Flag /\ First1 # First2
  /\ {First1, First2, spinel!Flag, spinel!Noise} \subseteq Tokens
  /\ \A f \in spinel!Frames : <<f, 1>> \in Tokens /\ <<f, 2>> \in Tokens
                              /\ (<<f, 1>> = First1 => f = "answer")
BY DEF First1, First2, Tokens, spinel!Flag, spinel!Noise, spinel!Frames

\* A nonempty set of numbers has a least one, which is its minimum.
LEMMA LeastIsMin ==
  ASSUME NEW S, S \subseteq Nat, S # {}
  PROVE  spinel!Min(S) \in S /\ \A k \in S : spinel!Min(S) <= k
<1> DEFINE R == {p \in Nat \X Nat : p[1] < p[2]}
<1>1. IsWellFoundedOn(R, Nat)
  BY NatLessThanWellFounded DEF OpToRel
<1>2. PICK m \in S : \A k \in S : <<k, m>> \notin R
  <2> HIDE DEF R
  <2> QED BY <1>1, WFMin
<1>3. \A k \in S : ~(k < m)
  BY <1>2
<1>4. \A k \in S : m <= k
  BY <1>3
<1> QED BY <1>4 DEF spinel!Min

\* lstrip drops the flags at the head and nothing else.
LEMMA Stripped ==
  ASSUME NEW c \in Seq(Tokens)
  PROVE  \/ /\ spinel!Strip(c) = << >>
            /\ \A k \in 1..Len(c) : c[k] = spinel!Flag
         \/ \E m \in 1..Len(c) :
              /\ spinel!Strip(c) = SubSeq(c, m, Len(c))
              /\ c[m] # spinel!Flag
              /\ \A k \in 1..(m - 1) : c[k] = spinel!Flag
<1> DEFINE others == {k \in 1..Len(c) : c[k] # spinel!Flag}
<1>0. Len(c) \in Nat
  OBVIOUS
<1>1. spinel!Strip(c) = IF others = {} THEN << >> ELSE SubSeq(c, spinel!Min(others), Len(c))
  BY DEF spinel!Strip
<1>2. CASE others = {}
  BY <1>1, <1>2
<1>3. CASE others # {}
  <2> DEFINE m == spinel!Min(others)
  <2>1. others \subseteq Nat
    BY <1>0
  <2>2. m \in others /\ \A k \in others : m <= k
    <3> HIDE DEF others
    <3> QED BY <1>3, <2>1, LeastIsMin
  <2> HIDE DEF m
  <2>3. \A k \in 1..(m - 1) : k \in 1..Len(c) /\ ~(m <= k)
    BY <1>0, <2>2
  <2>4. \A k \in 1..(m - 1) : c[k] = spinel!Flag
    BY <2>2, <2>3
  <2>5. spinel!Strip(c) = SubSeq(c, m, Len(c))
    BY <1>1, <1>3 DEF m
  <2> QED BY <2>2, <2>4, <2>5
<1> QED BY <1>2, <1>3

LEMMA Suffix ==
  ASSUME NEW c \in Seq(Tokens), NEW m \in 1..Len(c)
  PROVE  /\ SubSeq(c, m, Len(c)) \in Seq(Tokens)
         /\ Len(SubSeq(c, m, Len(c))) = Len(c) - m + 1
         /\ \A k \in 1..(Len(c) - m + 1) : SubSeq(c, m, Len(c))[k] = c[m + k - 1]
OBVIOUS

\* A whole answer is found as it is, behind whatever has been stripped.
LEMMA LiveFound ==
  ASSUME NEW s \in Seq(Tokens), NEW k \in 1..(Len(s) - 1),
         s[k] = First1, s[k + 1] = First2, k > 1 => s[k - 1] = spinel!Flag,
         k + 2 <= Len(s) => s[k + 2] = spinel!Flag
  PROVE  /\ spinel!Hits(spinel!Strip(s)) # {}
         /\ k + 2 <= Len(s) => spinel!Contains(spinel!Strip(s), spinel!Flag)
<1>0. Len(s) \in Nat
  OBVIOUS
<1>1. s[k] # spinel!Flag
  BY TokensDiffer
<1>2. PICK m \in 1..Len(s) :
        /\ spinel!Strip(s) = SubSeq(s, m, Len(s))
        /\ \A j \in 1..(m - 1) : s[j] = spinel!Flag
  <2>1. k \in 1..Len(s)
    BY <1>0
  <2> QED BY <1>1, <2>1, Stripped
<1>3. m <= k
  <2>1. k < m => k \in 1..(m - 1)
    BY <1>0
  <2> QED BY <1>0, <1>1, <1>2, <2>1
<1> DEFINE b == spinel!Strip(s)
           j == k - m + 1
<1>4. /\ b \in Seq(Tokens) /\ Len(b) = Len(s) - m + 1
      /\ \A i \in 1..(Len(s) - m + 1) : b[i] = s[m + i - 1]
  BY <1>2, Suffix
<1> HIDE DEF b
<1>5. j \in 1..Len(b) /\ j < Len(b) /\ j \in Nat /\ j + 1 \in 1..Len(b)
  BY <1>0, <1>3, <1>4
<1>6. b[j] = s[k] /\ b[j + 1] = s[k + 1]
  <2>1. m + j - 1 = k /\ m + (j + 1) - 1 = k + 1
    BY <1>0
  <2> QED BY <1>4, <1>5, <2>1
<1>7. j > 1 => b[j - 1] = spinel!Flag
  <2> SUFFICES ASSUME j > 1 PROVE b[j - 1] = spinel!Flag
    OBVIOUS
  <2>1. j - 1 \in 1..Len(b) /\ m + (j - 1) - 1 = k - 1 /\ k > 1
    BY <1>0, <1>5
  <2> QED BY <1>4, <2>1
<1>8. j + 1 < Len(b) => b[j + 2] = spinel!Flag /\ j + 2 \in 1..Len(b)
  <2> SUFFICES ASSUME j + 1 < Len(b) PROVE b[j + 2] = spinel!Flag /\ j + 2 \in 1..Len(b)
    OBVIOUS
  <2>1. j + 2 \in 1..Len(b) /\ m + (j + 2) - 1 = k + 2 /\ k + 2 <= Len(s)
    BY <1>0, <1>4, <1>5
  <2> QED BY <1>4, <2>1
<1>9. spinel!FrameAt(b, j, "answer")
  BY <1>5, <1>6, <1>7, <1>8 DEF spinel!FrameAt, First1, First2
<1>10. j \in spinel!Hits(b)
  BY <1>5, <1>9 DEF spinel!Hits, spinel!Pending, spinel!Frames
<1>11. k + 2 <= Len(s) => j + 1 < Len(b)
  BY <1>0, <1>4
<1> QED BY <1>8, <1>10, <1>11 DEF b, spinel!Contains
\* An answer stays whole with more behind it, and with what is before it gone.
LEMMA LiveAppend ==
  ASSUME NEW s \in Seq(Tokens), NEW t \in Seq(Tokens), Live(s)
  PROVE  Live(s \o t)
<1>1. PICK k \in 1..(Len(s) - 2) : LiveAt(s, k)
  BY DEF Live
<1>2. /\ Len(s) \in Nat /\ Len(t) \in Nat /\ Len(s \o t) = Len(s) + Len(t)
      /\ \A i \in 1..Len(s) : (s \o t)[i] = s[i]
  OBVIOUS
<1>3. k \in 1..Len(s) /\ k + 1 \in 1..Len(s) /\ k + 2 \in 1..Len(s)
      /\ (k > 1 => k - 1 \in 1..Len(s)) /\ k \in 1..(Len(s \o t) - 2)
  BY <1>2
<1>4. LiveAt(s \o t, k)
  BY <1>1, <1>2, <1>3 DEF LiveAt
<1> QED BY <1>3, <1>4 DEF Live

LEMMA LiveSuffix ==
  ASSUME NEW s \in Seq(Tokens), NEW m \in 1..Len(s),
         NEW k \in m..(Len(s) - 2), LiveAt(s, k)
  PROVE  Live(SubSeq(s, m, Len(s)))
<1> DEFINE b == SubSeq(s, m, Len(s))
           j == k - m + 1
<1>1. /\ Len(s) \in Nat /\ Len(b) = Len(s) - m + 1
      /\ \A i \in 1..(Len(s) - m + 1) : b[i] = s[m + i - 1]
  BY Suffix
<1> HIDE DEF b
<1>2. /\ j \in 1..(Len(b) - 2) /\ m + j - 1 = k
      /\ b[j] = s[m + j - 1] /\ b[j + 1] = s[m + (j + 1) - 1] /\ b[j + 2] = s[m + (j + 2) - 1]
      /\ j > 1 => b[j - 1] = s[m + (j - 1) - 1] /\ k > 1
  BY <1>1
<1>3. m + (j + 1) - 1 = k + 1 /\ m + (j + 2) - 1 = k + 2 /\ m + (j - 1) - 1 = k - 1
  BY <1>1
<1>4. LiveAt(b, j)
  <2> HIDE DEF j
  <2> QED BY <1>2, <1>3 DEF LiveAt
<1> QED BY <1>2, <1>4 DEF Live, b

LEMMA LiveAnswer ==
  ASSUME NEW s \in Seq(Tokens)
  PROVE  /\ spinel!Encoded("answer") \in Seq(Tokens) /\ spinel!Encoded("notice") \in Seq(Tokens)
         /\ Live(s \o spinel!Encoded("answer"))
<1>1. /\ spinel!Encoded("answer") = <<spinel!Flag, First1, First2, spinel!Flag>>
      /\ spinel!Encoded("answer") \in Seq(Tokens) /\ spinel!Encoded("notice") \in Seq(Tokens)
  BY TokensDiffer DEF spinel!Encoded, First1, First2, spinel!Frames
<1>2. ASSUME NEW flag \in Tokens, NEW x \in Tokens, NEW y \in Tokens,
             NEW t \in Seq(Tokens), t = <<flag, x, y, flag>>
      PROVE  /\ Len(s \o t) = Len(s) + 4 /\ Len(s) \in Nat
             /\ (s \o t)[Len(s) + 1] = flag /\ (s \o t)[Len(s) + 2] = x
             /\ (s \o t)[Len(s) + 3] = y /\ (s \o t)[Len(s) + 4] = flag
  <2>1. Len(t) = 4 /\ t[1] = flag /\ t[2] = x /\ t[3] = y /\ t[4] = flag
    BY <1>2
  <2>2. /\ Len(s) \in Nat /\ Len(s \o t) = Len(s) + Len(t)
        /\ \A i \in 1..Len(t) : (s \o t)[Len(s) + i] = t[i]
    BY Concat
  <2> QED BY <2>1, <2>2
<1> DEFINE t == spinel!Encoded("answer")
           k == Len(s) + 2
<1>3. /\ Len(s \o t) = Len(s) + 4 /\ Len(s) \in Nat
      /\ (s \o t)[Len(s) + 1] = spinel!Flag /\ (s \o t)[Len(s) + 2] = First1
      /\ (s \o t)[Len(s) + 3] = First2 /\ (s \o t)[Len(s) + 4] = spinel!Flag
  BY <1>1, <1>2, TokensDiffer
<1> HIDE DEF t
<1>4. k \in 1..(Len(s \o t) - 2) /\ k + 1 = Len(s) + 3 /\ k + 2 = Len(s) + 4
      /\ k - 1 = Len(s) + 1
  BY <1>3
<1>5. LiveAt(s \o t, k)
  BY <1>3, <1>4 DEF LiveAt
<1> QED BY <1>1, <1>4, <1>5 DEF Live, t

LEMMA Parts ==
  ASSUME NEW c \in Seq(Tokens), NEW rest \in Seq(Tokens)
  PROVE  /\ SubSeq(c \o rest, Len(c) + 1, Len(c \o rest)) = rest
         /\ \A m \in 1..Len(c) :
              SubSeq(c \o rest, m, Len(c \o rest)) = SubSeq(c, m, Len(c)) \o rest
BY SMTT(30)

\* What is stripped is no part of an answer.
LEMMA KeptLive ==
  ASSUME NEW c \in Seq(Tokens), NEW rest \in Seq(Tokens), Live(c \o rest)
  PROVE  Live(spinel!Strip(c) \o rest)
<1> DEFINE s == c \o rest
<1>1. PICK k \in 1..(Len(s) - 2) : LiveAt(s, k)
  BY DEF Live
<1>2. /\ s \in Seq(Tokens) /\ Len(s) = Len(c) + Len(rest) /\ Len(c) \in Nat /\ Len(rest) \in Nat
      /\ \A i \in 1..Len(c) : s[i] = c[i]
  BY Concat
<1>3. s[k] # spinel!Flag
  BY <1>1, TokensDiffer DEF LiveAt
<1>4. ASSUME NEW m \in 1..Len(c), \A i \in 1..(m - 1) : c[i] = spinel!Flag
      PROVE  Live(SubSeq(c, m, Len(c)) \o rest)
  <2>1. k < m => k \in 1..(m - 1) /\ k \in 1..Len(c)
    BY <1>2
  <2>2. m <= k
    BY <1>2, <1>3, <1>4, <2>1
  <2>3. m \in 1..Len(s) /\ k \in m..(Len(s) - 2)
    BY <1>2, <2>2
  <2> HIDE DEF s
  <2>4. Live(SubSeq(s, m, Len(s)))
    BY <1>1, <1>2, <2>3, LiveSuffix
  <2> QED BY <2>4, Parts DEF s
<1>5. ASSUME \A i \in 1..Len(c) : c[i] = spinel!Flag
      PROVE  Live(rest)
  <2>1. k <= Len(c) => k \in 1..Len(c)
    BY <1>2
  <2>2. k > Len(c)
    BY <1>2, <1>3, <1>5, <2>1
  <2>3. Len(c) + 1 \in 1..Len(s) /\ k \in (Len(c) + 1)..(Len(s) - 2)
    BY <1>2, <2>2
  <2> HIDE DEF s
  <2>4. Live(SubSeq(s, Len(c) + 1, Len(s)))
    BY <1>1, <1>2, <2>3, LiveSuffix
  <2> QED BY <2>4, Parts DEF s
<1>6. << >> \o rest = rest
  OBVIOUS
<1> HIDE DEF s
<1> QED BY <1>4, <1>5, <1>6, Stripped

\* A chunk that ends anywhere: an answer in what has come is found, still on the
\* line, or cut after its first half.
LEMMA ChunkLive ==
  ASSUME NEW c \in Seq(Tokens), NEW rest \in Seq(Tokens), Live(c \o rest)
  PROVE  \/ spinel!Hits(spinel!Strip(c)) # {}
         \/ Live(rest)
         \/ /\ spinel!Last(spinel!Strip(c)) = First1
            /\ spinel!Contains(rest, First2)
<1> DEFINE s == c \o rest
<1>1. PICK k \in 1..(Len(s) - 2) : LiveAt(s, k)
  BY DEF Live
<1>2. /\ s \in Seq(Tokens) /\ Len(s) = Len(c) + Len(rest) /\ Len(c) \in Nat /\ Len(rest) \in Nat
      /\ \A i \in 1..Len(c) : s[i] = c[i]
      /\ \A i \in 1..Len(rest) : s[Len(c) + i] = rest[i]
  BY Concat
<1>3. CASE k > Len(c)
  <2>1. Len(c) + 1 \in 1..Len(s) /\ k \in (Len(c) + 1)..(Len(s) - 2)
    BY <1>2, <1>3
  <2> HIDE DEF s
  <2>2. Live(SubSeq(s, Len(c) + 1, Len(s)))
    BY <1>1, <1>2, <2>1, LiveSuffix
  <2> QED BY <2>2, Parts DEF s
<1> HIDE DEF s
<1>4. CASE k < Len(c)
  <2>1. /\ k \in 1..(Len(c) - 1) /\ k \in 1..Len(c) /\ k + 1 \in 1..Len(c)
        /\ k > 1 => k - 1 \in 1..Len(c)
        /\ k + 2 <= Len(c) => k + 2 \in 1..Len(c)
    BY <1>2, <1>4
  <2>2. /\ c[k] = First1 /\ c[k + 1] = First2 /\ (k > 1 => c[k - 1] = spinel!Flag)
        /\ (k + 2 <= Len(c) => c[k + 2] = spinel!Flag)
    BY <1>1, <1>2, <2>1 DEF LiveAt
  <2> QED BY <2>1, <2>2, LiveFound
<1>5. CASE k = Len(c)
  <2>1. k \in 1..Len(c) /\ c[k] = First1 /\ c[k] # spinel!Flag
    BY <1>1, <1>2, <1>5, TokensDiffer DEF LiveAt
  <2>2. PICK m \in 1..Len(c) : spinel!Strip(c) = SubSeq(c, m, Len(c))
    BY <2>1, Stripped
  <2>3. spinel!Last(spinel!Strip(c)) = First1
    <3> DEFINE b == SubSeq(c, m, Len(c))
    <3>1. Len(b) = Len(c) - m + 1 /\ Len(c) - m + 1 \in 1..(Len(c) - m + 1)
          /\ m + (Len(c) - m + 1) - 1 = Len(c)
      BY <1>2, Suffix
    <3>2. b[Len(c) - m + 1] = c[m + (Len(c) - m + 1) - 1]
      BY <3>1, Suffix
    <3> HIDE DEF b
    <3>3. b[Len(b)] = First1
      BY <1>5, <2>1, <3>1, <3>2
    <3> QED BY <2>2, <3>3 DEF spinel!Last, b
  <2>4. 1 \in 1..Len(rest) /\ k + 1 = Len(c) + 1
    BY <1>2, <1>5
  <2>5. rest[1] = First2
    BY <1>1, <1>2, <2>4 DEF LiveAt
  <2> QED BY <2>3, <2>4, <2>5 DEF spinel!Contains
<1> QED BY <1>2, <1>3, <1>4, <1>5

-----------------------------------------------------------------------------
(***************************************************************************)
(* Spinel: what every transmission that failed has cost.                   *)
(***************************************************************************)
SpinelTyped ==
  /\ buf \in Seq(Tokens) /\ toHost \in Seq(Tokens) /\ toDev \in Seq({"get", "reset"})
  /\ attempt \in Nat /\ mishaps \in Nat
  /\ future \in {"none", "answer"}

\* The command or its answer is still under way, and whole.
Sure == future # "none" \/ Live(buf \o toHost) \/ Holds(toDev, "get")

\* Each transmission before this one has cost a mishap; this one too, if neither it
\* nor an answer is under way.
Paid ==
  dmode = "app" =>
    /\ pc \in {"connected", "await"} => mishaps >= attempt
    /\ pc = "await" /\ ~Sure => mishaps > attempt
    /\ pc = "retryDelay" => mishaps > attempt
    /\ outcome = "timeout" => mishaps > Retries

SpinelInv == SpinelTyped /\ Paid /\ (outcome \in {"ok", "unreadable"} => future = "answer")

LEMMA InitSpinelInv == InitSpinel => SpinelInv
<1> SUFFICES ASSUME InitSpinel PROVE SpinelInv
  OBVIOUS
<1>1. spinel!Init
  BY DEF InitSpinel
<1>2. /\ << >> \in Seq(Tokens) /\ << >> \in Seq({"get", "reset"})
      /\ spinel!Encoded("notice") \in Seq(Tokens)
  <2>1. << >> \in Seq(Tokens) /\ << >> \in Seq({"get", "reset"})
    OBVIOUS
  <2> QED BY <2>1, LiveAnswer
<1>3. /\ buf = << >> /\ toDev = << >> /\ toHost \in {<< >>, spinel!Encoded("notice")}
      /\ pc = "connected" /\ outcome = "running" /\ future = "none"
      /\ attempt = 0 /\ mishaps = 0
  BY <1>1 DEF spinel!Init
<1>4. SpinelTyped
  BY <1>2, <1>3 DEF SpinelTyped
<1>5. Paid
  BY <1>3 DEF Paid
<1> QED BY <1>3, <1>4, <1>5 DEF SpinelInv

\* Then the timer is early.
LEMMA SureComing ==
  ASSUME SpinelTyped, Sure, dmode = "app"
  PROVE  spinel!Coming
<1>1. buf \o toHost \in Seq(Tokens)
  BY DEF SpinelTyped
<1>2. CASE Live(buf \o toHost)
  <2> DEFINE s == buf \o toHost
  <2>1. PICK k \in 1..(Len(s) - 2) : LiveAt(s, k)
    BY <1>2 DEF Live
  <2> HIDE DEF s
  <2>2. s \in Seq(Tokens) /\ Len(s) \in Nat
    BY <1>1 DEF s
  <2>3. k \in 1..(Len(s) - 1) /\ k + 2 <= Len(s)
    BY <2>2
  <2>4. /\ spinel!Hits(spinel!Strip(s)) # {}
        /\ spinel!Contains(spinel!Strip(s), spinel!Flag)
    BY <2>1, <2>2, <2>3, LiveFound DEF LiveAt
  <2> QED BY <2>4 DEF spinel!Coming, s
<1>3. CASE Holds(toDev, "get")
  BY <1>3 DEF spinel!Coming, spinel!Contains, Holds
<1>4. CASE future # "none"
  BY <1>4 DEF spinel!Coming
<1> QED BY <1>2, <1>3, <1>4 DEF Sure

LEMMA Sent ==
  ASSUME NEW S, NEW s \in Seq(S), NEW x \in S
  PROVE  Append(s, x) \in Seq(S) /\ Holds(Append(s, x), x)
<1>1. Append(s, x) \in Seq(S) /\ Len(s) + 1 \in 1..Len(Append(s, x))
      /\ Append(s, x)[Len(s) + 1] = x
  OBVIOUS
<1> QED BY <1>1 DEF Holds

LEMMA SpinelHostKeeps ==
  ASSUME SpinelInv, spinel!Host
  PROVE  SpinelInv'
<1>1. SpinelTyped /\ Paid /\ (outcome \in {"ok", "unreadable"} => future = "answer") /\ Retries \in Nat
  BY ApplicationsAssumption DEF SpinelInv, ApplicationsAssumption
<1>2. UNCHANGED <<future, buf, toHost, dmode>>
  BY DEF spinel!Host, spinel!Begin, spinel!Answered, spinel!Timeout, spinel!LastTimeout,
         spinel!Retry, spinel!Enter
<1>3. attempt \in Nat /\ mishaps \in Nat /\ toDev \in Seq({"get", "reset"})
  BY <1>1 DEF SpinelTyped
<1>4. CASE spinel!Begin \/ spinel!Retry
  <2>1. /\ toDev' = Append(toDev, "get") /\ pc' = "await" /\ UNCHANGED <<outcome, mishaps>>
        /\ \/ pc = "connected" /\ attempt' = attempt
           \/ pc = "retryDelay" /\ attempt' = attempt + 1
    BY <1>4 DEF spinel!Begin, spinel!Retry
  <2>2. toDev' \in Seq({"get", "reset"}) /\ Sure'
    BY <1>3, <2>1, Sent DEF Sure
  <2>3. attempt' \in Nat /\ (dmode = "app" => mishaps >= attempt')
    BY <1>1, <1>3, <2>1 DEF Paid
  <2>4. Paid'
    BY <1>1, <1>2, <2>1, <2>2, <2>3 DEF Paid
  <2> QED BY <1>1, <1>2, <2>1, <2>2, <2>3, <2>4 DEF SpinelInv, SpinelTyped
<1>5. CASE spinel!Timeout \/ spinel!LastTimeout
  <2>1. /\ pc = "await" /\ UNCHANGED <<attempt, toDev>>
        /\ mishaps' = IF spinel!Coming THEN mishaps + 1 ELSE mishaps
        /\ \/ attempt < Retries /\ pc' = "retryDelay" /\ outcome' = outcome
           \/ attempt >= Retries /\ pc' = "closed" /\ outcome' = "timeout"
    BY <1>5 DEF spinel!Timeout, spinel!LastTimeout, spinel!Mishap
  <2>2. dmode = "app" => mishaps' > attempt
    <3> SUFFICES ASSUME dmode = "app" PROVE mishaps' > attempt
      OBVIOUS
    <3>1. CASE Sure
      BY <1>1, <1>3, <2>1, <3>1, SureComing DEF Paid
    <3>2. CASE ~Sure
      BY <1>1, <1>3, <2>1, <3>2 DEF Paid
    <3> QED BY <3>1, <3>2
  <2>3. mishaps' \in Nat /\ mishaps' >= mishaps
    BY <1>3, <2>1
  <2>4. Paid'
    BY <1>1, <1>2, <1>3, <2>1, <2>2, <2>3 DEF Paid
  <2> QED BY <1>1, <1>2, <2>1, <2>3, <2>4 DEF SpinelInv, SpinelTyped
<1>6. CASE spinel!Answered
  <2>1. /\ pc' = "closed" /\ outcome' \in {"ok", "unreadable"} /\ future # "none"
        /\ UNCHANGED <<attempt, toDev, mishaps>>
    BY <1>6 DEF spinel!Answered
  <2> QED BY <1>1, <1>2, <2>1 DEF SpinelInv, SpinelTyped, Paid
<1>7. CASE spinel!Enter
  <2>1. /\ pc' = "end" /\ UNCHANGED <<attempt, outcome, mishaps>>
        /\ toDev' \in {toDev, Append(toDev, "reset")}
    BY <1>7 DEF spinel!Enter
  <2>2. toDev' \in Seq({"get", "reset"})
    BY <1>3, <2>1
  <2> QED BY <1>1, <1>2, <2>1, <2>2 DEF SpinelInv, SpinelTyped, Paid
<1> QED BY <1>4, <1>5, <1>6, <1>7 DEF spinel!Host
LEMMA SpinelObeyKeeps ==
  ASSUME SpinelInv, spinel!Obey
  PROVE  SpinelInv'
<1>1. /\ toDev # << >> /\ toDev' = Tail(toDev)
      /\ toHost' = IF dmode = "app" /\ Head(toDev) = "get"
                   THEN toHost \o spinel!Encoded("answer") ELSE toHost
      /\ dmode' = IF dmode = "app" /\ Head(toDev) = "reset" THEN "bootloader" ELSE dmode
      /\ UNCHANGED <<pc, attempt, outcome, future, buf, mishaps>>
  BY DEF spinel!Obey, spinel!hostVars
<1>2. /\ SpinelTyped /\ Paid /\ (outcome \in {"ok", "unreadable"} => future = "answer")
      /\ buf \in Seq(Tokens) /\ toHost \in Seq(Tokens) /\ toDev \in Seq({"get", "reset"})
  BY DEF SpinelInv, SpinelTyped
<1>3. toHost \o spinel!Encoded("answer") \in Seq(Tokens)
  <2>1. spinel!Encoded("answer") \in Seq(Tokens)
    BY <1>2, LiveAnswer
  <2> QED BY <1>2, <2>1
<1>4. SpinelTyped'
  BY <1>1, <1>2, <1>3 DEF SpinelTyped
<1>5. dmode' = "app" /\ Sure => Sure'
  <2> SUFFICES ASSUME dmode' = "app", Sure PROVE Sure'
    OBVIOUS
  <2>1. dmode = "app" /\ Head(toDev) # "reset" /\ Head(toDev) \in {"get", "reset"}
    BY <1>1, <1>2
  <2>2. toHost' = toHost \o spinel!Encoded("answer")
    BY <1>1, <2>1
  <2>3. buf \o toHost \in Seq(Tokens)
    BY <1>2
  <2>4. Live((buf \o toHost) \o spinel!Encoded("answer"))
    BY <2>3, LiveAnswer
  <2>5. (buf \o toHost) \o spinel!Encoded("answer") = buf \o toHost'
    <3>1. spinel!Encoded("answer") \in Seq(Tokens)
      BY <1>2, LiveAnswer
    <3>2. buf \in Seq(Tokens) /\ toHost \in Seq(Tokens)
      BY <1>2
    <3> QED BY <2>2, <3>1, <3>2, ConcatAssociative, SMTT(30)
  <2> QED BY <1>1, <2>4, <2>5 DEF Sure
<1>6. Paid'
  <2>1. dmode' = "app" => dmode = "app"
    BY <1>1
  <2> QED BY <1>1, <1>2, <1>5, <2>1 DEF Paid
<1> QED BY <1>1, <1>2, <1>4, <1>6 DEF SpinelInv

LEMMA SpinelLoseKeeps ==
  ASSUME SpinelInv, spinel!Lose
  PROVE  SpinelInv'
<1>1. /\ UNCHANGED <<pc, attempt, outcome, future, buf, dmode>> /\ mishaps' = mishaps + 1
      /\ \/ toDev # << >> /\ toDev' = Tail(toDev) /\ UNCHANGED toHost
         \/ /\ toHost # << >> /\ UNCHANGED toDev
            /\ toHost' \in {Tail(toHost), <<spinel!Noise>> \o Tail(toHost)}
  BY DEF spinel!Lose, spinel!Mishap, spinel!hostVars
<1>2. /\ SpinelTyped /\ Paid /\ (outcome \in {"ok", "unreadable"} => future = "answer")
      /\ toHost \in Seq(Tokens) /\ toDev \in Seq({"get", "reset"})
      /\ mishaps \in Nat /\ attempt \in Nat /\ Retries \in Nat
  BY ApplicationsAssumption DEF SpinelInv, SpinelTyped, ApplicationsAssumption
<1>3. /\ toDev # << >> => Tail(toDev) \in Seq({"get", "reset"})
      /\ toHost # << >> => /\ Tail(toHost) \in Seq(Tokens)
                           /\ <<spinel!Noise>> \o Tail(toHost) \in Seq(Tokens)
  <2>1. <<spinel!Noise>> \in Seq(Tokens)
    BY TokensDiffer
  <2>2. toHost # << >> => Tail(toHost) \in Seq(Tokens)
    BY <1>2
  <2>3. toDev # << >> => Tail(toDev) \in Seq({"get", "reset"})
    BY <1>2
  <2> QED BY <2>1, <2>2, <2>3
<1>4. SpinelTyped'
  <2>1. toHost' \in Seq(Tokens)
    BY <1>1, <1>2, <1>3
  <2>2. toDev' \in Seq({"get", "reset"})
    BY <1>1, <1>2, <1>3
  <2> QED BY <1>1, <1>2, <2>1, <2>2 DEF SpinelTyped
<1>5. Paid'
  BY <1>1, <1>2 DEF Paid
<1> QED BY <1>1, <1>2, <1>4, <1>5 DEF SpinelInv

\* The first hit, if there is one, is the answer.
LEMMA FirstAnswers ==
  ASSUME NEW b \in Seq(Tokens)
  PROVE  /\ spinel!Hits(b) # {} => spinel!First(spinel!Hits(b)) # {}
         /\ \A k \in spinel!First(spinel!Hits(b)) : \A f \in spinel!Frames :
              spinel!FrameAt(b, k, f) => f = "answer"
<1>1. spinel!Hits(b) \subseteq Nat
  BY DEF spinel!Hits
<1>2. spinel!Hits(b) # {} => spinel!First(spinel!Hits(b)) # {}
  <2> SUFFICES ASSUME spinel!Hits(b) # {} PROVE spinel!First(spinel!Hits(b)) # {}
    OBVIOUS
  <2>1. spinel!Min(spinel!Hits(b)) \in spinel!First(spinel!Hits(b))
    BY <1>1, LeastIsMin DEF spinel!First
  <2> QED BY <2>1
<1>3. ASSUME NEW k \in spinel!Hits(b), NEW f \in spinel!Frames, spinel!FrameAt(b, k, f)
      PROVE  f = "answer"
  <2>1. b[k] = First1 /\ b[k] = <<f, 1>>
    BY <1>3 DEF spinel!Hits, spinel!Pending, spinel!FrameAt, First1
  <2> QED BY <2>1, TokensDiffer
<1>4. spinel!First(spinel!Hits(b)) \subseteq spinel!Hits(b)
  BY DEF spinel!First
<1> QED BY <1>2, <1>3, <1>4

LEMMA SpinelDeliverKeeps ==
  ASSUME SpinelInv, spinel!Deliver
  PROVE  SpinelInv'
<1>1. /\ SpinelTyped /\ Paid /\ (outcome \in {"ok", "unreadable"} => future = "answer")
      /\ buf \in Seq(Tokens) /\ toHost \in Seq(Tokens)
      /\ mishaps \in Nat /\ attempt \in Nat /\ Retries \in Nat /\ future \in {"none", "answer"}
  BY ApplicationsAssumption DEF SpinelInv, SpinelTyped, ApplicationsAssumption
<1>2. PICK n \in 1..Len(toHost) :
        /\ spinel!Received(spinel!Strip(buf \o SubSeq(toHost, 1, n)),
                           SubSeq(toHost, n + 1, Len(toHost)))
        /\ toHost' = SubSeq(toHost, n + 1, Len(toHost))
  BY DEF spinel!Deliver
<1> DEFINE c    == buf \o SubSeq(toHost, 1, n)
           rest == SubSeq(toHost, n + 1, Len(toHost))
           b    == spinel!Strip(c)
           sets == IF future = "none" THEN spinel!First(spinel!Hits(b)) ELSE {}
           late == spinel!First(spinel!Hits(b) \ sets)
<1>3. UNCHANGED <<pc, attempt, outcome, toDev, dmode>>
  BY DEF spinel!Deliver, spinel!hostVars
<1>4. c \in Seq(Tokens) /\ rest \in Seq(Tokens) /\ c \o rest = buf \o toHost
  <2> DEFINE chunk == SubSeq(toHost, 1, n)
  <2>1. chunk \in Seq(Tokens) /\ rest \in Seq(Tokens) /\ chunk \o rest = toHost
    BY <1>1, Chunks
  <2> HIDE DEF chunk, rest
  <2>2. buf \o chunk \in Seq(Tokens) /\ (buf \o chunk) \o rest = buf \o (chunk \o rest)
    <3>1. buf \in Seq(Tokens) /\ chunk \in Seq(Tokens) /\ rest \in Seq(Tokens)
      BY <1>1, <2>1
    <3>2. buf \o chunk \in Seq(Tokens)
      BY <3>1
    <3>3. (buf \o chunk) \o rest = buf \o (chunk \o rest)
      BY <3>1, ConcatAssociative, SMTT(30)
    <3> QED BY <3>2, <3>3
  <2> QED BY <2>1, <2>2 DEF chunk
<1>5. spinel!Received(b, rest) /\ toHost' = rest
  BY <1>2
<1> HIDE DEF c, rest
<1>6. b \in Seq(Tokens)
  <2>1. << >> \in Seq(Tokens)
    OBVIOUS
  <2> QED BY <1>4, <2>1, Stripped, Suffix
<1>7. \/ /\ ~spinel!Contains(b, spinel!Flag)
         /\ buf' = b /\ UNCHANGED <<future, mishaps>>
      \/ /\ spinel!Contains(b, spinel!Flag)
         /\ future' \in IF sets = {} THEN {future}
                        ELSE {f \in spinel!Frames : \E k \in sets : spinel!FrameAt(b, k, f)}
         /\ buf' = IF late = {} THEN << >>
                   ELSE SubSeq(b, 3 + CHOOSE k \in late : TRUE, Len(b))
         /\ spinel!Mishap(/\ late = {} /\ spinel!Last(b) = <<"answer", 1>>
                          /\ spinel!Contains(rest, <<"answer", 2>>))
  BY <1>5 DEF spinel!Received
<1> HIDE DEF b
<1>8. late \subseteq 1..Len(b) /\ (spinel!Hits(b) = {} => late = {})
  BY <1>6 DEF spinel!First, spinel!Hits
<1>9. sets # {} => future = "none" /\ sets = spinel!First(spinel!Hits(b))
  OBVIOUS
<1>10. future = "none" /\ spinel!Hits(b) # {} => sets # {}
  BY <1>6, FirstAnswers
<1>11. future = "none" /\ spinel!Hits(b) = {} => sets = {}
  BY DEF spinel!First
<1> HIDE DEF sets, late
<1>12. mishaps' \in Nat /\ mishaps' >= mishaps
  BY <1>1, <1>7 DEF spinel!Mishap
<1>13. /\ future' \in {"none", "answer"}
       /\ future # "none" => future' = future
       /\ sets # {} /\ spinel!Contains(b, spinel!Flag) => future' = "answer"
  <2>1. sets # {} /\ spinel!Contains(b, spinel!Flag) => future' = "answer"
    BY <1>6, <1>7, <1>9, FirstAnswers
  <2> QED BY <1>1, <1>7, <1>9, <2>1
<1>14. buf' \in Seq(Tokens)
  <2>1. << >> \in Seq(Tokens)
    OBVIOUS
  <2>2. ASSUME late # {} PROVE SubSeq(b, 3 + CHOOSE k \in late : TRUE, Len(b)) \in Seq(Tokens)
    <3> DEFINE m == CHOOSE k \in late : TRUE
    <3>1. m \in 1..Len(b)
      BY <1>8, <2>2
    <3> HIDE DEF m
    <3>2. SubSeq(b, 3 + m, Len(b)) \in Seq(Tokens)
      BY <1>6, <3>1
    <3> QED BY <3>2 DEF m
  <2> QED BY <1>6, <1>7, <2>1, <2>2
<1>15. SpinelTyped'
  BY <1>1, <1>3, <1>4, <1>5, <1>12, <1>13, <1>14 DEF SpinelTyped
<1>16. Sure => Sure' \/ mishaps' = mishaps + 1
  <2>1. CASE future # "none" \/ Holds(toDev, "get")
    BY <1>3, <1>13, <2>1 DEF Sure
  <2>2. CASE future = "none" /\ Live(buf \o toHost)
    <3>1. \/ spinel!Hits(b) # {} \/ Live(rest)
          \/ spinel!Last(b) = First1 /\ spinel!Contains(rest, First2)
      BY <1>4, <2>2, ChunkLive DEF b
    <3>2. CASE ~spinel!Contains(b, spinel!Flag)
      <4>1. buf' = b /\ toHost' = rest
        BY <1>5, <1>7, <3>2
      <4>2. Live(b \o rest)
        BY <1>4, <2>2, KeptLive DEF b
      <4> QED BY <4>1, <4>2 DEF Sure
    <3>3. CASE spinel!Contains(b, spinel!Flag) /\ spinel!Hits(b) # {}
      BY <1>10, <1>13, <2>2, <3>3 DEF Sure
    <3>4. CASE spinel!Contains(b, spinel!Flag) /\ spinel!Hits(b) = {}
      <4>1. buf' = << >> /\ toHost' = rest /\ late = {}
        BY <1>5, <1>7, <1>8, <3>4
      <4>2. Live(rest) => Sure'
        BY <1>4, <4>1 DEF Sure
      <4>3. spinel!Last(b) = First1 /\ spinel!Contains(rest, First2) => mishaps' = mishaps + 1
        BY <1>7, <3>4, <4>1 DEF spinel!Mishap, First1, First2
      <4> QED BY <3>1, <3>4, <4>2, <4>3
    <3> QED BY <3>2, <3>3, <3>4
  <2> QED BY <2>1, <2>2 DEF Sure
<1>17. Paid'
  BY <1>1, <1>3, <1>12, <1>16 DEF Paid
<1> QED BY <1>1, <1>3, <1>13, <1>15, <1>17 DEF SpinelInv
-----------------------------------------------------------------------------
(***************************************************************************)
(* The two together: one protocol is at work, the other's state rests.      *)
(***************************************************************************)
AppInv ==
  /\ protocol \in {"spinel", "router"}
  /\ protocol = "spinel" => SpinelInv
  /\ protocol = "router" => RouterInv

LEMMA InitAppInv == Init => AppInv
BY InitSpinelInv, InitRouterInv DEF Init, InitSpinel, InitRouter, AppInv

LEMMA StepAppInv == AppInv /\ [Next]_vars => AppInv'
<1> SUFFICES ASSUME AppInv, [Next]_vars PROVE AppInv'
  OBVIOUS
<1>1. CASE Spinel /\ spinel!Host
  BY <1>1, SpinelHostKeeps DEF Spinel, AppInv
<1>2. CASE Spinel /\ spinel!Deliver
  BY <1>2, SpinelDeliverKeeps DEF Spinel, AppInv
<1>3. CASE Spinel /\ spinel!Obey
  BY <1>3, SpinelObeyKeeps DEF Spinel, AppInv
<1>4. CASE Spinel /\ spinel!Lose
  BY <1>4, SpinelLoseKeeps DEF Spinel, AppInv
<1>5. CASE Router /\ router!Host
  BY <1>5, HostKeeps DEF Router, AppInv
<1>6. CASE Router /\ router!Deliver
  BY <1>6, DeliverKeeps DEF Router, AppInv
<1>7. CASE Router /\ router!Tick
  BY <1>7, TickKeeps DEF Router, AppInv
<1>8. CASE Router /\ router!Obey
  BY <1>8, ObeyKeeps DEF Router, AppInv
<1>9. CASE Router /\ router!Lose
  BY <1>9, LoseKeeps DEF Router, AppInv
<1>10. CASE UNCHANGED vars \/ (Spinel /\ spinel!Done) \/ (Router /\ router!Done)
  <2>1. UNCHANGED vars
    BY <1>10 DEF Spinel, Router, spinel!Done, spinel!vars, spinel!hostVars,
       router!Done, router!vars, vars, spinelOnly, routerOnly
  <2>2. SpinelInv => SpinelInv'
    BY <2>1 DEF vars, spinelOnly, SpinelInv, SpinelTyped, Paid, Sure
  <2>3. RouterInv => RouterInv'
    BY <2>1 DEF vars, routerOnly, RouterInv, RouterTyped, NoStaleMenu, ProbeOnly, Waiting,
       InTime, router!EnteredTruthfully
  <2> QED BY <2>1, <2>2, <2>3 DEF vars, AppInv
<1> QED BY <1>1, <1>2, <1>3, <1>4, <1>5, <1>6, <1>7, <1>8, <1>9, <1>10 DEF Next

THEOREM AppInvHolds == Spec => []AppInv
<1>1. Init => AppInv
  BY InitAppInv
<1>2. AppInv /\ [Next]_vars => AppInv'
  BY StepAppInv
<1> QED BY <1>1, <1>2, PTL DEF Spec

\* send_frame, for every number of retries (spinel.py:115-205): what probe takes for
\* its answer is the answer, and a device that runs the application is missed only
\* when more went wrong than there were retries, wherever its chunks are cut.
THEOREM ProbesReliable == Spec => []ProbeReliable
<1>1. AppInv => ProbeReliable
  BY DEF AppInv, SpinelInv, Paid, ProbeReliable, spinel!ProbeReliable
<1> QED BY <1>1, AppInvHolds, PTL

\* RouterProtocol, for every choice of its waits under which BootWait is not shorter
\* than Flasher's limit (router.py:41-116): a version is a router's, a bootloader is
\* reported where one runs, and the entry that is assumed without a look happens in
\* no connection Flasher opens.
THEOREM RouterTruthful == Spec => []EnteredTruthfully
<1>1. AppInv => EnteredTruthfully
  BY DEF AppInv, RouterInv, EnteredTruthfully
<1> QED BY <1>1, AppInvHolds, PTL
=============================================================================
