---------------------------- MODULE GuiTasksProofs ----------------------------
(***************************************************************************)
(* One task at a time has the port, and the window shows how the last one    *)
(* ended, for every number of tasks and of progress reports.                *)
(***************************************************************************)
EXTENDS GuiTasks, Integers, SequenceTheorems, TLAPS

Kinds == {"flash", "probe", "write"}
Ops   == Statuses \cup {"release", "enableStart", "enableProbe"}

\* A thread gives the port back once, and not while it waits for a call.
ReleasesOnce ==
  \A t \in Tasks : \A i, j \in 1..Len(todo[t]) :
    todo[t][i] = "release" /\ todo[t][j] = "release" => i = j

CallsOfThreads ==
  \A k \in 1..Len(calls) : /\ todo[calls[k]] # << >>
                           /\ Head(todo[calls[k]]) # "release"

NotStarted == \A t \in Tasks : t > started => todo[t] = << >>

Typed ==
  /\ started \in 0..MaxTasks
  /\ todo \in [Tasks -> Seq(Ops)]
  /\ calls \in Seq(Tasks)
  /\ \A i, j \in 1..Len(calls) : calls[i] = calls[j] => i = j

IInv ==
  /\ Typed
  /\ ReleasesOnce /\ CallsOfThreads /\ NotStarted
  /\ dialog => ~running
  /\ OneAtATime

-----------------------------------------------------------------------------
LEMMA BodyTyped ==
  ASSUME NEW kind \in Kinds, NEW body \in Bodies(kind)
  PROVE  body \in Seq(Statuses)
<1>1. {"working", "done", "warned", "failed"} \subseteq Statuses
  BY DEF Statuses, Ends
<1>2. CASE kind = "flash"
  <2>1. CASE body = <<"working", "failed">>
    BY <1>1, <2>1
  <2>2. CASE \E n \in 0..MaxUpdates, e \in Ends : body = Append(Working(2 + n), e)
    <3>1. PICK n \in 0..MaxUpdates, e \in Ends : body = Append(Working(2 + n), e)
      BY <2>2
    <3>2. n \in Nat
      BY GuiAssumption DEF GuiAssumption
    <3>3. Working(2 + n) \in Seq(Statuses)
      BY <1>1, <3>2 DEF Working
    <3> QED BY <3>1, <3>3 DEF Statuses
  <2> QED BY <1>2, <2>1, <2>2 DEF Bodies, FlashBodies
<1>3. CASE kind = "probe"
  BY <1>1, <1>3 DEF Bodies, ProbeBodies
<1>4. CASE kind = "write"
  <2>1. body \in {<<"failed">>, <<"working", "done">>, <<"working", "failed">>}
    BY <1>4 DEF Bodies, WriteBodies
  <2>2. CASE body = <<"failed">>
    BY <1>1, <2>2
  <2>3. CASE body = <<"working", "done">>
    BY <1>1, <2>3
  <2>4. CASE body = <<"working", "failed">>
    BY <1>1, <2>4
  <2> QED BY <2>1, <2>2, <2>3, <2>4
<1> QED BY <1>2, <1>3, <1>4 DEF Kinds

\* What a new thread has to do holds one release.
LEMMA NewThread ==
  ASSUME NEW kind \in Kinds, NEW body \in Seq(Statuses)
  PROVE  LET do == body \o Finally(kind) IN
           /\ do \in Seq(Ops)
           /\ Contains(do, "release")
           /\ \A i, j \in 1..Len(do) : do[i] = "release" /\ do[j] = "release" => i = j
<1> DEFINE do == body \o Finally(kind)
<1>1. /\ Finally(kind) \in Seq(Ops) /\ Len(Finally(kind)) \in {2, 3}
      /\ Finally(kind)[1] = "release"
      /\ \A i \in 2..Len(Finally(kind)) : Finally(kind)[i] # "release"
  <2>1. {"release", "enableStart", "enableProbe"} \subseteq Ops
    BY DEF Ops
  <2>2. PICK f : f = Finally(kind)
    OBVIOUS
  <2>3. CASE kind = "write"
    <3>1. f = <<"release", "enableStart">>
      BY <2>2, <2>3 DEF Finally
    <3>2. Len(f) = 2 /\ f[1] = "release" /\ f[2] # "release"
      BY <3>1
    <3>3. \A i \in 2..Len(f) : f[i] # "release"
      BY <3>2
    <3>4. f \in Seq({"release", "enableStart", "enableProbe"})
      BY <3>1
    <3>5. f \in Seq(Ops)
      BY <2>1, <3>4, SeqMonotonic
    <3> QED BY <2>2, <3>2, <3>3, <3>5
  <2>4. CASE kind # "write"
    <3>1. f = <<"release", "enableStart", "enableProbe">>
      BY <2>2, <2>4 DEF Finally
    <3>2. Len(f) = 3 /\ f[1] = "release" /\ f[2] # "release" /\ f[3] # "release"
      BY <3>1
    <3>3. \A i \in 2..Len(f) : f[i] # "release"
      BY <3>2
    <3>4. f \in Seq({"release", "enableStart", "enableProbe"})
      BY <3>1
    <3>5. f \in Seq(Ops)
      BY <2>1, <3>4, SeqMonotonic
    <3> QED BY <2>2, <3>2, <3>3, <3>5
  <2> QED BY <2>3, <2>4
<1>2. body \in Seq(Ops) /\ Len(body) \in Nat
  BY SeqMonotonic, LenProperties DEF Ops
<1>3. \A i \in 1..Len(body) : body[i] # "release"
  BY ElementOfSeq DEF Statuses, Ends
<1>4. /\ do \in Seq(Ops) /\ Len(do) = Len(body) + Len(Finally(kind))
      /\ \A i \in 1..Len(do) : do[i] = IF i <= Len(body) THEN body[i]
                                       ELSE Finally(kind)[i - Len(body)]
  BY <1>1, <1>2, ConcatProperties
<1>5. \A i \in 1..Len(do) : do[i] = "release" <=> i = Len(body) + 1
  <2> SUFFICES ASSUME NEW i \in 1..Len(do) PROVE do[i] = "release" <=> i = Len(body) + 1
    OBVIOUS
  <2> HIDE DEF do
  <2>1. CASE i <= Len(body)
    BY <1>2, <1>3, <1>4, <2>1
  <2>2. CASE i = Len(body) + 1
    BY <1>1, <1>2, <1>4, <2>2
  <2>3. CASE i > Len(body) + 1
    <3>1. i - Len(body) \in 2..Len(Finally(kind))
      BY <1>1, <1>2, <1>4, <2>3
    <3> QED BY <1>1, <1>2, <1>4, <2>3, <3>1
  <2> QED BY <1>2, <2>1, <2>2, <2>3
<1>6. Len(body) + 1 \in 1..Len(do)
  BY <1>1, <1>2, <1>4
<1> HIDE DEF do
<1>7. Contains(do, "release")
  BY <1>5, <1>6 DEF Contains
<1> QED BY <1>4, <1>5, <1>7 DEF do

\* A thread that has done its next step.
LEMMA NextStep ==
  ASSUME NEW s \in Seq(Ops), s # << >>,
         \A i, j \in 1..Len(s) : s[i] = "release" /\ s[j] = "release" => i = j
  PROVE  /\ Tail(s) \in Seq(Ops)
         /\ Contains(Tail(s), "release") <=> Contains(s, "release") /\ Head(s) # "release"
         /\ \A i, j \in 1..Len(Tail(s)) :
              Tail(s)[i] = "release" /\ Tail(s)[j] = "release" => i = j
<1>1. /\ Tail(s) \in Seq(Ops) /\ Len(Tail(s)) = Len(s) - 1 /\ Len(s) \in Nat \ {0}
      /\ \A i \in 1..Len(Tail(s)) : Tail(s)[i] = s[i + 1]
      /\ Head(s) = s[1]
  BY HeadTailProperties, EmptySeq
<1>2. \A i \in 1..Len(s) : i = 1 \/ (i - 1 \in 1..Len(Tail(s)) /\ Tail(s)[i - 1] = s[i])
  BY <1>1
<1>3. Contains(s, "release") /\ Head(s) # "release" => Contains(Tail(s), "release")
  BY <1>1, <1>2 DEF Contains
<1>4. Contains(Tail(s), "release") => Contains(s, "release") /\ Head(s) # "release"
  <2> SUFFICES ASSUME NEW i \in 1..Len(Tail(s)), Tail(s)[i] = "release"
               PROVE  Contains(s, "release") /\ Head(s) # "release"
    BY DEF Contains
  <2>1. i + 1 \in 1..Len(s) /\ s[i + 1] = "release" /\ 1 \in 1..Len(s) /\ i + 1 # 1
    BY <1>1
  <2> QED BY <1>1, <2>1 DEF Contains
<1>5. \A i, j \in 1..Len(Tail(s)) : Tail(s)[i] = "release" /\ Tail(s)[j] = "release" => i = j
  BY <1>1
<1> QED BY <1>1, <1>3, <1>4, <1>5

-----------------------------------------------------------------------------
LEMMA InitIInv == Init => IInv
<1> SUFFICES ASSUME Init PROVE IInv
  OBVIOUS
<1>1. calls = << >> /\ Len(calls) = 0
  BY DEF Init
<1>2. \A t \in Tasks : todo[t] = << >> /\ ~Busy(t)
  BY DEF Init, Busy, Contains
<1>3. Typed
  BY <1>1, GuiAssumption DEF Init, Typed, GuiAssumption
<1>4. ReleasesOnce /\ CallsOfThreads /\ NotStarted
  BY <1>1, <1>2 DEF ReleasesOnce, CallsOfThreads, NotStarted
<1> QED BY <1>2, <1>3, <1>4 DEF Init, IInv, OneAtATime

\* A task is started when none has the port.
LEMMA LaunchKeeps ==
  ASSUME IInv, NEW kind \in Kinds, Launch(kind), ~running, ~closed, dialog' = FALSE
  PROVE  IInv'
<1>1. PICK t : t = started + 1
  OBVIOUS
<1>2. PICK body \in Bodies(kind) : todo' = [todo EXCEPT ![t] = body \o Finally(kind)]
  BY <1>1 DEF Launch
<1>3. t \in Tasks /\ started' = t /\ running' = TRUE /\ UNCHANGED <<calls, closed>>
  BY <1>1 DEF Launch
<1>4. PICK do : do = body \o Finally(kind)
  OBVIOUS
<1>5. /\ do \in Seq(Ops) /\ Contains(do, "release")
      /\ \A i, j \in 1..Len(do) : do[i] = "release" /\ do[j] = "release" => i = j
  BY <1>4, BodyTyped, NewThread
<1>6. /\ todo' \in [Tasks -> Seq(Ops)] /\ todo'[t] = do
      /\ \A u \in Tasks : u # t => todo'[u] = todo[u]
  BY <1>2, <1>3, <1>4, <1>5 DEF IInv, Typed
<1>7. started \in Nat /\ MaxTasks \in Nat
  BY GuiAssumption DEF GuiAssumption, IInv, Typed
<1>8. todo[t] = << >>
  BY <1>1, <1>3, <1>7 DEF IInv, NotStarted
<1>9. Typed'
  BY <1>1, <1>3, <1>6, <1>7 DEF IInv, Typed, Tasks
<1>10. ReleasesOnce'
  BY <1>5, <1>6 DEF IInv, ReleasesOnce
<1>11. CallsOfThreads'
  <2> SUFFICES ASSUME NEW k \in 1..Len(calls)
               PROVE  todo'[calls[k]] # << >> /\ Head(todo'[calls[k]]) # "release"
    BY <1>3 DEF CallsOfThreads
  <2>1. calls[k] \in Tasks
    BY ElementOfSeq DEF IInv, Typed
  <2>2. todo[calls[k]] # << >> /\ Head(todo[calls[k]]) # "release"
    BY DEF IInv, CallsOfThreads
  <2> QED BY <1>6, <1>8, <2>1, <2>2
<1>12. NotStarted'
  BY <1>1, <1>3, <1>6, <1>7 DEF IInv, NotStarted, Tasks
<1>13. OneAtATime'
  <2>1. \A u \in Tasks : ~Busy(u)
    BY DEF IInv, OneAtATime
  <2>2. \A u \in Tasks : Busy(u)' <=> u = t
    BY <1>5, <1>6, <2>1 DEF Busy
  <2> QED BY <1>3, <2>2 DEF OneAtATime
<1> QED BY <1>9, <1>10, <1>11, <1>12, <1>13 DEF IInv

\* A thread does its next step, which is not to release the port, or is.
LEMMA StepKeeps ==
  ASSUME IInv, NEW t \in Tasks, todo[t] # << >>,
         todo' = [todo EXCEPT ![t] = Tail(@)], started' = started
  PROVE  /\ todo' \in [Tasks -> Seq(Ops)]
         /\ ReleasesOnce' /\ NotStarted'
         /\ \A u \in Tasks : u # t => todo'[u] = todo[u] /\ Busy(u)' = Busy(u)
         /\ Busy(t)' <=> Busy(t) /\ Head(todo[t]) # "release"
<1> DEFINE rest == Tail(todo[t])
<1>1. todo \in [Tasks -> Seq(Ops)]
  BY DEF IInv, Typed
<1>2. /\ rest \in Seq(Ops)
      /\ Contains(rest, "release") <=> Contains(todo[t], "release") /\ Head(todo[t]) # "release"
      /\ \A i, j \in 1..Len(rest) : rest[i] = "release" /\ rest[j] = "release" => i = j
  <2>1. \A i, j \in 1..Len(todo[t]) : todo[t][i] = "release" /\ todo[t][j] = "release" => i = j
    BY DEF IInv, ReleasesOnce
  <2>2. todo[t] \in Seq(Ops)
    BY <1>1
  <2> QED BY <2>1, <2>2, NextStep
<1> HIDE DEF rest
<1>3. todo'[t] = rest /\ \A u \in Tasks : u # t => todo'[u] = todo[u]
  BY <1>1 DEF rest
<1>4. todo' \in [Tasks -> Seq(Ops)]
  BY <1>1, <1>2 DEF rest
<1>5. ReleasesOnce'
  BY <1>2, <1>3 DEF IInv, ReleasesOnce
<1>6. NotStarted'
  BY <1>3 DEF IInv, NotStarted
<1>7. \A u \in Tasks : u # t => Busy(u)' = Busy(u)
  BY <1>3 DEF Busy
<1>8. Busy(t)' <=> Busy(t) /\ Head(todo[t]) # "release"
  BY <1>2, <1>3 DEF Busy
<1> QED BY <1>3, <1>4, <1>5, <1>6, <1>7, <1>8

\* Steps that change none of what the invariant speaks of.
LEMMA Untouched ==
  ASSUME IInv, UNCHANGED <<started, todo, calls, running, closed>>, dialog' => ~running
  PROVE  IInv'
BY DEF IInv, Typed, ReleasesOnce, CallsOfThreads, NotStarted, OneAtATime, Busy

LEMMA ServeKeeps ==
  ASSUME IInv, Serve
  PROVE  IInv'
<1>1. PICK t : t = Head(calls)
  OBVIOUS
<1>2. /\ calls # << >> /\ calls' = Tail(calls)
      /\ todo' = [todo EXCEPT ![t] = Tail(@)]
      /\ UNCHANGED <<running, dialog, started, closed>>
  BY <1>1 DEF Serve, ServeWith
<1>3. /\ calls \in Seq(Tasks) /\ Len(calls) \in Nat \ {0} /\ t = calls[1] /\ t \in Tasks
      /\ calls' \in Seq(Tasks) /\ Len(calls') = Len(calls) - 1
      /\ \A i \in 1..Len(calls') : calls'[i] = calls[i + 1]
  BY <1>1, <1>2, HeadTailProperties, EmptySeq DEF IInv, Typed
<1>4. todo[t] # << >> /\ Head(todo[t]) # "release"
  BY <1>3 DEF IInv, CallsOfThreads
<1>5. /\ todo' \in [Tasks -> Seq(Ops)]
      /\ ReleasesOnce' /\ NotStarted'
      /\ \A u \in Tasks : u # t => todo'[u] = todo[u] /\ Busy(u)' = Busy(u)
      /\ Busy(t)' <=> Busy(t)
  BY <1>2, <1>3, <1>4, StepKeeps
<1>6. \A i \in 1..Len(calls') : calls'[i] # t /\ calls'[i] \in Tasks
  <2> SUFFICES ASSUME NEW i \in 1..Len(calls') PROVE calls'[i] # t /\ calls'[i] \in Tasks
    OBVIOUS
  <2>1. i + 1 \in 1..Len(calls) /\ 1 \in 1..Len(calls) /\ i + 1 # 1
    BY <1>3
  <2>2. calls'[i] = calls[i + 1] /\ calls[i + 1] # calls[1]
    BY <1>3, <2>1 DEF IInv, Typed
  <2>3. calls[i + 1] \in Tasks
    BY <1>3, <2>1, ElementOfSeq
  <2> QED BY <1>3, <2>2, <2>3
<1>7. CallsOfThreads'
  <2> SUFFICES ASSUME NEW i \in 1..Len(calls')
               PROVE  todo'[calls'[i]] # << >> /\ Head(todo'[calls'[i]]) # "release"
    BY DEF CallsOfThreads
  <2>1. i + 1 \in 1..Len(calls) /\ calls'[i] = calls[i + 1]
    BY <1>3
  <2>2. todo[calls'[i]] # << >> /\ Head(todo[calls'[i]]) # "release"
    BY <2>1 DEF IInv, CallsOfThreads
  <2> QED BY <1>5, <1>6, <2>2
<1>8. Typed'
  <2>1. \A i, j \in 1..Len(calls') : calls'[i] = calls'[j] => i = j
    <3> SUFFICES ASSUME NEW i \in 1..Len(calls'), NEW j \in 1..Len(calls'),
                        calls'[i] = calls'[j]
                 PROVE  i = j
      OBVIOUS
    <3>1. i + 1 \in 1..Len(calls) /\ j + 1 \in 1..Len(calls)
      BY <1>3
    <3>2. calls[i + 1] = calls[j + 1]
      BY <1>3
    <3>3. i + 1 = j + 1
      BY <3>1, <3>2 DEF IInv, Typed
    <3> QED BY <3>3
  <2> QED BY <1>2, <1>3, <1>5, <2>1 DEF IInv, Typed
<1>9. \A u \in Tasks : Busy(u)' <=> Busy(u)
  BY <1>5
<1>10. OneAtATime'
  BY <1>2, <1>9 DEF IInv, OneAtATime
<1> QED BY <1>2, <1>5, <1>7, <1>8, <1>10 DEF IInv

LEMMA CallKeeps ==
  ASSUME IInv, NEW t \in Tasks, Call(t)
  PROVE  IInv'
<1>1. /\ ~Contains(calls, t) /\ todo[t] # << >> /\ Head(todo[t]) # "release"
      /\ calls' = Append(calls, t)
      /\ UNCHANGED <<started, todo, running, dialog, closed>>
  BY DEF Call, Waiting, uiVars, threadVars
<1>2. /\ calls \in Seq(Tasks) /\ Len(calls) \in Nat /\ calls' \in Seq(Tasks)
      /\ Len(calls') = Len(calls) + 1 /\ calls'[Len(calls) + 1] = t
      /\ \A i \in 1..Len(calls) : calls'[i] = calls[i] /\ calls[i] # t
  BY <1>1, AppendProperties, LenProperties DEF IInv, Typed, Contains
<1>3. \A i \in 1..Len(calls') : i \in 1..Len(calls) \/ i = Len(calls) + 1
  BY <1>2
<1>4. Typed'
  BY <1>1, <1>2, <1>3 DEF IInv, Typed
<1>5. CallsOfThreads'
  BY <1>1, <1>2, <1>3 DEF IInv, CallsOfThreads
<1> QED BY <1>1, <1>4, <1>5 DEF IInv, ReleasesOnce, NotStarted, OneAtATime, Busy

LEMMA ReleaseKeeps ==
  ASSUME IInv, NEW t \in Tasks, Release(t)
  PROVE  IInv'
<1>1. /\ ~closed /\ ~Contains(calls, t) /\ todo[t] # << >> /\ Head(todo[t]) = "release"
      /\ running' = FALSE /\ todo' = [todo EXCEPT ![t] = Tail(@)]
      /\ UNCHANGED <<started, calls, dialog, closed>>
  BY DEF Release, Waiting
<1>2. /\ todo' \in [Tasks -> Seq(Ops)]
      /\ ReleasesOnce' /\ NotStarted'
      /\ \A u \in Tasks : u # t => todo'[u] = todo[u] /\ Busy(u)' = Busy(u)
      /\ ~Busy(t)'
  BY <1>1, StepKeeps
<1>3. Busy(t)
  <2>1. todo[t] \in Seq(Ops)
    BY DEF IInv, Typed
  <2>2. 1 \in 1..Len(todo[t]) /\ todo[t][1] = "release"
    BY <1>1, <2>1, EmptySeq
  <2> QED BY <2>2 DEF Busy, Contains
<1>4. \A u \in Tasks : ~Busy(u)'
  BY <1>2, <1>3 DEF IInv, OneAtATime
<1>5. CallsOfThreads'
  <2>1. \A k \in 1..Len(calls) : calls[k] \in Tasks /\ calls[k] # t
    BY <1>1, ElementOfSeq DEF IInv, Typed, Contains
  <2> QED BY <1>1, <1>2, <2>1 DEF IInv, CallsOfThreads
<1> QED BY <1>1, <1>2, <1>4, <1>5 DEF IInv, Typed, OneAtATime

LEMMA NextIInv == IInv /\ [Next]_vars => IInv'
<1> SUFFICES ASSUME IInv, [Next]_vars PROVE IInv'
  OBVIOUS
<1>1. CASE StartFlashing \/ StartProbe
  <2>1. ~closed /\ ~running /\ dialog' = FALSE /\ (Launch("flash") \/ Launch("probe"))
    BY <1>1 DEF StartFlashing, StartProbe
  <2> QED BY <2>1, LaunchKeeps DEF Kinds
<1>2. CASE Confirm
  <2>1. ~closed /\ ~running /\ dialog' = FALSE /\ Launch("write")
    BY <1>2 DEF Confirm, IInv
  <2> QED BY <2>1, LaunchKeeps DEF Kinds
<1>3. CASE StartWrite \/ Refuse \/ Update
  <2>1. /\ UNCHANGED <<started, todo, calls, running, closed>>
        /\ dialog' => ~running
    BY <1>3 DEF StartWrite, Refuse, Update, threadVars, IInv
  <2> QED BY <2>1, Untouched
<1>4. CASE Exit
  <2>1. /\ closed' = TRUE /\ todo' = [t \in Tasks |-> << >>] /\ calls' = << >>
        /\ UNCHANGED <<started, running, dialog>>
    BY <1>4 DEF Exit, uiVars
  <2>2. Len(calls') = 0 /\ \A t \in Tasks : todo'[t] = << >> /\ Len(todo'[t]) = 0
    BY <2>1
  <2> QED BY <2>1, <2>2 DEF IInv, Typed, ReleasesOnce, CallsOfThreads, NotStarted, OneAtATime,
             Busy, Contains
<1>5. CASE Serve
  BY <1>5, ServeKeeps
<1>6. CASE \E t \in Tasks : Worker(t)
  BY <1>6, CallKeeps, ReleaseKeeps DEF Worker
<1>7. CASE Done \/ UNCHANGED vars
  BY <1>7, Untouched DEF Done, vars, uiVars, threadVars, IInv
<1> QED BY <1>1, <1>2, <1>3, <1>4, <1>5, <1>6, <1>7 DEF Next, User

\* At most one task can be using the port, and is_running tells whether there is
\* one, although it is checked before the confirmation of a write and set after
\* it (gui_app.py:462-478).
THEOREM PortOfOneTask == Spec => []OneAtATime
<1>1. IInv => OneAtATime
  BY DEF IInv
<1> QED BY <1>1, InitIInv, NextIInv, PTL DEF Spec

-----------------------------------------------------------------------------
(***************************************************************************)
(* What the window shows.                                                  *)
(***************************************************************************)
Silent(s) == \A i \in 1..Len(s) : s[i] \notin Statuses

\* First come the statuses, the last of which is v.
Tells(s, v) ==
  \E k \in 0..Len(s) : /\ \A i \in 1..Len(s) : s[i] \in Statuses <=> i <= k
                       /\ k > 0 => s[k] = v

ShownTyped ==
  /\ running \in BOOLEAN /\ startButton \in BOOLEAN /\ probeButton \in BOOLEAN
  /\ dialog \in BOOLEAN /\ closed \in BOOLEAN
  /\ shown \in [task : 0..MaxTasks, status : Statuses]
  /\ verdict \in Ends
  /\ timers \in Seq(Reports)

\* Only the last task reports, and only while it has the port.
Reporting ==
  /\ \A t \in Tasks : Silent(todo[t]) \/ (Busy(t) /\ t = started)
  /\ started > 0 => Tells(todo[started], verdict)

\* The last report is the verdict, wherever it has got to.
LastNews ==
  ~closed /\ started > 0 /\ Silent(todo[started]) =>
    IF timers = << >> THEN shown = [task |-> started, status |-> verdict]
    ELSE timers[Len(timers)] = [task |-> started, status |-> verdict]

\* Reports are queued in the order of their tasks.
InOrder ==
  /\ shown.task <= started
  /\ \A i \in 1..Len(timers) : timers[i].task <= started
  /\ \A i, j \in 1..Len(timers) : i <= j => timers[i].task <= timers[j].task
  /\ shown.status # "starting" =>
       \A i \in 1..Len(timers) : shown.task <= timers[i].task

\* A button that is disabled will be enabled by some thread.
ToBeEnabled ==
  ~closed =>
    /\ startButton \/ \E t \in Tasks : Contains(todo[t], "enableStart")
    /\ probeButton \/ \E t \in Tasks : Contains(todo[t], "enableProbe")

SInv == ShownTyped /\ Reporting /\ LastNews /\ InOrder /\ ToBeEnabled

-----------------------------------------------------------------------------
LEMMA OpsDiffer ==
  /\ "release" \notin Statuses /\ "enableStart" \notin Statuses
  /\ "enableProbe" \notin Statuses /\ "starting" \in Statuses
  /\ Ends \subseteq Statuses
BY DEF Statuses, Ends

\* A task's body is not empty, and ends in a verdict.
LEMMA BodyEnds ==
  ASSUME NEW kind \in Kinds, NEW body \in Bodies(kind)
  PROVE  body # << >> /\ Last(body) \in Ends
<1>1. CASE kind = "flash"
  <2>1. CASE body = <<"working", "failed">>
    <3>1. Len(body) = 2 /\ body[2] = "failed"
      BY <2>1
    <3> QED BY <3>1, EmptySeq DEF Last, Ends
  <2>2. CASE \E n \in 0..MaxUpdates, e \in Ends : body = Append(Working(2 + n), e)
    <3>1. PICK n \in 0..MaxUpdates, e \in Ends : body = Append(Working(2 + n), e)
      BY <2>2
    <3>2. n \in Nat
      BY GuiAssumption DEF GuiAssumption
    <3>3. Working(2 + n) \in Seq(Statuses) /\ e \in Statuses
      BY <3>2 DEF Working, Statuses
    <3>4. Len(body) = Len(Working(2 + n)) + 1 /\ body[Len(body)] = e
      BY <3>1, <3>3, AppendProperties
    <3>5. Len(body) # 0
      BY <3>3, <3>4, LenProperties
    <3> QED BY <3>4, <3>5, EmptySeq DEF Last
  <2> QED BY <1>1, <2>1, <2>2 DEF Bodies, FlashBodies
<1>2. CASE kind = "probe"
  <2>1. body = <<"done">> \/ body = <<"failed">>
    BY <1>2 DEF Bodies, ProbeBodies
  <2>2. Len(body) = 1 /\ body[1] \in {"done", "failed"}
    BY <2>1
  <2> QED BY <2>2, EmptySeq DEF Last, Ends
<1>3. CASE kind = "write"
  <2>1. body \in {<<"failed">>, <<"working", "done">>, <<"working", "failed">>}
    BY <1>3 DEF Bodies, WriteBodies
  <2>2. CASE body = <<"failed">>
    <3>1. Len(body) = 1 /\ body[1] = "failed"
      BY <2>2
    <3> QED BY <3>1, EmptySeq DEF Last, Ends
  <2>3. CASE body = <<"working", "done">> \/ body = <<"working", "failed">>
    <3>1. Len(body) = 2 /\ body[2] \in {"done", "failed"}
      BY <2>3
    <3> QED BY <3>1, EmptySeq DEF Last, Ends
  <2> QED BY <2>1, <2>2, <2>3
<1> QED BY <1>1, <1>2, <1>3 DEF Kinds

\* What follows a body enables what its task has disabled.
LEMMA FinallyEnables ==
  ASSUME NEW kind \in Kinds
  PROVE  /\ Finally(kind) \in Seq(Ops)
         /\ \A i \in 1..Len(Finally(kind)) : Finally(kind)[i] \notin Statuses
         /\ \E i \in 1..Len(Finally(kind)) : Finally(kind)[i] = "enableStart"
         /\ kind # "write" =>
              \E i \in 1..Len(Finally(kind)) : Finally(kind)[i] = "enableProbe"
<1>1. PICK f : f = Finally(kind)
  OBVIOUS
<1>2. {"release", "enableStart", "enableProbe"} \subseteq Ops
  BY DEF Ops
<1>3. CASE kind = "write"
  <2>1. f = <<"release", "enableStart">>
    BY <1>1, <1>3 DEF Finally
  <2>2. Len(f) = 2 /\ f[1] = "release" /\ f[2] = "enableStart"
    BY <2>1
  <2>3. f \in Seq({"release", "enableStart", "enableProbe"})
    BY <2>1
  <2>4. f \in Seq(Ops)
    BY <1>2, <2>3, SeqMonotonic
  <2>5. \A i \in 1..Len(f) : i = 1 \/ i = 2
    BY <2>2
  <2> QED BY <1>1, <1>3, <2>2, <2>4, <2>5, OpsDiffer
<1>4. CASE kind # "write"
  <2>1. f = <<"release", "enableStart", "enableProbe">>
    BY <1>1, <1>4 DEF Finally
  <2>2. Len(f) = 3 /\ f[1] = "release" /\ f[2] = "enableStart" /\ f[3] = "enableProbe"
    BY <2>1
  <2>3. f \in Seq({"release", "enableStart", "enableProbe"})
    BY <2>1
  <2>4. f \in Seq(Ops)
    BY <1>2, <2>3, SeqMonotonic
  <2>5. \A i \in 1..Len(f) : i = 1 \/ i = 2 \/ i = 3
    BY <2>2
  <2> QED BY <1>1, <2>2, <2>4, <2>5, OpsDiffer
<1> QED BY <1>3, <1>4

\* What a new thread has to do: the statuses of its body, then to enable.
LEMMA NewThreadTells ==
  ASSUME NEW kind \in Kinds, NEW body \in Bodies(kind)
  PROVE  LET do == body \o Finally(kind) IN
           /\ Tells(do, Last(body)) /\ ~Silent(do)
           /\ Contains(do, "enableStart")
           /\ kind # "write" => Contains(do, "enableProbe")
<1> DEFINE do == body \o Finally(kind)
           f  == Finally(kind)
           n  == Len(body)
<1>1. body \in Seq(Statuses) /\ body # << >> /\ n \in Nat
  BY BodyTyped, BodyEnds, LenProperties
<1>2. n # 0 /\ Last(body) = body[n]
  BY <1>1, EmptySeq DEF Last
<1>3. body \in Seq(Ops) /\ \A i \in 1..n : body[i] \in Statuses
  BY <1>1, SeqMonotonic, ElementOfSeq DEF Ops
<1>4. /\ f \in Seq(Ops)
      /\ \A i \in 1..Len(f) : f[i] \notin Statuses
      /\ \E i \in 1..Len(f) : f[i] = "enableStart"
      /\ kind # "write" => \E i \in 1..Len(f) : f[i] = "enableProbe"
  BY FinallyEnables
<1>5. /\ do \in Seq(Ops) /\ Len(do) = n + Len(f) /\ Len(f) \in Nat
      /\ \A i \in 1..Len(do) : do[i] = IF i <= n THEN body[i] ELSE f[i - n]
  BY <1>3, <1>4, ConcatProperties, LenProperties
<1> HIDE DEF do, f, n
<1>6. \A i \in 1..Len(do) : do[i] \in Statuses <=> i <= n
  <2> SUFFICES ASSUME NEW i \in 1..Len(do) PROVE do[i] \in Statuses <=> i <= n
    OBVIOUS
  <2>1. CASE i <= n
    BY <1>1, <1>3, <1>5, <2>1
  <2>2. CASE ~(i <= n)
    <3>1. i - n \in 1..Len(f)
      BY <1>1, <1>5, <2>2
    <3> QED BY <1>4, <1>5, <2>2, <3>1
  <2> QED BY <2>1, <2>2
<1>7. n \in 1..Len(do) /\ do[n] = body[n]
  BY <1>1, <1>2, <1>5
<1>8. Tells(do, Last(body)) /\ ~Silent(do)
  BY <1>1, <1>2, <1>6, <1>7 DEF Tells, Silent
<1>9. \A i \in 1..Len(f) : i + n \in 1..Len(do) /\ do[i + n] = f[i]
  <2> SUFFICES ASSUME NEW i \in 1..Len(f) PROVE i + n \in 1..Len(do) /\ do[i + n] = f[i]
    OBVIOUS
  <2>1. i + n \in 1..Len(do) /\ ~(i + n <= n) /\ (i + n) - n = i
    BY <1>1, <1>5
  <2> QED BY <1>5, <2>1
<1>10. Contains(do, "enableStart") /\ (kind # "write" => Contains(do, "enableProbe"))
  BY <1>4, <1>9 DEF Contains
<1> QED BY <1>8, <1>10 DEF do, f

\* One step further.
LEMMA StepTells ==
  ASSUME NEW s \in Seq(Ops), s # << >>
  PROVE  /\ Silent(s) => Silent(Tail(s)) /\ Head(s) \notin Statuses
         /\ \A v : Tells(s, v) =>
              /\ Tells(Tail(s), v)
              /\ Head(s) \notin Statuses => Silent(s)
              /\ Head(s) \in Statuses /\ Silent(Tail(s)) => Head(s) = v
         /\ \A op : Contains(s, op) => op = Head(s) \/ Contains(Tail(s), op)
<1>1. /\ Tail(s) \in Seq(Ops) /\ Len(Tail(s)) = Len(s) - 1 /\ Len(s) \in Nat \ {0}
      /\ \A i \in 1..Len(Tail(s)) : i + 1 \in 1..Len(s) /\ Tail(s)[i] = s[i + 1]
      /\ Head(s) = s[1] /\ 1 \in 1..Len(s)
  <2>1. Len(s) \in Nat \ {0}
    BY EmptySeq
  <2> QED BY <2>1
<1>2. \A i \in 1..Len(s) : i = 1 \/ (i - 1 \in 1..Len(Tail(s)) /\ Tail(s)[i - 1] = s[i])
  BY <1>1
<1> DEFINE rest == Tail(s)
           n    == Len(s)
           m    == Len(rest)
<1>3. /\ m = n - 1 /\ n \in Nat \ {0} /\ Head(s) = s[1] /\ 1 \in 1..n
      /\ \A i \in 1..m : i + 1 \in 1..n /\ rest[i] = s[i + 1]
  BY <1>1
<1> HIDE DEF rest, n, m
<1>4. ASSUME NEW v, NEW k \in 0..n,
             \A i \in 1..n : s[i] \in Statuses <=> i <= k,
             k > 0 => s[k] = v
      PROVE  /\ \E l \in 0..m : /\ \A i \in 1..m : rest[i] \in Statuses <=> i <= l
                                /\ l > 0 => rest[l] = v
             /\ s[1] \notin Statuses => \A i \in 1..n : s[i] \notin Statuses
             /\ s[1] \in Statuses /\ (\A i \in 1..m : rest[i] \notin Statuses) => s[1] = v
  <2>1. CASE k = 0
    <3>1. \A i \in 1..n : s[i] \notin Statuses
      BY <1>3, <1>4, <2>1
    <3>2. 0 \in 0..m /\ \A i \in 1..m : rest[i] \in Statuses <=> i <= 0
      BY <1>3, <3>1
    <3> QED BY <1>3, <3>1, <3>2, SMTT(30)
  <2>2. CASE k > 0
    <3>1. s[1] \in Statuses
      BY <1>3, <1>4, <2>2
    <3>2. k - 1 \in 0..m /\ \A i \in 1..m : rest[i] \in Statuses <=> i <= k - 1
      BY <1>3, <1>4, <2>2
    <3>3. k - 1 > 0 => rest[k - 1] = v
      <4>1. k - 1 > 0 => k - 1 \in 1..m /\ (k - 1) + 1 = k
        BY <1>3, <2>2
      <4> QED BY <1>3, <1>4, <2>2, <4>1
    <3>4. (\A i \in 1..m : rest[i] \notin Statuses) => k = 1
      <4>1. k # 1 => 1 \in 1..m /\ 1 <= k - 1
        BY <1>3, <2>2
      <4> QED BY <3>2, <4>1
    <3> QED BY <1>4, <2>2, <3>1, <3>2, <3>3, <3>4
  <2> QED BY <2>1, <2>2
<1>5. \A v : Tells(s, v) =>
        /\ Tells(Tail(s), v)
        /\ Head(s) \notin Statuses => Silent(s)
        /\ Head(s) \in Statuses /\ Silent(Tail(s)) => Head(s) = v
  BY <1>3, <1>4, ZenonT(60) DEF Tells, Silent, rest, n, m
<1>6. Silent(s) => Silent(Tail(s)) /\ Head(s) \notin Statuses
  BY <1>1 DEF Silent
<1>7. \A op : Contains(s, op) => op = Head(s) \/ Contains(Tail(s), op)
  BY <1>1, <1>2 DEF Contains
<1> QED BY <1>5, <1>6, <1>7

-----------------------------------------------------------------------------
LEMMA InitSInv == Init => SInv
<1> SUFFICES ASSUME Init PROVE SInv
  OBVIOUS
<1>1. /\ timers = << >> /\ Len(timers) = 0 /\ started = 0 /\ MaxTasks \in Nat
      /\ \A t \in Tasks : todo[t] = << >> /\ Len(todo[t]) = 0
  BY GuiAssumption DEF Init, GuiAssumption
<1>2. shown \in [task : 0..MaxTasks, status : Statuses] /\ shown.task = 0
  BY <1>1 DEF Init, Statuses, Ends
<1>3. ShownTyped
  <2>1. timers \in Seq(Reports)
    BY <1>1
  <2> QED BY <1>2, <2>1 DEF Init, ShownTyped, Ends
<1>4. Reporting /\ LastNews
  BY <1>1 DEF Reporting, LastNews, Silent
<1>5. InOrder /\ ToBeEnabled
  BY <1>1, <1>2 DEF Init, InOrder, ToBeEnabled
<1> QED BY <1>3, <1>4, <1>5 DEF SInv

\* A task is started: it is the one that reports now.
LEMMA LaunchShows ==
  ASSUME IInv, SInv, NEW kind \in Kinds, Launch(kind), ~running, ~closed,
         dialog' \in BOOLEAN
  PROVE  SInv'
<1>1. PICK t : t = started + 1
  OBVIOUS
<1>2. PICK body \in Bodies(kind) : /\ todo' = [todo EXCEPT ![t] = body \o Finally(kind)]
                                   /\ verdict' = Last(body)
  BY <1>1 DEF Launch
<1>3. /\ t \in Tasks /\ started' = t /\ running' = TRUE /\ startButton' = FALSE
      /\ probeButton' = (probeButton /\ kind = "write")
      /\ shown' = [task |-> t, status |-> "starting"]
      /\ UNCHANGED <<timers, closed>>
  BY <1>1 DEF Launch
<1>4. PICK do : do = body \o Finally(kind)
  OBVIOUS
<1>5. /\ Tells(do, Last(body)) /\ ~Silent(do)
      /\ Contains(do, "enableStart") /\ Contains(do, "release")
      /\ kind # "write" => Contains(do, "enableProbe")
  BY <1>4, BodyTyped, NewThread, NewThreadTells
<1>6. /\ todo'[t] = do
      /\ \A u \in Tasks : u # t => todo'[u] = todo[u]
  BY <1>2, <1>3, <1>4 DEF IInv, Typed
<1>7. started \in Nat /\ MaxTasks \in Nat /\ t \in 1..MaxTasks
  BY <1>3, GuiAssumption DEF GuiAssumption, IInv, Typed, Tasks
<1>8. todo[t] = << >>
  BY <1>1, <1>3, <1>7 DEF IInv, NotStarted
<1>9. ShownTyped'
  <2>1. verdict' \in Ends
    BY <1>2, BodyEnds
  <2>2. shown' \in [task : 0..MaxTasks, status : Statuses]
    BY <1>3, <1>7, OpsDiffer
  <2> QED BY <1>3, <2>1, <2>2 DEF ShownTyped, SInv
<1>10. Reporting'
  <2>1. \A u \in Tasks : Silent(todo[u])
    BY DEF IInv, OneAtATime, SInv, Reporting
  <2>2. \A u \in Tasks : u # t => Silent(todo'[u])
    BY <1>6, <2>1
  <2>3. Busy(t)'
    BY <1>5, <1>6 DEF Busy
  <2>4. Tells(todo'[t], verdict')
    BY <1>2, <1>5, <1>6
  <2> QED BY <1>3, <2>2, <2>3, <2>4 DEF Reporting, Tells, Silent
<1>11. LastNews'
  <2>1. ~Silent(todo'[t])
    BY <1>5, <1>6
  <2> QED BY <1>3, <2>1 DEF LastNews, Silent
<1>12. InOrder'
  <2>1. shown'.task = t /\ shown'.status = "starting"
    BY <1>3
  <2>2. \A i \in 1..Len(timers) : timers[i].task \in Nat /\ timers[i].task <= started
    <3> SUFFICES ASSUME NEW i \in 1..Len(timers)
                 PROVE  timers[i].task \in Nat /\ timers[i].task <= started
      OBVIOUS
    <3>1. timers[i] \in Reports
      BY ElementOfSeq DEF SInv, ShownTyped
    <3> QED BY <1>7, <3>1 DEF Reports, Tasks, SInv, InOrder
  <2>3. \A i \in 1..Len(timers) : timers[i].task <= t
    BY <1>1, <1>7, <2>2
  <2> QED BY <1>3, <1>7, <2>1, <2>3 DEF SInv, InOrder
<1>13. ToBeEnabled'
  <2>1. \E u \in Tasks : Contains(todo'[u], "enableStart")
    BY <1>3, <1>5, <1>6
  <2>2. CASE kind # "write"
    BY <1>3, <1>5, <1>6, <2>1, <2>2 DEF ToBeEnabled
  <2>3. CASE kind = "write" /\ probeButton
    BY <1>3, <2>1, <2>3 DEF ToBeEnabled
  <2>4. CASE kind = "write" /\ ~probeButton
    <3>1. PICK u \in Tasks : Contains(todo[u], "enableProbe")
      BY <2>4 DEF SInv, ToBeEnabled
    <3>2. u # t
      BY <1>8, <3>1 DEF Contains
    <3> QED BY <1>6, <2>1, <3>1, <3>2 DEF ToBeEnabled
  <2> QED BY <2>2, <2>3, <2>4
<1> QED BY <1>9, <1>10, <1>11, <1>12, <1>13 DEF SInv

\* Who has something left to report, after a thread's next step.
LEMMA StepReports ==
  ASSUME IInv, SInv, NEW t \in Tasks, todo[t] # << >>,
         todo' = [todo EXCEPT ![t] = Tail(@)], started' = started, verdict' = verdict
  PROVE  /\ Reporting'
         /\ Head(todo[t]) \in Statuses => t = started /\ ~Silent(todo[started])
         /\ Head(todo[t]) \notin Statuses /\ started > 0 /\ Silent(todo'[started])
              => Silent(todo[started])
         /\ Head(todo[t]) \in Statuses /\ Silent(todo'[started])
              => Head(todo[t]) = verdict
         /\ \A op : (\E u \in Tasks : Contains(todo[u], op)) /\ op # Head(todo[t])
                      => \E u \in Tasks : Contains(todo'[u], op)
<1>1. /\ todo \in [Tasks -> Seq(Ops)] /\ started \in 0..MaxTasks /\ MaxTasks \in Nat
      /\ todo[t] \in Seq(Ops)
  BY GuiAssumption DEF IInv, Typed, GuiAssumption
<1>2. todo'[t] = Tail(todo[t]) /\ \A u \in Tasks : u # t => todo'[u] = todo[u]
  BY <1>1
<1>3. /\ Silent(todo[t]) => Silent(Tail(todo[t])) /\ Head(todo[t]) \notin Statuses
      /\ \A v : Tells(todo[t], v) =>
              /\ Tells(Tail(todo[t]), v)
              /\ Head(todo[t]) \notin Statuses => Silent(todo[t])
              /\ Head(todo[t]) \in Statuses /\ Silent(Tail(todo[t])) => Head(todo[t]) = v
      /\ \A op : Contains(todo[t], op) => op = Head(todo[t]) \/ Contains(Tail(todo[t]), op)
  BY <1>1, StepTells
<1>4. /\ \A u \in Tasks : u # t => Busy(u)' = Busy(u)
      /\ Busy(t)' <=> Busy(t) /\ Head(todo[t]) # "release"
  BY StepKeeps
<1>5. started > 0 => started \in Tasks
  BY <1>1 DEF Tasks
<1>6. \A u \in Tasks : Silent(todo'[u]) \/ (Busy(u)' /\ u = started')
  <2> SUFFICES ASSUME NEW u \in Tasks PROVE Silent(todo'[u]) \/ (Busy(u)' /\ u = started')
    OBVIOUS
  <2>1. Silent(todo[u]) \/ (Busy(u) /\ u = started)
    BY DEF SInv, Reporting
  <2>2. CASE u # t
    BY <1>2, <1>4, <2>1, <2>2
  <2>3. CASE u = t /\ Silent(todo[t])
    BY <1>2, <1>3, <2>3
  <2>4. CASE u = t /\ ~Silent(todo[t])
    <3>1. u = started /\ started > 0 /\ Busy(t)
      BY <1>1, <2>1, <2>4 DEF Tasks
    <3>2. Tells(todo[t], verdict)
      BY <2>4, <3>1 DEF SInv, Reporting
    <3>3. Head(todo[t]) # "release"
      BY <1>3, <2>4, <3>2, OpsDiffer
    <3> QED BY <1>4, <2>4, <3>1, <3>3
  <2> QED BY <2>2, <2>3, <2>4
<1>7. started' > 0 => Tells(todo'[started'], verdict')
  <2> SUFFICES ASSUME started > 0 PROVE Tells(todo'[started], verdict)
    OBVIOUS
  <2>1. Tells(todo[started], verdict)
    BY DEF SInv, Reporting
  <2> QED BY <1>2, <1>3, <1>5, <2>1
<1>8. Reporting'
  BY <1>6, <1>7 DEF Reporting, Silent, Tells
<1>9. Head(todo[t]) \in Statuses => t = started /\ ~Silent(todo[started])
  BY <1>3 DEF SInv, Reporting
<1>10. Head(todo[t]) \notin Statuses /\ started > 0 /\ Silent(todo'[started])
         => Silent(todo[started])
  <2>1. started > 0 => Tells(todo[started], verdict)
    BY DEF SInv, Reporting
  <2> QED BY <1>2, <1>3, <1>5, <2>1
<1>11. Head(todo[t]) \in Statuses /\ Silent(todo'[started]) => Head(todo[t]) = verdict
  <2> SUFFICES ASSUME Head(todo[t]) \in Statuses, Silent(todo'[started])
               PROVE  Head(todo[t]) = verdict
    OBVIOUS
  <2>1. t = started /\ started > 0
    BY <1>1, <1>9 DEF Tasks
  <2>2. Tells(todo[t], verdict)
    BY <2>1 DEF SInv, Reporting
  <2> QED BY <1>2, <1>3, <2>1, <2>2
<1>12. ASSUME NEW op, NEW u \in Tasks, Contains(todo[u], op), op # Head(todo[t])
       PROVE  \E w \in Tasks : Contains(todo'[w], op)
  BY <1>2, <1>3, <1>12
<1> QED BY <1>8, <1>9, <1>10, <1>11, <1>12

LEMMA ServeShows ==
  ASSUME IInv, SInv, Serve
  PROVE  SInv'
<1>1. PICK t : t = Head(calls)
  OBVIOUS
<1>2. PICK op : op = Head(todo[t])
  OBVIOUS
<1>3. /\ calls # << >> /\ ~closed
      /\ startButton' = (startButton \/ op = "enableStart")
      /\ probeButton' = (probeButton \/ op = "enableProbe")
      /\ op \in Statuses /\ [task |-> t, status |-> op] \in Reports
              => timers' = Append(timers, [task |-> t, status |-> op])
      /\ op \notin Statuses => timers' = timers
      /\ todo' = [todo EXCEPT ![t] = Tail(@)]
      /\ UNCHANGED <<running, dialog, shown, started, verdict, closed>>
  BY <1>1, <1>2 DEF Serve, ServeWith
<1>4. t \in Tasks /\ 1 \in 1..Len(calls) /\ t = calls[1]
  BY <1>1, <1>3, EmptySeq DEF IInv, Typed
<1>5. todo[t] # << >>
  BY <1>4 DEF IInv, CallsOfThreads
<1>6. /\ Reporting'
      /\ op \in Statuses => t = started /\ ~Silent(todo[started])
      /\ op \notin Statuses /\ started > 0 /\ Silent(todo'[started])
              => Silent(todo[started])
      /\ op \in Statuses /\ Silent(todo'[started]) => op = verdict
      /\ \A o : (\E u \in Tasks : Contains(todo[u], o)) /\ o # op
                      => \E u \in Tasks : Contains(todo'[u], o)
  BY <1>2, <1>3, <1>4, <1>5, StepReports
<1>7. ToBeEnabled'
  BY <1>3, <1>6 DEF SInv, ToBeEnabled
<1>8. CASE op \notin Statuses
  <2>1. timers' = timers
    BY <1>3, <1>8
  <2>2. ShownTyped'
    BY <1>3, <2>1 DEF SInv, ShownTyped
  <2>3. LastNews' /\ InOrder'
    BY <1>3, <1>6, <1>8, <2>1 DEF SInv, LastNews, InOrder, Silent
  <2> QED BY <1>6, <1>7, <2>2, <2>3 DEF SInv
<1>9. CASE op \in Statuses
  <2> DEFINE report == [task |-> t, status |-> op]
             n      == Len(timers)
  <2>1. report \in Reports /\ report.task = t /\ report.status = op
    BY <1>4, <1>9 DEF Reports
  <2>2. timers' = Append(timers, report) /\ timers \in Seq(Reports)
    BY <1>3, <1>9, <2>1 DEF SInv, ShownTyped
  <2>3. /\ timers' \in Seq(Reports) /\ timers' # << >> /\ Len(timers') = n + 1 /\ n \in Nat
        /\ timers'[n + 1] = report
        /\ \A i \in 1..n : timers'[i] = timers[i] /\ timers[i] \in Reports
    BY <2>1, <2>2, AppendProperties, LenProperties, ElementOfSeq
  <2> HIDE DEF report, n
  <2>4. ShownTyped'
    BY <1>3, <2>3 DEF SInv, ShownTyped
  <2>5. LastNews'
    <3>1. Silent(todo'[started]) => report = [task |-> started, status |-> verdict]
      BY <1>6, <1>9 DEF report
    <3> QED BY <1>3, <2>3, <3>1 DEF LastNews, Silent
  <2>6. InOrder'
    <3>1. \A i \in 1..Len(timers') : i \in 1..n \/ i = n + 1
      BY <2>3
    <3>2. /\ \A i \in 1..n : timers[i].task <= t /\ timers[i].task \in Nat
          /\ shown.task <= t /\ shown.task \in Nat /\ t = started /\ t \in Nat
      <4>1. t = started /\ started \in Nat /\ shown.task \in Nat
        BY <1>6, <1>9 DEF IInv, Typed, SInv, ShownTyped
      <4>2. \A i \in 1..n : timers[i].task \in Nat
        BY <2>3 DEF Reports, Tasks
      <4> QED BY <4>1, <4>2 DEF SInv, InOrder, n
    <3>3. \A i \in 1..Len(timers') : timers'[i].task <= started
      BY <2>1, <2>3, <3>1, <3>2
    <3>4. ASSUME NEW i \in 1..Len(timers'), NEW j \in 1..Len(timers'), i <= j
          PROVE  timers'[i].task <= timers'[j].task
      <4>1. CASE j \in 1..n
        <5>1. i \in 1..n
          BY <2>3, <3>4, <4>1
        <5>2. timers[i].task <= timers[j].task
          BY <3>4, <4>1, <5>1 DEF SInv, InOrder, n
        <5> QED BY <2>3, <4>1, <5>1, <5>2
      <4>2. CASE j = n + 1
        <5>1. timers'[j].task = t
          BY <2>1, <2>3, <4>2
        <5> QED BY <3>2, <3>3, <3>4, <5>1
      <4> QED BY <3>1, <4>1, <4>2
    <3>5. shown.status # "starting" =>
            \A i \in 1..Len(timers') : shown.task <= timers'[i].task
      BY <2>1, <2>3, <3>1, <3>2 DEF SInv, InOrder, n
    <3> QED BY <1>3, <3>2, <3>3, <3>4, <3>5 DEF InOrder
  <2> QED BY <1>6, <1>7, <2>4, <2>5, <2>6 DEF SInv
<1> QED BY <1>8, <1>9

\* What has waited longest is shown; it is not older than what was.
LEMMA UpdateShows ==
  ASSUME IInv, SInv, Update
  PROVE  SInv' /\ (shown'.task < shown.task => shown.status = "starting")
<1>1. /\ ~closed /\ timers # << >> /\ shown' = Head(timers) /\ timers' = Tail(timers)
      /\ UNCHANGED <<running, startButton, probeButton, dialog, started, todo, verdict,
                     calls, closed>>
  BY DEF Update, threadVars
<1> DEFINE n == Len(timers)
<1>2. /\ timers \in Seq(Reports) /\ n \in Nat \ {0}
      /\ \A i \in 1..n : timers[i] \in Reports
  BY <1>1, EmptySeq, ElementOfSeq DEF SInv, ShownTyped
<1>3. /\ timers' \in Seq(Reports) /\ Len(timers') = n - 1
      /\ \A i \in 1..(n - 1) : i + 1 \in 1..n /\ timers'[i] = timers[i + 1]
      /\ shown' = timers[1] /\ 1 \in 1..n
      /\ n # 1 => timers' # << >> /\ n - 1 \in 1..(n - 1) /\ (n - 1) + 1 = n
      /\ n = 1 => timers' = << >>
  <2>1. /\ timers' \in Seq(Reports) /\ Len(timers') = n - 1
        /\ \A i \in 1..(n - 1) : i + 1 \in 1..n /\ timers'[i] = timers[i + 1]
        /\ shown' = timers[1] /\ 1 \in 1..n
    BY <1>1, <1>2
  <2> HIDE DEF n
  <2>2. n # 1 => timers' # << >> /\ n - 1 \in 1..(n - 1) /\ (n - 1) + 1 = n
    BY <1>2, <2>1
  <2>3. n = 1 => timers' = << >>
    BY <1>2, <2>1, EmptySeq
  <2> QED BY <2>1, <2>2, <2>3
<1> HIDE DEF n
<1>4. \A i \in 1..n : timers[i].task \in Nat /\ timers[i].task <= started
  BY <1>2 DEF Reports, Tasks, SInv, InOrder, n
<1>5. shown' \in [task : 0..MaxTasks, status : Statuses]
  <2>1. timers[1] \in Reports /\ MaxTasks \in Nat
    BY <1>2, <1>3, GuiAssumption DEF GuiAssumption
  <2> QED BY <1>3, <2>1 DEF Reports, Tasks
<1>6. ShownTyped'
  BY <1>1, <1>3, <1>5 DEF SInv, ShownTyped
<1>7. Reporting' /\ ToBeEnabled'
  BY <1>1 DEF SInv, Reporting, ToBeEnabled, Silent, Tells, Busy
<1>8. LastNews'
  <2> SUFFICES ASSUME started > 0, Silent(todo[started])
               PROVE  IF timers' = << >>
                      THEN shown' = [task |-> started, status |-> verdict]
                      ELSE timers'[Len(timers')] = [task |-> started, status |-> verdict]
    BY <1>1 DEF LastNews, Silent
  <2>1. timers[n] = [task |-> started, status |-> verdict]
    BY <1>1 DEF SInv, LastNews, n
  <2>2. CASE n = 1
    BY <1>3, <2>1, <2>2
  <2>3. CASE n # 1
    BY <1>3, <2>1, <2>3
  <2> QED BY <2>2, <2>3
<1>9. \A i, j \in 1..n : i <= j => timers[i].task <= timers[j].task
  BY DEF SInv, InOrder, n
<1>10. InOrder'
  <2>1. \A i \in 1..Len(timers') : timers'[i].task <= started
    BY <1>3, <1>4
  <2>2. \A i, j \in 1..Len(timers') : i <= j => timers'[i].task <= timers'[j].task
    <3> SUFFICES ASSUME NEW i \in 1..(n - 1), NEW j \in 1..(n - 1), i <= j
                 PROVE  timers'[i].task <= timers'[j].task
      BY <1>3
    <3>1. i + 1 \in 1..n /\ j + 1 \in 1..n /\ i + 1 <= j + 1
      BY <1>2
    <3> QED BY <1>3, <1>9, <3>1
  <2>3. \A i \in 1..Len(timers') : shown'.task <= timers'[i].task
    <3> SUFFICES ASSUME NEW i \in 1..(n - 1) PROVE timers[1].task <= timers[i + 1].task
      BY <1>3
    <3>1. i + 1 \in 1..n /\ 1 <= i + 1
      BY <1>2
    <3> QED BY <1>3, <1>9, <3>1
  <2>4. shown'.task <= started
    BY <1>3, <1>4
  <2> QED BY <1>1, <2>1, <2>2, <2>3, <2>4 DEF InOrder
<1>11. shown'.task < shown.task => shown.status = "starting"
  <2>1. shown.status # "starting" => shown.task <= timers[1].task
    BY <1>3 DEF SInv, InOrder, n
  <2>2. shown.task \in Nat /\ timers[1].task \in Nat
    BY <1>3, <1>4 DEF SInv, ShownTyped
  <2> QED BY <1>3, <2>1, <2>2
<1> QED BY <1>6, <1>7, <1>8, <1>10, <1>11 DEF SInv

LEMMA ReleaseShows ==
  ASSUME IInv, SInv, NEW t \in Tasks, Release(t)
  PROVE  SInv'
<1>1. /\ ~closed /\ todo[t] # << >> /\ Head(todo[t]) = "release"
      /\ running' = FALSE /\ todo' = [todo EXCEPT ![t] = Tail(@)]
      /\ UNCHANGED <<startButton, probeButton, dialog, shown, started, verdict, calls,
                     timers, closed>>
  BY DEF Release
<1>2. /\ Reporting'
      /\ started > 0 /\ Silent(todo'[started]) => Silent(todo[started])
      /\ \A op : (\E u \in Tasks : Contains(todo[u], op)) /\ op # "release"
                   => \E u \in Tasks : Contains(todo'[u], op)
  BY <1>1, StepReports, OpsDiffer
<1>3. ShownTyped'
  BY <1>1 DEF SInv, ShownTyped
<1>4. LastNews' /\ InOrder'
  BY <1>1, <1>2 DEF SInv, LastNews, InOrder, Silent
<1>5. ToBeEnabled'
  BY <1>1, <1>2 DEF SInv, ToBeEnabled
<1> QED BY <1>2, <1>3, <1>4, <1>5 DEF SInv

\* Steps that change none of what is shown or still to be reported.
LEMMA ShownUntouched ==
  ASSUME SInv, dialog' \in BOOLEAN,
         UNCHANGED <<running, startButton, probeButton, shown, started, todo, verdict,
                     timers, closed>>
  PROVE  SInv'
<1>1. ShownTyped'
  BY DEF SInv, ShownTyped
<1>2. Reporting' /\ LastNews'
  BY DEF SInv, Reporting, LastNews, Silent, Tells, Busy
<1>3. InOrder' /\ ToBeEnabled'
  BY DEF SInv, InOrder, ToBeEnabled
<1> QED BY <1>1, <1>2, <1>3 DEF SInv

LEMMA NextSInv == IInv /\ SInv /\ [Next]_vars => SInv'
<1> SUFFICES ASSUME IInv, SInv, [Next]_vars PROVE SInv'
  OBVIOUS
<1>1. CASE StartFlashing \/ StartProbe
  <2>1. /\ ~closed /\ ~running /\ dialog' = dialog
        /\ Launch("flash") \/ Launch("probe")
    BY <1>1 DEF StartFlashing, StartProbe
  <2>2. dialog' \in BOOLEAN
    BY <2>1 DEF SInv, ShownTyped
  <2> QED BY <2>1, <2>2, LaunchShows DEF Kinds
<1>2. CASE Confirm
  <2>1. ~closed /\ ~running /\ dialog' = FALSE /\ Launch("write")
    BY <1>2 DEF Confirm, IInv
  <2> QED BY <2>1, LaunchShows DEF Kinds
<1>3. CASE StartWrite \/ Refuse \/ Done \/ UNCHANGED vars \/ (\E t \in Tasks : Call(t))
  <2>1. UNCHANGED <<running, startButton, probeButton, shown, started, todo, verdict,
                    timers, closed>>
    BY <1>3 DEF StartWrite, Refuse, Done, Call, vars, uiVars, threadVars
  <2>2. dialog' \in BOOLEAN
    BY <1>3 DEF StartWrite, Refuse, Done, Call, vars, uiVars, SInv, ShownTyped
  <2> QED BY <2>1, <2>2, ShownUntouched
<1>4. CASE Exit
  <2>1. /\ closed' = TRUE /\ todo' = [t \in Tasks |-> << >>] /\ timers' = << >>
        /\ UNCHANGED <<running, startButton, probeButton, dialog, shown, started, verdict>>
    BY <1>4 DEF Exit, uiVars
  <2>2. /\ Len(timers') = 0 /\ started \in 0..MaxTasks /\ MaxTasks \in Nat
        /\ \A t \in Tasks : todo'[t] = << >> /\ Len(todo'[t]) = 0
    BY <2>1, GuiAssumption DEF IInv, Typed, GuiAssumption
  <2>3. timers' \in Seq(Reports)
    BY <2>1
  <2>4. ShownTyped'
    BY <2>1, <2>3 DEF SInv, ShownTyped
  <2>5. \A t \in Tasks : Silent(todo'[t]) /\ Tells(todo'[t], verdict')
    BY <2>2 DEF Silent, Tells
  <2>6. started' > 0 => started' \in Tasks
    BY <2>1, <2>2 DEF Tasks
  <2>7. Reporting'
    BY <2>5, <2>6 DEF Reporting, Silent, Tells
  <2>8. LastNews' /\ ToBeEnabled'
    BY <2>1 DEF LastNews, ToBeEnabled
  <2>9. InOrder'
    BY <2>1, <2>2 DEF SInv, InOrder
  <2> QED BY <2>4, <2>7, <2>8, <2>9 DEF SInv
<1>5. CASE Serve
  BY <1>5, ServeShows
<1>6. CASE Update
  BY <1>6, UpdateShows
<1>7. CASE \E t \in Tasks : Release(t)
  BY <1>7, ReleaseShows
<1> QED BY <1>1, <1>2, <1>3, <1>4, <1>5, <1>6, <1>7 DEF Next, User, Worker

LEMMA ShownInvariance == Spec => [](IInv /\ SInv)
BY InitIInv, NextIInv, InitSInv, NextSInv, PTL DEF Spec

\* The variables have their types, and a thread waits for one call at a time.
THEOREM TypeCorrect == Spec => []TypeOK
<1>1. ASSUME IInv, SInv PROVE TypeOK
  <2>1. calls \in Seq(Tasks) /\ DOMAIN calls = 1..Len(calls)
    BY <1>1 DEF IInv, Typed
  <2>2. IsInjective(calls)
    BY <1>1, <2>1 DEF IInv, Typed, IsInjective
  <2> QED BY <1>1, <2>1, <2>2 DEF IInv, SInv, Typed, ShownTyped, TypeOK, Ops
<1> QED BY <1>1, ShownInvariance, PTL

\* When everything has settled, both buttons can be pressed and the window shows
\* how the last task ended (gui_app.py:505-640).
THEOREM SettlesRight == Spec => []Settled
<1>1. ASSUME IInv, SInv PROVE Settled
  <2> SUFFICES ASSUME Quiet
               PROVE  /\ startButton /\ probeButton
                      /\ started > 0 => shown = [task |-> started, status |-> verdict]
    BY DEF Settled
  <2>1. /\ ~closed /\ timers = << >>
        /\ \A t \in Tasks : todo[t] = << >> /\ Len(todo[t]) = 0
    BY DEF Quiet
  <2>2. \A t \in Tasks : Silent(todo[t]) /\ \A op : ~Contains(todo[t], op)
    BY <2>1 DEF Silent, Contains
  <2>3. started > 0 => started \in Tasks
    BY <1>1, GuiAssumption DEF IInv, Typed, Tasks, GuiAssumption
  <2> QED BY <1>1, <2>1, <2>2, <2>3 DEF SInv, LastNews, ToBeEnabled
<1> QED BY <1>1, ShownInvariance, PTL

\* Once a task's own reports are shown, none of an earlier task is shown again,
\* however many are still queued (gui_app.py:607-640).
THEOREM NewsInOrder == Spec => NoOlderNews
<1>1. ASSUME IInv, SInv, [Next]_vars
      PROVE  [shown'.task < shown.task => shown.status = "starting"]_vars
  <2>1. CASE Update
    BY <1>1, <2>1, UpdateShows
  <2>2. CASE StartFlashing \/ StartProbe \/ Confirm
    <3>1. PICK t : t = started + 1 /\ shown' = [task |-> t, status |-> "starting"]
      BY <2>2 DEF StartFlashing, StartProbe, Confirm, Launch
    <3>2. shown.task \in Nat /\ started \in Nat /\ shown.task <= started
      BY <1>1 DEF IInv, Typed, SInv, ShownTyped, InOrder
    <3> QED BY <3>1, <3>2
  <2>3. CASE shown' = shown
    <3>1. shown.task \in Nat
      BY <1>1 DEF SInv, ShownTyped
    <3> QED BY <2>3, <3>1
  <2> QED BY <1>1, <2>1, <2>2, <2>3
          DEF Next, User, Worker, StartWrite, Refuse, Exit, Serve, ServeWith, Call, Release,
              Done, vars, uiVars
<1> QED BY <1>1, ShownInvariance, PTL DEF Spec, NoOlderNews
===============================================================================
