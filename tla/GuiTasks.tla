------------------------------- MODULE GuiTasks -------------------------------
(***************************************************************************)
(* gui_app.py: FlasherGUI.  The UI thread runs Tk's loop; every task        *)
(* (flash, probe, write the address) is a daemon thread with an event loop  *)
(* of its own.                                                             *)
(*                                                                         *)
(* Tk belongs to the UI thread.  When a worker calls it, the call is queued *)
(* for the UI thread and the worker waits until it has been served.  What   *)
(* update_progress calls is root.after(0, update): serving it only queues   *)
(* `update`, which the UI thread runs later.                                *)
(***************************************************************************)
EXTENDS Naturals, Sequences, SequencesExt

CONSTANTS
  MaxTasks,             \* bound: tasks started
  MaxUpdates            \* bound: progress reports of an upload

ASSUME GuiAssumption == MaxTasks \in Nat /\ MaxUpdates \in Nat

VARIABLES
  running,              \* is_running
  startButton,          \* enabled
  probeButton,
  dialog,               \* the confirmation of a write is open, and modal
  shown,                \* progress bar and label: which task's status
  started,              \* tasks so far
  todo,                 \* what each task's thread has still to do
  calls,                \* threads whose call waits for the UI thread
  timers,               \* updates that are queued to run
  verdict,              \* how the last task ends
  closed                \* the main loop has ended, and the process with it

uiVars     == <<running, startButton, probeButton, dialog, shown>>
threadVars == <<started, todo, verdict>>
vars == <<uiVars, threadVars, calls, timers, closed>>

Tasks    == 1..MaxTasks
Ends     == {"done", "warned", "failed"}
Statuses == {"starting", "working"} \cup Ends

Reports  == [task : Tasks, status : Statuses]

Init ==
  /\ running = FALSE /\ startButton = TRUE /\ probeButton = TRUE
  /\ dialog = FALSE /\ shown = [task |-> 0, status |-> "done"]
  /\ started = 0
  /\ todo = [t \in Tasks |-> << >>]
  /\ verdict = "done"
  /\ calls = << >> /\ timers = << >>
  /\ closed = FALSE

-----------------------------------------------------------------------------
(***************************************************************************)
(* What a worker does: its reports, the last of which says how it ended,    *)
(* then what `finally` holds.                                              *)
(***************************************************************************)
Working(n) == [i \in 1..n |-> "working"]

\* "Preparing...", then a file that cannot be read or parsed, or a bootloader
\* that cannot be entered; or "Flashing...", the reports of the upload, and
\* how it ended.
FlashBodies ==
  {<<"working", "failed">>} \cup
    {Append(Working(2 + n), e) : n \in 0..MaxUpdates, e \in Ends}

ProbeBodies == {<<"done">>, <<"failed">>}

WriteBodies == {<<"failed">>, <<"working", "done">>, <<"working", "failed">>}

Bodies(kind) == CASE kind = "flash" -> FlashBodies
                  [] kind = "probe" -> ProbeBodies
                  [] kind = "write" -> WriteBodies

\* Bug: every task enables what writing has disabled.
FinallyStartOnly(kind) == <<"release", "enableStart">>

Finally(kind) ==
  IF kind = "write" THEN <<"release", "enableStart">>
                    ELSE <<"release", "enableStart", "enableProbe">>

\* asyncio.run has not returned: the task may be using the port.
Busy(t) == Contains(todo[t], "release")

-----------------------------------------------------------------------------
(***************************************************************************)
(* The UI thread.                                                          *)
(***************************************************************************)
Launch(kind) ==
  LET t == started + 1 IN
    /\ t \in Tasks
    /\ started' = t
    /\ running' = TRUE
    /\ startButton' = FALSE
    /\ probeButton' = (probeButton /\ kind = "write")
    /\ shown' = [task |-> t, status |-> "starting"]
    /\ \E body \in Bodies(kind) :
         /\ todo' = [todo EXCEPT ![t] = body \o Finally(kind)]
         /\ verdict' = Last(body)
    /\ UNCHANGED <<calls, timers, closed>>

StartFlashing ==
  /\ ~closed /\ ~dialog /\ startButton /\ ~running
  /\ Launch("flash")
  /\ UNCHANGED dialog

StartProbe ==
  /\ ~closed /\ ~dialog /\ probeButton /\ ~running
  /\ Launch("probe")
  /\ UNCHANGED dialog

\* Bug: is_running is not looked at.
StartWriteUnguarded ==
  /\ ~closed /\ ~dialog
  /\ dialog' = TRUE
  /\ UNCHANGED <<running, startButton, probeButton, shown, threadVars, calls, timers,
                 closed>>

\* The button for writing is never disabled.  is_running is looked at before
\* the confirmation, and set after it.
StartWrite ==
  /\ ~closed /\ ~dialog /\ ~running
  /\ dialog' = TRUE
  /\ UNCHANGED <<running, startButton, probeButton, shown, threadVars, calls, timers,
                 closed>>

Confirm ==
  /\ ~closed /\ dialog
  /\ Launch("write")
  /\ dialog' = FALSE

Refuse ==
  /\ ~closed /\ dialog
  /\ dialog' = FALSE
  /\ UNCHANGED <<running, startButton, probeButton, shown, threadVars, calls, timers,
                 closed>>

\* The call that has waited longest is served, dialog or not, and its caller
\* goes on.
ServeWith(queued) ==
  /\ ~closed /\ calls # << >>
  /\ LET t == Head(calls)
         op == Head(todo[t]) IN
       /\ startButton' = (startButton \/ op = "enableStart")
       /\ probeButton' = (probeButton \/ op = "enableProbe")
       /\ timers' = IF op \in Statuses THEN queued[[task |-> t, status |-> op]]
                                       ELSE timers
       /\ todo' = [todo EXCEPT ![t] = Tail(@)]
  /\ calls' = Tail(calls)
  /\ UNCHANGED <<running, dialog, shown, started, verdict, closed>>

\* Bug: nothing is served behind the confirmation.
ServeWithoutDialog ==
  ~dialog /\ ServeWith([r \in Reports |-> Append(timers, r)])

\* Bug: the newest update is run first.
ServeNewestFirst == ServeWith([r \in Reports |-> <<r>> \o timers])

Serve == ServeWith([r \in Reports |-> Append(timers, r)])

\* update_progress's `update`, or the same with a log line.
Update ==
  /\ ~closed /\ timers # << >>
  /\ shown' = Head(timers)
  /\ timers' = Tail(timers)
  /\ UNCHANGED <<running, startButton, probeButton, dialog, threadVars, calls, closed>>

\* "Exit" looks at nothing: the process ends, and its daemon threads with it.
Exit ==
  /\ ~closed /\ ~dialog
  /\ closed' = TRUE
  /\ todo' = [t \in Tasks |-> << >>] /\ calls' = << >> /\ timers' = << >>
  /\ UNCHANGED <<uiVars, started, verdict>>

-----------------------------------------------------------------------------
(***************************************************************************)
(* The workers.                                                            *)
(***************************************************************************)
Waiting(t) == Contains(calls, t)

\* Bug: a worker that has called goes on.
CallAgain(t) ==
  /\ ~closed
  /\ todo[t] # << >> /\ Head(todo[t]) # "release" /\ Len(calls) < MaxTasks
  /\ calls' = Append(calls, t)
  /\ UNCHANGED <<uiVars, threadVars, timers, closed>>

\* log, update_progress or config is called.
Call(t) ==
  /\ ~closed /\ ~Waiting(t)
  /\ todo[t] # << >> /\ Head(todo[t]) # "release"
  /\ calls' = Append(calls, t)
  /\ UNCHANGED <<uiVars, threadVars, timers, closed>>

Release(t) ==
  /\ ~closed /\ ~Waiting(t)
  /\ todo[t] # << >> /\ Head(todo[t]) = "release"
  /\ running' = FALSE
  /\ todo' = [todo EXCEPT ![t] = Tail(@)]
  /\ UNCHANGED <<startButton, probeButton, dialog, shown, started, verdict, calls, timers,
                 closed>>

Done == closed /\ UNCHANGED vars

User   == StartFlashing \/ StartProbe \/ StartWrite \/ Confirm \/ Refuse \/ Exit
Worker(t) == Call(t) \/ Release(t)

Next == User \/ Serve \/ Update \/ (\E t \in Tasks : Worker(t)) \/ Done

\* Threads go on and the UI thread runs its loop; the user need do nothing.
Spec == /\ Init /\ [][Next]_vars
        /\ WF_vars(Serve) /\ WF_vars(Update)
        /\ \A t \in Tasks : WF_vars(Worker(t))

-----------------------------------------------------------------------------
(***************************************************************************)
(* Properties.                                                             *)
(***************************************************************************)

\* The variables have their types, and a thread waits for one call at a time.
TypeOK ==
  /\ running \in BOOLEAN /\ startButton \in BOOLEAN /\ probeButton \in BOOLEAN
  /\ dialog \in BOOLEAN /\ closed \in BOOLEAN
  /\ shown \in [task : 0..MaxTasks, status : Statuses]
  /\ started \in 0..MaxTasks
  /\ todo \in [Tasks -> Seq(Statuses \cup {"release", "enableStart", "enableProbe"})]
  /\ verdict \in Ends
  /\ calls \in Seq(Tasks) /\ IsInjective(calls)
  /\ timers \in Seq(Reports)

\* At most one task can be using the port, and is_running tells whether there
\* is one, although the button for writing is never disabled, a confirmation
\* lies between the check and the assignment, and a worker sets the buttons
\* after it has reset is_running.
OneAtATime ==
  /\ \A t, u \in Tasks : Busy(t) /\ Busy(u) => t = u
  /\ ~closed => (running <=> \E t \in Tasks : Busy(t))

Quiet == ~closed /\ calls = << >> /\ timers = << >> /\ \A t \in Tasks : todo[t] = << >>

\* When everything has settled, both buttons can be pressed and the window
\* shows how the last task ended, whatever the tasks before it still queued.
Settled ==
  Quiet => /\ startButton /\ probeButton
           /\ started > 0 => shown = [task |-> started, status |-> verdict]

\* A status of an earlier task can still appear after the next one was
\* started, but not once that task's own reports are being shown.
NoOlderNews ==
  [][shown'.task < shown.task => shown.status = "starting"]_vars

\* Unless the program is left, every thread ends: none waits for the UI thread
\* for ever, whether or not the user answers the confirmation.
TasksEnd == \A t \in Tasks : started >= t ~> (closed \/ todo[t] = << >>)
=============================================================================
