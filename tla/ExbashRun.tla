------------------------------ MODULE ExbashRun ------------------------------
(***************************************************************************)
(* The exbash tool (src/src/tools/exbash): requests run, attach, list,     *)
(* stop and remove, handled concurrently by tokio tasks, the total-timeout *)
(* timer of each run, the two process-wide label maps and the PTY core of  *)
(* the vendored pty-t crate, which is external and modelled by how the     *)
(* code calls it.  Every access to the core or to a label map takes its    *)
(* own lock, so each is a step of its own.                                 *)
(***************************************************************************)
EXTENDS Naturals

CONSTANTS MaxRuns,   \* bound on the runs started (ids are never reused)
          Tasks,     \* request handlers in flight at the same time
          Modes      \* the request modes this instance exercises

AllModes == {"run", "attach", "list", "stop", "remove"}

ASSUME RunAssumption == MaxRuns \in Nat /\ Modes \subseteq AllModes

VARIABLES
  nextId,       \* NEXT_ID: runs below it have been started
  process,      \* the OS process of each run
  killed,       \* a kill reached the live process
  present,      \* the core still lists the session
  controller,   \* who may write to the session
  exitLabel,    \* EXIT_CODE_LABELS
  descLabel,    \* DESCRIPTION_LABELS
  timer,        \* the task spawn_timeout starts
  pc, mode, run, seen, killErr, withInput, todo,   \* locals of each handler
  answer,       \* the last response of each handler
  overlap,      \* history: which labels were still to come when r was dropped
  grip          \* history: what became of the control an attach forced

coreVars  == <<process, killed, present, controller>>
labelVars == <<exitLabel, descLabel>>
taskVars  == <<pc, mode, run, seen, killErr, withInput, todo, answer>>
vars == <<nextId, coreVars, labelVars, timer, taskVars, overlap, grip>>

Runs   == 1..MaxRuns
NoRun  == 0
Labels == {"none", "stopped", "timeout"}
Shown  == Labels \cup {"code"}

Control == {"idle", "describe", "poll", "finish", "finishLabel", "drop",
            "clearExit", "clearDesc", "detach", "showLabel", "snapshot",
            "stopLabel", "stopKill", "stopWait", "stopDetail", "unlabel",
            "stopRunDetail", "removeKill", "removeWait", "force", "write",
            "attachPoll", "attachSnapshot", "attachDetail", "attachLabel",
            "rawPretty", "listItem", "listLabel"}

Answers == [mode : AllModes \cup {"none", "detached"}, run : Runs \cup {NoRun},
            ok : BOOLEAN, exit : Shown]
NoAnswer == [mode |-> "none", run |-> NoRun, ok |-> FALSE, exit |-> "none"]

Exited(r) == process[r] = "exited"

\* exit_code_json: the label of a run, when it has one, hides its raw code.
Display(r) == IF exitLabel[r] = "none" THEN "code" ELSE exitLabel[r]

-----------------------------------------------------------------------------
(* How a handler moves *)

Goto(t, step) == /\ pc' = [pc EXCEPT ![t] = step]
                 /\ UNCHANGED <<mode, run, killErr, withInput, todo, answer>>

\* The handler returns: its locals die and the caller has its response.
Reply(t, ok, exit) ==
  /\ pc' = [pc EXCEPT ![t] = "idle"]
  /\ mode' = [mode EXCEPT ![t] = "none"]
  /\ run' = [run EXCEPT ![t] = NoRun]
  /\ seen' = [seen EXCEPT ![t] = "none"]
  /\ killErr' = [killErr EXCEPT ![t] = FALSE]
  /\ withInput' = [withInput EXCEPT ![t] = FALSE]
  /\ todo' = [todo EXCEPT ![t] = {}]
  /\ answer' = [answer EXCEPT ![t] =
                  [mode |-> mode[t], run |-> run[t], ok |-> ok, exit |-> exit]]

Fail(t) == Reply(t, FALSE, "none")

\* A request for run r arrives and its first lookup succeeds.
Begin(t, m, r, step) ==
  /\ pc' = [pc EXCEPT ![t] = step]
  /\ mode' = [mode EXCEPT ![t] = m]
  /\ run' = [run EXCEPT ![t] = r]
  /\ answer' = [answer EXCEPT ![t] = NoAnswer]
  /\ UNCHANGED <<seen, killErr, todo>>

\* A request refused before it touched anything.
Refuse(t, m) ==
  /\ answer' = [answer EXCEPT ![t] =
       [mode |-> m, run |-> NoRun, ok |-> FALSE, exit |-> "none"]]
  /\ UNCHANGED <<pc, mode, run, seen, killErr, withInput, todo>>

\* Session::kill of the core: an error leaves the process alone, success
\* dooms it unless it has exited already.
Kill(r, ok) == killed' = [killed EXCEPT ![r] = @ \/ (ok /\ ~Exited(r))]

-----------------------------------------------------------------------------
(* Slips a change to the code could make; each breaks a property below when  *)
(* it stands in for the definition it is named after.                        *)

\* run_detail shows the label of a run whether or not it has an exit code.
Detach_labelled(t) ==
  /\ pc[t] = "detach"
  /\ present[run[t]] /\ Goto(t, "showLabel") /\ UNCHANGED seen
  /\ UNCHANGED <<nextId, coreVars, labelVars, timer, overlap, grip>>

\* stop_run waits for the exit without a deadline.
StopWait_untilExit(t) ==
  /\ pc[t] = "stopWait" /\ Exited(run[t])
  /\ Goto(t, "stopDetail")
  /\ UNCHANGED <<nextId, coreVars, labelVars, timer, seen, overlap, grip>>

\* remove_run discards the error of its kill.
RemoveKill_unchecked(t) ==
  /\ pc[t] = "removeKill"
  /\ \E ok \in BOOLEAN : Kill(run[t], ok)
  /\ Goto(t, "removeWait") /\ UNCHANGED seen
  /\ UNCHANGED <<nextId, process, present, controller, labelVars, timer, overlap, grip>>

\* remove_run drops the run without a kill.
RemoveRequest_noKill(t, r) ==
  /\ pc[t] = "idle" /\ "remove" \in Modes
  /\ present[r] /\ Begin(t, "remove", r, "drop") /\ UNCHANGED withInput
  /\ UNCHANGED <<nextId, coreVars, labelVars, timer, overlap, grip>>

\* clear_exit_code_label is forgotten.
ClearExitLabel_skipped(t) ==
  /\ pc[t] = "clearExit"
  /\ Goto(t, "clearDesc")
  /\ UNCHANGED <<nextId, coreVars, labelVars, timer, seen, overlap, grip>>

\* run_command answers without remove_pty.
AfterLabel_noDrop(step) == CASE step = "finishLabel" -> "clearExit"
                             [] step = "showLabel"   -> "snapshot"
                             [] step = "attachLabel" -> "rawPretty"
                             [] step = "listLabel"   -> "listItem"

\* wait_attach_timeout does not look at the controller.
AttachPoll_unwatched(t) ==
  /\ pc[t] = "attachPoll"
  /\ present[run[t]] /\ Goto(t, "attachSnapshot") /\ UNCHANGED seen
  /\ UNCHANGED <<nextId, coreVars, labelVars, timer, overlap, grip>>

\* wait_attach_timeout has no deadline.
AttachPoll_noDeadline(t) ==
  /\ pc[t] = "attachPoll"
  /\ present[run[t]] /\ Exited(run[t])
  /\ Goto(t, "attachSnapshot") /\ UNCHANGED seen
  /\ UNCHANGED <<nextId, coreVars, labelVars, timer, overlap, grip>>

\* The timer sets its label and does not kill.
TimerLabels_only(r) ==
  /\ timer[r] = "label"
  /\ exitLabel' = [exitLabel EXCEPT ![r] = "timeout"]
  /\ timer' = [timer EXCEPT ![r] = "done"]
  /\ UNCHANGED <<nextId, coreVars, descLabel, taskVars, overlap, grip>>

-----------------------------------------------------------------------------
(* Init *)

Init ==
  /\ nextId = 1
  /\ process = [r \in Runs |-> "unborn"]
  /\ killed = [r \in Runs |-> FALSE]
  /\ present = [r \in Runs |-> FALSE]
  /\ controller = [r \in Runs |-> "nobody"]
  /\ exitLabel = [r \in Runs |-> "none"]
  /\ descLabel = [r \in Runs |-> FALSE]
  /\ timer = [r \in Runs |-> "off"]
  /\ pc = [t \in Tasks |-> "idle"]
  /\ mode = [t \in Tasks |-> "none"]
  /\ run = [t \in Tasks |-> NoRun]
  /\ seen = [t \in Tasks |-> "none"]
  /\ killErr = [t \in Tasks |-> FALSE]
  /\ withInput = [t \in Tasks |-> FALSE]
  /\ todo = [t \in Tasks |-> {}]
  /\ answer = [t \in Tasks |-> NoAnswer]
  /\ overlap = [r \in Runs |-> {}]
  /\ grip = [t \in Tasks |-> "held"]

-----------------------------------------------------------------------------
(* run and shell: start_job, wait_for_stop_with_output, run_command *)

\* Bad options, or create_pty fails: nothing was registered.
RejectRun(t) ==
  /\ pc[t] = "idle" /\ "run" \in Modes
  /\ Refuse(t, "run")
  /\ UNCHANGED <<nextId, coreVars, labelVars, timer, overlap, grip>>

\* create_pty succeeds; the timer is spawned when a total timeout is given.
StartJob(t) ==
  /\ pc[t] = "idle" /\ "run" \in Modes
  /\ nextId \in Runs
  /\ \E timed \in BOOLEAN :
       timer' = [timer EXCEPT ![nextId] = IF timed THEN "armed" ELSE "off"]
  /\ nextId' = nextId + 1
  /\ process' = [process EXCEPT ![nextId] = "running"]
  /\ present' = [present EXCEPT ![nextId] = TRUE]
  /\ Begin(t, "run", nextId, "describe")
  /\ UNCHANGED <<killed, controller, labelVars, withInput, overlap, grip>>

SetDescription(t) ==
  /\ pc[t] = "describe"
  /\ descLabel' = [descLabel EXCEPT ![run[t]] = TRUE]
  /\ Goto(t, "poll")
  /\ UNCHANGED <<nextId, coreVars, exitLabel, timer, seen, overlap, grip>>

\* try_exit_code fails once somebody removed the run.
PollExit(t) ==
  /\ pc[t] = "poll"
  /\ \/ ~present[run[t]] /\ Fail(t)
     \/ present[run[t]] /\ Exited(run[t]) /\ Goto(t, "finish") /\ UNCHANGED seen
  /\ UNCHANGED <<nextId, coreVars, labelVars, timer, overlap, grip>>

\* No exit code in this iteration and the read deadline has passed.
ReadTimeout(t) ==
  /\ pc[t] = "poll"
  /\ present[run[t]] /\ ~Exited(run[t])
  /\ pc' = [pc EXCEPT ![t] = "detach"]
  /\ mode' = [mode EXCEPT ![t] = "detached"]
  /\ UNCHANGED <<run, seen, killErr, withInput, todo, answer>>
  /\ UNCHANGED <<nextId, coreVars, labelVars, timer, overlap, grip>>

\* run_detail reads the core first and the label map afterwards.
FinishDetail(t) ==
  /\ pc[t] = "finish"
  /\ \/ ~present[run[t]] /\ Fail(t)
     \/ present[run[t]] /\ Goto(t, "finishLabel") /\ UNCHANGED seen
  /\ UNCHANGED <<nextId, coreVars, labelVars, timer, overlap, grip>>

Detach(t) ==
  /\ pc[t] = "detach"
  /\ \/ ~present[run[t]] /\ Fail(t)
     \/ /\ present[run[t]]
        /\ Goto(t, IF Exited(run[t]) THEN "showLabel" ELSE "snapshot")
        /\ UNCHANGED seen
  /\ UNCHANGED <<nextId, coreVars, labelVars, timer, overlap, grip>>

\* The label lookup that follows the detail of an exited run.
LabelSteps == {"finishLabel", "showLabel", "attachLabel", "listLabel"}

AfterLabel(step) == CASE step = "finishLabel" -> "drop"
                      [] step = "showLabel"   -> "snapshot"
                      [] step = "attachLabel" -> "rawPretty"
                      [] step = "listLabel"   -> "listItem"

ReadLabel(t) ==
  /\ pc[t] \in LabelSteps
  /\ seen' = [seen EXCEPT ![t] = Display(run[t])]
  /\ Goto(t, AfterLabel(pc[t]))
  /\ UNCHANGED <<nextId, coreVars, labelVars, timer, overlap, grip>>

\* remove_pty and the two clears: the common end of run_command and remove.
\* What is still on its way to a label map at that moment will be left there.
Drop(t) ==
  /\ pc[t] = "drop"
  /\ present' = [present EXCEPT ![run[t]] = FALSE]
  /\ overlap' =
       IF ~present[run[t]] THEN overlap
       ELSE [overlap EXCEPT ![run[t]] =
         {l \in {"exit"} : timer[run[t]] = "label"
                           \/ \E u \in Tasks : pc[u] = "stopLabel" /\ run[u] = run[t]}
         \cup {l \in {"desc"} : \E u \in Tasks : pc[u] = "describe" /\ run[u] = run[t]}]
  /\ Goto(t, "clearExit")
  /\ UNCHANGED <<nextId, process, killed, controller, labelVars, timer, seen, grip>>

ClearExitLabel(t) ==
  /\ pc[t] = "clearExit"
  /\ exitLabel' = [exitLabel EXCEPT ![run[t]] = "none"]
  /\ Goto(t, "clearDesc")
  /\ UNCHANGED <<nextId, coreVars, descLabel, timer, seen, overlap, grip>>

\* run_command reports the exit it saw; remove saw none and says ok.
ClearDescription(t) ==
  /\ pc[t] = "clearDesc"
  /\ descLabel' = [descLabel EXCEPT ![run[t]] = FALSE]
  /\ Reply(t, TRUE, seen[t])
  /\ UNCHANGED <<nextId, coreVars, exitLabel, timer, overlap, grip>>

-----------------------------------------------------------------------------
(* stop: stop_run *)

StopRequest(t, r) ==
  /\ pc[t] = "idle" /\ "stop" \in Modes
  /\ \/ ~present[r] /\ Refuse(t, "stop")
     \/ present[r] /\ Begin(t, "stop", r, "stopLabel") /\ UNCHANGED withInput
  /\ UNCHANGED <<nextId, coreVars, labelVars, timer, overlap, grip>>

\* The label is set before the kill, whether or not the run is still alive.
StopLabel(t) ==
  /\ pc[t] = "stopLabel"
  /\ exitLabel' = [exitLabel EXCEPT ![run[t]] = "stopped"]
  /\ Goto(t, "stopKill")
  /\ UNCHANGED <<nextId, coreVars, descLabel, timer, seen, overlap, grip>>

StopKill(t) ==
  /\ pc[t] = "stopKill"
  /\ \E ok \in BOOLEAN :
       /\ Kill(run[t], ok)
       /\ killErr' = [killErr EXCEPT ![t] = ~ok]
  /\ pc' = [pc EXCEPT ![t] = "stopWait"]
  /\ UNCHANGED <<mode, run, seen, withInput, todo, answer>>
  /\ UNCHANGED <<nextId, process, present, controller, labelVars, timer, overlap, grip>>

\* wait_exit_code_timeout returns by the exit, the 500 ms or a missing run.
StopWait(t) ==
  /\ pc[t] = "stopWait"
  /\ Goto(t, "stopDetail")
  /\ UNCHANGED <<nextId, coreVars, labelVars, timer, seen, overlap, grip>>

StopDetail(t) ==
  /\ pc[t] = "stopDetail"
  /\ LET exit == present[run[t]] /\ Exited(run[t]) IN
       Goto(t, CASE exit -> "showLabel"
                 [] ~exit /\ killErr[t] -> "unlabel"
                 [] ~exit /\ ~killErr[t] -> "stopRunDetail")
  /\ UNCHANGED <<nextId, coreVars, labelVars, timer, seen, overlap, grip>>

\* The kill failed: the label goes, whoever set it last.
Unlabel(t) ==
  /\ pc[t] = "unlabel"
  /\ exitLabel' = [exitLabel EXCEPT ![run[t]] = "none"]
  /\ Fail(t)
  /\ UNCHANGED <<nextId, coreVars, descLabel, timer, overlap, grip>>

\* The kill worked but the wait saw no exit: an error if the run is gone,
\* else a detail that may still say "running".
StopRunDetail(t) ==
  /\ pc[t] = "stopRunDetail"
  /\ \/ ~present[run[t]] /\ Fail(t)
     \/ /\ present[run[t]]
        /\ Goto(t, IF Exited(run[t]) THEN "showLabel" ELSE "snapshot")
        /\ UNCHANGED seen
  /\ UNCHANGED <<nextId, coreVars, labelVars, timer, overlap, grip>>

\* snapshot_pty_plain, the last call of a detached run, a stop, and an attach
\* to a run that had exited.
Snapshot(t) ==
  /\ pc[t] = "snapshot"
  /\ \/ ~present[run[t]] /\ Fail(t)
     \/ present[run[t]] /\ Reply(t, TRUE, seen[t])
  /\ UNCHANGED <<nextId, coreVars, labelVars, timer, overlap, grip>>

-----------------------------------------------------------------------------
(* remove: remove_run *)

RemoveRequest(t, r) ==
  /\ pc[t] = "idle" /\ "remove" \in Modes
  /\ \/ ~present[r] /\ Refuse(t, "remove")
     \/ /\ present[r]
        /\ Begin(t, "remove", r, IF Exited(r) THEN "drop" ELSE "removeKill")
        /\ UNCHANGED withInput
  /\ UNCHANGED <<nextId, coreVars, labelVars, timer, overlap, grip>>

RemoveKill(t) ==
  /\ pc[t] = "removeKill"
  /\ \/ /\ present[run[t]]
        /\ Kill(run[t], TRUE)
        /\ Goto(t, "removeWait") /\ UNCHANGED seen
     \/ Fail(t) /\ UNCHANGED killed      \* the run is gone, or the kill failed
  /\ UNCHANGED <<nextId, process, present, controller, labelVars, timer, overlap, grip>>

\* 500 ms at most: the run is dropped even if it has not exited by then.
RemoveWait(t) ==
  /\ pc[t] = "removeWait"
  /\ \/ ~present[run[t]] /\ Fail(t)
     \/ present[run[t]] /\ Goto(t, "drop") /\ UNCHANGED seen
  /\ UNCHANGED <<nextId, coreVars, labelVars, timer, overlap, grip>>

-----------------------------------------------------------------------------
(* attach: attach_input, attach, wait_attach_timeout *)

AttachRequest(t, r) ==
  /\ pc[t] = "idle" /\ "attach" \in Modes
  /\ \/ Refuse(t, "attach")              \* no such run, or no usable input
     \/ /\ present[r] /\ Exited(r)
        /\ Begin(t, "attach", r, "showLabel") /\ UNCHANGED withInput
     \/ /\ present[r] /\ ~Exited(r)
        /\ \E input \in BOOLEAN :
             /\ Begin(t, "attach", r, IF input THEN "force" ELSE "attachPoll")
             /\ withInput' = [withInput EXCEPT ![t] = input]
  /\ UNCHANGED <<nextId, coreVars, labelVars, timer, overlap, grip>>

\* Whose write or wait on r a change of controller can still disturb.
Holding(r) == {u \in Tasks : /\ withInput[u] /\ run[u] = r
                             /\ pc[u] \in {"write", "attachPoll"}}

\* force_controller("rec:<id>"): every attach to the run uses the same name.
ForceController(t) ==
  /\ pc[t] = "force"
  /\ \/ /\ ~present[run[t]] /\ Fail(t)
        /\ UNCHANGED <<controller, grip>>
     \/ /\ present[run[t]] /\ Goto(t, "write") /\ UNCHANGED seen
        /\ controller' = [controller EXCEPT ![run[t]] = "rec"]
        /\ grip' = [u \in Tasks |->
                      IF u = t THEN "held"
                      ELSE IF u \in Holding(run[t]) /\ grip[u] = "stolen"
                           THEN "retaken" ELSE grip[u]]
  /\ UNCHANGED <<nextId, process, killed, present, labelVars, timer, overlap>>

\* write_from_controller refuses a name that is not the controller's.
WriteInput(t) ==
  /\ pc[t] = "write"
  /\ \/ controller[run[t]] = "rec" /\ Goto(t, "attachPoll") /\ UNCHANGED seen
     \/ Fail(t)                          \* control lost, or the write failed
  /\ UNCHANGED <<nextId, coreVars, labelVars, timer, overlap, grip>>

\* The last iteration of the wait: control lost, the run gone, or its exit or
\* the deadline.  Earlier iterations change nothing.
AttachPoll(t) ==
  /\ pc[t] = "attachPoll"
  /\ LET lost == withInput[t] /\ controller[run[t]] # "rec" IN
       \/ (~present[run[t]] \/ lost) /\ Fail(t)
       \/ /\ present[run[t]] /\ ~lost
          /\ Goto(t, "attachSnapshot") /\ UNCHANGED seen
  /\ UNCHANGED <<nextId, coreVars, labelVars, timer, overlap, grip>>

AttachSnapshot(t) ==
  /\ pc[t] = "attachSnapshot"
  /\ \/ ~present[run[t]] /\ Fail(t)
     \/ present[run[t]] /\ Goto(t, "attachDetail") /\ UNCHANGED seen
  /\ UNCHANGED <<nextId, coreVars, labelVars, timer, overlap, grip>>

AttachDetail(t) ==
  /\ pc[t] = "attachDetail"
  /\ \/ ~present[run[t]] /\ Fail(t)
     \/ /\ present[run[t]]
        /\ Goto(t, IF Exited(run[t]) THEN "attachLabel" ELSE "rawPretty")
        /\ UNCHANGED seen
  /\ UNCHANGED <<nextId, coreVars, labelVars, timer, overlap, grip>>

\* add_raw_pretty takes another snapshot when the request asks for it.
AttachReply(t) ==
  /\ pc[t] = "rawPretty"
  /\ \/ Reply(t, TRUE, seen[t])
     \/ ~present[run[t]] /\ Fail(t)
  /\ UNCHANGED <<nextId, coreVars, labelVars, timer, overlap, grip>>

-----------------------------------------------------------------------------
(* list: list_run_details *)

ListRequest(t) ==
  /\ pc[t] = "idle" /\ "list" \in Modes
  /\ \E filter \in {Runs} \cup {{r} : r \in Runs} :
       todo' = [todo EXCEPT ![t] = {r \in filter : present[r]}]
  /\ pc' = [pc EXCEPT ![t] = "listItem"]
  /\ mode' = [mode EXCEPT ![t] = "list"]
  /\ answer' = [answer EXCEPT ![t] = NoAnswer]
  /\ UNCHANGED <<run, seen, killErr, withInput>>
  /\ UNCHANGED <<nextId, coreVars, labelVars, timer, overlap, grip>>

\* The names were taken under one lock, each detail under another: a run
\* removed in between fails the whole list.
ListItem(t) ==
  /\ pc[t] = "listItem"
  /\ \/ todo[t] = {} /\ Reply(t, TRUE, "none")
     \/ \E r \in todo[t] : ~present[r] /\ Fail(t)
     \/ \E r \in todo[t] :
          /\ present[r]
          /\ pc' = [pc EXCEPT ![t] = IF Exited(r) THEN "listLabel" ELSE @]
          /\ run' = [run EXCEPT ![t] = r]
          /\ seen' = [seen EXCEPT ![t] = "none"]
          /\ todo' = [todo EXCEPT ![t] = @ \ {r}]
          /\ UNCHANGED <<mode, killErr, withInput, answer>>
  /\ UNCHANGED <<nextId, coreVars, labelVars, timer, overlap, grip>>

-----------------------------------------------------------------------------
(* The timer task, the process and the other users of the PTY *)

\* spawn_timeout wakes up: nothing to do for a run that exited or is gone.
TimerFires(r) ==
  /\ timer[r] = "armed"
  /\ timer' = [timer EXCEPT ![r] =
                 IF present[r] /\ ~Exited(r) THEN "label" ELSE "done"]
  /\ UNCHANGED <<nextId, coreVars, labelVars, taskVars, overlap, grip>>

TimerLabels(r) ==
  /\ timer[r] = "label"
  /\ exitLabel' = [exitLabel EXCEPT ![r] = "timeout"]
  /\ timer' = [timer EXCEPT ![r] = "kill"]
  /\ UNCHANGED <<nextId, coreVars, descLabel, taskVars, overlap, grip>>

\* The result of the kill is discarded.
TimerKills(r) ==
  /\ timer[r] = "kill"
  /\ \E ok \in BOOLEAN :
       /\ Kill(r, ok)
       /\ timer' = [timer EXCEPT ![r] = IF ok THEN "done" ELSE "killFailed"]
  /\ UNCHANGED <<nextId, process, present, controller, labelVars, taskVars, overlap, grip>>

Timer(r) == TimerFires(r) \/ TimerLabels(r) \/ TimerKills(r)

\* The process ends, by itself or by a kill.
ProcessExit(r) ==
  /\ process[r] = "running"
  /\ process' = [process EXCEPT ![r] = "exited"]
  /\ UNCHANGED <<nextId, killed, present, controller, labelVars, timer, taskVars,
                 overlap, grip>>

\* A PTY client requests control of the run's terminal and gets it.
TakeControl(r) ==
  /\ present[r] /\ "attach" \in Modes
  /\ controller' = [controller EXCEPT ![r] = "client"]
  /\ grip' = [t \in Tasks |-> IF t \in Holding(r) THEN "stolen" ELSE grip[t]]
  /\ UNCHANGED <<nextId, process, killed, present, labelVars, timer, taskVars, overlap>>

-----------------------------------------------------------------------------

Request(t) == \/ RejectRun(t) \/ StartJob(t) \/ ListRequest(t)
              \/ \E r \in Runs : \/ StopRequest(t, r) \/ RemoveRequest(t, r)
                                 \/ AttachRequest(t, r)

RunStep(t) == \/ SetDescription(t) \/ PollExit(t) \/ ReadTimeout(t)
              \/ FinishDetail(t) \/ Detach(t) \/ ReadLabel(t)
              \/ Drop(t) \/ ClearExitLabel(t) \/ ClearDescription(t)

StopStep(t) == \/ StopLabel(t) \/ StopKill(t) \/ StopWait(t) \/ StopDetail(t)
               \/ Unlabel(t) \/ StopRunDetail(t) \/ Snapshot(t)

AttachStep(t) == \/ ForceController(t) \/ WriteInput(t) \/ AttachPoll(t)
                 \/ AttachSnapshot(t) \/ AttachDetail(t) \/ AttachReply(t)

HandlerStep(t) == \/ RunStep(t) \/ StopStep(t) \/ AttachStep(t)
                  \/ RemoveKill(t) \/ RemoveWait(t) \/ ListItem(t)

Next == \/ \E t \in Tasks : Request(t) \/ HandlerStep(t)
        \/ \E r \in Runs : Timer(r) \/ ProcessExit(r) \/ TakeControl(r)

Spec == Init /\ [][Next]_vars

\* The runtime polls every ready task; a signalled process dies.
FairSpec == /\ Spec
            /\ \A t \in Tasks : WF_vars(HandlerStep(t))
            /\ \A r \in Runs : WF_vars(Timer(r))
            /\ \A r \in Runs : WF_vars(killed[r] /\ ProcessExit(r))

-----------------------------------------------------------------------------
(* Properties *)

\* The shared state: ids, the PTY core, the label maps and the timers.
CoreTypeOK ==
  /\ nextId \in 1..(MaxRuns + 1)
  /\ process \in [Runs -> {"unborn", "running", "exited"}]
  /\ killed \in [Runs -> BOOLEAN]
  /\ present \in [Runs -> BOOLEAN]
  /\ controller \in [Runs -> {"nobody", "rec", "client"}]
  /\ exitLabel \in [Runs -> Labels]
  /\ descLabel \in [Runs -> BOOLEAN]
  /\ timer \in [Runs -> {"off", "armed", "label", "kill", "done", "killFailed"}]
  /\ overlap \in [Runs -> SUBSET {"exit", "desc"}]
  /\ grip \in [Tasks -> {"held", "stolen", "retaken"}]

\* The handlers' locals.
TaskTypeOK ==
  /\ pc \in [Tasks -> Control]
  /\ mode \in [Tasks -> AllModes \cup {"none", "detached"}]
  /\ run \in [Tasks -> Runs \cup {NoRun}]
  /\ seen \in [Tasks -> Shown]
  /\ killErr \in [Tasks -> BOOLEAN]
  /\ withInput \in [Tasks -> BOOLEAN]
  /\ todo \in [Tasks -> SUBSET Runs]
  /\ answer \in [Tasks -> Answers]

\* Every variable keeps its type, and a handler at work on a run has one.
TypeOK == /\ CoreTypeOK /\ TaskTypeOK
          /\ \A t \in Tasks : pc[t] \notin {"idle", "listItem"} => run[t] \in Runs

Started(r) == process[r] # "unborn"
Dropped(r) == Started(r) /\ ~present[r]

\* An exit code is shown only for a process that has exited: the label stop
\* and the timer set before they kill is never taken for an exit.
NoPrematureExit ==
  \A t \in Tasks :
    /\ seen[t] # "none" => run[t] \in Runs /\ Exited(run[t])
    /\ answer[t].exit # "none" => answer[t].run \in Runs /\ Exited(answer[t].run)

\* A run is forgotten only when its process has exited or was killed: no
\* handler can drop a session and leave its process running unattended.
NoOrphan == \A r \in Runs : Dropped(r) => Exited(r) \/ killed[r]

\* After the clears of remove_run or run_command, a label of a forgotten run
\* is left only if a stop, the timer or start_job was between its lookup of
\* the session and its label when the session went.
LabelsCleared ==
  \A r \in Runs : Dropped(r) =>
    /\ exitLabel[r] # "none" =>
         \/ "exit" \in overlap[r]
         \/ \E t \in Tasks : run[t] = r /\ pc[t] = "clearExit"
    /\ descLabel[r] =>
         \/ "desc" \in overlap[r]
         \/ \E t \in Tasks : run[t] = r /\ pc[t] \in {"clearExit", "clearDesc"}

\* A completed (not detached) run answer leaves no session: the next list
\* does not show it and the process is gone.
CompletedIsGone ==
  \A t \in Tasks : answer[t].mode = "run" /\ answer[t].ok =>
    answer[t].run \in Runs /\ ~present[answer[t].run] /\ Exited(answer[t].run)

\* An attach whose control was taken while it wrote or waited goes on to
\* answer only if another attach to the same run forced the control back.
LossNoticed ==
  \A t \in Tasks :
    withInput[t] /\ pc[t] \in {"attachSnapshot", "attachDetail", "attachLabel", "rawPretty"}
      => grip[t] # "stolen"

\* exbash/README.md: "Stops a run and returns the stopped snapshot"; the test
\* exbash_mode_stop_sets_exit_code_to_stopped expects exitCode "stopped".
StopShowsStopped ==
  \A t \in Tasks : answer[t].mode = "stop" /\ answer[t].ok => answer[t].exit = "stopped"

\* Every request is answered: no wait is unbounded, whatever the process,
\* the other requests and the kills do.
EveryRequestAnswered == \A t \in Tasks : (pc[t] # "idle") ~> (pc[t] = "idle")

\* A run with a total timeout does not run for ever, unless the kill of its
\* timer failed.
TimeoutEnforced ==
  \A r \in Runs : (timer[r] = "armed") ~> (Exited(r) \/ timer[r] = "killFailed")

-----------------------------------------------------------------------------
(* Why the invariants hold: what each control point knows.  The runs check   *)
(* these conjuncts and ExbashRun_proofs shows them inductive.                *)

\* A run that was not started is untouched; every run a handler names was.
Fresh ==
  /\ \A r \in Runs :
       /\ r >= nextId <=> process[r] = "unborn"
       /\ process[r] = "unborn" =>
            /\ ~killed[r] /\ ~present[r] /\ exitLabel[r] = "none" /\ ~descLabel[r]
            /\ timer[r] = "off"
  /\ \A t \in Tasks : /\ run[t] # NoRun => Started(run[t])
                      /\ \A r \in todo[t] : Started(r)

\* Only an exit leads to the steps that show one or drop a completed run.
ExitKnown ==
  \A t \in Tasks :
    /\ pc[t] = "idle" => seen[t] = "none"
    /\ pc[t] \in LabelSteps \cup {"finish"} => Exited(run[t])
    /\ mode[t] = "run" /\ pc[t] \in {"drop", "clearExit", "clearDesc"} => Exited(run[t])

\* Only an exit or a kill leads to a drop.
DropKnown ==
  \A t \in Tasks : pc[t] \in {"removeWait", "drop", "clearExit", "clearDesc"} =>
    Exited(run[t]) \/ killed[run[t]]

\* After the drop the session is gone; a run handler is in a step of run.
GoneKnown ==
  \A t \in Tasks :
    /\ pc[t] \in {"clearExit", "clearDesc"} => ~present[run[t]]
    /\ mode[t] = "run" => pc[t] \in {"describe", "poll", "finish", "finishLabel",
                                     "drop", "clearExit", "clearDesc"}

\* A label still to come for a dropped run is in overlap.
OverlapKnown ==
  /\ \A r \in Runs : Dropped(r) /\ timer[r] = "label" => "exit" \in overlap[r]
  /\ \A t \in Tasks :
       /\ pc[t] = "stopLabel" /\ Dropped(run[t]) => "exit" \in overlap[run[t]]
       /\ pc[t] = "describe" /\ Dropped(run[t]) => "desc" \in overlap[run[t]]

\* A stolen control is a client's until somebody forces it back.
GripKnown ==
  \A t \in Tasks :
    /\ withInput[t] /\ pc[t] \in {"write", "attachPoll"} /\ grip[t] = "stolen"
         => controller[run[t]] = "client"

RunInv == Fresh /\ ExitKnown /\ DropKnown /\ GoneKnown /\ OverlapKnown /\ GripKnown

\* The life of a run, as RunLifecycle promises it.
Phase(r) == CASE process[r] = "unborn" -> "unborn"
              [] Dropped(r) -> "forgotten"
              [] present[r] /\ Exited(r) -> "exited"
              [] present[r] /\ process[r] = "running" /\ killed[r] -> "doomed"
              [] present[r] /\ process[r] = "running" /\ ~killed[r] -> "running"

Lifecycle == INSTANCE RunLifecycle WITH phase <- [r \in Runs |-> Phase(r)]

\* Every step of the tool is a step of the abstract life cycle or none of it.
ImplementsLifecycle == Lifecycle!FairSpec
=============================================================================
