--------------------------- MODULE ExbashRun_proofs ---------------------------
(***************************************************************************)
(* Proofs about ExbashRun, for any number of runs and handlers.            *)
(***************************************************************************)
EXTENDS ExbashRun, TLAPS

Busy == Control \ {"idle", "listItem"}
TaskRuns == \A t \in Tasks : pc[t] \in Busy => run[t] \in Runs

\* What the two ways to leave a step do to the handlers' locals.
LEMMA GotoType ==
  ASSUME TaskTypeOK, TaskRuns, NEW t \in Tasks, NEW step \in Control, run[t] \in Runs,
         seen' \in [Tasks -> Shown], Goto(t, step)
  PROVE  TaskTypeOK' /\ TaskRuns'
BY DEF TaskTypeOK, TaskRuns, Goto, Busy, Control

LEMMA ReplyType ==
  ASSUME TaskTypeOK, TaskRuns, NEW t \in Tasks, NEW ok \in BOOLEAN, NEW exit \in Shown,
         Reply(t, ok, exit)
  PROVE  TaskTypeOK' /\ TaskRuns'
<1>1. [mode |-> mode[t], run |-> run[t], ok |-> ok, exit |-> exit] \in Answers
  BY DEF TaskTypeOK, Answers
<1>2. answer' \in [Tasks -> Answers]
  BY <1>1 DEF TaskTypeOK, Reply
<1>3. "none" \in Shown /\ "idle" \in Control
  BY DEF Shown, Labels, Control
<1>4. QED
  BY <1>2, <1>3 DEF TaskTypeOK, TaskRuns, Reply, Busy

LEMMA BeginType ==
  ASSUME TaskTypeOK, TaskRuns, NEW t \in Tasks, NEW m \in AllModes, NEW r \in Runs,
         NEW step \in Busy, withInput' \in [Tasks -> BOOLEAN], Begin(t, m, r, step)
  PROVE  TaskTypeOK' /\ TaskRuns'
<1>1. NoAnswer \in Answers
  BY DEF NoAnswer, Answers, Shown, Labels
<1>2. QED
  BY <1>1 DEF TaskTypeOK, TaskRuns, Begin, Busy

LEMMA RefuseType ==
  ASSUME TaskTypeOK, TaskRuns, NEW t \in Tasks, NEW m \in AllModes, Refuse(t, m)
  PROVE  TaskTypeOK' /\ TaskRuns'
<1>1. [mode |-> m, run |-> NoRun, ok |-> FALSE, exit |-> "none"] \in Answers
  BY DEF Answers, Shown, Labels
<1>2. QED
  BY <1>1 DEF TaskTypeOK, TaskRuns, Refuse


LEMMA CoreStep == TypeOK /\ [Next]_vars => CoreTypeOK'
<1> SUFFICES ASSUME TypeOK, [Next]_vars PROVE CoreTypeOK'
  OBVIOUS
<1> USE DEF TypeOK, CoreTypeOK, vars, coreVars, labelVars
<1>1. ASSUME NEW t \in Tasks, RejectRun(t) PROVE CoreTypeOK'
  BY <1>1 DEF RejectRun
<1>2. ASSUME NEW t \in Tasks, StartJob(t) PROVE CoreTypeOK'
  BY <1>2, RunAssumption DEF StartJob, Runs
<1>3. ASSUME NEW t \in Tasks, ListRequest(t) PROVE CoreTypeOK'
  BY <1>3 DEF ListRequest
<1>4. ASSUME NEW t \in Tasks, SetDescription(t) PROVE CoreTypeOK'
  BY <1>4 DEF SetDescription
<1>5. ASSUME NEW t \in Tasks, PollExit(t) PROVE CoreTypeOK'
  BY <1>5 DEF PollExit
<1>6. ASSUME NEW t \in Tasks, ReadTimeout(t) PROVE CoreTypeOK'
  BY <1>6 DEF ReadTimeout
<1>7. ASSUME NEW t \in Tasks, FinishDetail(t) PROVE CoreTypeOK'
  BY <1>7 DEF FinishDetail
<1>8. ASSUME NEW t \in Tasks, Detach(t) PROVE CoreTypeOK'
  BY <1>8 DEF Detach
<1>9. ASSUME NEW t \in Tasks, ReadLabel(t) PROVE CoreTypeOK'
  BY <1>9 DEF ReadLabel
<1>10. ASSUME NEW t \in Tasks, Drop(t) PROVE CoreTypeOK'
  BY <1>10 DEF Drop
<1>11. ASSUME NEW t \in Tasks, ClearExitLabel(t) PROVE CoreTypeOK'
  BY <1>11 DEF ClearExitLabel, Labels
<1>12. ASSUME NEW t \in Tasks, ClearDescription(t) PROVE CoreTypeOK'
  BY <1>12 DEF ClearDescription
<1>13. ASSUME NEW t \in Tasks, StopLabel(t) PROVE CoreTypeOK'
  BY <1>13 DEF StopLabel, Labels
<1>14. ASSUME NEW t \in Tasks, StopKill(t) PROVE CoreTypeOK'
  BY <1>14 DEF StopKill, Kill
<1>15. ASSUME NEW t \in Tasks, StopWait(t) PROVE CoreTypeOK'
  BY <1>15 DEF StopWait
<1>16. ASSUME NEW t \in Tasks, StopDetail(t) PROVE CoreTypeOK'
  BY <1>16 DEF StopDetail
<1>17. ASSUME NEW t \in Tasks, Unlabel(t) PROVE CoreTypeOK'
  BY <1>17 DEF Unlabel, Labels
<1>18. ASSUME NEW t \in Tasks, StopRunDetail(t) PROVE CoreTypeOK'
  BY <1>18 DEF StopRunDetail
<1>19. ASSUME NEW t \in Tasks, Snapshot(t) PROVE CoreTypeOK'
  BY <1>19 DEF Snapshot
<1>20. ASSUME NEW t \in Tasks, ForceController(t) PROVE CoreTypeOK'
  BY <1>20 DEF ForceController
<1>21. ASSUME NEW t \in Tasks, WriteInput(t) PROVE CoreTypeOK'
  BY <1>21 DEF WriteInput
<1>22. ASSUME NEW t \in Tasks, AttachPoll(t) PROVE CoreTypeOK'
  BY <1>22 DEF AttachPoll
<1>23. ASSUME NEW t \in Tasks, AttachSnapshot(t) PROVE CoreTypeOK'
  BY <1>23 DEF AttachSnapshot
<1>24. ASSUME NEW t \in Tasks, AttachDetail(t) PROVE CoreTypeOK'
  BY <1>24 DEF AttachDetail
<1>25. ASSUME NEW t \in Tasks, AttachReply(t) PROVE CoreTypeOK'
  BY <1>25 DEF AttachReply
<1>26. ASSUME NEW t \in Tasks, RemoveKill(t) PROVE CoreTypeOK'
  BY <1>26 DEF RemoveKill, Kill
<1>27. ASSUME NEW t \in Tasks, RemoveWait(t) PROVE CoreTypeOK'
  BY <1>27 DEF RemoveWait
<1>28. ASSUME NEW t \in Tasks, ListItem(t) PROVE CoreTypeOK'
  BY <1>28 DEF ListItem
<1>29. ASSUME NEW t \in Tasks, NEW r \in Runs, StopRequest(t, r) PROVE CoreTypeOK'
  BY <1>29 DEF StopRequest
<1>30. ASSUME NEW t \in Tasks, NEW r \in Runs, RemoveRequest(t, r) PROVE CoreTypeOK'
  BY <1>30 DEF RemoveRequest
<1>31. ASSUME NEW t \in Tasks, NEW r \in Runs, AttachRequest(t, r) PROVE CoreTypeOK'
  BY <1>31 DEF AttachRequest
<1>32. ASSUME NEW r \in Runs, TimerFires(r) PROVE CoreTypeOK'
  BY <1>32 DEF TimerFires
<1>33. ASSUME NEW r \in Runs, TimerLabels(r) PROVE CoreTypeOK'
  BY <1>33 DEF TimerLabels, Labels
<1>34. ASSUME NEW r \in Runs, TimerKills(r) PROVE CoreTypeOK'
  BY <1>34 DEF TimerKills, Kill
<1>35. ASSUME NEW r \in Runs, ProcessExit(r) PROVE CoreTypeOK'
  BY <1>35 DEF ProcessExit
<1>36. ASSUME NEW r \in Runs, TakeControl(r) PROVE CoreTypeOK'
  BY <1>36 DEF TakeControl
<1>37. CASE UNCHANGED vars
  BY <1>37
<1>38. QED
  BY <1>1, <1>2, <1>3, <1>4, <1>5, <1>6, <1>7, <1>8, <1>9, <1>10, <1>11, <1>12, <1>13, <1>14, <1>15, <1>16, <1>17, <1>18, <1>19, <1>20, <1>21, <1>22, <1>23, <1>24, <1>25, <1>26, <1>27, <1>28, <1>29, <1>30, <1>31, <1>32, <1>33, <1>34, <1>35, <1>36, <1>37 DEF Next, Request, HandlerStep, RunStep, StopStep, AttachStep, Timer

LEMMA TaskStep == TypeOK /\ [Next]_vars => TaskTypeOK' /\ TaskRuns'
<1> SUFFICES ASSUME TypeOK, [Next]_vars PROVE TaskTypeOK' /\ TaskRuns'
  OBVIOUS
<1>0. TaskTypeOK /\ TaskRuns
  BY DEF TypeOK, TaskRuns, Busy
<1> USE <1>0, GotoType, ReplyType, BeginType, RefuseType DEF Fail
<1>1. ASSUME NEW t \in Tasks, RejectRun(t) PROVE TaskTypeOK' /\ TaskRuns'
  BY <1>1 DEF RejectRun, Busy, Control, TaskTypeOK, TaskRuns, AllModes, Shown, Labels
<1>2. ASSUME NEW t \in Tasks, StartJob(t) PROVE TaskTypeOK' /\ TaskRuns'
  BY <1>2 DEF StartJob, Busy, Control, TaskTypeOK, TaskRuns, AllModes, Shown, Labels
<1>3. ASSUME NEW t \in Tasks, ListRequest(t) PROVE TaskTypeOK' /\ TaskRuns'
  <2> PICK filter \in {Runs} \cup {{r} : r \in Runs} :
             todo' = [todo EXCEPT ![t] = {r \in filter : present[r]}]
    BY <1>3 DEF ListRequest
  <2>0. filter \subseteq Runs
    OBVIOUS
  <2>1. {r \in filter : present[r]} \in SUBSET Runs
    BY <2>0
  <2>2. NoAnswer \in Answers /\ "listItem" \in Control
    BY DEF NoAnswer, Answers, Shown, Labels, Control
  <2>3. TaskTypeOK'
    BY <1>3, <2>1, <2>2 DEF ListRequest, TaskTypeOK, AllModes
  <2>4. TaskRuns'
    BY <1>3, <2>1 DEF ListRequest, TaskTypeOK, TaskRuns, Busy
  <2>5. QED
    BY <2>3, <2>4
<1>4. ASSUME NEW t \in Tasks, SetDescription(t) PROVE TaskTypeOK' /\ TaskRuns'
  BY <1>4 DEF SetDescription, Busy, Control, TaskTypeOK, TaskRuns, AllModes, Shown, Labels
<1>5. ASSUME NEW t \in Tasks, PollExit(t) PROVE TaskTypeOK' /\ TaskRuns'
  BY <1>5 DEF PollExit, Busy, Control, TaskTypeOK, TaskRuns, AllModes, Shown, Labels
<1>6. ASSUME NEW t \in Tasks, ReadTimeout(t) PROVE TaskTypeOK' /\ TaskRuns'
  BY <1>6 DEF ReadTimeout, Busy, Control, TaskTypeOK, TaskRuns, AllModes, Shown, Labels
<1>7. ASSUME NEW t \in Tasks, FinishDetail(t) PROVE TaskTypeOK' /\ TaskRuns'
  BY <1>7 DEF FinishDetail, Busy, Control, TaskTypeOK, TaskRuns, AllModes, Shown, Labels
<1>8. ASSUME NEW t \in Tasks, Detach(t) PROVE TaskTypeOK' /\ TaskRuns'
  BY <1>8 DEF Detach, Busy, Control, TaskTypeOK, TaskRuns, AllModes, Shown, Labels
<1>9. ASSUME NEW t \in Tasks, ReadLabel(t) PROVE TaskTypeOK' /\ TaskRuns'
  <2>0. \A s \in LabelSteps : s \in Busy /\ AfterLabel(s) \in Control
    BY DEF LabelSteps, AfterLabel, Busy, Control
  <2>1. pc[t] \in Busy /\ AfterLabel(pc[t]) \in Control
    BY <1>9, <2>0 DEF ReadLabel
  <2>2. seen' \in [Tasks -> Shown]
    <3>1. Display(run[t]) \in Shown
      BY <2>1 DEF Display, TypeOK, CoreTypeOK, TaskRuns, Shown
    <3>2. QED
      BY <1>9, <3>1 DEF ReadLabel, TaskTypeOK
  <2>3. QED
    BY <1>9, <2>1, <2>2 DEF ReadLabel, TaskRuns
<1>10. ASSUME NEW t \in Tasks, Drop(t) PROVE TaskTypeOK' /\ TaskRuns'
  BY <1>10 DEF Drop, Busy, Control, TaskTypeOK, TaskRuns, AllModes, Shown, Labels
<1>11. ASSUME NEW t \in Tasks, ClearExitLabel(t) PROVE TaskTypeOK' /\ TaskRuns'
  BY <1>11 DEF ClearExitLabel, Busy, Control, TaskTypeOK, TaskRuns, AllModes, Shown, Labels
<1>12. ASSUME NEW t \in Tasks, ClearDescription(t) PROVE TaskTypeOK' /\ TaskRuns'
  BY <1>12 DEF ClearDescription, Busy, Control, TaskTypeOK, TaskRuns, AllModes, Shown, Labels
<1>13. ASSUME NEW t \in Tasks, StopLabel(t) PROVE TaskTypeOK' /\ TaskRuns'
  BY <1>13 DEF StopLabel, Busy, Control, TaskTypeOK, TaskRuns, AllModes, Shown, Labels
<1>14. ASSUME NEW t \in Tasks, StopKill(t) PROVE TaskTypeOK' /\ TaskRuns'
  BY <1>14 DEF StopKill, Busy, Control, TaskTypeOK, TaskRuns, AllModes, Shown, Labels
<1>15. ASSUME NEW t \in Tasks, StopWait(t) PROVE TaskTypeOK' /\ TaskRuns'
  BY <1>15 DEF StopWait, Busy, Control, TaskTypeOK, TaskRuns, AllModes, Shown, Labels
<1>16. ASSUME NEW t \in Tasks, StopDetail(t) PROVE TaskTypeOK' /\ TaskRuns'
  BY <1>16 DEF StopDetail, Busy, Control, TaskTypeOK, TaskRuns, AllModes, Shown, Labels
<1>17. ASSUME NEW t \in Tasks, Unlabel(t) PROVE TaskTypeOK' /\ TaskRuns'
  BY <1>17 DEF Unlabel, Busy, Control, TaskTypeOK, TaskRuns, AllModes, Shown, Labels
<1>18. ASSUME NEW t \in Tasks, StopRunDetail(t) PROVE TaskTypeOK' /\ TaskRuns'
  BY <1>18 DEF StopRunDetail, Busy, Control, TaskTypeOK, TaskRuns, AllModes, Shown, Labels
<1>19. ASSUME NEW t \in Tasks, Snapshot(t) PROVE TaskTypeOK' /\ TaskRuns'
  BY <1>19 DEF Snapshot, Busy, Control, TaskTypeOK, TaskRuns, AllModes, Shown, Labels
<1>20. ASSUME NEW t \in Tasks, ForceController(t) PROVE TaskTypeOK' /\ TaskRuns'
  BY <1>20 DEF ForceController, Busy, Control, TaskTypeOK, TaskRuns, AllModes, Shown, Labels
<1>21. ASSUME NEW t \in Tasks, WriteInput(t) PROVE TaskTypeOK' /\ TaskRuns'
  BY <1>21 DEF WriteInput, Busy, Control, TaskTypeOK, TaskRuns, AllModes, Shown, Labels
<1>22. ASSUME NEW t \in Tasks, AttachPoll(t) PROVE TaskTypeOK' /\ TaskRuns'
  BY <1>22 DEF AttachPoll, Busy, Control, TaskTypeOK, TaskRuns, AllModes, Shown, Labels
<1>23. ASSUME NEW t \in Tasks, AttachSnapshot(t) PROVE TaskTypeOK' /\ TaskRuns'
  BY <1>23 DEF AttachSnapshot, Busy, Control, TaskTypeOK, TaskRuns, AllModes, Shown, Labels
<1>24. ASSUME NEW t \in Tasks, AttachDetail(t) PROVE TaskTypeOK' /\ TaskRuns'
  BY <1>24 DEF AttachDetail, Busy, Control, TaskTypeOK, TaskRuns, AllModes, Shown, Labels
<1>25. ASSUME NEW t \in Tasks, AttachReply(t) PROVE TaskTypeOK' /\ TaskRuns'
  BY <1>25 DEF AttachReply, Busy, Control, TaskTypeOK, TaskRuns, AllModes, Shown, Labels
<1>26. ASSUME NEW t \in Tasks, RemoveKill(t) PROVE TaskTypeOK' /\ TaskRuns'
  BY <1>26 DEF RemoveKill, Busy, Control, TaskTypeOK, TaskRuns, AllModes, Shown, Labels
<1>27. ASSUME NEW t \in Tasks, RemoveWait(t) PROVE TaskTypeOK' /\ TaskRuns'
  BY <1>27 DEF RemoveWait, Busy, Control, TaskTypeOK, TaskRuns, AllModes, Shown, Labels
<1>28. ASSUME NEW t \in Tasks, ListItem(t) PROVE TaskTypeOK' /\ TaskRuns'
  <2>1. CASE Reply(t, TRUE, "none") \/ Reply(t, FALSE, "none")
    BY <2>1 DEF Shown, Labels
  <2>2. CASE \E r \in todo[t] :
          /\ pc' = [pc EXCEPT ![t] = IF Exited(r) THEN "listLabel" ELSE @]
          /\ run' = [run EXCEPT ![t] = r]
          /\ seen' = [seen EXCEPT ![t] = "none"]
          /\ todo' = [todo EXCEPT ![t] = @ \ {r}]
          /\ UNCHANGED <<mode, killErr, withInput, answer>>
    <3> PICK r \in todo[t] :
          /\ pc' = [pc EXCEPT ![t] = IF Exited(r) THEN "listLabel" ELSE @]
          /\ run' = [run EXCEPT ![t] = r]
          /\ seen' = [seen EXCEPT ![t] = "none"]
          /\ todo' = [todo EXCEPT ![t] = @ \ {r}]
          /\ UNCHANGED <<mode, killErr, withInput, answer>>
      BY <2>2
    <3>1. r \in Runs /\ todo[t] \ {r} \in SUBSET Runs
      BY DEF TaskTypeOK
    <3>2. "listLabel" \in Control /\ "none" \in Shown
      BY DEF Control, Shown, Labels
    <3>3. TaskTypeOK'
      BY <3>1, <3>2 DEF TaskTypeOK
    <3>4. TaskRuns'
      BY <3>1 DEF TaskTypeOK, TaskRuns
    <3>5. QED
      BY <3>3, <3>4
  <2>3. QED
    BY <1>28, <2>1, <2>2 DEF ListItem
<1>29. ASSUME NEW t \in Tasks, NEW r \in Runs, StopRequest(t, r) PROVE TaskTypeOK' /\ TaskRuns'
  <2>1. "stop" \in AllModes /\ "stopLabel" \in Busy
    BY DEF AllModes, Busy, Control
  <2>2. CASE Refuse(t, "stop")
    BY <2>1, <2>2
  <2>3. CASE Begin(t, "stop", r, "stopLabel") /\ UNCHANGED withInput
    BY <2>1, <2>3 DEF TaskTypeOK
  <2>4. QED
    BY <1>29, <2>2, <2>3 DEF StopRequest
<1>30. ASSUME NEW t \in Tasks, NEW r \in Runs, RemoveRequest(t, r) PROVE TaskTypeOK' /\ TaskRuns'
  <2>1. "remove" \in AllModes /\ (IF Exited(r) THEN "drop" ELSE "removeKill") \in Busy
    BY DEF AllModes, Busy, Control
  <2>2. CASE Refuse(t, "remove")
    BY <2>1, <2>2
  <2>3. CASE Begin(t, "remove", r, IF Exited(r) THEN "drop" ELSE "removeKill") /\ UNCHANGED withInput
    BY <2>1, <2>3 DEF TaskTypeOK
  <2>4. QED
    BY <1>30, <2>2, <2>3 DEF RemoveRequest
<1>31. ASSUME NEW t \in Tasks, NEW r \in Runs, AttachRequest(t, r) PROVE TaskTypeOK' /\ TaskRuns'
  <2>1. "attach" \in AllModes /\ {"force", "attachPoll", "showLabel"} \subseteq Busy
    BY DEF AllModes, Busy, Control
  <2>2. CASE Refuse(t, "attach")
    BY <2>1, <2>2
  <2>3. CASE Begin(t, "attach", r, "showLabel") /\ UNCHANGED withInput
    BY <2>1, <2>3 DEF TaskTypeOK
  <2>4. ASSUME NEW input \in BOOLEAN,
               Begin(t, "attach", r, IF input THEN "force" ELSE "attachPoll"),
               withInput' = [withInput EXCEPT ![t] = input]
        PROVE  TaskTypeOK' /\ TaskRuns'
    <3>1. (IF input THEN "force" ELSE "attachPoll") \in Busy
      BY <2>1
    <3>2. withInput' \in [Tasks -> BOOLEAN]
      BY <2>4 DEF TaskTypeOK
    <3>3. QED
      BY <2>1, <2>4, <3>1, <3>2
  <2>5. QED
    BY <1>31, <2>2, <2>3, <2>4 DEF AttachRequest
<1>32. ASSUME NEW r \in Runs, TimerFires(r) PROVE TaskTypeOK' /\ TaskRuns'
  BY <1>32 DEF TimerFires, taskVars, TaskTypeOK, TaskRuns
<1>33. ASSUME NEW r \in Runs, TimerLabels(r) PROVE TaskTypeOK' /\ TaskRuns'
  BY <1>33 DEF TimerLabels, taskVars, TaskTypeOK, TaskRuns
<1>34. ASSUME NEW r \in Runs, TimerKills(r) PROVE TaskTypeOK' /\ TaskRuns'
  BY <1>34 DEF TimerKills, taskVars, TaskTypeOK, TaskRuns
<1>35. ASSUME NEW r \in Runs, ProcessExit(r) PROVE TaskTypeOK' /\ TaskRuns'
  BY <1>35 DEF ProcessExit, taskVars, TaskTypeOK, TaskRuns
<1>36. ASSUME NEW r \in Runs, TakeControl(r) PROVE TaskTypeOK' /\ TaskRuns'
  BY <1>36 DEF TakeControl, taskVars, TaskTypeOK, TaskRuns
<1>37. CASE UNCHANGED vars
  BY <1>37 DEF vars, taskVars, TaskTypeOK, TaskRuns
<1>38. QED
  BY <1>1, <1>2, <1>3, <1>4, <1>5, <1>6, <1>7, <1>8, <1>9, <1>10, <1>11, <1>12, <1>13, <1>14, <1>15, <1>16, <1>17, <1>18, <1>19, <1>20, <1>21, <1>22, <1>23, <1>24, <1>25, <1>26, <1>27, <1>28, <1>29, <1>30, <1>31, <1>32, <1>33, <1>34, <1>35, <1>36, <1>37 DEF Next, Request, HandlerStep, RunStep, StopStep, AttachStep, Timer

THEOREM TypeCorrect == Spec => []TypeOK
<1>1. Init => TypeOK
  <2>1. NoAnswer \in Answers
    BY DEF NoAnswer, Answers, Shown, Labels
  <2>2. QED
    BY <2>1, RunAssumption DEF Init, TypeOK, CoreTypeOK, TaskTypeOK, Runs, Labels, Shown, Control
<1>2. TypeOK /\ [Next]_vars => TypeOK'
  <2>1. CoreTypeOK' /\ TaskTypeOK' /\ TaskRuns' => TypeOK'
    BY DEF TypeOK, TaskRuns, TaskTypeOK, Busy
  <2>2. QED
    BY <2>1, CoreStep, TaskStep
<1>3. QED
  BY <1>1, <1>2, PTL DEF Spec

\* Ids are used once: a run below nextId has started, one above is untouched.
LEMMA FreshStep == TypeOK /\ Fresh /\ [Next]_vars => Fresh'
<1> SUFFICES ASSUME TypeOK, Fresh, [Next]_vars PROVE Fresh'
  OBVIOUS
<1> USE DEF TypeOK, CoreTypeOK, TaskTypeOK, Goto, Reply, Fail, Begin, Refuse, Kill, Exited, Started, Dropped,
      coreVars, labelVars, taskVars, vars, NoRun, Fresh
<1>1. ASSUME NEW t \in Tasks, RejectRun(t) PROVE Fresh'
  BY <1>1 DEF RejectRun
<1>2. ASSUME NEW t \in Tasks, StartJob(t) PROVE Fresh'
  BY <1>2, RunAssumption DEF StartJob, Runs
<1>3. ASSUME NEW t \in Tasks, ListRequest(t) PROVE Fresh'
  BY <1>3 DEF ListRequest
<1>4. ASSUME NEW t \in Tasks, SetDescription(t) PROVE Fresh'
  BY <1>4 DEF SetDescription
<1>5. ASSUME NEW t \in Tasks, PollExit(t) PROVE Fresh'
  BY <1>5 DEF PollExit
<1>6. ASSUME NEW t \in Tasks, ReadTimeout(t) PROVE Fresh'
  BY <1>6 DEF ReadTimeout
<1>7. ASSUME NEW t \in Tasks, FinishDetail(t) PROVE Fresh'
  BY <1>7 DEF FinishDetail
<1>8. ASSUME NEW t \in Tasks, Detach(t) PROVE Fresh'
  BY <1>8 DEF Detach
<1>9. ASSUME NEW t \in Tasks, ReadLabel(t) PROVE Fresh'
  BY <1>9 DEF ReadLabel
<1>10. ASSUME NEW t \in Tasks, Drop(t) PROVE Fresh'
  BY <1>10 DEF Drop
<1>11. ASSUME NEW t \in Tasks, ClearExitLabel(t) PROVE Fresh'
  BY <1>11 DEF ClearExitLabel
<1>12. ASSUME NEW t \in Tasks, ClearDescription(t) PROVE Fresh'
  BY <1>12 DEF ClearDescription
<1>13. ASSUME NEW t \in Tasks, StopLabel(t) PROVE Fresh'
  BY <1>13 DEF StopLabel
<1>14. ASSUME NEW t \in Tasks, StopKill(t) PROVE Fresh'
  BY <1>14 DEF StopKill
<1>15. ASSUME NEW t \in Tasks, StopWait(t) PROVE Fresh'
  BY <1>15 DEF StopWait
<1>16. ASSUME NEW t \in Tasks, StopDetail(t) PROVE Fresh'
  BY <1>16 DEF StopDetail
<1>17. ASSUME NEW t \in Tasks, Unlabel(t) PROVE Fresh'
  BY <1>17 DEF Unlabel
<1>18. ASSUME NEW t \in Tasks, StopRunDetail(t) PROVE Fresh'
  BY <1>18 DEF StopRunDetail
<1>19. ASSUME NEW t \in Tasks, Snapshot(t) PROVE Fresh'
  BY <1>19 DEF Snapshot
<1>20. ASSUME NEW t \in Tasks, ForceController(t) PROVE Fresh'
  BY <1>20 DEF ForceController
<1>21. ASSUME NEW t \in Tasks, WriteInput(t) PROVE Fresh'
  BY <1>21 DEF WriteInput
<1>22. ASSUME NEW t \in Tasks, AttachPoll(t) PROVE Fresh'
  BY <1>22 DEF AttachPoll
<1>23. ASSUME NEW t \in Tasks, AttachSnapshot(t) PROVE Fresh'
  BY <1>23 DEF AttachSnapshot
<1>24. ASSUME NEW t \in Tasks, AttachDetail(t) PROVE Fresh'
  BY <1>24 DEF AttachDetail
<1>25. ASSUME NEW t \in Tasks, AttachReply(t) PROVE Fresh'
  BY <1>25 DEF AttachReply
<1>26. ASSUME NEW t \in Tasks, RemoveKill(t) PROVE Fresh'
  <2> DEFINE Rest == UNCHANGED <<nextId, process, present, controller, labelVars, timer, overlap, grip>>
  <2>1. CASE (present[run[t]] /\ Kill(run[t], TRUE) /\ Goto(t, "removeWait") /\ UNCHANGED seen) /\ Rest
    BY <2>1
  <2>2. CASE (Fail(t) /\ UNCHANGED killed) /\ Rest
    BY <2>2
  <2>3. QED
    BY <1>26, <2>1, <2>2 DEF RemoveKill
<1>27. ASSUME NEW t \in Tasks, RemoveWait(t) PROVE Fresh'
  BY <1>27 DEF RemoveWait
<1>28. ASSUME NEW t \in Tasks, ListItem(t) PROVE Fresh'
  BY <1>28 DEF ListItem
<1>29. ASSUME NEW t \in Tasks, NEW r \in Runs, StopRequest(t, r) PROVE Fresh'
  BY <1>29 DEF StopRequest
<1>30. ASSUME NEW t \in Tasks, NEW r \in Runs, RemoveRequest(t, r) PROVE Fresh'
  BY <1>30 DEF RemoveRequest
<1>31. ASSUME NEW t \in Tasks, NEW r \in Runs, AttachRequest(t, r) PROVE Fresh'
  BY <1>31 DEF AttachRequest
<1>32. ASSUME NEW r \in Runs, TimerFires(r) PROVE Fresh'
  BY <1>32 DEF TimerFires
<1>33. ASSUME NEW r \in Runs, TimerLabels(r) PROVE Fresh'
  BY <1>33 DEF TimerLabels
<1>34. ASSUME NEW r \in Runs, TimerKills(r) PROVE Fresh'
  BY <1>34 DEF TimerKills
<1>35. ASSUME NEW r \in Runs, ProcessExit(r) PROVE Fresh'
  BY <1>35 DEF ProcessExit
<1>36. ASSUME NEW r \in Runs, TakeControl(r) PROVE Fresh'
  BY <1>36 DEF TakeControl
<1>37. CASE UNCHANGED vars
  BY <1>37 DEF vars, taskVars
<1>38. QED
  BY <1>1, <1>2, <1>3, <1>4, <1>5, <1>6, <1>7, <1>8, <1>9, <1>10, <1>11, <1>12, <1>13, <1>14, <1>15, <1>16, <1>17, <1>18, <1>19, <1>20, <1>21, <1>22, <1>23, <1>24, <1>25, <1>26, <1>27, <1>28, <1>29, <1>30, <1>31, <1>32, <1>33, <1>34, <1>35, <1>36, <1>37 DEF Next, Request, HandlerStep, RunStep, StopStep, AttachStep, Timer

\* A dropped session does not come back, so it is still gone at the clears.
LEMMA GoneStep == TypeOK /\ Fresh /\ GoneKnown /\ [Next]_vars => GoneKnown'
<1> SUFFICES ASSUME TypeOK, Fresh, GoneKnown, [Next]_vars PROVE GoneKnown'
  OBVIOUS
<1> USE DEF TypeOK, CoreTypeOK, TaskTypeOK, Goto, Reply, Fail, Begin, Refuse, Kill, Exited, Started, Dropped,
      coreVars, labelVars, taskVars, vars, NoRun, Fresh, GoneKnown, LabelSteps, AfterLabel
<1>1. ASSUME NEW t \in Tasks, RejectRun(t) PROVE GoneKnown'
  BY <1>1 DEF RejectRun
<1>2. ASSUME NEW t \in Tasks, StartJob(t) PROVE GoneKnown'
  BY <1>2, RunAssumption DEF StartJob, Runs
<1>3. ASSUME NEW t \in Tasks, ListRequest(t) PROVE GoneKnown'
  BY <1>3 DEF ListRequest
<1>4. ASSUME NEW t \in Tasks, SetDescription(t) PROVE GoneKnown'
  BY <1>4 DEF SetDescription
<1>5. ASSUME NEW t \in Tasks, PollExit(t) PROVE GoneKnown'
  BY <1>5 DEF PollExit
<1>6. ASSUME NEW t \in Tasks, ReadTimeout(t) PROVE GoneKnown'
  BY <1>6 DEF ReadTimeout
<1>7. ASSUME NEW t \in Tasks, FinishDetail(t) PROVE GoneKnown'
  BY <1>7 DEF FinishDetail
<1>8. ASSUME NEW t \in Tasks, Detach(t) PROVE GoneKnown'
  BY <1>8 DEF Detach
<1>9. ASSUME NEW t \in Tasks, ReadLabel(t) PROVE GoneKnown'
  BY <1>9 DEF ReadLabel
<1>10. ASSUME NEW t \in Tasks, Drop(t) PROVE GoneKnown'
  BY <1>10 DEF Drop
<1>11. ASSUME NEW t \in Tasks, ClearExitLabel(t) PROVE GoneKnown'
  BY <1>11 DEF ClearExitLabel
<1>12. ASSUME NEW t \in Tasks, ClearDescription(t) PROVE GoneKnown'
  BY <1>12 DEF ClearDescription
<1>13. ASSUME NEW t \in Tasks, StopLabel(t) PROVE GoneKnown'
  BY <1>13 DEF StopLabel
<1>14. ASSUME NEW t \in Tasks, StopKill(t) PROVE GoneKnown'
  BY <1>14 DEF StopKill
<1>15. ASSUME NEW t \in Tasks, StopWait(t) PROVE GoneKnown'
  BY <1>15 DEF StopWait
<1>16. ASSUME NEW t \in Tasks, StopDetail(t) PROVE GoneKnown'
  BY <1>16 DEF StopDetail
<1>17. ASSUME NEW t \in Tasks, Unlabel(t) PROVE GoneKnown'
  BY <1>17 DEF Unlabel
<1>18. ASSUME NEW t \in Tasks, StopRunDetail(t) PROVE GoneKnown'
  BY <1>18 DEF StopRunDetail
<1>19. ASSUME NEW t \in Tasks, Snapshot(t) PROVE GoneKnown'
  BY <1>19 DEF Snapshot
<1>20. ASSUME NEW t \in Tasks, ForceController(t) PROVE GoneKnown'
  BY <1>20 DEF ForceController
<1>21. ASSUME NEW t \in Tasks, WriteInput(t) PROVE GoneKnown'
  BY <1>21 DEF WriteInput
<1>22. ASSUME NEW t \in Tasks, AttachPoll(t) PROVE GoneKnown'
  BY <1>22 DEF AttachPoll
<1>23. ASSUME NEW t \in Tasks, AttachSnapshot(t) PROVE GoneKnown'
  BY <1>23 DEF AttachSnapshot
<1>24. ASSUME NEW t \in Tasks, AttachDetail(t) PROVE GoneKnown'
  BY <1>24 DEF AttachDetail
<1>25. ASSUME NEW t \in Tasks, AttachReply(t) PROVE GoneKnown'
  BY <1>25 DEF AttachReply
<1>26. ASSUME NEW t \in Tasks, RemoveKill(t) PROVE GoneKnown'
  BY <1>26 DEF RemoveKill
<1>27. ASSUME NEW t \in Tasks, RemoveWait(t) PROVE GoneKnown'
  BY <1>27 DEF RemoveWait
<1>28. ASSUME NEW t \in Tasks, ListItem(t) PROVE GoneKnown'
  <2> DEFINE Rest == UNCHANGED <<nextId, coreVars, labelVars, timer, overlap, grip>>
  <2>1. CASE (todo[t] = {} /\ Reply(t, TRUE, "none")) /\ Rest
    BY <2>1
  <2>2. CASE Fail(t) /\ Rest
    BY <2>2
  <2>3. ASSUME NEW r \in todo[t], Rest,
               pc' = [pc EXCEPT ![t] = IF Exited(r) THEN "listLabel" ELSE @],
               run' = [run EXCEPT ![t] = r],
               UNCHANGED <<mode, killErr, withInput, answer>>
        PROVE  GoneKnown'
    <3>1. pc[t] = "listItem"
      BY <1>28 DEF ListItem
    <3>2. mode[t] # "run"
      BY <3>1
    <3>3. pc'[t] \in {"listItem", "listLabel"}
      BY <2>3, <3>1
    <3>4. \A u \in Tasks : u # t => pc'[u] = pc[u] /\ run'[u] = run[u]
      BY <2>3
    <3>5. UNCHANGED <<present, mode>>
      BY <2>3
    <3>6. QED
      BY <3>2, <3>3, <3>4, <3>5
  <2>4. QED
    BY <1>28, <2>1, <2>2, <2>3 DEF ListItem
<1>29. ASSUME NEW t \in Tasks, NEW r \in Runs, StopRequest(t, r) PROVE GoneKnown'
  BY <1>29 DEF StopRequest
<1>30. ASSUME NEW t \in Tasks, NEW r \in Runs, RemoveRequest(t, r) PROVE GoneKnown'
  BY <1>30 DEF RemoveRequest
<1>31. ASSUME NEW t \in Tasks, NEW r \in Runs, AttachRequest(t, r) PROVE GoneKnown'
  BY <1>31 DEF AttachRequest
<1>32. ASSUME NEW r \in Runs, TimerFires(r) PROVE GoneKnown'
  BY <1>32 DEF TimerFires
<1>33. ASSUME NEW r \in Runs, TimerLabels(r) PROVE GoneKnown'
  BY <1>33 DEF TimerLabels
<1>34. ASSUME NEW r \in Runs, TimerKills(r) PROVE GoneKnown'
  BY <1>34 DEF TimerKills
<1>35. ASSUME NEW r \in Runs, ProcessExit(r) PROVE GoneKnown'
  BY <1>35 DEF ProcessExit
<1>36. ASSUME NEW r \in Runs, TakeControl(r) PROVE GoneKnown'
  BY <1>36 DEF TakeControl
<1>37. CASE UNCHANGED vars
  BY <1>37 DEF vars, taskVars
<1>38. QED
  BY <1>1, <1>2, <1>3, <1>4, <1>5, <1>6, <1>7, <1>8, <1>9, <1>10, <1>11, <1>12, <1>13, <1>14, <1>15, <1>16, <1>17, <1>18, <1>19, <1>20, <1>21, <1>22, <1>23, <1>24, <1>25, <1>26, <1>27, <1>28, <1>29, <1>30, <1>31, <1>32, <1>33, <1>34, <1>35, <1>36, <1>37 DEF Next, Request, HandlerStep, RunStep, StopStep, AttachStep, Timer

\* The steps after an exit was seen are entered only when it was.
LEMMA ExitStep == TypeOK /\ Fresh /\ GoneKnown /\ ExitKnown /\ [Next]_vars => ExitKnown'
<1> SUFFICES ASSUME TypeOK, Fresh, GoneKnown, ExitKnown, [Next]_vars PROVE ExitKnown'
  OBVIOUS
<1> USE DEF TypeOK, CoreTypeOK, TaskTypeOK, Goto, Reply, Fail, Begin, Refuse, Kill, Exited, Started, Dropped,
      coreVars, labelVars, taskVars, vars, NoRun, Fresh, GoneKnown, ExitKnown, LabelSteps, AfterLabel
<1>1. ASSUME NEW t \in Tasks, RejectRun(t) PROVE ExitKnown'
  BY <1>1 DEF RejectRun
<1>2. ASSUME NEW t \in Tasks, StartJob(t) PROVE ExitKnown'
  BY <1>2, RunAssumption DEF StartJob, Runs
<1>3. ASSUME NEW t \in Tasks, ListRequest(t) PROVE ExitKnown'
  BY <1>3 DEF ListRequest
<1>4. ASSUME NEW t \in Tasks, SetDescription(t) PROVE ExitKnown'
  BY <1>4 DEF SetDescription
<1>5. ASSUME NEW t \in Tasks, PollExit(t) PROVE ExitKnown'
  BY <1>5 DEF PollExit
<1>6. ASSUME NEW t \in Tasks, ReadTimeout(t) PROVE ExitKnown'
  BY <1>6 DEF ReadTimeout
<1>7. ASSUME NEW t \in Tasks, FinishDetail(t) PROVE ExitKnown'
  BY <1>7 DEF FinishDetail
<1>8. ASSUME NEW t \in Tasks, Detach(t) PROVE ExitKnown'
  BY <1>8 DEF Detach
<1>9. ASSUME NEW t \in Tasks, ReadLabel(t) PROVE ExitKnown'
  BY <1>9 DEF ReadLabel
<1>10. ASSUME NEW t \in Tasks, Drop(t) PROVE ExitKnown'
  BY <1>10 DEF Drop
<1>11. ASSUME NEW t \in Tasks, ClearExitLabel(t) PROVE ExitKnown'
  BY <1>11 DEF ClearExitLabel
<1>12. ASSUME NEW t \in Tasks, ClearDescription(t) PROVE ExitKnown'
  BY <1>12 DEF ClearDescription
<1>13. ASSUME NEW t \in Tasks, StopLabel(t) PROVE ExitKnown'
  BY <1>13 DEF StopLabel
<1>14. ASSUME NEW t \in Tasks, StopKill(t) PROVE ExitKnown'
  BY <1>14 DEF StopKill
<1>15. ASSUME NEW t \in Tasks, StopWait(t) PROVE ExitKnown'
  BY <1>15 DEF StopWait
<1>16. ASSUME NEW t \in Tasks, StopDetail(t) PROVE ExitKnown'
  BY <1>16 DEF StopDetail
<1>17. ASSUME NEW t \in Tasks, Unlabel(t) PROVE ExitKnown'
  BY <1>17 DEF Unlabel
<1>18. ASSUME NEW t \in Tasks, StopRunDetail(t) PROVE ExitKnown'
  BY <1>18 DEF StopRunDetail
<1>19. ASSUME NEW t \in Tasks, Snapshot(t) PROVE ExitKnown'
  BY <1>19 DEF Snapshot
<1>20. ASSUME NEW t \in Tasks, ForceController(t) PROVE ExitKnown'
  BY <1>20 DEF ForceController
<1>21. ASSUME NEW t \in Tasks, WriteInput(t) PROVE ExitKnown'
  BY <1>21 DEF WriteInput
<1>22. ASSUME NEW t \in Tasks, AttachPoll(t) PROVE ExitKnown'
  BY <1>22 DEF AttachPoll
<1>23. ASSUME NEW t \in Tasks, AttachSnapshot(t) PROVE ExitKnown'
  BY <1>23 DEF AttachSnapshot
<1>24. ASSUME NEW t \in Tasks, AttachDetail(t) PROVE ExitKnown'
  BY <1>24 DEF AttachDetail
<1>25. ASSUME NEW t \in Tasks, AttachReply(t) PROVE ExitKnown'
  BY <1>25 DEF AttachReply
<1>26. ASSUME NEW t \in Tasks, RemoveKill(t) PROVE ExitKnown'
  BY <1>26 DEF RemoveKill
<1>27. ASSUME NEW t \in Tasks, RemoveWait(t) PROVE ExitKnown'
  BY <1>27 DEF RemoveWait
<1>28. ASSUME NEW t \in Tasks, ListItem(t) PROVE ExitKnown'
  BY <1>28 DEF ListItem
<1>29. ASSUME NEW t \in Tasks, NEW r \in Runs, StopRequest(t, r) PROVE ExitKnown'
  BY <1>29 DEF StopRequest
<1>30. ASSUME NEW t \in Tasks, NEW r \in Runs, RemoveRequest(t, r) PROVE ExitKnown'
  BY <1>30 DEF RemoveRequest
<1>31. ASSUME NEW t \in Tasks, NEW r \in Runs, AttachRequest(t, r) PROVE ExitKnown'
  BY <1>31 DEF AttachRequest
<1>32. ASSUME NEW r \in Runs, TimerFires(r) PROVE ExitKnown'
  BY <1>32 DEF TimerFires
<1>33. ASSUME NEW r \in Runs, TimerLabels(r) PROVE ExitKnown'
  BY <1>33 DEF TimerLabels
<1>34. ASSUME NEW r \in Runs, TimerKills(r) PROVE ExitKnown'
  BY <1>34 DEF TimerKills
<1>35. ASSUME NEW r \in Runs, ProcessExit(r) PROVE ExitKnown'
  BY <1>35 DEF ProcessExit
<1>36. ASSUME NEW r \in Runs, TakeControl(r) PROVE ExitKnown'
  BY <1>36 DEF TakeControl
<1>37. CASE UNCHANGED vars
  BY <1>37 DEF vars, taskVars
<1>38. QED
  BY <1>1, <1>2, <1>3, <1>4, <1>5, <1>6, <1>7, <1>8, <1>9, <1>10, <1>11, <1>12, <1>13, <1>14, <1>15, <1>16, <1>17, <1>18, <1>19, <1>20, <1>21, <1>22, <1>23, <1>24, <1>25, <1>26, <1>27, <1>28, <1>29, <1>30, <1>31, <1>32, <1>33, <1>34, <1>35, <1>36, <1>37 DEF Next, Request, HandlerStep, RunStep, StopStep, AttachStep, Timer

\* A drop is entered after an exit or a successful kill.
LEMMA DropStep == TypeOK /\ Fresh /\ ExitKnown /\ DropKnown /\ [Next]_vars => DropKnown'
<1> SUFFICES ASSUME TypeOK, Fresh, ExitKnown, DropKnown, [Next]_vars PROVE DropKnown'
  OBVIOUS
<1> USE DEF TypeOK, CoreTypeOK, TaskTypeOK, Goto, Reply, Fail, Begin, Refuse, Kill, Exited, Started, Dropped,
      coreVars, labelVars, taskVars, vars, NoRun, Fresh, ExitKnown, DropKnown, LabelSteps, AfterLabel
<1>1. ASSUME NEW t \in Tasks, RejectRun(t) PROVE DropKnown'
  BY <1>1 DEF RejectRun
<1>2. ASSUME NEW t \in Tasks, StartJob(t) PROVE DropKnown'
  BY <1>2, RunAssumption DEF StartJob, Runs
<1>3. ASSUME NEW t \in Tasks, ListRequest(t) PROVE DropKnown'
  BY <1>3 DEF ListRequest
<1>4. ASSUME NEW t \in Tasks, SetDescription(t) PROVE DropKnown'
  BY <1>4 DEF SetDescription
<1>5. ASSUME NEW t \in Tasks, PollExit(t) PROVE DropKnown'
  BY <1>5 DEF PollExit
<1>6. ASSUME NEW t \in Tasks, ReadTimeout(t) PROVE DropKnown'
  BY <1>6 DEF ReadTimeout
<1>7. ASSUME NEW t \in Tasks, FinishDetail(t) PROVE DropKnown'
  BY <1>7 DEF FinishDetail
<1>8. ASSUME NEW t \in Tasks, Detach(t) PROVE DropKnown'
  BY <1>8 DEF Detach
<1>9. ASSUME NEW t \in Tasks, ReadLabel(t) PROVE DropKnown'
  BY <1>9 DEF ReadLabel
<1>10. ASSUME NEW t \in Tasks, Drop(t) PROVE DropKnown'
  BY <1>10 DEF Drop
<1>11. ASSUME NEW t \in Tasks, ClearExitLabel(t) PROVE DropKnown'
  BY <1>11 DEF ClearExitLabel
<1>12. ASSUME NEW t \in Tasks, ClearDescription(t) PROVE DropKnown'
  BY <1>12 DEF ClearDescription
<1>13. ASSUME NEW t \in Tasks, StopLabel(t) PROVE DropKnown'
  BY <1>13 DEF StopLabel
<1>14. ASSUME NEW t \in Tasks, StopKill(t) PROVE DropKnown'
  BY <1>14 DEF StopKill
<1>15. ASSUME NEW t \in Tasks, StopWait(t) PROVE DropKnown'
  BY <1>15 DEF StopWait
<1>16. ASSUME NEW t \in Tasks, StopDetail(t) PROVE DropKnown'
  BY <1>16 DEF StopDetail
<1>17. ASSUME NEW t \in Tasks, Unlabel(t) PROVE DropKnown'
  BY <1>17 DEF Unlabel
<1>18. ASSUME NEW t \in Tasks, StopRunDetail(t) PROVE DropKnown'
  BY <1>18 DEF StopRunDetail
<1>19. ASSUME NEW t \in Tasks, Snapshot(t) PROVE DropKnown'
  BY <1>19 DEF Snapshot
<1>20. ASSUME NEW t \in Tasks, ForceController(t) PROVE DropKnown'
  BY <1>20 DEF ForceController
<1>21. ASSUME NEW t \in Tasks, WriteInput(t) PROVE DropKnown'
  BY <1>21 DEF WriteInput
<1>22. ASSUME NEW t \in Tasks, AttachPoll(t) PROVE DropKnown'
  BY <1>22 DEF AttachPoll
<1>23. ASSUME NEW t \in Tasks, AttachSnapshot(t) PROVE DropKnown'
  BY <1>23 DEF AttachSnapshot
<1>24. ASSUME NEW t \in Tasks, AttachDetail(t) PROVE DropKnown'
  BY <1>24 DEF AttachDetail
<1>25. ASSUME NEW t \in Tasks, AttachReply(t) PROVE DropKnown'
  BY <1>25 DEF AttachReply
<1>26. ASSUME NEW t \in Tasks, RemoveKill(t) PROVE DropKnown'
  <2> DEFINE Rest == UNCHANGED <<nextId, process, present, controller, labelVars, timer, overlap, grip>>
  <2>1. CASE (present[run[t]] /\ Kill(run[t], TRUE) /\ Goto(t, "removeWait") /\ UNCHANGED seen) /\ Rest
    <3>1. pc' = [pc EXCEPT ![t] = "removeWait"] /\ run' = run /\ process' = process
      BY <2>1
    <3> run[t] \in Runs
      BY <1>26 DEF RemoveKill
    <3>2. Exited(run[t]) \/ killed'[run[t]]
      BY <2>1
    <3>3. \A q \in Runs : killed[q] => killed'[q]
      BY <2>1
    <3>4. \A u \in Tasks : pc[u] \notin {"idle", "listItem"} => run[u] \in Runs
      OBVIOUS
    <3>5. ASSUME NEW u \in Tasks, pc'[u] \in {"removeWait", "drop", "clearExit", "clearDesc"}
          PROVE  Exited(run[u])' \/ killed'[run'[u]]
      <4>1. CASE u = t
        BY <3>1, <3>2, <4>1
      <4>2. CASE u # t
        BY <3>1, <3>3, <3>4, <3>5, <4>2
      <4>3. QED
        BY <4>1, <4>2
    <3>6. QED
      BY <3>5
  <2>2. CASE (Fail(t) /\ UNCHANGED killed) /\ Rest
    BY <2>2
  <2>3. QED
    BY <1>26, <2>1, <2>2 DEF RemoveKill
<1>27. ASSUME NEW t \in Tasks, RemoveWait(t) PROVE DropKnown'
  BY <1>27 DEF RemoveWait
<1>28. ASSUME NEW t \in Tasks, ListItem(t) PROVE DropKnown'
  BY <1>28 DEF ListItem
<1>29. ASSUME NEW t \in Tasks, NEW r \in Runs, StopRequest(t, r) PROVE DropKnown'
  BY <1>29 DEF StopRequest
<1>30. ASSUME NEW t \in Tasks, NEW r \in Runs, RemoveRequest(t, r) PROVE DropKnown'
  BY <1>30 DEF RemoveRequest
<1>31. ASSUME NEW t \in Tasks, NEW r \in Runs, AttachRequest(t, r) PROVE DropKnown'
  BY <1>31 DEF AttachRequest
<1>32. ASSUME NEW r \in Runs, TimerFires(r) PROVE DropKnown'
  BY <1>32 DEF TimerFires
<1>33. ASSUME NEW r \in Runs, TimerLabels(r) PROVE DropKnown'
  BY <1>33 DEF TimerLabels
<1>34. ASSUME NEW r \in Runs, TimerKills(r) PROVE DropKnown'
  BY <1>34 DEF TimerKills
<1>35. ASSUME NEW r \in Runs, ProcessExit(r) PROVE DropKnown'
  BY <1>35 DEF ProcessExit
<1>36. ASSUME NEW r \in Runs, TakeControl(r) PROVE DropKnown'
  BY <1>36 DEF TakeControl
<1>37. CASE UNCHANGED vars
  BY <1>37 DEF vars, taskVars
<1>38. QED
  BY <1>1, <1>2, <1>3, <1>4, <1>5, <1>6, <1>7, <1>8, <1>9, <1>10, <1>11, <1>12, <1>13, <1>14, <1>15, <1>16, <1>17, <1>18, <1>19, <1>20, <1>21, <1>22, <1>23, <1>24, <1>25, <1>26, <1>27, <1>28, <1>29, <1>30, <1>31, <1>32, <1>33, <1>34, <1>35, <1>36, <1>37 DEF Next, Request, HandlerStep, RunStep, StopStep, AttachStep, Timer

\* Whoever was about to label a run at its drop is recorded in overlap.
LEMMA OverlapStep == TypeOK /\ Fresh /\ OverlapKnown /\ [Next]_vars => OverlapKnown'
<1> SUFFICES ASSUME TypeOK, Fresh, OverlapKnown, [Next]_vars PROVE OverlapKnown'
  OBVIOUS
<1> USE DEF TypeOK, CoreTypeOK, TaskTypeOK, Goto, Reply, Fail, Begin, Refuse, Kill, Exited, Started, Dropped,
      coreVars, labelVars, taskVars, vars, NoRun, Fresh, OverlapKnown, LabelSteps, AfterLabel
<1>1. ASSUME NEW t \in Tasks, RejectRun(t) PROVE OverlapKnown'
  BY <1>1 DEF RejectRun
<1>2. ASSUME NEW t \in Tasks, StartJob(t) PROVE OverlapKnown'
  BY <1>2, RunAssumption DEF StartJob, Runs
<1>3. ASSUME NEW t \in Tasks, ListRequest(t) PROVE OverlapKnown'
  BY <1>3 DEF ListRequest
<1>4. ASSUME NEW t \in Tasks, SetDescription(t) PROVE OverlapKnown'
  BY <1>4 DEF SetDescription
<1>5. ASSUME NEW t \in Tasks, PollExit(t) PROVE OverlapKnown'
  BY <1>5 DEF PollExit
<1>6. ASSUME NEW t \in Tasks, ReadTimeout(t) PROVE OverlapKnown'
  BY <1>6 DEF ReadTimeout
<1>7. ASSUME NEW t \in Tasks, FinishDetail(t) PROVE OverlapKnown'
  BY <1>7 DEF FinishDetail
<1>8. ASSUME NEW t \in Tasks, Detach(t) PROVE OverlapKnown'
  BY <1>8 DEF Detach
<1>9. ASSUME NEW t \in Tasks, ReadLabel(t) PROVE OverlapKnown'
  BY <1>9 DEF ReadLabel
<1>10. ASSUME NEW t \in Tasks, Drop(t) PROVE OverlapKnown'
  BY <1>10 DEF Drop
<1>11. ASSUME NEW t \in Tasks, ClearExitLabel(t) PROVE OverlapKnown'
  BY <1>11 DEF ClearExitLabel
<1>12. ASSUME NEW t \in Tasks, ClearDescription(t) PROVE OverlapKnown'
  BY <1>12 DEF ClearDescription
<1>13. ASSUME NEW t \in Tasks, StopLabel(t) PROVE OverlapKnown'
  BY <1>13 DEF StopLabel
<1>14. ASSUME NEW t \in Tasks, StopKill(t) PROVE OverlapKnown'
  BY <1>14 DEF StopKill
<1>15. ASSUME NEW t \in Tasks, StopWait(t) PROVE OverlapKnown'
  BY <1>15 DEF StopWait
<1>16. ASSUME NEW t \in Tasks, StopDetail(t) PROVE OverlapKnown'
  BY <1>16 DEF StopDetail
<1>17. ASSUME NEW t \in Tasks, Unlabel(t) PROVE OverlapKnown'
  BY <1>17 DEF Unlabel
<1>18. ASSUME NEW t \in Tasks, StopRunDetail(t) PROVE OverlapKnown'
  BY <1>18 DEF StopRunDetail
<1>19. ASSUME NEW t \in Tasks, Snapshot(t) PROVE OverlapKnown'
  BY <1>19 DEF Snapshot
<1>20. ASSUME NEW t \in Tasks, ForceController(t) PROVE OverlapKnown'
  BY <1>20 DEF ForceController
<1>21. ASSUME NEW t \in Tasks, WriteInput(t) PROVE OverlapKnown'
  BY <1>21 DEF WriteInput
<1>22. ASSUME NEW t \in Tasks, AttachPoll(t) PROVE OverlapKnown'
  BY <1>22 DEF AttachPoll
<1>23. ASSUME NEW t \in Tasks, AttachSnapshot(t) PROVE OverlapKnown'
  BY <1>23 DEF AttachSnapshot
<1>24. ASSUME NEW t \in Tasks, AttachDetail(t) PROVE OverlapKnown'
  BY <1>24 DEF AttachDetail
<1>25. ASSUME NEW t \in Tasks, AttachReply(t) PROVE OverlapKnown'
  BY <1>25 DEF AttachReply
<1>26. ASSUME NEW t \in Tasks, RemoveKill(t) PROVE OverlapKnown'
  BY <1>26 DEF RemoveKill
<1>27. ASSUME NEW t \in Tasks, RemoveWait(t) PROVE OverlapKnown'
  BY <1>27 DEF RemoveWait
<1>28. ASSUME NEW t \in Tasks, ListItem(t) PROVE OverlapKnown'
  <2> DEFINE Rest == UNCHANGED <<nextId, coreVars, labelVars, timer, overlap, grip>>
  <2>1. CASE (todo[t] = {} /\ Reply(t, TRUE, "none")) /\ Rest
    BY <2>1
  <2>2. CASE Fail(t) /\ Rest
    BY <2>2
  <2>3. ASSUME NEW r \in todo[t], Rest,
               pc' = [pc EXCEPT ![t] = IF Exited(r) THEN "listLabel" ELSE @],
               run' = [run EXCEPT ![t] = r],
               UNCHANGED <<mode, killErr, withInput, answer>>
        PROVE  OverlapKnown'
    <3>1. pc[t] = "listItem" /\ pc'[t] \in {"listItem", "listLabel"}
      BY <1>28, <2>3 DEF ListItem
    <3>2. \A u \in Tasks : u # t => pc'[u] = pc[u] /\ run'[u] = run[u]
      BY <2>3
    <3>3. \A q \in Runs : Dropped(q)' <=> Dropped(q)
      BY <2>3
    <3>4. UNCHANGED <<overlap, timer>>
      BY <2>3
    <3>5. ASSUME NEW u \in Tasks, u # t
          PROVE  /\ pc'[u] = "stopLabel" /\ Dropped(run[u])' => "exit" \in overlap'[run'[u]]
                 /\ pc'[u] = "describe" /\ Dropped(run[u])' => "desc" \in overlap'[run'[u]]
      BY <2>3, <3>2, <3>4, <3>5
    <3>6. \A q \in Runs : (Dropped(q) /\ timer[q] = "label" => "exit" \in overlap[q])'
      BY <3>3, <3>4
    <3>7. QED
      BY <3>1, <3>2, <3>5, <3>6
  <2>4. QED
    BY <1>28, <2>1, <2>2, <2>3 DEF ListItem
<1>29. ASSUME NEW t \in Tasks, NEW r \in Runs, StopRequest(t, r) PROVE OverlapKnown'
  BY <1>29 DEF StopRequest
<1>30. ASSUME NEW t \in Tasks, NEW r \in Runs, RemoveRequest(t, r) PROVE OverlapKnown'
  <2> DEFINE Rest == UNCHANGED <<nextId, coreVars, labelVars, timer, overlap, grip>>
  <2>1. CASE (~present[r] /\ Refuse(t, "remove")) /\ Rest
    BY <2>1
  <2>2. CASE (Exited(r) /\ Begin(t, "remove", r, "drop") /\ UNCHANGED withInput) /\ Rest
    BY <2>2
  <2>3. CASE (~Exited(r) /\ Begin(t, "remove", r, "removeKill") /\ UNCHANGED withInput) /\ Rest
    BY <2>3
  <2>4. QED
    BY <1>30, <2>1, <2>2, <2>3 DEF RemoveRequest
<1>31. ASSUME NEW t \in Tasks, NEW r \in Runs, AttachRequest(t, r) PROVE OverlapKnown'
  BY <1>31 DEF AttachRequest
<1>32. ASSUME NEW r \in Runs, TimerFires(r) PROVE OverlapKnown'
  BY <1>32 DEF TimerFires
<1>33. ASSUME NEW r \in Runs, TimerLabels(r) PROVE OverlapKnown'
  BY <1>33 DEF TimerLabels
<1>34. ASSUME NEW r \in Runs, TimerKills(r) PROVE OverlapKnown'
  BY <1>34 DEF TimerKills
<1>35. ASSUME NEW r \in Runs, ProcessExit(r) PROVE OverlapKnown'
  BY <1>35 DEF ProcessExit
<1>36. ASSUME NEW r \in Runs, TakeControl(r) PROVE OverlapKnown'
  BY <1>36 DEF TakeControl
<1>37. CASE UNCHANGED vars
  BY <1>37 DEF vars, taskVars
<1>38. QED
  BY <1>1, <1>2, <1>3, <1>4, <1>5, <1>6, <1>7, <1>8, <1>9, <1>10, <1>11, <1>12, <1>13, <1>14, <1>15, <1>16, <1>17, <1>18, <1>19, <1>20, <1>21, <1>22, <1>23, <1>24, <1>25, <1>26, <1>27, <1>28, <1>29, <1>30, <1>31, <1>32, <1>33, <1>34, <1>35, <1>36, <1>37 DEF Next, Request, HandlerStep, RunStep, StopStep, AttachStep, Timer

\* A control stolen from an attach is a client's until it is forced back.
LEMMA GripStep == TypeOK /\ GripKnown /\ [Next]_vars => GripKnown'
<1> SUFFICES ASSUME TypeOK, GripKnown, [Next]_vars PROVE GripKnown'
  OBVIOUS
<1> USE DEF TypeOK, CoreTypeOK, TaskTypeOK, Goto, Reply, Fail, Begin, Refuse, Kill, Exited, Started, Dropped,
      coreVars, labelVars, taskVars, vars, NoRun, GripKnown, Holding, LabelSteps, AfterLabel
<1>1. ASSUME NEW t \in Tasks, RejectRun(t) PROVE GripKnown'
  BY <1>1 DEF RejectRun
<1>2. ASSUME NEW t \in Tasks, StartJob(t) PROVE GripKnown'
  BY <1>2, RunAssumption DEF StartJob, Runs
<1>3. ASSUME NEW t \in Tasks, ListRequest(t) PROVE GripKnown'
  BY <1>3 DEF ListRequest
<1>4. ASSUME NEW t \in Tasks, SetDescription(t) PROVE GripKnown'
  BY <1>4 DEF SetDescription
<1>5. ASSUME NEW t \in Tasks, PollExit(t) PROVE GripKnown'
  BY <1>5 DEF PollExit
<1>6. ASSUME NEW t \in Tasks, ReadTimeout(t) PROVE GripKnown'
  BY <1>6 DEF ReadTimeout
<1>7. ASSUME NEW t \in Tasks, FinishDetail(t) PROVE GripKnown'
  BY <1>7 DEF FinishDetail
<1>8. ASSUME NEW t \in Tasks, Detach(t) PROVE GripKnown'
  BY <1>8 DEF Detach
<1>9. ASSUME NEW t \in Tasks, ReadLabel(t) PROVE GripKnown'
  BY <1>9 DEF ReadLabel
<1>10. ASSUME NEW t \in Tasks, Drop(t) PROVE GripKnown'
  BY <1>10 DEF Drop
<1>11. ASSUME NEW t \in Tasks, ClearExitLabel(t) PROVE GripKnown'
  BY <1>11 DEF ClearExitLabel
<1>12. ASSUME NEW t \in Tasks, ClearDescription(t) PROVE GripKnown'
  BY <1>12 DEF ClearDescription
<1>13. ASSUME NEW t \in Tasks, StopLabel(t) PROVE GripKnown'
  BY <1>13 DEF StopLabel
<1>14. ASSUME NEW t \in Tasks, StopKill(t) PROVE GripKnown'
  BY <1>14 DEF StopKill
<1>15. ASSUME NEW t \in Tasks, StopWait(t) PROVE GripKnown'
  BY <1>15 DEF StopWait
<1>16. ASSUME NEW t \in Tasks, StopDetail(t) PROVE GripKnown'
  BY <1>16 DEF StopDetail
<1>17. ASSUME NEW t \in Tasks, Unlabel(t) PROVE GripKnown'
  BY <1>17 DEF Unlabel
<1>18. ASSUME NEW t \in Tasks, StopRunDetail(t) PROVE GripKnown'
  BY <1>18 DEF StopRunDetail
<1>19. ASSUME NEW t \in Tasks, Snapshot(t) PROVE GripKnown'
  BY <1>19 DEF Snapshot
<1>20. ASSUME NEW t \in Tasks, ForceController(t) PROVE GripKnown'
  <2> SUFFICES ASSUME NEW u \in Tasks, withInput'[u], pc'[u] \in {"write", "attachPoll"},
                      grip'[u] = "stolen"
               PROVE  controller'[run'[u]] = "client"
    BY Zenon DEF GripKnown
  <2>1. CASE Fail(t) /\ UNCHANGED <<controller, grip>>
    BY <2>1 DEF GripKnown
  <2>2. CASE /\ Goto(t, "write")
             /\ controller' = [controller EXCEPT ![run[t]] = "rec"]
             /\ grip' = [v \in Tasks |->
                           IF v = t THEN "held"
                           ELSE IF v \in Holding(run[t]) /\ grip[v] = "stolen"
                                THEN "retaken" ELSE grip[v]]
    <3>1. u # t /\ grip[u] = "stolen" /\ u \notin Holding(run[t])
      BY <2>2
    <3>2. /\ withInput[u] /\ pc[u] \in {"write", "attachPoll"} /\ run'[u] = run[u]
      BY <2>2, <3>1
    <3>3. run[u] # run[t] /\ controller[run[u]] = "client"
      BY <3>1, <3>2 DEF GripKnown
    <3>4. QED
      BY <2>2, <3>2, <3>3 DEF TypeOK, CoreTypeOK, TaskTypeOK
  <2>3. QED
    BY <1>20, <2>1, <2>2 DEF ForceController
<1>21. ASSUME NEW t \in Tasks, WriteInput(t) PROVE GripKnown'
  BY <1>21 DEF WriteInput
<1>22. ASSUME NEW t \in Tasks, AttachPoll(t) PROVE GripKnown'
  BY <1>22 DEF AttachPoll
<1>23. ASSUME NEW t \in Tasks, AttachSnapshot(t) PROVE GripKnown'
  BY <1>23 DEF AttachSnapshot
<1>24. ASSUME NEW t \in Tasks, AttachDetail(t) PROVE GripKnown'
  BY <1>24 DEF AttachDetail
<1>25. ASSUME NEW t \in Tasks, AttachReply(t) PROVE GripKnown'
  BY <1>25 DEF AttachReply
<1>26. ASSUME NEW t \in Tasks, RemoveKill(t) PROVE GripKnown'
  BY <1>26 DEF RemoveKill
<1>27. ASSUME NEW t \in Tasks, RemoveWait(t) PROVE GripKnown'
  BY <1>27 DEF RemoveWait
<1>28. ASSUME NEW t \in Tasks, ListItem(t) PROVE GripKnown'
  BY <1>28 DEF ListItem
<1>29. ASSUME NEW t \in Tasks, NEW r \in Runs, StopRequest(t, r) PROVE GripKnown'
  BY <1>29 DEF StopRequest
<1>30. ASSUME NEW t \in Tasks, NEW r \in Runs, RemoveRequest(t, r) PROVE GripKnown'
  BY <1>30 DEF RemoveRequest
<1>31. ASSUME NEW t \in Tasks, NEW r \in Runs, AttachRequest(t, r) PROVE GripKnown'
  BY <1>31 DEF AttachRequest
<1>32. ASSUME NEW r \in Runs, TimerFires(r) PROVE GripKnown'
  BY <1>32 DEF TimerFires
<1>33. ASSUME NEW r \in Runs, TimerLabels(r) PROVE GripKnown'
  BY <1>33 DEF TimerLabels
<1>34. ASSUME NEW r \in Runs, TimerKills(r) PROVE GripKnown'
  BY <1>34 DEF TimerKills
<1>35. ASSUME NEW r \in Runs, ProcessExit(r) PROVE GripKnown'
  BY <1>35 DEF ProcessExit
<1>36. ASSUME NEW r \in Runs, TakeControl(r) PROVE GripKnown'
  BY <1>36 DEF TakeControl
<1>37. CASE UNCHANGED vars
  BY <1>37 DEF vars, taskVars
<1>38. QED
  BY <1>1, <1>2, <1>3, <1>4, <1>5, <1>6, <1>7, <1>8, <1>9, <1>10, <1>11, <1>12, <1>13, <1>14, <1>15, <1>16, <1>17, <1>18, <1>19, <1>20, <1>21, <1>22, <1>23, <1>24, <1>25, <1>26, <1>27, <1>28, <1>29, <1>30, <1>31, <1>32, <1>33, <1>34, <1>35, <1>36, <1>37 DEF Next, Request, HandlerStep, RunStep, StopStep, AttachStep, Timer

\* Exits and kills are final, and a session is dropped only after one.
LEMMA OrphanStep == TypeOK /\ Fresh /\ DropKnown /\ NoOrphan /\ [Next]_vars => NoOrphan'
<1> SUFFICES ASSUME TypeOK, Fresh, DropKnown, NoOrphan, [Next]_vars PROVE NoOrphan'
  OBVIOUS
<1> USE DEF TypeOK, CoreTypeOK, TaskTypeOK, Goto, Reply, Fail, Begin, Refuse, Kill, Exited, Started, Dropped,
      coreVars, labelVars, taskVars, vars, NoRun, Fresh, DropKnown, NoOrphan
<1>1. ASSUME NEW t \in Tasks, RejectRun(t) PROVE NoOrphan'
  BY <1>1 DEF RejectRun
<1>2. ASSUME NEW t \in Tasks, StartJob(t) PROVE NoOrphan'
  BY <1>2, RunAssumption DEF StartJob, Runs
<1>3. ASSUME NEW t \in Tasks, ListRequest(t) PROVE NoOrphan'
  BY <1>3 DEF ListRequest
<1>4. ASSUME NEW t \in Tasks, SetDescription(t) PROVE NoOrphan'
  BY <1>4 DEF SetDescription
<1>5. ASSUME NEW t \in Tasks, PollExit(t) PROVE NoOrphan'
  BY <1>5 DEF PollExit
<1>6. ASSUME NEW t \in Tasks, ReadTimeout(t) PROVE NoOrphan'
  BY <1>6 DEF ReadTimeout
<1>7. ASSUME NEW t \in Tasks, FinishDetail(t) PROVE NoOrphan'
  BY <1>7 DEF FinishDetail
<1>8. ASSUME NEW t \in Tasks, Detach(t) PROVE NoOrphan'
  BY <1>8 DEF Detach
<1>9. ASSUME NEW t \in Tasks, ReadLabel(t) PROVE NoOrphan'
  BY <1>9 DEF ReadLabel
<1>10. ASSUME NEW t \in Tasks, Drop(t) PROVE NoOrphan'
  BY <1>10 DEF Drop
<1>11. ASSUME NEW t \in Tasks, ClearExitLabel(t) PROVE NoOrphan'
  BY <1>11 DEF ClearExitLabel
<1>12. ASSUME NEW t \in Tasks, ClearDescription(t) PROVE NoOrphan'
  BY <1>12 DEF ClearDescription
<1>13. ASSUME NEW t \in Tasks, StopLabel(t) PROVE NoOrphan'
  BY <1>13 DEF StopLabel
<1>14. ASSUME NEW t \in Tasks, StopKill(t) PROVE NoOrphan'
  BY <1>14 DEF StopKill
<1>15. ASSUME NEW t \in Tasks, StopWait(t) PROVE NoOrphan'
  BY <1>15 DEF StopWait
<1>16. ASSUME NEW t \in Tasks, StopDetail(t) PROVE NoOrphan'
  BY <1>16 DEF StopDetail
<1>17. ASSUME NEW t \in Tasks, Unlabel(t) PROVE NoOrphan'
  BY <1>17 DEF Unlabel
<1>18. ASSUME NEW t \in Tasks, StopRunDetail(t) PROVE NoOrphan'
  BY <1>18 DEF StopRunDetail
<1>19. ASSUME NEW t \in Tasks, Snapshot(t) PROVE NoOrphan'
  BY <1>19 DEF Snapshot
<1>20. ASSUME NEW t \in Tasks, ForceController(t) PROVE NoOrphan'
  BY <1>20 DEF ForceController
<1>21. ASSUME NEW t \in Tasks, WriteInput(t) PROVE NoOrphan'
  BY <1>21 DEF WriteInput
<1>22. ASSUME NEW t \in Tasks, AttachPoll(t) PROVE NoOrphan'
  BY <1>22 DEF AttachPoll
<1>23. ASSUME NEW t \in Tasks, AttachSnapshot(t) PROVE NoOrphan'
  BY <1>23 DEF AttachSnapshot
<1>24. ASSUME NEW t \in Tasks, AttachDetail(t) PROVE NoOrphan'
  BY <1>24 DEF AttachDetail
<1>25. ASSUME NEW t \in Tasks, AttachReply(t) PROVE NoOrphan'
  BY <1>25 DEF AttachReply
<1>26. ASSUME NEW t \in Tasks, RemoveKill(t) PROVE NoOrphan'
  BY <1>26 DEF RemoveKill
<1>27. ASSUME NEW t \in Tasks, RemoveWait(t) PROVE NoOrphan'
  BY <1>27 DEF RemoveWait
<1>28. ASSUME NEW t \in Tasks, ListItem(t) PROVE NoOrphan'
  BY <1>28 DEF ListItem
<1>29. ASSUME NEW t \in Tasks, NEW r \in Runs, StopRequest(t, r) PROVE NoOrphan'
  BY <1>29 DEF StopRequest
<1>30. ASSUME NEW t \in Tasks, NEW r \in Runs, RemoveRequest(t, r) PROVE NoOrphan'
  BY <1>30 DEF RemoveRequest
<1>31. ASSUME NEW t \in Tasks, NEW r \in Runs, AttachRequest(t, r) PROVE NoOrphan'
  BY <1>31 DEF AttachRequest
<1>32. ASSUME NEW r \in Runs, TimerFires(r) PROVE NoOrphan'
  BY <1>32 DEF TimerFires
<1>33. ASSUME NEW r \in Runs, TimerLabels(r) PROVE NoOrphan'
  BY <1>33 DEF TimerLabels
<1>34. ASSUME NEW r \in Runs, TimerKills(r) PROVE NoOrphan'
  BY <1>34 DEF TimerKills
<1>35. ASSUME NEW r \in Runs, ProcessExit(r) PROVE NoOrphan'
  BY <1>35 DEF ProcessExit
<1>36. ASSUME NEW r \in Runs, TakeControl(r) PROVE NoOrphan'
  BY <1>36 DEF TakeControl
<1>37. CASE UNCHANGED vars
  BY <1>37 DEF vars, taskVars
<1>38. QED
  BY <1>1, <1>2, <1>3, <1>4, <1>5, <1>6, <1>7, <1>8, <1>9, <1>10, <1>11, <1>12, <1>13, <1>14, <1>15, <1>16, <1>17, <1>18, <1>19, <1>20, <1>21, <1>22, <1>23, <1>24, <1>25, <1>26, <1>27, <1>28, <1>29, <1>30, <1>31, <1>32, <1>33, <1>34, <1>35, <1>36, <1>37 DEF Next, Request, HandlerStep, RunStep, StopStep, AttachStep, Timer

\* The last poll of an attach fails while a client holds the control.
LEMMA NoticedStep == TypeOK /\ GripKnown /\ LossNoticed /\ [Next]_vars => LossNoticed'
<1> SUFFICES ASSUME TypeOK, GripKnown, LossNoticed, [Next]_vars PROVE LossNoticed'
  OBVIOUS
<1> USE DEF TypeOK, CoreTypeOK, TaskTypeOK, Goto, Reply, Fail, Begin, Refuse, Kill, Exited, Started, Dropped,
      coreVars, labelVars, taskVars, vars, NoRun, GripKnown, LossNoticed, Holding, LabelSteps, AfterLabel
<1>1. ASSUME NEW t \in Tasks, RejectRun(t) PROVE LossNoticed'
  BY <1>1 DEF RejectRun
<1>2. ASSUME NEW t \in Tasks, StartJob(t) PROVE LossNoticed'
  BY <1>2, RunAssumption DEF StartJob, Runs
<1>3. ASSUME NEW t \in Tasks, ListRequest(t) PROVE LossNoticed'
  BY <1>3 DEF ListRequest
<1>4. ASSUME NEW t \in Tasks, SetDescription(t) PROVE LossNoticed'
  BY <1>4 DEF SetDescription
<1>5. ASSUME NEW t \in Tasks, PollExit(t) PROVE LossNoticed'
  BY <1>5 DEF PollExit
<1>6. ASSUME NEW t \in Tasks, ReadTimeout(t) PROVE LossNoticed'
  BY <1>6 DEF ReadTimeout
<1>7. ASSUME NEW t \in Tasks, FinishDetail(t) PROVE LossNoticed'
  BY <1>7 DEF FinishDetail
<1>8. ASSUME NEW t \in Tasks, Detach(t) PROVE LossNoticed'
  BY <1>8 DEF Detach
<1>9. ASSUME NEW t \in Tasks, ReadLabel(t) PROVE LossNoticed'
  BY <1>9 DEF ReadLabel
<1>10. ASSUME NEW t \in Tasks, Drop(t) PROVE LossNoticed'
  BY <1>10 DEF Drop
<1>11. ASSUME NEW t \in Tasks, ClearExitLabel(t) PROVE LossNoticed'
  BY <1>11 DEF ClearExitLabel
<1>12. ASSUME NEW t \in Tasks, ClearDescription(t) PROVE LossNoticed'
  BY <1>12 DEF ClearDescription
<1>13. ASSUME NEW t \in Tasks, StopLabel(t) PROVE LossNoticed'
  BY <1>13 DEF StopLabel
<1>14. ASSUME NEW t \in Tasks, StopKill(t) PROVE LossNoticed'
  BY <1>14 DEF StopKill
<1>15. ASSUME NEW t \in Tasks, StopWait(t) PROVE LossNoticed'
  BY <1>15 DEF StopWait
<1>16. ASSUME NEW t \in Tasks, StopDetail(t) PROVE LossNoticed'
  BY <1>16 DEF StopDetail
<1>17. ASSUME NEW t \in Tasks, Unlabel(t) PROVE LossNoticed'
  BY <1>17 DEF Unlabel
<1>18. ASSUME NEW t \in Tasks, StopRunDetail(t) PROVE LossNoticed'
  BY <1>18 DEF StopRunDetail
<1>19. ASSUME NEW t \in Tasks, Snapshot(t) PROVE LossNoticed'
  BY <1>19 DEF Snapshot
<1>20. ASSUME NEW t \in Tasks, ForceController(t) PROVE LossNoticed'
  BY <1>20 DEF ForceController
<1>21. ASSUME NEW t \in Tasks, WriteInput(t) PROVE LossNoticed'
  BY <1>21 DEF WriteInput
<1>22. ASSUME NEW t \in Tasks, AttachPoll(t) PROVE LossNoticed'
  BY <1>22 DEF AttachPoll
<1>23. ASSUME NEW t \in Tasks, AttachSnapshot(t) PROVE LossNoticed'
  BY <1>23 DEF AttachSnapshot
<1>24. ASSUME NEW t \in Tasks, AttachDetail(t) PROVE LossNoticed'
  BY <1>24 DEF AttachDetail
<1>25. ASSUME NEW t \in Tasks, AttachReply(t) PROVE LossNoticed'
  BY <1>25 DEF AttachReply
<1>26. ASSUME NEW t \in Tasks, RemoveKill(t) PROVE LossNoticed'
  BY <1>26 DEF RemoveKill
<1>27. ASSUME NEW t \in Tasks, RemoveWait(t) PROVE LossNoticed'
  BY <1>27 DEF RemoveWait
<1>28. ASSUME NEW t \in Tasks, ListItem(t) PROVE LossNoticed'
  <2> DEFINE Rest == UNCHANGED <<nextId, coreVars, labelVars, timer, overlap, grip>>
  <2>1. CASE (todo[t] = {} /\ Reply(t, TRUE, "none")) /\ Rest
    BY <2>1
  <2>2. CASE Fail(t) /\ Rest
    BY <2>2
  <2>3. ASSUME NEW r \in todo[t], Rest,
               pc' = [pc EXCEPT ![t] = IF Exited(r) THEN "listLabel" ELSE @],
               run' = [run EXCEPT ![t] = r],
               UNCHANGED <<mode, killErr, withInput, answer>>
        PROVE  LossNoticed'
    BY <1>28, <2>3
  <2>4. QED
    BY <1>28, <2>1, <2>2, <2>3 DEF ListItem
<1>29. ASSUME NEW t \in Tasks, NEW r \in Runs, StopRequest(t, r) PROVE LossNoticed'
  BY <1>29 DEF StopRequest
<1>30. ASSUME NEW t \in Tasks, NEW r \in Runs, RemoveRequest(t, r) PROVE LossNoticed'
  BY <1>30 DEF RemoveRequest
<1>31. ASSUME NEW t \in Tasks, NEW r \in Runs, AttachRequest(t, r) PROVE LossNoticed'
  BY <1>31 DEF AttachRequest
<1>32. ASSUME NEW r \in Runs, TimerFires(r) PROVE LossNoticed'
  BY <1>32 DEF TimerFires
<1>33. ASSUME NEW r \in Runs, TimerLabels(r) PROVE LossNoticed'
  BY <1>33 DEF TimerLabels
<1>34. ASSUME NEW r \in Runs, TimerKills(r) PROVE LossNoticed'
  BY <1>34 DEF TimerKills
<1>35. ASSUME NEW r \in Runs, ProcessExit(r) PROVE LossNoticed'
  BY <1>35 DEF ProcessExit
<1>36. ASSUME NEW r \in Runs, TakeControl(r) PROVE LossNoticed'
  BY <1>36 DEF TakeControl
<1>37. CASE UNCHANGED vars
  BY <1>37 DEF vars, taskVars
<1>38. QED
  BY <1>1, <1>2, <1>3, <1>4, <1>5, <1>6, <1>7, <1>8, <1>9, <1>10, <1>11, <1>12, <1>13, <1>14, <1>15, <1>16, <1>17, <1>18, <1>19, <1>20, <1>21, <1>22, <1>23, <1>24, <1>25, <1>26, <1>27, <1>28, <1>29, <1>30, <1>31, <1>32, <1>33, <1>34, <1>35, <1>36, <1>37 DEF Next, Request, HandlerStep, RunStep, StopStep, AttachStep, Timer

\* An exit is final: a new run has the id of no earlier one.
ExitsStay == \A r \in Runs : Exited(r) => Exited(r)'

LEMMA ExitsStayStep == TypeOK /\ Fresh /\ [Next]_vars => ExitsStay
<1> SUFFICES ASSUME TypeOK, Fresh, [Next]_vars PROVE ExitsStay
  OBVIOUS
<1> USE DEF ExitsStay, TypeOK, CoreTypeOK, TaskTypeOK, Goto, Reply, Fail, Begin, Refuse, Kill, Exited, Started, Dropped,
      coreVars, labelVars, taskVars, vars, NoRun, Fresh
<1>1. ASSUME NEW t \in Tasks, RejectRun(t) PROVE ExitsStay
  BY <1>1 DEF RejectRun
<1>2. ASSUME NEW t \in Tasks, StartJob(t) PROVE ExitsStay
  BY <1>2, RunAssumption DEF StartJob, Runs
<1>3. ASSUME NEW t \in Tasks, ListRequest(t) PROVE ExitsStay
  BY <1>3 DEF ListRequest
<1>4. ASSUME NEW t \in Tasks, SetDescription(t) PROVE ExitsStay
  BY <1>4 DEF SetDescription
<1>5. ASSUME NEW t \in Tasks, PollExit(t) PROVE ExitsStay
  BY <1>5 DEF PollExit
<1>6. ASSUME NEW t \in Tasks, ReadTimeout(t) PROVE ExitsStay
  BY <1>6 DEF ReadTimeout
<1>7. ASSUME NEW t \in Tasks, FinishDetail(t) PROVE ExitsStay
  BY <1>7 DEF FinishDetail
<1>8. ASSUME NEW t \in Tasks, Detach(t) PROVE ExitsStay
  BY <1>8 DEF Detach
<1>9. ASSUME NEW t \in Tasks, ReadLabel(t) PROVE ExitsStay
  BY <1>9 DEF ReadLabel
<1>10. ASSUME NEW t \in Tasks, Drop(t) PROVE ExitsStay
  BY <1>10 DEF Drop
<1>11. ASSUME NEW t \in Tasks, ClearExitLabel(t) PROVE ExitsStay
  BY <1>11 DEF ClearExitLabel
<1>12. ASSUME NEW t \in Tasks, ClearDescription(t) PROVE ExitsStay
  BY <1>12 DEF ClearDescription
<1>13. ASSUME NEW t \in Tasks, StopLabel(t) PROVE ExitsStay
  BY <1>13 DEF StopLabel
<1>14. ASSUME NEW t \in Tasks, StopKill(t) PROVE ExitsStay
  BY <1>14 DEF StopKill
<1>15. ASSUME NEW t \in Tasks, StopWait(t) PROVE ExitsStay
  BY <1>15 DEF StopWait
<1>16. ASSUME NEW t \in Tasks, StopDetail(t) PROVE ExitsStay
  BY <1>16 DEF StopDetail
<1>17. ASSUME NEW t \in Tasks, Unlabel(t) PROVE ExitsStay
  BY <1>17 DEF Unlabel
<1>18. ASSUME NEW t \in Tasks, StopRunDetail(t) PROVE ExitsStay
  BY <1>18 DEF StopRunDetail
<1>19. ASSUME NEW t \in Tasks, Snapshot(t) PROVE ExitsStay
  BY <1>19 DEF Snapshot
<1>20. ASSUME NEW t \in Tasks, ForceController(t) PROVE ExitsStay
  BY <1>20 DEF ForceController
<1>21. ASSUME NEW t \in Tasks, WriteInput(t) PROVE ExitsStay
  BY <1>21 DEF WriteInput
<1>22. ASSUME NEW t \in Tasks, AttachPoll(t) PROVE ExitsStay
  BY <1>22 DEF AttachPoll
<1>23. ASSUME NEW t \in Tasks, AttachSnapshot(t) PROVE ExitsStay
  BY <1>23 DEF AttachSnapshot
<1>24. ASSUME NEW t \in Tasks, AttachDetail(t) PROVE ExitsStay
  BY <1>24 DEF AttachDetail
<1>25. ASSUME NEW t \in Tasks, AttachReply(t) PROVE ExitsStay
  BY <1>25 DEF AttachReply
<1>26. ASSUME NEW t \in Tasks, RemoveKill(t) PROVE ExitsStay
  BY <1>26 DEF RemoveKill
<1>27. ASSUME NEW t \in Tasks, RemoveWait(t) PROVE ExitsStay
  BY <1>27 DEF RemoveWait
<1>28. ASSUME NEW t \in Tasks, ListItem(t) PROVE ExitsStay
  BY <1>28 DEF ListItem
<1>29. ASSUME NEW t \in Tasks, NEW r \in Runs, StopRequest(t, r) PROVE ExitsStay
  BY <1>29 DEF StopRequest
<1>30. ASSUME NEW t \in Tasks, NEW r \in Runs, RemoveRequest(t, r) PROVE ExitsStay
  BY <1>30 DEF RemoveRequest
<1>31. ASSUME NEW t \in Tasks, NEW r \in Runs, AttachRequest(t, r) PROVE ExitsStay
  BY <1>31 DEF AttachRequest
<1>32. ASSUME NEW r \in Runs, TimerFires(r) PROVE ExitsStay
  BY <1>32 DEF TimerFires
<1>33. ASSUME NEW r \in Runs, TimerLabels(r) PROVE ExitsStay
  BY <1>33 DEF TimerLabels
<1>34. ASSUME NEW r \in Runs, TimerKills(r) PROVE ExitsStay
  BY <1>34 DEF TimerKills
<1>35. ASSUME NEW r \in Runs, ProcessExit(r) PROVE ExitsStay
  BY <1>35 DEF ProcessExit
<1>36. ASSUME NEW r \in Runs, TakeControl(r) PROVE ExitsStay
  BY <1>36 DEF TakeControl
<1>37. CASE UNCHANGED vars
  BY <1>37 DEF vars, taskVars
<1>38. QED
  BY <1>1, <1>2, <1>3, <1>4, <1>5, <1>6, <1>7, <1>8, <1>9, <1>10, <1>11, <1>12, <1>13, <1>14, <1>15, <1>16, <1>17, <1>18, <1>19, <1>20, <1>21, <1>22, <1>23, <1>24, <1>25, <1>26, <1>27, <1>28, <1>29, <1>30, <1>31, <1>32, <1>33, <1>34, <1>35, <1>36, <1>37 DEF Next, Request, HandlerStep, RunStep, StopStep, AttachStep, Timer

\* What a handler shows is true of an exited run before its next move, and
\* so it is after it.
LEMMA GotoReal ==
  ASSUME TypeOK, NoPrematureExit, ExitsStay, NEW t \in Tasks, NEW step, Goto(t, step),
         \/ seen' = seen
         \/ /\ seen' = [seen EXCEPT ![t] = Display(run[t])]
            /\ run[t] \in Runs /\ Exited(run[t])
  PROVE  NoPrematureExit'
BY DEF TypeOK, TaskTypeOK, NoPrematureExit, ExitsStay, Goto

LEMMA ReplyReal ==
  ASSUME TypeOK, NoPrematureExit, ExitsStay, NEW t \in Tasks, NEW ok, NEW exit,
         exit # "none" => run[t] \in Runs /\ Exited(run[t]), Reply(t, ok, exit)
  PROVE  NoPrematureExit'
<1> SUFFICES ASSUME NEW u \in Tasks
             PROVE  /\ seen'[u] # "none" =>
                         run'[u] \in Runs /\ process'[run'[u]] = "exited"
                    /\ answer'[u].exit # "none" =>
                         answer'[u].run \in Runs /\ process'[answer'[u].run] = "exited"
  BY DEF NoPrematureExit, Exited
<1>1. CASE u = t
  BY <1>1 DEF TypeOK, TaskTypeOK, ExitsStay, Reply, Exited
<1>2. CASE u # t
  BY <1>2 DEF TypeOK, TaskTypeOK, NoPrematureExit, ExitsStay, Reply, Exited
<1>3. QED
  BY <1>1, <1>2

LEMMA BeginReal ==
  ASSUME TypeOK, NoPrematureExit, ExitsStay, NEW t \in Tasks, NEW m, NEW r \in Runs, NEW step,
         seen[t] = "none", Begin(t, m, r, step)
  PROVE  NoPrematureExit'
BY DEF TypeOK, TaskTypeOK, NoPrematureExit, ExitsStay, Begin, NoAnswer

LEMMA RefuseReal ==
  ASSUME TypeOK, NoPrematureExit, ExitsStay, NEW t \in Tasks, NEW m, Refuse(t, m)
  PROVE  NoPrematureExit'
BY DEF TypeOK, TaskTypeOK, NoPrematureExit, ExitsStay, Refuse

\* Nothing that is shown or answered claims an exit that did not happen.
LEMMA PrematureStep == TypeOK /\ Fresh /\ ExitKnown /\ NoPrematureExit /\ [Next]_vars => NoPrematureExit'
<1> SUFFICES ASSUME TypeOK, Fresh, ExitKnown, NoPrematureExit, [Next]_vars PROVE NoPrematureExit'
  OBVIOUS
<1>0. ExitsStay
  BY ExitsStayStep
<1> USE DEF Fail
<1>1. ASSUME NEW t \in Tasks, RejectRun(t) PROVE NoPrematureExit'
  BY <1>1, <1>0, GotoReal, ReplyReal, BeginReal, RefuseReal DEF RejectRun
<1>2. ASSUME NEW t \in Tasks, StartJob(t) PROVE NoPrematureExit'
  BY <1>2, <1>0, GotoReal, ReplyReal, BeginReal, RefuseReal DEF StartJob, ExitKnown
<1>3. ASSUME NEW t \in Tasks, ListRequest(t) PROVE NoPrematureExit'
  BY <1>3, <1>0, GotoReal, ReplyReal, BeginReal, RefuseReal DEF ListRequest, TypeOK, TaskTypeOK, NoPrematureExit, ExitsStay, ExitKnown, NoAnswer
<1>4. ASSUME NEW t \in Tasks, SetDescription(t) PROVE NoPrematureExit'
  BY <1>4, <1>0, GotoReal, ReplyReal, BeginReal, RefuseReal DEF SetDescription
<1>5. ASSUME NEW t \in Tasks, PollExit(t) PROVE NoPrematureExit'
  BY <1>5, <1>0, GotoReal, ReplyReal, BeginReal, RefuseReal DEF PollExit
<1>6. ASSUME NEW t \in Tasks, ReadTimeout(t) PROVE NoPrematureExit'
  BY <1>6, <1>0, GotoReal, ReplyReal, BeginReal, RefuseReal DEF ReadTimeout, TypeOK, TaskTypeOK, NoPrematureExit, ExitsStay, ExitKnown, NoAnswer
<1>7. ASSUME NEW t \in Tasks, FinishDetail(t) PROVE NoPrematureExit'
  BY <1>7, <1>0, GotoReal, ReplyReal, BeginReal, RefuseReal DEF FinishDetail
<1>8. ASSUME NEW t \in Tasks, Detach(t) PROVE NoPrematureExit'
  BY <1>8, <1>0, GotoReal, ReplyReal, BeginReal, RefuseReal DEF Detach
<1>9. ASSUME NEW t \in Tasks, ReadLabel(t) PROVE NoPrematureExit'
  BY <1>9, <1>0, GotoReal, ReplyReal, BeginReal, RefuseReal DEF ReadLabel, ExitKnown, LabelSteps, TypeOK
<1>10. ASSUME NEW t \in Tasks, Drop(t) PROVE NoPrematureExit'
  BY <1>10, <1>0, GotoReal, ReplyReal, BeginReal, RefuseReal DEF Drop
<1>11. ASSUME NEW t \in Tasks, ClearExitLabel(t) PROVE NoPrematureExit'
  BY <1>11, <1>0, GotoReal, ReplyReal, BeginReal, RefuseReal DEF ClearExitLabel
<1>12. ASSUME NEW t \in Tasks, ClearDescription(t) PROVE NoPrematureExit'
  BY <1>12, <1>0, GotoReal, ReplyReal, BeginReal, RefuseReal DEF ClearDescription, NoPrematureExit, TypeOK, TaskTypeOK, Busy
<1>13. ASSUME NEW t \in Tasks, StopLabel(t) PROVE NoPrematureExit'
  BY <1>13, <1>0, GotoReal, ReplyReal, BeginReal, RefuseReal DEF StopLabel
<1>14. ASSUME NEW t \in Tasks, StopKill(t) PROVE NoPrematureExit'
  BY <1>14, <1>0, GotoReal, ReplyReal, BeginReal, RefuseReal DEF StopKill, TypeOK, TaskTypeOK, NoPrematureExit, ExitsStay, ExitKnown, NoAnswer
<1>15. ASSUME NEW t \in Tasks, StopWait(t) PROVE NoPrematureExit'
  BY <1>15, <1>0, GotoReal, ReplyReal, BeginReal, RefuseReal DEF StopWait
<1>16. ASSUME NEW t \in Tasks, StopDetail(t) PROVE NoPrematureExit'
  BY <1>16, <1>0, GotoReal, ReplyReal, BeginReal, RefuseReal DEF StopDetail
<1>17. ASSUME NEW t \in Tasks, Unlabel(t) PROVE NoPrematureExit'
  BY <1>17, <1>0, GotoReal, ReplyReal, BeginReal, RefuseReal DEF Unlabel
<1>18. ASSUME NEW t \in Tasks, StopRunDetail(t) PROVE NoPrematureExit'
  BY <1>18, <1>0, GotoReal, ReplyReal, BeginReal, RefuseReal DEF StopRunDetail
<1>19. ASSUME NEW t \in Tasks, Snapshot(t) PROVE NoPrematureExit'
  BY <1>19, <1>0, GotoReal, ReplyReal, BeginReal, RefuseReal DEF Snapshot, NoPrematureExit, TypeOK, TaskTypeOK, Busy
<1>20. ASSUME NEW t \in Tasks, ForceController(t) PROVE NoPrematureExit'
  BY <1>20, <1>0, GotoReal, ReplyReal, BeginReal, RefuseReal DEF ForceController
<1>21. ASSUME NEW t \in Tasks, WriteInput(t) PROVE NoPrematureExit'
  BY <1>21, <1>0, GotoReal, ReplyReal, BeginReal, RefuseReal DEF WriteInput
<1>22. ASSUME NEW t \in Tasks, AttachPoll(t) PROVE NoPrematureExit'
  BY <1>22, <1>0, GotoReal, ReplyReal, BeginReal, RefuseReal DEF AttachPoll
<1>23. ASSUME NEW t \in Tasks, AttachSnapshot(t) PROVE NoPrematureExit'
  BY <1>23, <1>0, GotoReal, ReplyReal, BeginReal, RefuseReal DEF AttachSnapshot
<1>24. ASSUME NEW t \in Tasks, AttachDetail(t) PROVE NoPrematureExit'
  BY <1>24, <1>0, GotoReal, ReplyReal, BeginReal, RefuseReal DEF AttachDetail
<1>25. ASSUME NEW t \in Tasks, AttachReply(t) PROVE NoPrematureExit'
  BY <1>25, <1>0, GotoReal, ReplyReal, BeginReal, RefuseReal DEF AttachReply, NoPrematureExit, TypeOK, TaskTypeOK, Busy
<1>26. ASSUME NEW t \in Tasks, RemoveKill(t) PROVE NoPrematureExit'
  BY <1>26, <1>0, GotoReal, ReplyReal, BeginReal, RefuseReal DEF RemoveKill
<1>27. ASSUME NEW t \in Tasks, RemoveWait(t) PROVE NoPrematureExit'
  BY <1>27, <1>0, GotoReal, ReplyReal, BeginReal, RefuseReal DEF RemoveWait
<1>28. ASSUME NEW t \in Tasks, ListItem(t) PROVE NoPrematureExit'
  BY <1>28, <1>0, GotoReal, ReplyReal, BeginReal, RefuseReal DEF ListItem, TypeOK, TaskTypeOK, NoPrematureExit, ExitsStay, ExitKnown, NoAnswer
<1>29. ASSUME NEW t \in Tasks, NEW r \in Runs, StopRequest(t, r) PROVE NoPrematureExit'
  BY <1>29, <1>0, GotoReal, ReplyReal, BeginReal, RefuseReal DEF StopRequest, ExitKnown
<1>30. ASSUME NEW t \in Tasks, NEW r \in Runs, RemoveRequest(t, r) PROVE NoPrematureExit'
  BY <1>30, <1>0, GotoReal, ReplyReal, BeginReal, RefuseReal DEF RemoveRequest, ExitKnown
<1>31. ASSUME NEW t \in Tasks, NEW r \in Runs, AttachRequest(t, r) PROVE NoPrematureExit'
  BY <1>31, <1>0, GotoReal, ReplyReal, BeginReal, RefuseReal DEF AttachRequest, ExitKnown
<1>32. ASSUME NEW r \in Runs, TimerFires(r) PROVE NoPrematureExit'
  BY <1>32, <1>0 DEF TimerFires, taskVars, NoPrematureExit, ExitsStay
<1>33. ASSUME NEW r \in Runs, TimerLabels(r) PROVE NoPrematureExit'
  BY <1>33, <1>0 DEF TimerLabels, taskVars, NoPrematureExit, ExitsStay
<1>34. ASSUME NEW r \in Runs, TimerKills(r) PROVE NoPrematureExit'
  BY <1>34, <1>0 DEF TimerKills, taskVars, NoPrematureExit, ExitsStay
<1>35. ASSUME NEW r \in Runs, ProcessExit(r) PROVE NoPrematureExit'
  BY <1>35, <1>0 DEF ProcessExit, taskVars, NoPrematureExit, ExitsStay
<1>36. ASSUME NEW r \in Runs, TakeControl(r) PROVE NoPrematureExit'
  BY <1>36, <1>0 DEF TakeControl, taskVars, NoPrematureExit, ExitsStay
<1>37. CASE UNCHANGED vars
  BY <1>37, <1>0 DEF vars, taskVars, NoPrematureExit, ExitsStay
<1>38. QED
  BY <1>1, <1>2, <1>3, <1>4, <1>5, <1>6, <1>7, <1>8, <1>9, <1>10, <1>11, <1>12, <1>13, <1>14, <1>15, <1>16, <1>17, <1>18, <1>19, <1>20, <1>21, <1>22, <1>23, <1>24, <1>25, <1>26, <1>27, <1>28, <1>29, <1>30, <1>31, <1>32, <1>33, <1>34, <1>35, <1>36, <1>37 DEF Next, Request, HandlerStep, RunStep, StopStep, AttachStep, Timer

\* A step that touches neither the session table nor the label maps, and
\* leaves the handlers that clear labels where they are, keeps LabelsCleared.
ClearersStay == \A u \in Tasks : pc[u] \in {"clearExit", "clearDesc"} =>
                  pc'[u] = pc[u] /\ run'[u] = run[u]

LEMMA ClearedFrame ==
  ASSUME LabelsCleared, ClearersStay, UNCHANGED <<process, present, exitLabel, descLabel, overlap>>
  PROVE  LabelsCleared'
BY DEF LabelsCleared, ClearersStay, Started, Dropped

LEMMA GotoStays ==
  ASSUME TypeOK, NEW t \in Tasks, pc[t] \notin {"clearExit", "clearDesc"},
         NEW step, Goto(t, step)
  PROVE  ClearersStay
BY DEF TypeOK, TaskTypeOK, ClearersStay, Goto

LEMMA BeginStays ==
  ASSUME TypeOK, NEW t \in Tasks, pc[t] \notin {"clearExit", "clearDesc"},
         NEW m, NEW r, NEW step, Begin(t, m, r, step)
  PROVE  ClearersStay
BY DEF TypeOK, TaskTypeOK, ClearersStay, Begin

LEMMA RefuseStays ==
  ASSUME TypeOK, NEW t \in Tasks, NEW m, Refuse(t, m)
  PROVE  ClearersStay
BY DEF ClearersStay, Refuse

LEMMA ReplyStays ==
  ASSUME TypeOK, NEW t \in Tasks, pc[t] \notin {"clearExit", "clearDesc"},
         NEW ok, NEW exit, Reply(t, ok, exit)
  PROVE  ClearersStay
BY DEF TypeOK, TaskTypeOK, ClearersStay, Reply

\* A clear follows every drop, and only what overlap recorded comes after it.
LEMMA ClearedStep == TypeOK /\ Fresh /\ GoneKnown /\ OverlapKnown /\ LabelsCleared /\ [Next]_vars => LabelsCleared'
<1> SUFFICES ASSUME TypeOK, Fresh, GoneKnown, OverlapKnown, LabelsCleared, [Next]_vars PROVE LabelsCleared'
  OBVIOUS
<1> USE DEF Fail
<1>1. ASSUME NEW t \in Tasks, RejectRun(t) PROVE LabelsCleared'
  BY <1>1, ClearedFrame, GotoStays, BeginStays, RefuseStays, ReplyStays DEF RejectRun, coreVars, labelVars, LabelSteps
<1>2. ASSUME NEW t \in Tasks, StartJob(t) PROVE LabelsCleared'
  <2>1. nextId \in Runs /\ process[nextId] = "unborn" /\ exitLabel[nextId] = "none" /\ ~descLabel[nextId]
    BY <1>2, RunAssumption DEF StartJob, TypeOK, CoreTypeOK, Fresh, Runs
  <2>2. ClearersStay
    BY <1>2, BeginStays DEF StartJob
  <2>3. \A r \in Runs : Dropped(r)' => Dropped(r)
    BY <1>2, <2>1 DEF StartJob, Dropped, Started, TypeOK, CoreTypeOK
  <2>4. QED
    BY <1>2, <2>2, <2>3 DEF StartJob, LabelsCleared, ClearersStay, labelVars
<1>3. ASSUME NEW t \in Tasks, ListRequest(t) PROVE LabelsCleared'
  BY <1>3, ClearedFrame, GotoStays, BeginStays, RefuseStays, ReplyStays DEF ListRequest, coreVars, labelVars, LabelSteps, ClearersStay, TypeOK, TaskTypeOK
<1>4. ASSUME NEW t \in Tasks, SetDescription(t) PROVE LabelsCleared'
  BY <1>4 DEF SetDescription, TypeOK, CoreTypeOK, TaskTypeOK, Goto, Reply, Fresh, GoneKnown, OverlapKnown, LabelsCleared,
     Started, Dropped, Exited, labelVars, coreVars, taskVars
<1>5. ASSUME NEW t \in Tasks, PollExit(t) PROVE LabelsCleared'
  BY <1>5, ClearedFrame, GotoStays, BeginStays, RefuseStays, ReplyStays DEF PollExit, coreVars, labelVars, LabelSteps
<1>6. ASSUME NEW t \in Tasks, ReadTimeout(t) PROVE LabelsCleared'
  BY <1>6, ClearedFrame, GotoStays, BeginStays, RefuseStays, ReplyStays DEF ReadTimeout, coreVars, labelVars, LabelSteps, ClearersStay, TypeOK, TaskTypeOK
<1>7. ASSUME NEW t \in Tasks, FinishDetail(t) PROVE LabelsCleared'
  BY <1>7, ClearedFrame, GotoStays, BeginStays, RefuseStays, ReplyStays DEF FinishDetail, coreVars, labelVars, LabelSteps
<1>8. ASSUME NEW t \in Tasks, Detach(t) PROVE LabelsCleared'
  BY <1>8, ClearedFrame, GotoStays, BeginStays, RefuseStays, ReplyStays DEF Detach, coreVars, labelVars, LabelSteps
<1>9. ASSUME NEW t \in Tasks, ReadLabel(t) PROVE LabelsCleared'
  BY <1>9, ClearedFrame, GotoStays, BeginStays, RefuseStays, ReplyStays DEF ReadLabel, coreVars, labelVars, LabelSteps
<1>10. ASSUME NEW t \in Tasks, Drop(t) PROVE LabelsCleared'
  BY <1>10 DEF Drop, TypeOK, CoreTypeOK, TaskTypeOK, Goto, Reply, Fresh, GoneKnown, OverlapKnown, LabelsCleared,
     Started, Dropped, Exited, labelVars, coreVars, taskVars
<1>11. ASSUME NEW t \in Tasks, ClearExitLabel(t) PROVE LabelsCleared'
  BY <1>11 DEF ClearExitLabel, TypeOK, CoreTypeOK, TaskTypeOK, Goto, Reply, Fresh, GoneKnown, OverlapKnown, LabelsCleared,
     Started, Dropped, Exited, labelVars, coreVars, taskVars
<1>12. ASSUME NEW t \in Tasks, ClearDescription(t) PROVE LabelsCleared'
  BY <1>12 DEF ClearDescription, TypeOK, CoreTypeOK, TaskTypeOK, Goto, Reply, Fresh, GoneKnown, OverlapKnown, LabelsCleared,
     Started, Dropped, Exited, labelVars, coreVars, taskVars
<1>13. ASSUME NEW t \in Tasks, StopLabel(t) PROVE LabelsCleared'
  BY <1>13 DEF StopLabel, TypeOK, CoreTypeOK, TaskTypeOK, Goto, Reply, Fresh, GoneKnown, OverlapKnown, LabelsCleared,
     Started, Dropped, Exited, labelVars, coreVars, taskVars
<1>14. ASSUME NEW t \in Tasks, StopKill(t) PROVE LabelsCleared'
  BY <1>14, ClearedFrame, GotoStays, BeginStays, RefuseStays, ReplyStays DEF StopKill, coreVars, labelVars, LabelSteps, ClearersStay, TypeOK, TaskTypeOK
<1>15. ASSUME NEW t \in Tasks, StopWait(t) PROVE LabelsCleared'
  BY <1>15, ClearedFrame, GotoStays, BeginStays, RefuseStays, ReplyStays DEF StopWait, coreVars, labelVars, LabelSteps
<1>16. ASSUME NEW t \in Tasks, StopDetail(t) PROVE LabelsCleared'
  BY <1>16, ClearedFrame, GotoStays, BeginStays, RefuseStays, ReplyStays DEF StopDetail, coreVars, labelVars, LabelSteps
<1>17. ASSUME NEW t \in Tasks, Unlabel(t) PROVE LabelsCleared'
  BY <1>17 DEF Unlabel, TypeOK, CoreTypeOK, TaskTypeOK, Goto, Reply, Fresh, GoneKnown, OverlapKnown, LabelsCleared,
     Started, Dropped, Exited, labelVars, coreVars, taskVars
<1>18. ASSUME NEW t \in Tasks, StopRunDetail(t) PROVE LabelsCleared'
  BY <1>18, ClearedFrame, GotoStays, BeginStays, RefuseStays, ReplyStays DEF StopRunDetail, coreVars, labelVars, LabelSteps
<1>19. ASSUME NEW t \in Tasks, Snapshot(t) PROVE LabelsCleared'
  BY <1>19, ClearedFrame, GotoStays, BeginStays, RefuseStays, ReplyStays DEF Snapshot, coreVars, labelVars, LabelSteps
<1>20. ASSUME NEW t \in Tasks, ForceController(t) PROVE LabelsCleared'
  BY <1>20, ClearedFrame, GotoStays, BeginStays, RefuseStays, ReplyStays DEF ForceController, coreVars, labelVars, LabelSteps
<1>21. ASSUME NEW t \in Tasks, WriteInput(t) PROVE LabelsCleared'
  BY <1>21, ClearedFrame, GotoStays, BeginStays, RefuseStays, ReplyStays DEF WriteInput, coreVars, labelVars, LabelSteps
<1>22. ASSUME NEW t \in Tasks, AttachPoll(t) PROVE LabelsCleared'
  BY <1>22, ClearedFrame, GotoStays, BeginStays, RefuseStays, ReplyStays DEF AttachPoll, coreVars, labelVars, LabelSteps
<1>23. ASSUME NEW t \in Tasks, AttachSnapshot(t) PROVE LabelsCleared'
  BY <1>23, ClearedFrame, GotoStays, BeginStays, RefuseStays, ReplyStays DEF AttachSnapshot, coreVars, labelVars, LabelSteps
<1>24. ASSUME NEW t \in Tasks, AttachDetail(t) PROVE LabelsCleared'
  BY <1>24, ClearedFrame, GotoStays, BeginStays, RefuseStays, ReplyStays DEF AttachDetail, coreVars, labelVars, LabelSteps
<1>25. ASSUME NEW t \in Tasks, AttachReply(t) PROVE LabelsCleared'
  BY <1>25, ClearedFrame, GotoStays, BeginStays, RefuseStays, ReplyStays DEF AttachReply, coreVars, labelVars, LabelSteps
<1>26. ASSUME NEW t \in Tasks, RemoveKill(t) PROVE LabelsCleared'
  BY <1>26, ClearedFrame, GotoStays, BeginStays, RefuseStays, ReplyStays DEF RemoveKill, coreVars, labelVars, LabelSteps
<1>27. ASSUME NEW t \in Tasks, RemoveWait(t) PROVE LabelsCleared'
  BY <1>27, ClearedFrame, GotoStays, BeginStays, RefuseStays, ReplyStays DEF RemoveWait, coreVars, labelVars, LabelSteps
<1>28. ASSUME NEW t \in Tasks, ListItem(t) PROVE LabelsCleared'
  BY <1>28, ClearedFrame, GotoStays, BeginStays, RefuseStays, ReplyStays DEF ListItem, coreVars, labelVars, LabelSteps, ClearersStay, TypeOK, TaskTypeOK
<1>29. ASSUME NEW t \in Tasks, NEW r \in Runs, StopRequest(t, r) PROVE LabelsCleared'
  BY <1>29, ClearedFrame, GotoStays, BeginStays, RefuseStays, ReplyStays DEF StopRequest, coreVars, labelVars, LabelSteps
<1>30. ASSUME NEW t \in Tasks, NEW r \in Runs, RemoveRequest(t, r) PROVE LabelsCleared'
  BY <1>30, ClearedFrame, GotoStays, BeginStays, RefuseStays, ReplyStays DEF RemoveRequest, coreVars, labelVars, LabelSteps
<1>31. ASSUME NEW t \in Tasks, NEW r \in Runs, AttachRequest(t, r) PROVE LabelsCleared'
  BY <1>31, ClearedFrame, GotoStays, BeginStays, RefuseStays, ReplyStays DEF AttachRequest, coreVars, labelVars, LabelSteps
<1>32. ASSUME NEW r \in Runs, TimerFires(r) PROVE LabelsCleared'
  BY <1>32, ClearedFrame DEF TimerFires, taskVars, coreVars, labelVars, ClearersStay
<1>33. ASSUME NEW r \in Runs, TimerLabels(r) PROVE LabelsCleared'
  BY <1>33 DEF TimerLabels, TypeOK, CoreTypeOK, TaskTypeOK, Goto, Reply, Fresh, GoneKnown, OverlapKnown, LabelsCleared,
     Started, Dropped, Exited, labelVars, coreVars, taskVars
<1>34. ASSUME NEW r \in Runs, TimerKills(r) PROVE LabelsCleared'
  BY <1>34, ClearedFrame DEF TimerKills, taskVars, coreVars, labelVars, ClearersStay
<1>35. ASSUME NEW r \in Runs, ProcessExit(r) PROVE LabelsCleared'
  BY <1>35 DEF ProcessExit, TypeOK, CoreTypeOK, TaskTypeOK, Goto, Reply, Fresh, GoneKnown, OverlapKnown, LabelsCleared,
     Started, Dropped, Exited, labelVars, coreVars, taskVars
<1>36. ASSUME NEW r \in Runs, TakeControl(r) PROVE LabelsCleared'
  BY <1>36, ClearedFrame DEF TakeControl, taskVars, coreVars, labelVars, ClearersStay
<1>37. CASE UNCHANGED vars
  BY <1>37, ClearedFrame DEF vars, taskVars, coreVars, labelVars, ClearersStay
<1>38. QED
  BY <1>1, <1>2, <1>3, <1>4, <1>5, <1>6, <1>7, <1>8, <1>9, <1>10, <1>11, <1>12, <1>13, <1>14, <1>15, <1>16, <1>17, <1>18, <1>19, <1>20, <1>21, <1>22, <1>23, <1>24, <1>25, <1>26, <1>27, <1>28, <1>29, <1>30, <1>31, <1>32, <1>33, <1>34, <1>35, <1>36, <1>37 DEF Next, Request, HandlerStep, RunStep, StopStep, AttachStep, Timer

\* An answered run stays gone: its session does not come back.
GoneStays == \A r \in Runs : Exited(r) /\ ~present[r] => Exited(r)' /\ ~present[r]'

LEMMA ReplyGone ==
  ASSUME TypeOK, CompletedIsGone, GoneStays, NEW t \in Tasks, NEW ok, NEW exit,
         mode[t] = "run" /\ ok => run[t] \in Runs /\ ~present[run[t]] /\ Exited(run[t]),
         Reply(t, ok, exit)
  PROVE  CompletedIsGone'
<1> SUFFICES ASSUME NEW u \in Tasks, answer'[u].mode = "run", answer'[u].ok
             PROVE  /\ answer'[u].run \in Runs
                    /\ ~present'[answer'[u].run] /\ process'[answer'[u].run] = "exited"
  BY DEF CompletedIsGone, Exited
<1>1. CASE u = t
  BY <1>1 DEF TypeOK, TaskTypeOK, GoneStays, Reply, Exited
<1>2. CASE u # t
  BY <1>2 DEF TypeOK, TaskTypeOK, CompletedIsGone, GoneStays, Reply, Exited
<1>3. QED
  BY <1>1, <1>2

LEMMA OtherGone ==
  ASSUME TypeOK, CompletedIsGone, GoneStays, NEW t \in Tasks,
         answer' = answer \/ answer' = [answer EXCEPT ![t] = NoAnswer]
         \/ \E m : Refuse(t, m)
  PROVE  CompletedIsGone'
BY DEF TypeOK, TaskTypeOK, CompletedIsGone, GoneStays, Refuse, NoAnswer

\* A dropped session stays dropped.
LEMMA GoneStaysStep == TypeOK /\ Fresh /\ [Next]_vars => GoneStays
<1> SUFFICES ASSUME TypeOK, Fresh, [Next]_vars PROVE GoneStays
  OBVIOUS
<1> USE DEF TypeOK, CoreTypeOK, TaskTypeOK, Goto, Reply, Fail, Begin, Refuse, Kill, Exited, Started, Dropped,
      coreVars, labelVars, taskVars, vars, NoRun, Fresh, LabelSteps, AfterLabel, GoneStays
<1>1. ASSUME NEW t \in Tasks, RejectRun(t) PROVE GoneStays
  BY <1>1 DEF RejectRun
<1>2. ASSUME NEW t \in Tasks, StartJob(t) PROVE GoneStays
  BY <1>2, RunAssumption DEF StartJob, Runs
<1>3. ASSUME NEW t \in Tasks, ListRequest(t) PROVE GoneStays
  BY <1>3 DEF ListRequest
<1>4. ASSUME NEW t \in Tasks, SetDescription(t) PROVE GoneStays
  BY <1>4 DEF SetDescription
<1>5. ASSUME NEW t \in Tasks, PollExit(t) PROVE GoneStays
  BY <1>5 DEF PollExit
<1>6. ASSUME NEW t \in Tasks, ReadTimeout(t) PROVE GoneStays
  BY <1>6 DEF ReadTimeout
<1>7. ASSUME NEW t \in Tasks, FinishDetail(t) PROVE GoneStays
  BY <1>7 DEF FinishDetail
<1>8. ASSUME NEW t \in Tasks, Detach(t) PROVE GoneStays
  BY <1>8 DEF Detach
<1>9. ASSUME NEW t \in Tasks, ReadLabel(t) PROVE GoneStays
  BY <1>9 DEF ReadLabel
<1>10. ASSUME NEW t \in Tasks, Drop(t) PROVE GoneStays
  BY <1>10 DEF Drop
<1>11. ASSUME NEW t \in Tasks, ClearExitLabel(t) PROVE GoneStays
  BY <1>11 DEF ClearExitLabel
<1>12. ASSUME NEW t \in Tasks, ClearDescription(t) PROVE GoneStays
  BY <1>12 DEF ClearDescription
<1>13. ASSUME NEW t \in Tasks, StopLabel(t) PROVE GoneStays
  BY <1>13 DEF StopLabel
<1>14. ASSUME NEW t \in Tasks, StopKill(t) PROVE GoneStays
  BY <1>14 DEF StopKill
<1>15. ASSUME NEW t \in Tasks, StopWait(t) PROVE GoneStays
  BY <1>15 DEF StopWait
<1>16. ASSUME NEW t \in Tasks, StopDetail(t) PROVE GoneStays
  BY <1>16 DEF StopDetail
<1>17. ASSUME NEW t \in Tasks, Unlabel(t) PROVE GoneStays
  BY <1>17 DEF Unlabel
<1>18. ASSUME NEW t \in Tasks, StopRunDetail(t) PROVE GoneStays
  BY <1>18 DEF StopRunDetail
<1>19. ASSUME NEW t \in Tasks, Snapshot(t) PROVE GoneStays
  BY <1>19 DEF Snapshot
<1>20. ASSUME NEW t \in Tasks, ForceController(t) PROVE GoneStays
  BY <1>20 DEF ForceController
<1>21. ASSUME NEW t \in Tasks, WriteInput(t) PROVE GoneStays
  BY <1>21 DEF WriteInput
<1>22. ASSUME NEW t \in Tasks, AttachPoll(t) PROVE GoneStays
  BY <1>22 DEF AttachPoll
<1>23. ASSUME NEW t \in Tasks, AttachSnapshot(t) PROVE GoneStays
  BY <1>23 DEF AttachSnapshot
<1>24. ASSUME NEW t \in Tasks, AttachDetail(t) PROVE GoneStays
  BY <1>24 DEF AttachDetail
<1>25. ASSUME NEW t \in Tasks, AttachReply(t) PROVE GoneStays
  BY <1>25 DEF AttachReply
<1>26. ASSUME NEW t \in Tasks, RemoveKill(t) PROVE GoneStays
  BY <1>26 DEF RemoveKill
<1>27. ASSUME NEW t \in Tasks, RemoveWait(t) PROVE GoneStays
  BY <1>27 DEF RemoveWait
<1>28. ASSUME NEW t \in Tasks, ListItem(t) PROVE GoneStays
  BY <1>28 DEF ListItem
<1>29. ASSUME NEW t \in Tasks, NEW r \in Runs, StopRequest(t, r) PROVE GoneStays
  BY <1>29 DEF StopRequest
<1>30. ASSUME NEW t \in Tasks, NEW r \in Runs, RemoveRequest(t, r) PROVE GoneStays
  BY <1>30 DEF RemoveRequest
<1>31. ASSUME NEW t \in Tasks, NEW r \in Runs, AttachRequest(t, r) PROVE GoneStays
  BY <1>31 DEF AttachRequest
<1>32. ASSUME NEW r \in Runs, TimerFires(r) PROVE GoneStays
  BY <1>32 DEF TimerFires
<1>33. ASSUME NEW r \in Runs, TimerLabels(r) PROVE GoneStays
  BY <1>33 DEF TimerLabels
<1>34. ASSUME NEW r \in Runs, TimerKills(r) PROVE GoneStays
  BY <1>34 DEF TimerKills
<1>35. ASSUME NEW r \in Runs, ProcessExit(r) PROVE GoneStays
  BY <1>35 DEF ProcessExit
<1>36. ASSUME NEW r \in Runs, TakeControl(r) PROVE GoneStays
  BY <1>36 DEF TakeControl
<1>37. CASE UNCHANGED vars
  BY <1>37 DEF vars, taskVars
<1>38. QED
  BY <1>1, <1>2, <1>3, <1>4, <1>5, <1>6, <1>7, <1>8, <1>9, <1>10, <1>11, <1>12, <1>13, <1>14, <1>15, <1>16, <1>17, <1>18, <1>19, <1>20, <1>21, <1>22, <1>23, <1>24, <1>25, <1>26, <1>27, <1>28, <1>29, <1>30, <1>31, <1>32, <1>33, <1>34, <1>35, <1>36, <1>37 DEF Next, Request, HandlerStep, RunStep, StopStep, AttachStep, Timer

\* Only the last clear of a completed run answers it.
LEMMA CompletedStep == TypeOK /\ Fresh /\ ExitKnown /\ GoneKnown /\ CompletedIsGone /\ [Next]_vars => CompletedIsGone'
<1> SUFFICES ASSUME TypeOK, Fresh, ExitKnown, GoneKnown, CompletedIsGone, [Next]_vars PROVE CompletedIsGone'
  OBVIOUS
<1>0. GoneStays
  BY GoneStaysStep
<1> USE DEF Fail, Goto, Begin
<1>1. ASSUME NEW t \in Tasks, RejectRun(t) PROVE CompletedIsGone'
  BY <1>1, <1>0, ReplyGone, OtherGone DEF RejectRun
<1>2. ASSUME NEW t \in Tasks, StartJob(t) PROVE CompletedIsGone'
  BY <1>2, <1>0, ReplyGone, OtherGone DEF StartJob
<1>3. ASSUME NEW t \in Tasks, ListRequest(t) PROVE CompletedIsGone'
  BY <1>3, <1>0, ReplyGone, OtherGone DEF ListRequest
<1>4. ASSUME NEW t \in Tasks, SetDescription(t) PROVE CompletedIsGone'
  BY <1>4, <1>0, ReplyGone, OtherGone DEF SetDescription
<1>5. ASSUME NEW t \in Tasks, PollExit(t) PROVE CompletedIsGone'
  BY <1>5, <1>0, ReplyGone, OtherGone DEF PollExit
<1>6. ASSUME NEW t \in Tasks, ReadTimeout(t) PROVE CompletedIsGone'
  BY <1>6, <1>0, ReplyGone, OtherGone DEF ReadTimeout
<1>7. ASSUME NEW t \in Tasks, FinishDetail(t) PROVE CompletedIsGone'
  BY <1>7, <1>0, ReplyGone, OtherGone DEF FinishDetail
<1>8. ASSUME NEW t \in Tasks, Detach(t) PROVE CompletedIsGone'
  BY <1>8, <1>0, ReplyGone, OtherGone DEF Detach
<1>9. ASSUME NEW t \in Tasks, ReadLabel(t) PROVE CompletedIsGone'
  BY <1>9, <1>0, ReplyGone, OtherGone DEF ReadLabel
<1>10. ASSUME NEW t \in Tasks, Drop(t) PROVE CompletedIsGone'
  BY <1>10, <1>0, ReplyGone, OtherGone DEF Drop
<1>11. ASSUME NEW t \in Tasks, ClearExitLabel(t) PROVE CompletedIsGone'
  BY <1>11, <1>0, ReplyGone, OtherGone DEF ClearExitLabel
<1>12. ASSUME NEW t \in Tasks, ClearDescription(t) PROVE CompletedIsGone'
  BY <1>12, <1>0, ReplyGone, OtherGone DEF ClearDescription, GoneKnown, ExitKnown, TypeOK
<1>13. ASSUME NEW t \in Tasks, StopLabel(t) PROVE CompletedIsGone'
  BY <1>13, <1>0, ReplyGone, OtherGone DEF StopLabel
<1>14. ASSUME NEW t \in Tasks, StopKill(t) PROVE CompletedIsGone'
  BY <1>14, <1>0, ReplyGone, OtherGone DEF StopKill
<1>15. ASSUME NEW t \in Tasks, StopWait(t) PROVE CompletedIsGone'
  BY <1>15, <1>0, ReplyGone, OtherGone DEF StopWait
<1>16. ASSUME NEW t \in Tasks, StopDetail(t) PROVE CompletedIsGone'
  BY <1>16, <1>0, ReplyGone, OtherGone DEF StopDetail
<1>17. ASSUME NEW t \in Tasks, Unlabel(t) PROVE CompletedIsGone'
  BY <1>17, <1>0, ReplyGone, OtherGone DEF Unlabel
<1>18. ASSUME NEW t \in Tasks, StopRunDetail(t) PROVE CompletedIsGone'
  BY <1>18, <1>0, ReplyGone, OtherGone DEF StopRunDetail
<1>19. ASSUME NEW t \in Tasks, Snapshot(t) PROVE CompletedIsGone'
  BY <1>19, <1>0, ReplyGone, OtherGone DEF Snapshot, GoneKnown, ExitKnown, TypeOK
<1>20. ASSUME NEW t \in Tasks, ForceController(t) PROVE CompletedIsGone'
  BY <1>20, <1>0, ReplyGone, OtherGone DEF ForceController
<1>21. ASSUME NEW t \in Tasks, WriteInput(t) PROVE CompletedIsGone'
  BY <1>21, <1>0, ReplyGone, OtherGone DEF WriteInput
<1>22. ASSUME NEW t \in Tasks, AttachPoll(t) PROVE CompletedIsGone'
  BY <1>22, <1>0, ReplyGone, OtherGone DEF AttachPoll
<1>23. ASSUME NEW t \in Tasks, AttachSnapshot(t) PROVE CompletedIsGone'
  BY <1>23, <1>0, ReplyGone, OtherGone DEF AttachSnapshot
<1>24. ASSUME NEW t \in Tasks, AttachDetail(t) PROVE CompletedIsGone'
  BY <1>24, <1>0, ReplyGone, OtherGone DEF AttachDetail
<1>25. ASSUME NEW t \in Tasks, AttachReply(t) PROVE CompletedIsGone'
  BY <1>25, <1>0, ReplyGone, OtherGone DEF AttachReply, GoneKnown, ExitKnown, TypeOK
<1>26. ASSUME NEW t \in Tasks, RemoveKill(t) PROVE CompletedIsGone'
  BY <1>26, <1>0, ReplyGone, OtherGone DEF RemoveKill
<1>27. ASSUME NEW t \in Tasks, RemoveWait(t) PROVE CompletedIsGone'
  BY <1>27, <1>0, ReplyGone, OtherGone DEF RemoveWait
<1>28. ASSUME NEW t \in Tasks, ListItem(t) PROVE CompletedIsGone'
  BY <1>28, <1>0, ReplyGone, OtherGone DEF ListItem, GoneKnown, ExitKnown, TypeOK
<1>29. ASSUME NEW t \in Tasks, NEW r \in Runs, StopRequest(t, r) PROVE CompletedIsGone'
  BY <1>29, <1>0, ReplyGone, OtherGone DEF StopRequest
<1>30. ASSUME NEW t \in Tasks, NEW r \in Runs, RemoveRequest(t, r) PROVE CompletedIsGone'
  BY <1>30, <1>0, ReplyGone, OtherGone DEF RemoveRequest
<1>31. ASSUME NEW t \in Tasks, NEW r \in Runs, AttachRequest(t, r) PROVE CompletedIsGone'
  BY <1>31, <1>0, ReplyGone, OtherGone DEF AttachRequest
<1>32. ASSUME NEW r \in Runs, TimerFires(r) PROVE CompletedIsGone'
  BY <1>32, <1>0 DEF TimerFires, taskVars, CompletedIsGone, GoneStays
<1>33. ASSUME NEW r \in Runs, TimerLabels(r) PROVE CompletedIsGone'
  BY <1>33, <1>0 DEF TimerLabels, taskVars, CompletedIsGone, GoneStays
<1>34. ASSUME NEW r \in Runs, TimerKills(r) PROVE CompletedIsGone'
  BY <1>34, <1>0 DEF TimerKills, taskVars, CompletedIsGone, GoneStays
<1>35. ASSUME NEW r \in Runs, ProcessExit(r) PROVE CompletedIsGone'
  BY <1>35, <1>0 DEF ProcessExit, taskVars, CompletedIsGone, GoneStays
<1>36. ASSUME NEW r \in Runs, TakeControl(r) PROVE CompletedIsGone'
  BY <1>36, <1>0 DEF TakeControl, taskVars, CompletedIsGone, GoneStays
<1>37. CASE UNCHANGED vars
  BY <1>37, <1>0 DEF vars, taskVars, CompletedIsGone, GoneStays
<1>38. QED
  BY <1>1, <1>2, <1>3, <1>4, <1>5, <1>6, <1>7, <1>8, <1>9, <1>10, <1>11, <1>12, <1>13, <1>14, <1>15, <1>16, <1>17, <1>18, <1>19, <1>20, <1>21, <1>22, <1>23, <1>24, <1>25, <1>26, <1>27, <1>28, <1>29, <1>30, <1>31, <1>32, <1>33, <1>34, <1>35, <1>36, <1>37 DEF Next, Request, HandlerStep, RunStep, StopStep, AttachStep, Timer

-----------------------------------------------------------------------------
(* The theorems *)

LEMMA InitInv == Init => RunInv
<1> SUFFICES ASSUME Init PROVE RunInv
  OBVIOUS
<1>1. Fresh
  BY RunAssumption DEF Init, Fresh, Runs
<1>2. ExitKnown /\ DropKnown /\ GoneKnown /\ OverlapKnown /\ GripKnown
  BY DEF Init, ExitKnown, DropKnown, GoneKnown, OverlapKnown, GripKnown, LabelSteps, Dropped, Started
<1>3. QED
  BY <1>1, <1>2 DEF RunInv

\* The inductive invariant holds of every reachable state: what each control
\* point of a handler may rely on, whatever the others do.
THEOREM RunInvHolds == Spec => []RunInv
<1>1. TypeOK /\ RunInv /\ [Next]_vars => RunInv'
  BY FreshStep, GoneStep, ExitStep, DropStep, OverlapStep, GripStep DEF RunInv
<1>2. QED
  BY InitInv, <1>1, TypeCorrect, PTL DEF Spec

\* An exit code is reported only for a process that has exited, although stop
\* and the timer set their labels before the process dies.
THEOREM ExitsAreReal == Spec => []NoPrematureExit
<1>1. Init => NoPrematureExit
  BY DEF Init, NoPrematureExit, NoAnswer
<1>2. TypeOK /\ RunInv /\ NoPrematureExit /\ [Next]_vars => NoPrematureExit'
  BY PrematureStep DEF RunInv
<1>3. QED
  BY <1>1, <1>2, TypeCorrect, RunInvHolds, PTL DEF Spec

\* No handler forgets a run whose process was neither killed nor had exited.
THEOREM NoRunOrphaned == Spec => []NoOrphan
<1>1. Init => NoOrphan
  BY DEF Init, NoOrphan, Dropped, Started
<1>2. TypeOK /\ RunInv /\ NoOrphan /\ [Next]_vars => NoOrphan'
  BY OrphanStep DEF RunInv
<1>3. QED
  BY <1>1, <1>2, TypeCorrect, RunInvHolds, PTL DEF Spec

\* Labels outlive their run only where a labeller overlapped the drop.
THEOREM LabelsAreCleared == Spec => []LabelsCleared
<1>1. Init => LabelsCleared
  BY DEF Init, LabelsCleared, Dropped, Started
<1>2. TypeOK /\ RunInv /\ LabelsCleared /\ [Next]_vars => LabelsCleared'
  BY ClearedStep DEF RunInv
<1>3. QED
  BY <1>1, <1>2, TypeCorrect, RunInvHolds, PTL DEF Spec

\* A completed run answer leaves neither a session nor a process.
THEOREM CompletedRunsAreGone == Spec => []CompletedIsGone
<1>1. Init => CompletedIsGone
  BY DEF Init, CompletedIsGone, NoAnswer
<1>2. TypeOK /\ RunInv /\ CompletedIsGone /\ [Next]_vars => CompletedIsGone'
  BY CompletedStep DEF RunInv
<1>3. QED
  BY <1>1, <1>2, TypeCorrect, RunInvHolds, PTL DEF Spec

\* An attach whose control was stolen does not answer as if it had kept it,
\* unless another attach of the same name took the control back.
THEOREM ControlLossIsNoticed == Spec => []LossNoticed
<1>1. Init => LossNoticed
  BY DEF Init, LossNoticed
<1>2. TypeOK /\ RunInv /\ LossNoticed /\ [Next]_vars => LossNoticed'
  BY NoticedStep DEF RunInv
<1>3. QED
  BY <1>1, <1>2, TypeCorrect, RunInvHolds, PTL DEF Spec

-----------------------------------------------------------------------------
(* Refinement *)

Bar == [r \in Runs |-> Phase(r)]

LEMMA SamePhase ==
  ASSUME UNCHANGED <<process, killed, present>>
  PROVE  Bar' = Bar
BY DEF Bar, Phase, Started, Dropped, Exited

LEMMA KillPhase ==
  ASSUME TypeOK, Fresh, NEW r \in Runs, Started(r), NEW ok \in BOOLEAN,
         Kill(r, ok), UNCHANGED <<process, present>>
  PROVE  Lifecycle!Kill(r) \/ Bar' = Bar
<1>1. \A q \in Runs : q # r => Phase(q)' = Phase(q)
  BY DEF TypeOK, CoreTypeOK, Kill, Phase, Started, Dropped, Exited
<1>2. CASE Phase(r) = "running" /\ ok
  <2>1. Phase(r)' = "doomed"
    BY <1>2 DEF TypeOK, CoreTypeOK, Kill, Phase, Started, Dropped, Exited
  <2>2. QED
    BY <1>1, <1>2, <2>1 DEF Lifecycle!Kill
<1>3. CASE ~(Phase(r) = "running" /\ ok)
  <2>1. Phase(r)' = Phase(r)
    BY <1>3 DEF TypeOK, CoreTypeOK, Kill, Phase, Started, Dropped, Exited
  <2>2. QED
    BY <1>1, <2>1 DEF Bar
<1>4. QED
  BY <1>2, <1>3


\* Every step starts, kills, ends or forgets one run, or changes no phase.
LEMMA PhaseStep == TypeOK /\ Fresh /\ DropKnown /\ [Next]_vars => Lifecycle!Next \/ Bar' = Bar
<1> SUFFICES ASSUME TypeOK, Fresh, DropKnown, [Next]_vars PROVE Lifecycle!Next \/ Bar' = Bar
  OBVIOUS
<1> USE DEF coreVars
<1>1. ASSUME NEW t \in Tasks, RejectRun(t) PROVE Lifecycle!Next \/ Bar' = Bar
  BY <1>1, SamePhase DEF RejectRun
<1>2. ASSUME NEW t \in Tasks, StartJob(t) PROVE Lifecycle!Next \/ Bar' = Bar
  <2>0. PICK r \in Runs : r = nextId
    BY <1>2 DEF StartJob
  <2>1. process[r] = "unborn"
    BY <2>0, RunAssumption DEF Fresh, TypeOK, CoreTypeOK, Runs
  <2>2. Phase(r) = "unborn" /\ Phase(r)' = "running"
    BY <1>2, <2>0, <2>1 DEF StartJob, TypeOK, CoreTypeOK, Fresh, Phase, Started, Dropped, Exited
  <2>3. \A q \in Runs : q # r => Phase(q)' = Phase(q)
    BY <1>2, <2>0, <2>1 DEF StartJob, TypeOK, CoreTypeOK, Phase, Started, Dropped, Exited
  <2>4. Lifecycle!Start(r)
    BY <2>2, <2>3 DEF Lifecycle!Start
  <2>5. QED
    BY <2>4 DEF Lifecycle!Next
<1>3. ASSUME NEW t \in Tasks, ListRequest(t) PROVE Lifecycle!Next \/ Bar' = Bar
  BY <1>3, SamePhase DEF ListRequest
<1>4. ASSUME NEW t \in Tasks, SetDescription(t) PROVE Lifecycle!Next \/ Bar' = Bar
  BY <1>4, SamePhase DEF SetDescription
<1>5. ASSUME NEW t \in Tasks, PollExit(t) PROVE Lifecycle!Next \/ Bar' = Bar
  BY <1>5, SamePhase DEF PollExit
<1>6. ASSUME NEW t \in Tasks, ReadTimeout(t) PROVE Lifecycle!Next \/ Bar' = Bar
  BY <1>6, SamePhase DEF ReadTimeout
<1>7. ASSUME NEW t \in Tasks, FinishDetail(t) PROVE Lifecycle!Next \/ Bar' = Bar
  BY <1>7, SamePhase DEF FinishDetail
<1>8. ASSUME NEW t \in Tasks, Detach(t) PROVE Lifecycle!Next \/ Bar' = Bar
  BY <1>8, SamePhase DEF Detach
<1>9. ASSUME NEW t \in Tasks, ReadLabel(t) PROVE Lifecycle!Next \/ Bar' = Bar
  BY <1>9, SamePhase DEF ReadLabel
<1>10. ASSUME NEW t \in Tasks, Drop(t) PROVE Lifecycle!Next \/ Bar' = Bar
  <2>0. PICK r \in Runs : r = run[t]
    BY <1>10 DEF Drop, TypeOK
  <2>1. Started(r) /\ (Exited(r) \/ killed[r])
    BY <1>10, <2>0 DEF Drop, TypeOK, TaskTypeOK, Fresh, DropKnown, NoRun, Runs
  <2>2. \A q \in Runs : q # r => Phase(q)' = Phase(q)
    BY <1>10, <2>0 DEF Drop, TypeOK, CoreTypeOK, Phase, Started, Dropped, Exited
  <2>3. Phase(r)' = "forgotten"
    BY <1>10, <2>0, <2>1 DEF Drop, TypeOK, CoreTypeOK, Phase, Started, Dropped, Exited
  <2>4. CASE present[r]
    <3>1. Phase(r) \in {"doomed", "exited"}
      BY <2>1, <2>4 DEF TypeOK, CoreTypeOK, Phase, Started, Dropped, Exited
    <3>2. Lifecycle!Forget(r)
      BY <2>2, <2>3, <3>1 DEF Lifecycle!Forget
    <3>3. QED
      BY <3>2 DEF Lifecycle!Next
  <2>5. CASE ~present[r]
    <3>1. Phase(r) = "forgotten"
      BY <2>1, <2>5 DEF Phase, Started, Dropped, Exited
    <3>2. QED
      BY <2>2, <2>3, <3>1 DEF Bar
  <2>6. QED
    BY <2>4, <2>5
<1>11. ASSUME NEW t \in Tasks, ClearExitLabel(t) PROVE Lifecycle!Next \/ Bar' = Bar
  BY <1>11, SamePhase DEF ClearExitLabel
<1>12. ASSUME NEW t \in Tasks, ClearDescription(t) PROVE Lifecycle!Next \/ Bar' = Bar
  BY <1>12, SamePhase DEF ClearDescription
<1>13. ASSUME NEW t \in Tasks, StopLabel(t) PROVE Lifecycle!Next \/ Bar' = Bar
  BY <1>13, SamePhase DEF StopLabel
<1>14. ASSUME NEW t \in Tasks, StopKill(t) PROVE Lifecycle!Next \/ Bar' = Bar
  <2>1. run[t] \in Runs /\ Started(run[t])
    BY <1>14 DEF StopKill, TypeOK, Fresh, NoRun, Runs
  <2>2. \E ok \in BOOLEAN : Kill(run[t], ok) /\ UNCHANGED <<process, present>>
    BY <1>14 DEF StopKill
  <2>3. QED
    BY <2>1, <2>2, KillPhase DEF Lifecycle!Next
<1>15. ASSUME NEW t \in Tasks, StopWait(t) PROVE Lifecycle!Next \/ Bar' = Bar
  BY <1>15, SamePhase DEF StopWait
<1>16. ASSUME NEW t \in Tasks, StopDetail(t) PROVE Lifecycle!Next \/ Bar' = Bar
  BY <1>16, SamePhase DEF StopDetail
<1>17. ASSUME NEW t \in Tasks, Unlabel(t) PROVE Lifecycle!Next \/ Bar' = Bar
  BY <1>17, SamePhase DEF Unlabel
<1>18. ASSUME NEW t \in Tasks, StopRunDetail(t) PROVE Lifecycle!Next \/ Bar' = Bar
  BY <1>18, SamePhase DEF StopRunDetail
<1>19. ASSUME NEW t \in Tasks, Snapshot(t) PROVE Lifecycle!Next \/ Bar' = Bar
  BY <1>19, SamePhase DEF Snapshot
<1>20. ASSUME NEW t \in Tasks, ForceController(t) PROVE Lifecycle!Next \/ Bar' = Bar
  BY <1>20, SamePhase DEF ForceController
<1>21. ASSUME NEW t \in Tasks, WriteInput(t) PROVE Lifecycle!Next \/ Bar' = Bar
  BY <1>21, SamePhase DEF WriteInput
<1>22. ASSUME NEW t \in Tasks, AttachPoll(t) PROVE Lifecycle!Next \/ Bar' = Bar
  BY <1>22, SamePhase DEF AttachPoll
<1>23. ASSUME NEW t \in Tasks, AttachSnapshot(t) PROVE Lifecycle!Next \/ Bar' = Bar
  BY <1>23, SamePhase DEF AttachSnapshot
<1>24. ASSUME NEW t \in Tasks, AttachDetail(t) PROVE Lifecycle!Next \/ Bar' = Bar
  BY <1>24, SamePhase DEF AttachDetail
<1>25. ASSUME NEW t \in Tasks, AttachReply(t) PROVE Lifecycle!Next \/ Bar' = Bar
  BY <1>25, SamePhase DEF AttachReply
<1>26. ASSUME NEW t \in Tasks, RemoveKill(t) PROVE Lifecycle!Next \/ Bar' = Bar
  <2>1. run[t] \in Runs /\ Started(run[t])
    BY <1>26 DEF RemoveKill, TypeOK, Fresh, NoRun, Runs
  <2>2. CASE Kill(run[t], TRUE)
    <3>1. UNCHANGED <<process, present>>
      BY <1>26 DEF RemoveKill
    <3>2. QED
      BY <2>1, <2>2, <3>1, KillPhase DEF Lifecycle!Next
  <2>3. CASE UNCHANGED killed
    BY <1>26, <2>3, SamePhase DEF RemoveKill
  <2>4. QED
    BY <1>26, <2>2, <2>3 DEF RemoveKill
<1>27. ASSUME NEW t \in Tasks, RemoveWait(t) PROVE Lifecycle!Next \/ Bar' = Bar
  BY <1>27, SamePhase DEF RemoveWait
<1>28. ASSUME NEW t \in Tasks, ListItem(t) PROVE Lifecycle!Next \/ Bar' = Bar
  BY <1>28, SamePhase DEF ListItem
<1>29. ASSUME NEW t \in Tasks, NEW r \in Runs, StopRequest(t, r) PROVE Lifecycle!Next \/ Bar' = Bar
  BY <1>29, SamePhase DEF StopRequest
<1>30. ASSUME NEW t \in Tasks, NEW r \in Runs, RemoveRequest(t, r) PROVE Lifecycle!Next \/ Bar' = Bar
  BY <1>30, SamePhase DEF RemoveRequest
<1>31. ASSUME NEW t \in Tasks, NEW r \in Runs, AttachRequest(t, r) PROVE Lifecycle!Next \/ Bar' = Bar
  BY <1>31, SamePhase DEF AttachRequest
<1>32. ASSUME NEW r \in Runs, TimerFires(r) PROVE Lifecycle!Next \/ Bar' = Bar
  BY <1>32, SamePhase DEF TimerFires
<1>33. ASSUME NEW r \in Runs, TimerLabels(r) PROVE Lifecycle!Next \/ Bar' = Bar
  BY <1>33, SamePhase DEF TimerLabels
<1>34. ASSUME NEW r \in Runs, TimerKills(r) PROVE Lifecycle!Next \/ Bar' = Bar
  <2>1. Started(r)
    BY <1>34 DEF TimerKills, Fresh, Started
  <2>2. \E ok \in BOOLEAN : Kill(r, ok) /\ UNCHANGED <<process, present>>
    BY <1>34 DEF TimerKills
  <2>3. QED
    BY <2>1, <2>2, KillPhase DEF Lifecycle!Next
<1>35. ASSUME NEW r \in Runs, ProcessExit(r) PROVE Lifecycle!Next \/ Bar' = Bar
  <2>1. \A q \in Runs : q # r => Phase(q)' = Phase(q)
    BY <1>35 DEF ProcessExit, TypeOK, CoreTypeOK, Phase, Started, Dropped, Exited
  <2>2. CASE present[r]
    <3>1. Phase(r) \in {"running", "doomed"} /\ Phase(r)' = "exited"
      BY <1>35, <2>2 DEF ProcessExit, TypeOK, CoreTypeOK, Phase, Started, Dropped, Exited
    <3>2. Lifecycle!Exit(r)
      BY <2>1, <3>1 DEF Lifecycle!Exit
    <3>3. QED
      BY <3>2 DEF Lifecycle!Next
  <2>3. CASE ~present[r]
    <3>1. Phase(r) = "forgotten" /\ Phase(r)' = "forgotten"
      BY <1>35, <2>3 DEF ProcessExit, TypeOK, CoreTypeOK, Phase, Started, Dropped, Exited
    <3>2. QED
      BY <2>1, <3>1 DEF Bar
  <2>4. QED
    BY <2>2, <2>3
<1>36. ASSUME NEW r \in Runs, TakeControl(r) PROVE Lifecycle!Next \/ Bar' = Bar
  BY <1>36, SamePhase DEF TakeControl
<1>37. CASE UNCHANGED vars
  BY <1>37, SamePhase DEF vars
<1>38. QED
  BY <1>1, <1>2, <1>3, <1>4, <1>5, <1>6, <1>7, <1>8, <1>9, <1>10, <1>11, <1>12, <1>13, <1>14, <1>15, <1>16, <1>17, <1>18, <1>19, <1>20, <1>21, <1>22, <1>23, <1>24, <1>25, <1>26, <1>27, <1>28, <1>29, <1>30, <1>31, <1>32, <1>33, <1>34, <1>35, <1>36, <1>37 DEF Next, Request, HandlerStep, RunStep, StopStep, AttachStep, Timer

\* The tool implements the life cycle that RunLifecycle promises of a run.
THEOREM Refinement == Spec => Lifecycle!Spec
<1>1. Init => Lifecycle!Init
  BY DEF Init, Lifecycle!Init, Phase, Started, Dropped, Exited
<1>2. TypeOK /\ RunInv /\ [Next]_vars => [Lifecycle!Next]_Bar
  BY PhaseStep DEF RunInv
<1>3. QED
  BY <1>1, <1>2, TypeCorrect, RunInvHolds, PTL DEF Spec, Lifecycle!Spec, Bar

====
