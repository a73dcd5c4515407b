-------------------------------- MODULE Caller --------------------------------
(***************************************************************************)
(* The caller (src/src/caller/mod.rs and mcp.rs): lines of its input become *)
(* tasks that run side by side, look up executors in one registry that      *)
(* other tasks change, call executors over the network and write their      *)
(* answers, in any order, to one output.  A line is named by its number.    *)
(* What an executor does with a call, and the write lock at its end, is in  *)
(* WritePath; here an executor answers, fails or stays silent.              *)
(***************************************************************************)
EXTENDS Naturals

CONSTANTS MaxLines,  \* bound: lines of the input
          Own,       \* the name "local" of the caller's own executor
          Remotes,   \* the names others can be connected under
          Inputs     \* what the lines may ask: functions from Lines to Job

Names   == Remotes \cup {Own}
Lines   == 1 .. MaxLines
Default == "default"             \* the place of the default executor
Places  == Names \cup {Default}
Kinds   == {"list", "connect", "setDefault", "call", "write", "search", "transfer",
            "direct", "notify"}

\* The name is the executor a request is for; Default stands for none given.
Job == [kind : Kinds, name : Places]

ASSUME CallerAssumption ==
  /\ MaxLines \in Nat /\ Own \notin Remotes /\ Default \notin Names
  /\ Inputs \subseteq [Lines -> Job]
  /\ \A j \in Inputs, r \in Lines :
       j[r].kind \in {"connect", "setDefault"} => j[r].name \in Names

VARIABLES
  job,        \* what each line asks
  reader,     \* the loop over the input
  read,       \* lines it has read
  pc,         \* how far the task of each line is
  result,     \* what its answer will say
  gate,       \* Caller::write_lock: the line whose task holds it, or 0
  default,    \* CallerState::default_executor
  setter,     \* the line that last set each place of CallerState, 0 at first
  written,    \* lines whose answer is on the output
  seen,       \* history: what a task found at the places it looked at
  before      \* history: lines answered with success when a line was read

vars == <<job, reader, read, pc, result, gate, default, setter, written, seen, before>>
registry == <<default, setter>>
input    == <<reader, read, job, before>>

Steps == {"none", "start", "select", "refresh", "insert", "list", "calling", "answer",
          "done", "broken", "aborted"}

Unfinished(r) == pc[r] \notin {"none", "done", "broken", "aborted"}
Connected(n)  == n = Own \/ setter[n] # 0

-----------------------------------------------------------------------------
(* Shared steps *)

Goto(r, step) == pc' = [pc EXCEPT ![r] = step]

\* The handler returns its response; the guard of the write gate goes with it.
Answer(r, res) ==
  /\ Goto(r, "answer")
  /\ result' = [result EXCEPT ![r] = res]
  /\ gate' = IF gate = r THEN 0 ELSE gate

Look(r, places) == seen' = [seen EXCEPT ![r] = [p \in places |-> setter[p]]]

\* call_timeout_ms_for: a search may ask for no timeout; a connection has one.
HasDeadline(r) == job[r].kind # "search"

\* run_stdio_io returns an error: the JoinSet is dropped and with it the tasks.
Fail ==
  /\ reader' = "failed"
  /\ pc' = [r \in Lines |-> IF Unfinished(r) THEN "aborted" ELSE pc[r]]
  /\ gate' = 0

-----------------------------------------------------------------------------
(* Slips a change to the code could make; each breaks a property below when  *)
(* it stands in for the definition it is named after.                        *)

\* entry(id).or_insert(endpoint) where the code inserts.
Insert_ifAbsent(r) ==
  /\ pc[r] = "insert"
  /\ setter' = [setter EXCEPT ![job[r].name] = IF @ = 0 THEN r ELSE @]
  /\ Goto(r, "list")
  /\ UNCHANGED <<input, result, gate, default, written, seen>>

\* The end of the input ends the loop without the tasks being joined.
DrainOk_early ==
  /\ reader = "draining"
  /\ reader' = "ok"
  /\ pc' = [r \in Lines |-> IF Unfinished(r) THEN "aborted" ELSE pc[r]]
  /\ gate' = 0
  /\ UNCHANGED <<read, job, before, result, registry, written, seen>>

\* refresh_info is called without a timeout.
Expire_callsOnly(r) ==
  /\ pc[r] = "calling"
  /\ HasDeadline(r)
  /\ Answer(r, "error")
  /\ UNCHANGED <<input, registry, written, seen>>

-----------------------------------------------------------------------------
(* The loop over the input; blank lines leave no trace *)

ReadLine ==
  /\ reader = "reading" /\ read < MaxLines
  /\ read' = read + 1
  /\ pc' = [pc EXCEPT ![read + 1] = "start"]
  /\ before' = [before EXCEPT ![read + 1] = {r \in written : result[r] = "ok"}]
  /\ reader' = "joining"
  /\ UNCHANGED <<job, result, gate, registry, written, seen>>

\* try_join_next, after the new task was spawned: a task that could not write
\* its answer ends everything.
JoinFinished ==
  /\ reader = "joining"
  /\ IF \E r \in Lines : pc[r] = "broken" THEN Fail
     ELSE reader' = "reading" /\ UNCHANGED <<pc, gate>>
  /\ UNCHANGED <<read, job, before, result, registry, written, seen>>

InputFails ==
  /\ reader = "reading" /\ Fail
  /\ UNCHANGED <<read, job, before, result, registry, written, seen>>

EndOfInput ==
  /\ reader = "reading" /\ reader' = "draining"
  /\ UNCHANGED <<read, job, before, pc, result, gate, registry, written, seen>>

\* join_next until every task is joined.
DrainOk ==
  /\ reader = "draining"
  /\ \A r \in Lines : pc[r] \in {"none", "done"}
  /\ reader' = "ok"
  /\ UNCHANGED <<read, job, before, pc, result, gate, registry, written, seen>>

DrainFails ==
  /\ reader = "draining"
  /\ \E r \in Lines : pc[r] = "broken"
  /\ Fail
  /\ UNCHANGED <<read, job, before, result, registry, written, seen>>

-----------------------------------------------------------------------------
(* Requests the caller answers by itself *)

\* A line that is no request, or one of MCP's own methods.
Direct(r) ==
  /\ pc[r] = "start" /\ job[r].kind = "direct"
  /\ \E res \in {"ok", "error"} : Answer(r, res)
  /\ UNCHANGED <<input, registry, written, seen>>

\* A message of MCP without an id is neither run nor answered.
Notify(r) ==
  /\ pc[r] = "start" /\ job[r].kind = "notify"
  /\ Goto(r, "done")
  /\ UNCHANGED <<input, result, gate, registry, written, seen>>

\* list_executor, and the list that ends a connect and a set_default.
ListExecutors(r) ==
  /\ pc[r] = "list" \/ (pc[r] = "start" /\ job[r].kind = "list")
  /\ Look(r, Places)
  /\ Answer(r, "ok")
  /\ UNCHANGED <<input, registry, written>>

\* connect_to_executor: bad parameters, an empty id and "local" are refused.
Connect(r) ==
  /\ pc[r] = "start" /\ job[r].kind = "connect"
  /\ \/ Answer(r, "error")
     \/ job[r].name # Own /\ Goto(r, "refresh") /\ UNCHANGED <<result, gate>>
  /\ UNCHANGED <<input, registry, written, seen>>

\* The answer to refresh_info may lack what the caller asks of it.
Refreshed(r) ==
  /\ pc[r] = "refresh"
  /\ \/ Answer(r, "error")
     \/ Goto(r, "insert") /\ UNCHANGED <<result, gate>>
  /\ UNCHANGED <<input, registry, written, seen>>

\* The endpoint enters the registry after its refresh, over what is there by then.
Insert(r) ==
  /\ pc[r] = "insert"
  /\ setter' = [setter EXCEPT ![job[r].name] = r]
  /\ Goto(r, "list")
  /\ UNCHANGED <<input, result, gate, default, written, seen>>

\* set_default_executor looks the name up and sets it under one lock.
SetDefault(r) ==
  /\ pc[r] = "start" /\ job[r].kind = "setDefault"
  /\ \/ /\ Connected(job[r].name)
        /\ default' = job[r].name
        /\ setter' = [setter EXCEPT ![Default] = r]
        /\ Goto(r, "list") /\ UNCHANGED <<result, gate, seen>>
     \/ /\ ~Connected(job[r].name)
        /\ Look(r, {job[r].name})
        /\ Answer(r, "error") /\ UNCHANGED registry
  /\ UNCHANGED <<input, written>>

-----------------------------------------------------------------------------
(* Requests for an executor *)

\* handle: a write does not wait for another, it is refused.
TryGate(r) ==
  /\ pc[r] = "start" /\ job[r].kind = "write"
  /\ \/ gate = 0 /\ gate' = r /\ Goto(r, "select") /\ UNCHANGED result
     \/ gate # 0 /\ Answer(r, "error")
  /\ UNCHANGED <<input, registry, written, seen>>

\* select_executor, for a call and, without a gate, for a file transfer, which
\* an endpoint may not support and whose request is only described.
Select(r) ==
  /\ \/ pc[r] = "select"
     \/ pc[r] = "start" /\ job[r].kind \in {"call", "search", "transfer"}
  /\ LET n == IF job[r].name = Default THEN default ELSE job[r].name IN
       /\ Look(r, {job[r].name, n})
       /\ IF ~Connected(n) THEN Answer(r, "error")
          ELSE IF job[r].kind = "transfer"
          THEN \E res \in {"ok", "error"} : Answer(r, res)
          ELSE Goto(r, "calling") /\ UNCHANGED <<result, gate>>
  /\ UNCHANGED <<input, registry, written>>

\* The executor answers, or the connection fails.
Called(r) ==
  /\ pc[r] = "calling"
  /\ \E res \in {"ok", "error"} : Answer(r, res)
  /\ UNCHANGED <<input, registry, written, seen>>

\* call_ws: the timeout around a call and around a refresh.
Expire(r) ==
  /\ pc[r] \in {"calling", "refresh"}
  /\ HasDeadline(r)
  /\ Answer(r, "error")
  /\ UNCHANGED <<input, registry, written, seen>>

-----------------------------------------------------------------------------
(* write_stdio_response: a line, under the lock of the output.  A write that  *)
(* fails ends the task with an error that the loop finds when it next joins.  *)

WriteAnswer(r) ==
  /\ pc[r] = "answer"
  /\ \/ Goto(r, "done") /\ written' = written \cup {r}
     \/ Goto(r, "broken") /\ UNCHANGED written
  /\ UNCHANGED <<input, result, gate, registry, seen>>

-----------------------------------------------------------------------------
Init ==
  /\ job \in Inputs
  /\ reader = "reading" /\ read = 0
  /\ pc = [r \in Lines |-> "none"]
  /\ result = [r \in Lines |-> "none"]
  /\ gate = 0 /\ default = Own
  /\ setter = [p \in Places |-> 0]
  /\ written = {}
  /\ seen = [r \in Lines |-> [p \in {} |-> 0]]
  /\ before = [r \in Lines |-> {}]

\* What a task does by itself, and what ends its waiting for the network.
Step(r) ==
  \/ Direct(r) \/ Notify(r) \/ ListExecutors(r) \/ Connect(r) \/ Insert(r)
  \/ SetDefault(r) \/ TryGate(r) \/ Select(r) \/ Expire(r) \/ WriteAnswer(r)

Network(r) == Refreshed(r) \/ Called(r)

Loop == JoinFinished \/ DrainOk \/ DrainFails

Next ==
  \/ ReadLine \/ InputFails \/ EndOfInput \/ Loop
  \/ \E r \in Lines : Step(r) \/ Network(r)

Spec == Init /\ [][Next]_vars

\* Tasks and timers run and the client reads what it is sent; it owes no further
\* line and an executor owes no answer.
Fairness == WF_vars(Loop) /\ \A r \in Lines : WF_vars(Step(r))

FairSpec == Spec /\ Fairness

-----------------------------------------------------------------------------
(* Properties *)

\* Every variable stays in its type; the default is an executor the caller knows
\* and nothing was ever put in the place of the caller's own executor.
TypeOK ==
  /\ reader \in {"reading", "joining", "draining", "ok", "failed"}
  /\ read \in 0 .. MaxLines
  /\ job \in Inputs /\ pc \in [Lines -> Steps]
  /\ result \in [Lines -> {"none", "ok", "error"}]
  /\ gate \in 0 .. MaxLines
  /\ default \in Names /\ Connected(default)
  /\ setter \in [Places -> 0 .. MaxLines] /\ setter[Own] = 0
  /\ written \subseteq Lines
  /\ seen \in [Lines -> UNION {[S -> 0 .. MaxLines] : S \in SUBSET Places}]
  /\ before \in [Lines -> SUBSET Lines]

Sets(c, p) == \/ job[c].kind = "connect" /\ job[c].name = p
              \/ job[c].kind = "setDefault" /\ p = Default

\* Connecting an executor, or choosing the default, and being told so, holds for
\* every request sent afterwards: none is routed, listed or refused by what was
\* there before, although a connection enters the registry long after its task
\* began and connections under one name race each other.
RoutesAreRecent ==
  \A r \in Lines : \A c \in before[r] : \A p \in DOMAIN seen[r] :
    Sets(c, p) => seen[r][p] # 0 /\ seen[r][p] \notin before[c]

\* When the caller ends well every line it read has its answer on the output,
\* and notifications have none: the end of the input does not cut off a request.
DrainedAtEnd ==
  reader = "ok" => written = {r \in 1 .. read : job[r].kind # "notify"}

\* Every line is answered whatever the executors, and the other lines, do; the
\* exceptions are a search that asked for no timeout and an output or input that
\* broke.
EveryLineAnswered ==
  \A r \in Lines :
    (pc[r] = "start" /\ job[r].kind # "notify" /\ HasDeadline(r))
      ~> (r \in written \/ pc[r] = "broken" \/ reader = "failed")
=============================================================================
