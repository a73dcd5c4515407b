---------------------------- MODULE Caller_proofs ----------------------------
(***************************************************************************)
(* Proofs about Caller, for any number of lines, any names and any mixture *)
(* of requests.                                                            *)
(***************************************************************************)
EXTENDS Caller, TLAPS

\* Only a connection refreshes and inserts its endpoint, never under the name of
\* the caller's own executor, and only requests about the registry end with the
\* list of it.
KindsFit ==
  \A r \in Lines :
    /\ pc[r] \in {"refresh", "insert"} => job[r].kind = "connect" /\ job[r].name # Own
    /\ pc[r] = "list" => job[r].kind \in {"connect", "setDefault"}
    /\ pc[r] \in {"select", "calling"} => job[r].kind \notin {"connect", "setDefault", "notify"}

\* A line beyond those read has no task, and no task has a result before it ends.
Untouched ==
  \A r \in Lines :
    /\ r > read <=> pc[r] = "none"
    /\ pc[r] = "none" => before[r] = {} /\ DOMAIN seen[r] = {}
    /\ pc[r] \in {"none", "start", "select", "refresh", "insert", "list", "calling"}
         => result[r] = "none"

\* A line is on the output only when its task is done, and a task is done only
\* when its line is there, or is a notification.
WrittenDone ==
  \A r \in Lines :
    /\ pc[r] = "done" => r \in written \/ job[r].kind = "notify"
    /\ r \in written => pc[r] = "done" /\ job[r].kind # "notify"
    /\ job[r].kind = "notify" => pc[r] \in {"none", "start", "done", "aborted"}

\* What was answered before a line was read was answered with success.
AnsweredBefore ==
  \A r \in Lines : \A c \in before[r] : c \in written /\ result[c] = "ok" /\ c # r

\* The change a line asks for is in the registry.
HasSet(c) == pc[c] = "list" \/ result[c] = "ok"

\* Once made, a change is replaced only by lines that were read after it or beside it.
SetsLast ==
  \A c \in Lines, p \in Places :
    Sets(c, p) /\ HasSet(c) => setter[p] # 0 /\ setter[p] \notin before[c]

\* A caller that ended well has no task left.
EndedIdle == reader = "ok" => \A r \in Lines : pc[r] \in {"none", "done"}

\* The inductive invariant.
CallerInv == /\ TypeOK /\ KindsFit /\ Untouched /\ WrittenDone /\ AnsweredBefore
             /\ SetsLast /\ EndedIdle /\ RoutesAreRecent

-----------------------------------------------------------------------------

Seen == [Lines -> UNION {[S -> 0 .. MaxLines] : S \in SUBSET Places}]

LEMMA LookType ==
  ASSUME TypeOK, NEW r \in Lines, NEW S \in SUBSET Places, Look(r, S)
  PROVE  seen' \in Seen
<1>1. [p \in S |-> setter[p]] \in [S -> 0 .. MaxLines]
  BY DEF TypeOK
<1>2. [p \in S |-> setter[p]] \in UNION {[T -> 0 .. MaxLines] : T \in SUBSET Places}
  BY <1>1
<1>3. QED
  BY <1>2 DEF TypeOK, Look, Seen

LEMMA TypeStep == TypeOK /\ KindsFit /\ [Next]_vars => TypeOK'
<1> SUFFICES ASSUME TypeOK, KindsFit, [Next]_vars PROVE TypeOK'
  OBVIOUS
<1> USE DEF vars, registry, input
<1>0. Lines \subseteq 0 .. MaxLines /\ 0 \in 0 .. MaxLines
  BY CallerAssumption DEF Lines
<1>t. seen \in Seen /\ \A r \in Lines : job[r] \in Job
  BY CallerAssumption DEF TypeOK, Seen
<1>1. ASSUME ReadLine PROVE TypeOK'
  <2>1. read' \in 0 .. MaxLines
    BY <1>1, CallerAssumption DEF ReadLine, TypeOK
  <2>4. pc' \in [Lines -> Steps]
    BY <1>1 DEF ReadLine, TypeOK, Steps
  <2>2. before' \in [Lines -> SUBSET Lines]
    <3>1. {x \in written : result[x] = "ok"} \in SUBSET Lines
      BY DEF TypeOK
    <3>2. QED
      BY <1>1, <3>1 DEF ReadLine, TypeOK
  <2>3. QED
    BY <1>1, <2>1, <2>2, <2>4 DEF ReadLine, TypeOK, Connected
<1>2. ASSUME InputFails PROVE TypeOK'
  BY <1>0, <1>2 DEF InputFails, Fail, TypeOK, Steps, Connected
<1>3. ASSUME EndOfInput PROVE TypeOK'
  BY <1>3 DEF EndOfInput, TypeOK, Connected
<1>4. ASSUME JoinFinished PROVE TypeOK'
  BY <1>0, <1>4 DEF JoinFinished, Fail, TypeOK, Steps, Connected
<1>5. ASSUME DrainOk PROVE TypeOK'
  BY <1>5 DEF DrainOk, TypeOK, Connected
<1>6. ASSUME DrainFails PROVE TypeOK'
  BY <1>0, <1>6 DEF DrainFails, Fail, TypeOK, Steps, Connected
<1>7. ASSUME NEW r \in Lines, Direct(r) PROVE TypeOK'
  BY <1>0, <1>7 DEF Direct, Answer, Goto, TypeOK, Steps, Connected
<1>8. ASSUME NEW r \in Lines, Notify(r) PROVE TypeOK'
  BY <1>0, <1>8 DEF Notify, Goto, TypeOK, Steps, Connected
<1>9. ASSUME NEW r \in Lines, ListExecutors(r) PROVE TypeOK'
  <2>1. seen' \in Seen
    BY <1>9, LookType DEF ListExecutors
  <2>2. QED
    BY <1>0, <1>9, <2>1 DEF ListExecutors, Answer, Goto, TypeOK, Steps, Connected, Seen
<1>10. ASSUME NEW r \in Lines, Connect(r) PROVE TypeOK'
  BY <1>0, <1>10 DEF Connect, Answer, Goto, TypeOK, Steps, Connected
<1>11. ASSUME NEW r \in Lines, Insert(r) PROVE TypeOK'
  <2>1. setter' \in [Places -> 0 .. MaxLines] /\ setter'[Own] = 0
    BY <1>0, <1>11, CallerAssumption DEF Insert, TypeOK, KindsFit, Places, Names
  <2>2. Connected(default)'
    BY <1>11, CallerAssumption DEF Insert, TypeOK, Connected, Lines
  <2>3. QED
    BY <1>0, <1>11, <2>1, <2>2 DEF Insert, Goto, TypeOK, Steps
<1>12. ASSUME NEW r \in Lines, SetDefault(r) PROVE TypeOK'
  <2>1. job[r].name \in Names /\ job[r].name \in Places
    BY <1>12, CallerAssumption DEF SetDefault, TypeOK, Places
  <2>2. CASE /\ Connected(job[r].name)
             /\ default' = job[r].name /\ setter' = [setter EXCEPT ![Default] = r]
             /\ Goto(r, "list") /\ UNCHANGED <<result, gate, seen>>
    <3>1. setter' \in [Places -> 0 .. MaxLines] /\ setter'[Own] = 0
      BY <1>0, <2>2, CallerAssumption DEF TypeOK, Places, Names
    <3>2. Connected(default)'
      BY <2>1, <2>2, CallerAssumption DEF TypeOK, Connected, Places
    <3>3. QED
      BY <1>12, <2>1, <2>2, <3>1, <3>2 DEF SetDefault, Goto, TypeOK, Steps
  <2>3. CASE Look(r, {job[r].name}) /\ Answer(r, "error") /\ UNCHANGED registry
    <3>1. seen' \in Seen
      BY <2>1, <2>3, LookType
    <3>2. QED
      BY <1>0, <1>12, <2>3, <3>1 DEF SetDefault, Answer, Goto, TypeOK, Steps, Connected, Seen
  <2>4. QED
    BY <1>12, <2>2, <2>3 DEF SetDefault
<1>13. ASSUME NEW r \in Lines, TryGate(r) PROVE TypeOK'
  BY <1>0, <1>13 DEF TryGate, Answer, Goto, TypeOK, Steps, Connected
<1>14. ASSUME NEW r \in Lines, Select(r) PROVE TypeOK'
  <2>1. job[r].name \in Places /\ default \in Places
    BY <1>t DEF TypeOK, Places, Job
  <2>2. seen' \in Seen
    BY <1>14, <2>1, LookType DEF Select
  <2>3. QED
    BY <1>0, <1>14, <2>2 DEF Select, Answer, Goto, TypeOK, Steps, Connected, Seen
<1>15. ASSUME NEW r \in Lines, Called(r) PROVE TypeOK'
  BY <1>0, <1>15 DEF Called, Answer, Goto, TypeOK, Steps, Connected
<1>16. ASSUME NEW r \in Lines, Expire(r) PROVE TypeOK'
  BY <1>0, <1>16 DEF Expire, Answer, Goto, TypeOK, Steps, Connected
<1>17. ASSUME NEW r \in Lines, Refreshed(r) PROVE TypeOK'
  BY <1>0, <1>17 DEF Refreshed, Answer, Goto, TypeOK, Steps, Connected
<1>18. ASSUME NEW r \in Lines, WriteAnswer(r) PROVE TypeOK'
  BY <1>0, <1>18 DEF WriteAnswer, Goto, TypeOK, Steps, Connected
<1>19. CASE UNCHANGED vars
  BY <1>19 DEF TypeOK, Connected
<1>20. QED
  BY <1>1, <1>2, <1>3, <1>4, <1>5, <1>6, <1>7, <1>8, <1>9, <1>10, <1>11, <1>12, <1>13, <1>14, <1>15, <1>16, <1>17, <1>18, <1>19 DEF Next, Step, Network, Loop

\* The small conjuncts, each from the types and those before it.
LEMMA KindStep == TypeOK /\ KindsFit /\ [Next]_vars => KindsFit'
<1> SUFFICES ASSUME TypeOK, KindsFit, [Next]_vars PROVE KindsFit'
  OBVIOUS
<1> USE DEF vars, registry, input
<1>0. UNCHANGED job
  BY DEF Next, Step, Network, Loop, ReadLine, InputFails, EndOfInput, JoinFinished, DrainOk, DrainFails, Direct, Notify, ListExecutors, Connect, Insert, SetDefault, TryGate, Select, Called, Expire, Refreshed, WriteAnswer
<1>1. CASE UNCHANGED pc
  BY <1>0, <1>1 DEF KindsFit
<1>2. ASSUME Fail PROVE KindsFit'
  BY <1>0, <1>2 DEF Fail, KindsFit
<1>3. CASE ReadLine
  BY <1>0, <1>3 DEF ReadLine, TypeOK, KindsFit
<1>4. ASSUME NEW r \in Lines, Step(r) \/ Network(r) PROVE KindsFit'
  BY <1>0, <1>4 DEF Step, Network, Direct, Notify, ListExecutors, Connect, Insert, SetDefault, TryGate, Select, Called, Expire, Refreshed, WriteAnswer, Answer, Goto, TypeOK, KindsFit
<1>5. QED
  BY <1>1, <1>2, <1>3, <1>4 DEF Next, Loop, InputFails, EndOfInput, JoinFinished, DrainOk, DrainFails

LEMMA UntouchedStep == TypeOK /\ Untouched /\ [Next]_vars => Untouched'
<1> SUFFICES ASSUME TypeOK, Untouched, [Next]_vars PROVE Untouched'
  OBVIOUS
<1> USE DEF vars, registry, input
<1>1. CASE UNCHANGED <<pc, read, before, result, seen>>
  BY <1>1 DEF Untouched
<1>2. ASSUME Fail, UNCHANGED <<read, before, result, seen>> PROVE Untouched'
  BY <1>2 DEF Fail, Unfinished, Untouched
<1>3. CASE ReadLine
  BY <1>3, CallerAssumption DEF ReadLine, TypeOK, Untouched, Lines
<1>4. ASSUME NEW r \in Lines, Step(r) \/ Network(r) PROVE Untouched'
  <2>1. UNCHANGED <<read, before>> /\ pc[r] # "none"
    BY <1>4 DEF Step, Network, Direct, Notify, ListExecutors, Connect, Insert, SetDefault, TryGate, Select, Called, Expire, Refreshed, WriteAnswer
  <2>2. /\ \E step \in Steps \ {"none"} : pc' = [pc EXCEPT ![r] = step]
        /\ \A x \in Lines \ {r} : result'[x] = result[x] /\ seen'[x] = seen[x]
        /\ pc'[r] \in {"start", "select", "refresh", "insert", "list", "calling"}
             => result'[r] = "none"
    BY <1>4 DEF Step, Network, Direct, Notify, ListExecutors, Connect, Insert, SetDefault, TryGate, Select, Called, Expire, Refreshed, WriteAnswer, Answer, Goto, Look, TypeOK, Steps, Untouched
  <2>3. QED
    BY <2>1, <2>2 DEF Untouched, TypeOK
<1>5. QED
  BY <1>1, <1>2, <1>3, <1>4 DEF Next, Loop, InputFails, EndOfInput, JoinFinished, DrainOk, DrainFails

LEMMA WrittenStep == TypeOK /\ KindsFit /\ Untouched /\ WrittenDone /\ [Next]_vars => WrittenDone'
<1> SUFFICES ASSUME TypeOK, KindsFit, Untouched, WrittenDone, [Next]_vars PROVE WrittenDone'
  OBVIOUS
<1> USE DEF vars, registry, input
<1>1. CASE UNCHANGED <<job, pc, written>>
  BY <1>1 DEF WrittenDone
<1>2. ASSUME Fail, UNCHANGED <<job, written>> PROVE WrittenDone'
  BY <1>2 DEF Fail, Unfinished, WrittenDone, TypeOK
<1>3. CASE ReadLine
  <2>1. read + 1 \in Lines /\ pc[read + 1] = "none"
    BY <1>3, CallerAssumption DEF ReadLine, TypeOK, Untouched, Lines
  <2>2. QED
    BY <1>3, <2>1 DEF ReadLine, TypeOK, WrittenDone
<1>4. ASSUME NEW r \in Lines, Step(r) \/ Network(r) PROVE WrittenDone'
  <2>1. CASE WriteAnswer(r)
    BY <2>1 DEF WriteAnswer, Goto, TypeOK, WrittenDone
  <2>2. CASE Notify(r)
    BY <2>2 DEF Notify, Goto, TypeOK, WrittenDone
  <2>3. CASE ~WriteAnswer(r) /\ ~Notify(r)
    <3>1. /\ \E step \in Steps \ {"none", "done"} : pc' = [pc EXCEPT ![r] = step]
          /\ UNCHANGED <<job, written>> /\ pc[r] # "done" /\ job[r].kind # "notify"
      BY <1>4, <2>3 DEF Step, Network, Direct, ListExecutors, Connect, Insert, SetDefault, TryGate, Select, Called, Expire, Refreshed, Answer, Goto, Steps, KindsFit
    <3>2. QED
      BY <3>1 DEF WrittenDone, TypeOK
  <2>4. QED
    BY <2>1, <2>2, <2>3
<1>5. QED
  BY <1>1, <1>2, <1>3, <1>4 DEF Next, Loop, InputFails, EndOfInput, JoinFinished, DrainOk, DrainFails

LEMMA BeforeStep ==
  TypeOK /\ Untouched /\ WrittenDone /\ AnsweredBefore /\ [Next]_vars => AnsweredBefore'
<1> SUFFICES ASSUME TypeOK, Untouched, WrittenDone, AnsweredBefore, [Next]_vars
             PROVE  AnsweredBefore'
  OBVIOUS
<1> USE DEF vars, registry, input
<1>1. CASE UNCHANGED <<before, written, result>>
  BY <1>1 DEF AnsweredBefore
<1>2. CASE ReadLine
  <2>1. read + 1 \in Lines /\ pc[read + 1] = "none"
    BY <1>2, CallerAssumption DEF ReadLine, TypeOK, Untouched, Lines
  <2>2. read + 1 \notin written
    BY <2>1 DEF WrittenDone
  <2>3. QED
    BY <1>2, <2>1, <2>2 DEF ReadLine, TypeOK, AnsweredBefore
<1>3. ASSUME NEW r \in Lines, Step(r) \/ Network(r) PROVE AnsweredBefore'
  <2>1. /\ UNCHANGED before /\ written \subseteq written' /\ pc[r] # "done"
        /\ \A x \in Lines \ {r} : result'[x] = result[x]
    BY <1>3 DEF Step, Network, Direct, Notify, ListExecutors, Connect, Insert, SetDefault, TryGate, Select, Called, Expire, Refreshed, WriteAnswer, Answer, Goto, TypeOK
  <2>2. QED
    BY <2>1 DEF AnsweredBefore, WrittenDone, TypeOK
<1>4. QED
  BY <1>1, <1>2, <1>3 DEF Next, Loop, InputFails, EndOfInput, JoinFinished, DrainOk, DrainFails

\* Who may still change the registry is not among those answered before.
LEMMA SetsStep ==
  /\ TypeOK /\ KindsFit /\ Untouched /\ WrittenDone /\ AnsweredBefore /\ SetsLast
  /\ [Next]_vars
  => SetsLast'
<1> SUFFICES ASSUME TypeOK, KindsFit, Untouched, WrittenDone, AnsweredBefore, SetsLast,
                    [Next]_vars
             PROVE  SetsLast'
  OBVIOUS
<1> USE DEF vars, registry, input
<1>0. Default \in Places /\ UNCHANGED job
  BY DEF Places, Next, Step, Network, Loop, ReadLine, InputFails, EndOfInput, JoinFinished, DrainOk, DrainFails, Direct, Notify, ListExecutors, Connect, Insert, SetDefault, TryGate, Select, Called, Expire, Refreshed, WriteAnswer
<1>1. CASE UNCHANGED <<pc, result, setter, before>>
  BY <1>0, <1>1 DEF SetsLast, Sets, HasSet
<1>2. ASSUME Fail, UNCHANGED <<result, setter, before>> PROVE SetsLast'
  BY <1>0, <1>2 DEF Fail, TypeOK, SetsLast, Sets, HasSet
<1>3. CASE ReadLine
  <2>1. read + 1 \in Lines /\ pc[read + 1] = "none" /\ result[read + 1] = "none"
    BY <1>3, CallerAssumption DEF ReadLine, TypeOK, Untouched, Lines
  <2>2. \A c \in Lines : HasSet(c)' => HasSet(c) /\ before'[c] = before[c]
    BY <1>3, <2>1 DEF ReadLine, TypeOK, HasSet
  <2>3. QED
    BY <1>0, <1>3, <2>2 DEF ReadLine, SetsLast, Sets
<1>4. ASSUME NEW r \in Lines, setter' = [setter EXCEPT ![Default] = r] \/ setter' = [setter EXCEPT ![job[r].name] = r],
             pc[r] \in {"start", "insert"}, pc' = [pc EXCEPT ![r] = "list"],
             UNCHANGED <<result, before>>,
             \A p \in Places : Sets(r, p) => setter'[p] = r
      PROVE  SetsLast'
  <2>1. \A c \in Lines : r \notin before[c]
    BY <1>4 DEF AnsweredBefore, WrittenDone
  <2>2. r # 0 /\ \A p \in Places : setter'[p] \in {r, setter[p]}
    BY <1>4 DEF TypeOK, Lines
  <2>3. \A c \in Lines \ {r} : HasSet(c)' => HasSet(c)
    BY <1>4 DEF HasSet, TypeOK
  <2>4. QED
    BY <1>0, <1>4, <2>1, <2>2, <2>3 DEF SetsLast, Sets
<1>5. ASSUME NEW r \in Lines, Insert(r) PROVE SetsLast'
  <2>1. job[r].kind = "connect" /\ job[r].name \in Places /\ job[r].name # Default
    BY <1>5, CallerAssumption DEF Insert, KindsFit, TypeOK, Places
  <2>2. QED
    BY <1>5, <2>1, <1>4 DEF Insert, Goto, Sets, TypeOK
<1>6. ASSUME NEW r \in Lines, SetDefault(r) PROVE SetsLast'
  <2>1. CASE setter' = [setter EXCEPT ![Default] = r] /\ Goto(r, "list") /\ UNCHANGED result
    BY <1>0, <1>4, <1>6, <2>1 DEF SetDefault, Goto, Sets, TypeOK
  <2>2. CASE Answer(r, "error") /\ UNCHANGED setter
    BY <1>0, <1>6, <2>2 DEF SetDefault, Answer, Goto, TypeOK, SetsLast, Sets, HasSet
  <2>3. QED
    BY <1>6, <2>1, <2>2 DEF SetDefault
<1>7. ASSUME NEW r \in Lines, Step(r) \/ Network(r), ~Insert(r), ~SetDefault(r) PROVE SetsLast'
  <2>1. UNCHANGED <<setter, before>> /\ \A x \in Lines \ {r} : HasSet(x)' => HasSet(x)
    BY <1>7 DEF Step, Network, Direct, Notify, ListExecutors, Connect, TryGate, Select, Called, Expire, Refreshed, WriteAnswer, Answer, Goto, TypeOK, HasSet
  <2>2. job[r].kind \in {"connect", "setDefault"} /\ HasSet(r)' => HasSet(r)
    BY <1>7 DEF Step, Network, Direct, Notify, ListExecutors, Connect, TryGate, Select, Called, Expire, Refreshed, WriteAnswer, Answer, Goto, TypeOK, HasSet, KindsFit
  <2>3. QED
    BY <1>0, <2>1, <2>2 DEF SetsLast, Sets
<1>8. QED
  BY <1>1, <1>2, <1>3, <1>5, <1>6, <1>7 DEF Next, Loop, InputFails, EndOfInput, JoinFinished, DrainOk, DrainFails

LEMMA EndStep == TypeOK /\ Untouched /\ EndedIdle /\ [Next]_vars => EndedIdle'
<1> SUFFICES ASSUME TypeOK, Untouched, EndedIdle, [Next]_vars PROVE EndedIdle'
  OBVIOUS
<1>1. CASE UNCHANGED <<reader, pc>>
  BY <1>1 DEF EndedIdle
<1>2. ASSUME NEW r \in Lines, Step(r) \/ Network(r) PROVE EndedIdle'
  <2>1. UNCHANGED reader /\ pc[r] \notin {"none", "done"}
    BY <1>2 DEF input, Step, Network, Direct, Notify, ListExecutors, Connect, Insert, SetDefault, TryGate, Select, Called, Expire, Refreshed, WriteAnswer
  <2>2. QED
    BY <2>1 DEF EndedIdle
<1>3. QED
  BY <1>1, <1>2 DEF Next, Loop, ReadLine, InputFails, EndOfInput, JoinFinished, DrainOk, DrainFails, Fail, EndedIdle, vars

LEMMA RouteStep ==
  /\ TypeOK /\ KindsFit /\ Untouched /\ WrittenDone /\ AnsweredBefore /\ SetsLast
  /\ RoutesAreRecent /\ [Next]_vars
  => RoutesAreRecent'
<1> SUFFICES ASSUME TypeOK, KindsFit, Untouched, WrittenDone, AnsweredBefore, SetsLast,
                    RoutesAreRecent, [Next]_vars
             PROVE  RoutesAreRecent'
  OBVIOUS
<1> USE DEF vars, registry, input
<1>0. UNCHANGED job
  BY DEF Next, Step, Network, Loop, ReadLine, InputFails, EndOfInput, JoinFinished, DrainOk, DrainFails, Direct, Notify, ListExecutors, Connect, Insert, SetDefault, TryGate, Select, Called, Expire, Refreshed, WriteAnswer
<1>1. CASE UNCHANGED <<seen, before>>
  BY <1>0, <1>1 DEF RoutesAreRecent, Sets
<1>2. CASE ReadLine
  <2>1. read + 1 \in Lines /\ pc[read + 1] = "none" /\ DOMAIN seen[read + 1] = {}
    BY <1>2, CallerAssumption DEF ReadLine, TypeOK, Untouched, Lines
  <2>2. \A r \in Lines : \A c \in before[r] : c \in Lines /\ c # read + 1
    BY <2>1 DEF AnsweredBefore, WrittenDone, TypeOK
  <2>3. QED
    BY <1>0, <1>2, <2>1, <2>2 DEF ReadLine, TypeOK, RoutesAreRecent, Sets
<1>3. ASSUME NEW r \in Lines, NEW S \in SUBSET Places, Look(r, S), UNCHANGED before
      PROVE  RoutesAreRecent'
  <2>1. \A c \in before[r], p \in S : Sets(c, p) => setter[p] # 0 /\ setter[p] \notin before[c]
    BY DEF AnsweredBefore, SetsLast, HasSet, TypeOK
  <2>2. seen'[r] = [p \in S |-> setter[p]] /\ \A x \in Lines \ {r} : seen'[x] = seen[x]
    BY <1>3 DEF Look, TypeOK
  <2>3. QED
    BY <1>0, <1>3, <2>1, <2>2 DEF RoutesAreRecent, Sets
<1>4. ASSUME NEW r \in Lines, Step(r) \/ Network(r) PROVE RoutesAreRecent'
  <2>1. job[r].name \in Places /\ default \in Places
    BY CallerAssumption DEF TypeOK, Places, Job
  <2>2. UNCHANGED <<seen, before>> \/ (UNCHANGED before /\ \E S \in SUBSET Places : Look(r, S))
    BY <1>4, <2>1 DEF Step, Network, Direct, Notify, ListExecutors, Connect, Insert, SetDefault, TryGate, Select, Called, Expire, Refreshed, WriteAnswer
  <2>3. QED
    BY <1>1, <1>3, <2>2
<1>5. QED
  BY <1>1, <1>2, <1>4 DEF Next, Loop, InputFails, EndOfInput, JoinFinished, DrainOk, DrainFails

-----------------------------------------------------------------------------

LEMMA CallerInit == Init => CallerInv
<1> SUFFICES ASSUME Init PROVE CallerInv
  OBVIOUS
<1> USE DEF Init
<1>1. [r \in Lines |-> [p \in {} |-> 0]] \in Seen
  <2>1. [p \in {} |-> 0] \in [{} -> 0 .. MaxLines] /\ {} \in SUBSET Places
    OBVIOUS
  <2>2. [p \in {} |-> 0] \in UNION {[S -> 0 .. MaxLines] : S \in SUBSET Places}
    BY <2>1
  <2>3. QED
    BY <2>2 DEF Seen
<1>2. TypeOK
  <2>1. /\ read \in 0 .. MaxLines /\ gate \in 0 .. MaxLines
        /\ setter \in [Places -> 0 .. MaxLines] /\ setter[Own] = 0
    BY CallerAssumption DEF Names, Places
  <2>2. pc \in [Lines -> Steps] /\ result \in [Lines -> {"none", "ok", "error"}]
    BY DEF Steps
  <2>3. QED
    BY <1>1, <2>1, <2>2 DEF TypeOK, Names, Connected, Seen
<1>3. Untouched
  BY CallerAssumption DEF Untouched, Lines
<1>4. QED
  BY <1>2, <1>3 DEF CallerInv, KindsFit, WrittenDone, AnsweredBefore, SetsLast, HasSet, EndedIdle, RoutesAreRecent

LEMMA CallerStep == CallerInv /\ [Next]_vars => CallerInv'
BY TypeStep, KindStep, UntouchedStep, WrittenStep, BeforeStep, SetsStep, EndStep, RouteStep DEF CallerInv

LEMMA CallerInvHolds == Spec => []CallerInv
BY CallerInit, CallerStep, PTL DEF Spec

\* The registry, the tasks and their histories keep their types; the default is
\* always an executor the caller knows.
THEOREM CallerTypes == Spec => []TypeOK
<1>1. CallerInv => TypeOK
  BY DEF CallerInv
<1>2. QED
  BY <1>1, CallerInvHolds, PTL

\* A request is routed, listed or refused by what every connection and every choice
\* of a default answered before it was sent has made of the registry, or later ones.
THEOREM RoutesStayRecent == Spec => []RoutesAreRecent
<1>1. CallerInv => RoutesAreRecent
  BY DEF CallerInv
<1>2. QED
  BY <1>1, CallerInvHolds, PTL

\* A caller that ends well has answered every line it read that wants an answer.
THEOREM EndIsDrained == Spec => []DrainedAtEnd
<1>1. CallerInv => DrainedAtEnd
  <2> SUFFICES ASSUME CallerInv, reader = "ok"
               PROVE  written = {r \in 1 .. read : job[r].kind # "notify"}
    BY DEF DrainedAtEnd
  <2>1. \A r \in Lines : r \in 1 .. read <=> pc[r] = "done"
    BY CallerAssumption DEF CallerInv, EndedIdle, Untouched, TypeOK, Lines
  <2>2. 1 .. read \subseteq Lines /\ written \subseteq Lines
    BY CallerAssumption DEF CallerInv, TypeOK, Lines
  <2>3. QED
    BY <2>1, <2>2 DEF CallerInv, WrittenDone
<1>2. QED
  BY <1>1, CallerInvHolds, PTL
=============================================================================
