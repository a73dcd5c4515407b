-------------------------- MODULE PtyClients_proofs --------------------------
(***************************************************************************)
(* Proofs about PtyClients, for any number of connections and ids and any  *)
(* mixture of what else happens.                                           *)
(***************************************************************************)
EXTENDS PtyClients, TLAPS

\* A connection that registered has an id.
IdKnown == \A k \in Conns : InLoop(k) \/ pc[k] \in {"map", "unmap"} => id[k] \in Ids

\* A connection broadcasts only where it announces itself or says farewell.
MetaKnown == \A k \in Conns : meta[k].step # "off" => pc[k] \in {"announce", "farewell"}

\* A request for control that found the PTY locked is user 0's.
TakeKnown == \A k \in Conns : pc[k] = "take" /\ ~sawOpen[k] => id[k] = Zero

\* The inductive invariant.
ClientInv == /\ TypeOK /\ IdKnown /\ MetaKnown /\ TakeKnown
             /\ NoGhost /\ Accounted /\ LockHolds /\ RolesTold

-----------------------------------------------------------------------------

MetaTypes == [Broadcasters -> [step : {"off", "summary", "send"},
                              controller : Ids \cup {Rec, Nobody}, exited : BOOLEAN]]

ConnTypes == /\ pc \in [Conns -> Steps] /\ id \in [Conns -> Ids \cup {Nobody}]
             /\ meta \in MetaTypes

\* What the two ways to the next step do to the locals of a connection.
LEMMA AnnounceType ==
  ASSUME TypeOK, NEW k \in Conns, NEW step \in Steps, Announce(k, step)
  PROVE  ConnTypes'
<1>1. pc' \in [Conns -> Steps] /\ id' \in [Conns -> Ids \cup {Nobody}]
  BY DEF Announce, TypeOK
<1>2. [meta[k] EXCEPT !.step = "summary"] \in
        [step : {"off", "summary", "send"}, controller : Ids \cup {Rec, Nobody}, exited : BOOLEAN]
  BY DEF TypeOK, Broadcasters
<1>3. meta' \in MetaTypes
  BY <1>2 DEF Announce, TypeOK, MetaTypes
<1>4. QED
  BY <1>1, <1>3 DEF ConnTypes

LEMMA GotoType ==
  ASSUME TypeOK, NEW k \in Conns, NEW step \in Steps, Goto(k, step)
  PROVE  ConnTypes'
BY DEF Goto, TypeOK, ConnTypes, MetaTypes

LEMMA TypeStep == TypeOK /\ IdKnown /\ [Next]_vars => TypeOK'
<1> SUFFICES ASSUME TypeOK /\ IdKnown, [Next]_vars PROVE TypeOK'
  OBVIOUS
<1> USE DEF vars, coreVars, mapVars, connVars, sentVars, history
<1>0. UNCHANGED scenario
  BY DEF Next
<1>1. ASSUME NEW k \in Conns, Hello(k) PROVE TypeOK'
  BY <1>1, <1>0 DEF Hello, Goto, TypeOK, Steps
<1>2. ASSUME NEW k \in Conns, RegisterCore(k) PROVE TypeOK'
  <2>1. CASE Goto(k, "done") /\ UNCHANGED <<controller, holder>>
    BY <1>2, <1>0, <2>1 DEF RegisterCore, Goto, TypeOK, Steps
  <2>2. ASSUME NEW i \in Ids, holder' = [holder EXCEPT ![i] = k],
               controller' \in {controller} \cup (IF controller = Nobody THEN {i} ELSE {}),
               id' = [id EXCEPT ![k] = i], pc' = [pc EXCEPT ![k] = "map"], UNCHANGED meta
        PROVE  TypeOK'
    <3>1. holder' \in [Ids -> Tokens] /\ controller' \in Ids \cup {Rec, Nobody}
      BY <2>2 DEF TypeOK, Tokens
    <3>2. pc' \in [Conns -> Steps] /\ id' \in [Conns -> Ids \cup {Nobody}]
      BY <2>2 DEF TypeOK, Steps
    <3>3. QED
      BY <1>2, <1>0, <2>2, <3>1, <3>2 DEF RegisterCore, TypeOK
  <2>3. QED
    BY <1>2, <2>1, <2>2 DEF RegisterCore
<1>3. ASSUME NEW k \in Conns, RegisterMap(k) PROVE TypeOK'
  BY <1>3, <1>0 DEF RegisterMap, Goto, TypeOK, Tokens, Steps, IdKnown
<1>4. ASSUME NEW k \in Conns, StartWatcher(k) PROVE TypeOK'
  <2>1. ConnTypes'
    BY <1>4, AnnounceType, GotoType DEF StartWatcher, Steps
  <2>2. /\ watching' \in BOOLEAN
        /\ UNCHANGED <<coreVars, clients, locked, watcher, sentVars, locker, remover, history>>
    BY <1>4 DEF StartWatcher
  <2>3. QED
    BY <1>0, <2>1, <2>2 DEF TypeOK, ConnTypes, MetaTypes
<1>5. ASSUME NEW k \in Conns, Subscribe(k) PROVE TypeOK'
  <2>1. ConnTypes'
    BY <1>5, AnnounceType, GotoType DEF Subscribe, Steps
  <2>2. /\ watching' \in BOOLEAN /\ watcher' \in {"off", "waiting", "deaf", "telling", "leaving"}
        /\ UNCHANGED <<coreVars, clients, locked, sentVars, locker, remover, history>>
    BY <1>5 DEF Subscribe, TypeOK
  <2>3. QED
    BY <1>0, <2>1, <2>2 DEF TypeOK, ConnTypes, MetaTypes
<1>6. ASSUME NEW k \in Conns, Resize(k) PROVE TypeOK'
  <2>1. ConnTypes'
    BY <1>6, AnnounceType DEF Resize, Steps
  <2>2. UNCHANGED <<coreVars, mapVars, sentVars, locker, remover, history>>
    BY <1>6 DEF Resize
  <2>3. QED
    BY <1>0, <2>1, <2>2 DEF TypeOK, ConnTypes, MetaTypes
<1>7. ASSUME NEW k \in Conns, RequestControl(k) PROVE TypeOK'
  BY <1>7, <1>0 DEF RequestControl, Goto, TypeOK, Steps
<1>8. ASSUME NEW k \in Conns, TakeControl(k) PROVE TypeOK'
  <2>1. ConnTypes'
    BY <1>8, AnnounceType, GotoType DEF TakeControl, Steps
  <2>2. controller' \in Ids \cup {Rec, Nobody} /\ escaped' \in BOOLEAN
    BY <1>8 DEF TakeControl, TypeOK
  <2>3. sawOpen' \in [Conns -> BOOLEAN]
    BY <1>8 DEF TakeControl, TypeOK
  <2>4. QED
    BY <1>8, <1>0, <2>1, <2>2, <2>3 DEF TakeControl, TypeOK, ConnTypes, MetaTypes
<1>9. ASSUME NEW k \in Conns, Leave(k) PROVE TypeOK'
  BY <1>9, <1>0 DEF Leave, Goto, TypeOK, Steps
<1>10. ASSUME NEW k \in Conns, Unregister(k) PROVE TypeOK'
  BY <1>10, <1>0 DEF Unregister, Goto, TypeOK, Tokens, Steps
<1>11. ASSUME NEW k \in Conns, RemoveClient(k) PROVE TypeOK'
  <2>1. [meta[k] EXCEPT !.step = "summary"] \in
          [step : {"off", "summary", "send"}, controller : Ids \cup {Rec, Nobody}, exited : BOOLEAN]
    BY DEF TypeOK, Broadcasters
  <2>2. meta' \in MetaTypes
    BY <1>11, <2>1 DEF RemoveClient, Forget, TypeOK, MetaTypes
  <2>3. /\ clients' \in [Ids -> Tokens] /\ pc' \in [Conns -> Steps]
        /\ id' \in [Conns -> Ids \cup {Nobody}]
    BY <1>11 DEF RemoveClient, Forget, TypeOK, Tokens, Steps
  <2>4. /\ told' \in [Conns -> {"nothing", "Controller", "Viewer"}]
        /\ toldExit' \in [Conns -> BOOLEAN] /\ closing' \in [Conns -> BOOLEAN]
        /\ replaced' \subseteq Conns
    BY <1>11 DEF RemoveClient, Forget, TypeOK
  <2>5. UNCHANGED <<coreVars, locked, watching, watcher, locker, remover, sawOpen, escaped, muted>>
    BY <1>11 DEF RemoveClient
  <2>6. QED
    BY <1>0, <2>2, <2>3, <2>4, <2>5 DEF TypeOK, MetaTypes
<1>12. ASSUME NEW b \in Broadcasters, ReadSummary(b) PROVE TypeOK'
  <2>1. meta' \in MetaTypes
    <3>1. \E m \in [step : {"off", "summary", "send"}, controller : Ids \cup {Rec, Nobody},
                  exited : BOOLEAN] : meta' = [meta EXCEPT ![b] = m]
      BY <1>12 DEF ReadSummary, EndMeta, TypeOK, Quiet
    <3>2. QED
      BY <3>1 DEF TypeOK, MetaTypes
  <2>2. pc' \in [Conns -> Steps] /\ watcher' \in {"off", "waiting", "deaf", "telling", "leaving"}
    BY <1>12 DEF ReadSummary, EndMeta, TypeOK, Steps
  <2>3. QED
    BY <1>12, <1>0, <2>1, <2>2 DEF ReadSummary, TypeOK, MetaTypes
<1>13. ASSUME NEW b \in Broadcasters, SendMeta(b) PROVE TypeOK'
  BY <1>13, <1>0 DEF SendMeta, EndMeta, TypeOK, Steps, Quiet, Role
<1>14. ASSUME WatcherHears PROVE TypeOK'
  BY <1>14, <1>0 DEF WatcherHears, TypeOK
<1>15. ASSUME WatcherLeaves PROVE TypeOK'
  BY <1>15, <1>0 DEF WatcherLeaves, TypeOK
<1>16. ASSUME LockForce PROVE TypeOK'
  BY <1>16, <1>0, ClientAssumption DEF LockForce, TypeOK
<1>17. ASSUME LockInsert PROVE TypeOK'
  BY <1>17, <1>0 DEF LockInsert, TypeOK
<1>18. ASSUME Unlock PROVE TypeOK'
  BY <1>18, <1>0 DEF Unlock, TypeOK
<1>19. ASSUME CloseClients PROVE TypeOK'
  BY <1>19, <1>0 DEF CloseClients, TypeOK, Tokens
<1>20. ASSUME RemoveLock PROVE TypeOK'
  BY <1>20, <1>0 DEF RemoveLock, TypeOK
<1>21. ASSUME DropSession PROVE TypeOK'
  BY <1>21, <1>0 DEF DropSession, TypeOK, Broadcasters, Watch
<1>22. ASSUME ForceController PROVE TypeOK'
  BY <1>22, <1>0 DEF ForceController, TypeOK
<1>23. ASSUME ProcessExit PROVE TypeOK'
  BY <1>23, <1>0 DEF ProcessExit, TypeOK
<1>24. CASE UNCHANGED vars
  BY <1>24 DEF TypeOK
<1>25. QED
  BY <1>1, <1>2, <1>3, <1>4, <1>5, <1>6, <1>7, <1>8, <1>9, <1>10, <1>11, <1>12, <1>13, <1>14, <1>15, <1>16, <1>17, <1>18, <1>19, <1>20, <1>21, <1>22, <1>23, <1>24 DEF Next, Register, Quit, Broadcast, Watching, Client, Outside

LEMMA IdStep == TypeOK /\ IdKnown /\ MetaKnown /\ [Next]_vars => IdKnown'
<1> SUFFICES ASSUME TypeOK /\ IdKnown /\ MetaKnown, [Next]_vars PROVE IdKnown'
  OBVIOUS
<1> USE DEF vars, coreVars, mapVars, connVars, sentVars, history
<1>1. ASSUME NEW k \in Conns, Hello(k) PROVE IdKnown'
  BY <1>1 DEF Hello, Goto, IdKnown, InLoop
<1>2. ASSUME NEW k \in Conns, RegisterCore(k) PROVE IdKnown'
  BY <1>2 DEF RegisterCore, Goto, TypeOK, IdKnown, InLoop
<1>3. ASSUME NEW k \in Conns, RegisterMap(k) PROVE IdKnown'
  BY <1>3 DEF RegisterMap, Goto, IdKnown, InLoop
<1>4. ASSUME NEW k \in Conns, StartWatcher(k) PROVE IdKnown'
  BY <1>4 DEF StartWatcher, Goto, Announce, TypeOK, IdKnown, InLoop
<1>5. ASSUME NEW k \in Conns, Subscribe(k) PROVE IdKnown'
  BY <1>5 DEF Subscribe, Announce, IdKnown, InLoop
<1>6. ASSUME NEW k \in Conns, Resize(k) PROVE IdKnown'
  BY <1>6 DEF Resize, Announce, IdKnown, InLoop
<1>7. ASSUME NEW k \in Conns, RequestControl(k) PROVE IdKnown'
  BY <1>7 DEF RequestControl, Goto, IdKnown, InLoop
<1>8. ASSUME NEW k \in Conns, TakeControl(k) PROVE IdKnown'
  BY <1>8 DEF TakeControl, Goto, Announce, TypeOK, IdKnown, InLoop
<1>9. ASSUME NEW k \in Conns, Leave(k) PROVE IdKnown'
  BY <1>9 DEF Leave, Goto, IdKnown, InLoop
<1>10. ASSUME NEW k \in Conns, Unregister(k) PROVE IdKnown'
  BY <1>10 DEF Unregister, Goto, IdKnown, InLoop
<1>11. ASSUME NEW k \in Conns, RemoveClient(k) PROVE IdKnown'
  BY <1>11 DEF RemoveClient, Forget, TypeOK, IdKnown, InLoop
<1>12. ASSUME NEW b \in Broadcasters, ReadSummary(b) PROVE IdKnown'
  BY <1>12 DEF ReadSummary, EndMeta, TypeOK, IdKnown, InLoop
<1>13. ASSUME NEW b \in Broadcasters, SendMeta(b) PROVE IdKnown'
  BY <1>13 DEF SendMeta, EndMeta, TypeOK, IdKnown, InLoop
<1>14. ASSUME WatcherHears PROVE IdKnown'
  BY <1>14 DEF WatcherHears, IdKnown, InLoop
<1>15. ASSUME WatcherLeaves PROVE IdKnown'
  BY <1>15 DEF WatcherLeaves, IdKnown, InLoop
<1>16. ASSUME LockForce PROVE IdKnown'
  BY <1>16 DEF LockForce, IdKnown, InLoop
<1>17. ASSUME LockInsert PROVE IdKnown'
  BY <1>17 DEF LockInsert, IdKnown, InLoop
<1>18. ASSUME Unlock PROVE IdKnown'
  BY <1>18 DEF Unlock, IdKnown, InLoop
<1>19. ASSUME CloseClients PROVE IdKnown'
  BY <1>19 DEF CloseClients, IdKnown, InLoop
<1>20. ASSUME RemoveLock PROVE IdKnown'
  BY <1>20 DEF RemoveLock, IdKnown, InLoop
<1>21. ASSUME DropSession PROVE IdKnown'
  BY <1>21 DEF DropSession, IdKnown, InLoop
<1>22. ASSUME ForceController PROVE IdKnown'
  BY <1>22 DEF ForceController, IdKnown, InLoop
<1>23. ASSUME ProcessExit PROVE IdKnown'
  BY <1>23 DEF ProcessExit, IdKnown, InLoop
<1>24. CASE UNCHANGED vars
  BY <1>24 DEF IdKnown, InLoop
<1>25. QED
  BY <1>1, <1>2, <1>3, <1>4, <1>5, <1>6, <1>7, <1>8, <1>9, <1>10, <1>11, <1>12, <1>13, <1>14, <1>15, <1>16, <1>17, <1>18, <1>19, <1>20, <1>21, <1>22, <1>23, <1>24 DEF Next, Register, Quit, Broadcast, Watching, Client, Outside

LEMMA MetaStep == TypeOK /\ MetaKnown /\ [Next]_vars => MetaKnown'
<1> SUFFICES ASSUME TypeOK /\ MetaKnown, [Next]_vars PROVE MetaKnown'
  OBVIOUS
<1> USE DEF vars, coreVars, mapVars, connVars, sentVars, history
<1>1. ASSUME NEW k \in Conns, Hello(k) PROVE MetaKnown'
  BY <1>1 DEF Hello, Goto, MetaKnown
<1>2. ASSUME NEW k \in Conns, RegisterCore(k) PROVE MetaKnown'
  BY <1>2 DEF RegisterCore, Goto, TypeOK, MetaKnown
<1>3. ASSUME NEW k \in Conns, RegisterMap(k) PROVE MetaKnown'
  BY <1>3 DEF RegisterMap, Goto, MetaKnown
<1>4. ASSUME NEW k \in Conns, StartWatcher(k) PROVE MetaKnown'
  BY <1>4 DEF StartWatcher, Goto, Announce, TypeOK, MetaKnown, Broadcasters
<1>5. ASSUME NEW k \in Conns, Subscribe(k) PROVE MetaKnown'
  BY <1>5 DEF Subscribe, Announce, TypeOK, MetaKnown
<1>6. ASSUME NEW k \in Conns, Resize(k) PROVE MetaKnown'
  BY <1>6 DEF Resize, Announce, TypeOK, MetaKnown
<1>7. ASSUME NEW k \in Conns, RequestControl(k) PROVE MetaKnown'
  BY <1>7 DEF RequestControl, Goto, MetaKnown
<1>8. ASSUME NEW k \in Conns, TakeControl(k) PROVE MetaKnown'
  BY <1>8 DEF TakeControl, Goto, Announce, TypeOK, MetaKnown, Broadcasters
<1>9. ASSUME NEW k \in Conns, Leave(k) PROVE MetaKnown'
  BY <1>9 DEF Leave, Goto, MetaKnown
<1>10. ASSUME NEW k \in Conns, Unregister(k) PROVE MetaKnown'
  BY <1>10 DEF Unregister, Goto, MetaKnown
<1>11. ASSUME NEW k \in Conns, RemoveClient(k) PROVE MetaKnown'
  BY <1>11 DEF RemoveClient, Forget, TypeOK, MetaKnown
<1>12. ASSUME NEW b \in Broadcasters, ReadSummary(b) PROVE MetaKnown'
  BY <1>12 DEF ReadSummary, EndMeta, TypeOK, MetaKnown, Broadcasters, Quiet
<1>13. ASSUME NEW b \in Broadcasters, SendMeta(b) PROVE MetaKnown'
  BY <1>13 DEF SendMeta, EndMeta, TypeOK, MetaKnown, Quiet
<1>14. ASSUME WatcherHears PROVE MetaKnown'
  BY <1>14, ClientAssumption DEF WatcherHears, TypeOK, MetaKnown, Broadcasters, Watch
<1>15. ASSUME WatcherLeaves PROVE MetaKnown'
  BY <1>15 DEF WatcherLeaves, MetaKnown
<1>16. ASSUME LockForce PROVE MetaKnown'
  BY <1>16 DEF LockForce, MetaKnown
<1>17. ASSUME LockInsert PROVE MetaKnown'
  BY <1>17 DEF LockInsert, MetaKnown
<1>18. ASSUME Unlock PROVE MetaKnown'
  BY <1>18 DEF Unlock, MetaKnown
<1>19. ASSUME CloseClients PROVE MetaKnown'
  BY <1>19 DEF CloseClients, MetaKnown
<1>20. ASSUME RemoveLock PROVE MetaKnown'
  BY <1>20 DEF RemoveLock, MetaKnown
<1>21. ASSUME DropSession PROVE MetaKnown'
  BY <1>21 DEF DropSession, MetaKnown
<1>22. ASSUME ForceController PROVE MetaKnown'
  BY <1>22 DEF ForceController, MetaKnown
<1>23. ASSUME ProcessExit PROVE MetaKnown'
  BY <1>23 DEF ProcessExit, MetaKnown
<1>24. CASE UNCHANGED vars
  BY <1>24 DEF MetaKnown
<1>25. QED
  BY <1>1, <1>2, <1>3, <1>4, <1>5, <1>6, <1>7, <1>8, <1>9, <1>10, <1>11, <1>12, <1>13, <1>14, <1>15, <1>16, <1>17, <1>18, <1>19, <1>20, <1>21, <1>22, <1>23, <1>24 DEF Next, Register, Quit, Broadcast, Watching, Client, Outside

LEMMA TakeStep == TypeOK /\ TakeKnown /\ [Next]_vars => TakeKnown'
<1> SUFFICES ASSUME TypeOK /\ TakeKnown, [Next]_vars PROVE TakeKnown'
  OBVIOUS
<1> USE DEF vars, coreVars, mapVars, connVars, sentVars, history
<1>1. ASSUME NEW k \in Conns, Hello(k) PROVE TakeKnown'
  BY <1>1 DEF Hello, Goto, TakeKnown
<1>2. ASSUME NEW k \in Conns, RegisterCore(k) PROVE TakeKnown'
  BY <1>2 DEF RegisterCore, Goto, TypeOK, TakeKnown
<1>3. ASSUME NEW k \in Conns, RegisterMap(k) PROVE TakeKnown'
  BY <1>3 DEF RegisterMap, Goto, TakeKnown
<1>4. ASSUME NEW k \in Conns, StartWatcher(k) PROVE TakeKnown'
  BY <1>4 DEF StartWatcher, Goto, Announce, TypeOK, TakeKnown
<1>5. ASSUME NEW k \in Conns, Subscribe(k) PROVE TakeKnown'
  BY <1>5 DEF Subscribe, Announce, TakeKnown
<1>6. ASSUME NEW k \in Conns, Resize(k) PROVE TakeKnown'
  BY <1>6 DEF Resize, Announce, TakeKnown
<1>7. ASSUME NEW k \in Conns, RequestControl(k) PROVE TakeKnown'
  BY <1>7 DEF RequestControl, Goto, TypeOK, TakeKnown
<1>8. ASSUME NEW k \in Conns, TakeControl(k) PROVE TakeKnown'
  BY <1>8 DEF TakeControl, Goto, Announce, TypeOK, TakeKnown
<1>9. ASSUME NEW k \in Conns, Leave(k) PROVE TakeKnown'
  BY <1>9 DEF Leave, Goto, TakeKnown
<1>10. ASSUME NEW k \in Conns, Unregister(k) PROVE TakeKnown'
  BY <1>10 DEF Unregister, Goto, TakeKnown
<1>11. ASSUME NEW k \in Conns, RemoveClient(k) PROVE TakeKnown'
  BY <1>11 DEF RemoveClient, Forget, TakeKnown
<1>12. ASSUME NEW b \in Broadcasters, ReadSummary(b) PROVE TakeKnown'
  BY <1>12 DEF ReadSummary, EndMeta, TypeOK, TakeKnown
<1>13. ASSUME NEW b \in Broadcasters, SendMeta(b) PROVE TakeKnown'
  BY <1>13 DEF SendMeta, EndMeta, TypeOK, TakeKnown
<1>14. ASSUME WatcherHears PROVE TakeKnown'
  BY <1>14 DEF WatcherHears, TakeKnown
<1>15. ASSUME WatcherLeaves PROVE TakeKnown'
  BY <1>15 DEF WatcherLeaves, TakeKnown
<1>16. ASSUME LockForce PROVE TakeKnown'
  BY <1>16 DEF LockForce, TakeKnown
<1>17. ASSUME LockInsert PROVE TakeKnown'
  BY <1>17 DEF LockInsert, TakeKnown
<1>18. ASSUME Unlock PROVE TakeKnown'
  BY <1>18 DEF Unlock, TakeKnown
<1>19. ASSUME CloseClients PROVE TakeKnown'
  BY <1>19 DEF CloseClients, TakeKnown
<1>20. ASSUME RemoveLock PROVE TakeKnown'
  BY <1>20 DEF RemoveLock, TakeKnown
<1>21. ASSUME DropSession PROVE TakeKnown'
  BY <1>21 DEF DropSession, TakeKnown
<1>22. ASSUME ForceController PROVE TakeKnown'
  BY <1>22 DEF ForceController, TakeKnown
<1>23. ASSUME ProcessExit PROVE TakeKnown'
  BY <1>23 DEF ProcessExit, TakeKnown
<1>24. CASE UNCHANGED vars
  BY <1>24 DEF TakeKnown
<1>25. QED
  BY <1>1, <1>2, <1>3, <1>4, <1>5, <1>6, <1>7, <1>8, <1>9, <1>10, <1>11, <1>12, <1>13, <1>14, <1>15, <1>16, <1>17, <1>18, <1>19, <1>20, <1>21, <1>22, <1>23, <1>24 DEF Next, Register, Quit, Broadcast, Watching, Client, Outside

LEMMA GhostStep == TypeOK /\ IdKnown /\ MetaKnown /\ NoGhost /\ [Next]_vars => NoGhost'
<1> SUFFICES ASSUME TypeOK /\ IdKnown /\ MetaKnown /\ NoGhost, [Next]_vars PROVE NoGhost'
  OBVIOUS
<1> USE DEF vars, coreVars, mapVars, connVars, sentVars, history
<1>1. ASSUME NEW k \in Conns, Hello(k) PROVE NoGhost'
  BY <1>1 DEF Hello, Goto, NoGhost, InLoop
<1>2. ASSUME NEW k \in Conns, RegisterCore(k) PROVE NoGhost'
  BY <1>2 DEF RegisterCore, Goto, TypeOK, NoGhost, InLoop, Tokens
<1>3. ASSUME NEW k \in Conns, RegisterMap(k) PROVE NoGhost'
  BY <1>3 DEF RegisterMap, Goto, TypeOK, NoGhost, InLoop
<1>4. ASSUME NEW k \in Conns, StartWatcher(k) PROVE NoGhost'
  BY <1>4 DEF StartWatcher, Goto, Announce, TypeOK, NoGhost, InLoop, Tokens
<1>5. ASSUME NEW k \in Conns, Subscribe(k) PROVE NoGhost'
  BY <1>5 DEF Subscribe, Announce, NoGhost, InLoop
<1>6. ASSUME NEW k \in Conns, Resize(k) PROVE NoGhost'
  BY <1>6 DEF Resize, Announce, NoGhost, InLoop
<1>7. ASSUME NEW k \in Conns, RequestControl(k) PROVE NoGhost'
  BY <1>7 DEF RequestControl, Goto, NoGhost, InLoop
<1>8. ASSUME NEW k \in Conns, TakeControl(k) PROVE NoGhost'
  BY <1>8 DEF TakeControl, Goto, Announce, TypeOK, NoGhost, InLoop, Tokens
<1>9. ASSUME NEW k \in Conns, Leave(k) PROVE NoGhost'
  BY <1>9 DEF Leave, Goto, NoGhost, InLoop
<1>10. ASSUME NEW k \in Conns, Unregister(k) PROVE NoGhost'
  BY <1>10 DEF Unregister, Goto, TypeOK, NoGhost, InLoop
<1>11. ASSUME NEW k \in Conns, RemoveClient(k) PROVE NoGhost'
  BY <1>11 DEF RemoveClient, Forget, TypeOK, NoGhost, InLoop
<1>12. ASSUME NEW b \in Broadcasters, ReadSummary(b) PROVE NoGhost'
  BY <1>12 DEF ReadSummary, EndMeta, TypeOK, MetaKnown, NoGhost, InLoop, Tokens
<1>13. ASSUME NEW b \in Broadcasters, SendMeta(b) PROVE NoGhost'
  BY <1>13 DEF SendMeta, EndMeta, TypeOK, MetaKnown, NoGhost, InLoop, Tokens
<1>14. ASSUME WatcherHears PROVE NoGhost'
  BY <1>14 DEF WatcherHears, NoGhost, InLoop
<1>15. ASSUME WatcherLeaves PROVE NoGhost'
  BY <1>15 DEF WatcherLeaves, NoGhost, InLoop
<1>16. ASSUME LockForce PROVE NoGhost'
  BY <1>16 DEF LockForce, NoGhost, InLoop
<1>17. ASSUME LockInsert PROVE NoGhost'
  BY <1>17 DEF LockInsert, NoGhost, InLoop
<1>18. ASSUME Unlock PROVE NoGhost'
  BY <1>18 DEF Unlock, NoGhost, InLoop
<1>19. ASSUME CloseClients PROVE NoGhost'
  BY <1>19 DEF CloseClients, NoGhost, InLoop
<1>20. ASSUME RemoveLock PROVE NoGhost'
  BY <1>20 DEF RemoveLock, NoGhost, InLoop
<1>21. ASSUME DropSession PROVE NoGhost'
  BY <1>21 DEF DropSession, NoGhost, InLoop
<1>22. ASSUME ForceController PROVE NoGhost'
  BY <1>22 DEF ForceController, NoGhost, InLoop
<1>23. ASSUME ProcessExit PROVE NoGhost'
  BY <1>23 DEF ProcessExit, NoGhost, InLoop
<1>24. CASE UNCHANGED vars
  BY <1>24 DEF NoGhost, InLoop
<1>25. QED
  BY <1>1, <1>2, <1>3, <1>4, <1>5, <1>6, <1>7, <1>8, <1>9, <1>10, <1>11, <1>12, <1>13, <1>14, <1>15, <1>16, <1>17, <1>18, <1>19, <1>20, <1>21, <1>22, <1>23, <1>24 DEF Next, Register, Quit, Broadcast, Watching, Client, Outside

LEMMA AccountStep == TypeOK /\ IdKnown /\ MetaKnown /\ NoGhost /\ Accounted /\ [Next]_vars => Accounted'
<1> SUFFICES ASSUME TypeOK /\ IdKnown /\ MetaKnown /\ NoGhost /\ Accounted, [Next]_vars PROVE Accounted'
  OBVIOUS
<1> USE DEF vars, coreVars, mapVars, connVars, sentVars, history
<1>1. ASSUME NEW k \in Conns, Hello(k) PROVE Accounted'
  BY <1>1 DEF Hello, Goto, Accounted, InLoop
<1>2. ASSUME NEW k \in Conns, RegisterCore(k) PROVE Accounted'
  BY <1>2 DEF RegisterCore, Goto, TypeOK, Accounted, InLoop
<1>3. ASSUME NEW k \in Conns, RegisterMap(k) PROVE Accounted'
  BY <1>3, ClientAssumption DEF RegisterMap, Goto, TypeOK, IdKnown, Accounted, InLoop
<1>4. ASSUME NEW k \in Conns, StartWatcher(k) PROVE Accounted'
  BY <1>4 DEF StartWatcher, Goto, Announce, TypeOK, Accounted, InLoop
<1>5. ASSUME NEW k \in Conns, Subscribe(k) PROVE Accounted'
  BY <1>5 DEF Subscribe, Announce, Accounted, InLoop
<1>6. ASSUME NEW k \in Conns, Resize(k) PROVE Accounted'
  BY <1>6 DEF Resize, Announce, Accounted, InLoop
<1>7. ASSUME NEW k \in Conns, RequestControl(k) PROVE Accounted'
  BY <1>7 DEF RequestControl, Goto, Accounted, InLoop
<1>8. ASSUME NEW k \in Conns, TakeControl(k) PROVE Accounted'
  BY <1>8 DEF TakeControl, Goto, Announce, TypeOK, Accounted, InLoop
<1>9. ASSUME NEW k \in Conns, Leave(k) PROVE Accounted'
  BY <1>9 DEF Leave, Goto, Accounted, InLoop
<1>10. ASSUME NEW k \in Conns, Unregister(k) PROVE Accounted'
  BY <1>10 DEF Unregister, Goto, Accounted, InLoop
<1>11. ASSUME NEW k \in Conns, RemoveClient(k) PROVE Accounted'
  BY <1>11 DEF RemoveClient, Forget, Accounted, InLoop
<1>12. ASSUME NEW b \in Broadcasters, ReadSummary(b) PROVE Accounted'
  BY <1>12 DEF ReadSummary, EndMeta, TypeOK, Accounted, InLoop
<1>13. ASSUME NEW b \in Broadcasters, SendMeta(b) PROVE Accounted'
  BY <1>13 DEF SendMeta, EndMeta, TypeOK, Accounted, InLoop
<1>14. ASSUME WatcherHears PROVE Accounted'
  BY <1>14 DEF WatcherHears, Accounted, InLoop
<1>15. ASSUME WatcherLeaves PROVE Accounted'
  BY <1>15 DEF WatcherLeaves, Accounted, InLoop
<1>16. ASSUME LockForce PROVE Accounted'
  BY <1>16 DEF LockForce, Accounted, InLoop
<1>17. ASSUME LockInsert PROVE Accounted'
  BY <1>17 DEF LockInsert, Accounted, InLoop
<1>18. ASSUME Unlock PROVE Accounted'
  BY <1>18 DEF Unlock, Accounted, InLoop
<1>19. ASSUME CloseClients PROVE Accounted'
  <2> SUFFICES ASSUME NEW j \in Conns, InLoop(j)' PROVE clients'[id[j]] = j \/ closing'[j] \/ j \in replaced
    BY <1>19 DEF CloseClients, Accounted
  <2>1. InLoop(j) /\ id[j] \in Ids
    BY <1>19 DEF CloseClients, InLoop, IdKnown
  <2>2. clients[id[j]] = j => j \in Mapped
    BY <2>1, ClientAssumption DEF Mapped
  <2>3. QED
    BY <1>19, <2>1, <2>2 DEF CloseClients, Accounted
<1>20. ASSUME RemoveLock PROVE Accounted'
  BY <1>20 DEF RemoveLock, Accounted, InLoop
<1>21. ASSUME DropSession PROVE Accounted'
  BY <1>21 DEF DropSession, Accounted, InLoop
<1>22. ASSUME ForceController PROVE Accounted'
  BY <1>22 DEF ForceController, Accounted, InLoop
<1>23. ASSUME ProcessExit PROVE Accounted'
  BY <1>23 DEF ProcessExit, Accounted, InLoop
<1>24. CASE UNCHANGED vars
  BY <1>24 DEF Accounted, InLoop
<1>25. QED
  BY <1>1, <1>2, <1>3, <1>4, <1>5, <1>6, <1>7, <1>8, <1>9, <1>10, <1>11, <1>12, <1>13, <1>14, <1>15, <1>16, <1>17, <1>18, <1>19, <1>20, <1>21, <1>22, <1>23, <1>24 DEF Next, Register, Quit, Broadcast, Watching, Client, Outside

LEMMA LockStep == TypeOK /\ TakeKnown /\ LockHolds /\ [Next]_vars => LockHolds'
<1> SUFFICES ASSUME TypeOK /\ TakeKnown /\ LockHolds, [Next]_vars PROVE LockHolds'
  OBVIOUS
<1> USE DEF vars, coreVars, mapVars, connVars, sentVars, history
<1>1. ASSUME NEW k \in Conns, Hello(k) PROVE LockHolds'
  BY <1>1 DEF Hello, TakeKnown, LockHolds
<1>2. ASSUME NEW k \in Conns, RegisterCore(k) PROVE LockHolds'
  BY <1>2, ClientAssumption DEF RegisterCore, TakeKnown, LockHolds
<1>3. ASSUME NEW k \in Conns, RegisterMap(k) PROVE LockHolds'
  BY <1>3 DEF RegisterMap, TakeKnown, LockHolds
<1>4. ASSUME NEW k \in Conns, StartWatcher(k) PROVE LockHolds'
  BY <1>4 DEF StartWatcher, TakeKnown, LockHolds
<1>5. ASSUME NEW k \in Conns, Subscribe(k) PROVE LockHolds'
  BY <1>5 DEF Subscribe, TakeKnown, LockHolds
<1>6. ASSUME NEW k \in Conns, Resize(k) PROVE LockHolds'
  BY <1>6 DEF Resize, TakeKnown, LockHolds
<1>7. ASSUME NEW k \in Conns, RequestControl(k) PROVE LockHolds'
  BY <1>7 DEF RequestControl, TakeKnown, LockHolds
<1>8. ASSUME NEW k \in Conns, TakeControl(k) PROVE LockHolds'
  BY <1>8 DEF TakeControl, TakeKnown, LockHolds
<1>9. ASSUME NEW k \in Conns, Leave(k) PROVE LockHolds'
  BY <1>9 DEF Leave, TakeKnown, LockHolds
<1>10. ASSUME NEW k \in Conns, Unregister(k) PROVE LockHolds'
  BY <1>10 DEF Unregister, TakeKnown, LockHolds
<1>11. ASSUME NEW k \in Conns, RemoveClient(k) PROVE LockHolds'
  BY <1>11 DEF RemoveClient, Forget, TakeKnown, LockHolds
<1>12. ASSUME NEW b \in Broadcasters, ReadSummary(b) PROVE LockHolds'
  BY <1>12 DEF ReadSummary, EndMeta, TakeKnown, LockHolds
<1>13. ASSUME NEW b \in Broadcasters, SendMeta(b) PROVE LockHolds'
  BY <1>13 DEF SendMeta, EndMeta, TakeKnown, LockHolds
<1>14. ASSUME WatcherHears PROVE LockHolds'
  BY <1>14 DEF WatcherHears, TakeKnown, LockHolds
<1>15. ASSUME WatcherLeaves PROVE LockHolds'
  BY <1>15 DEF WatcherLeaves, TakeKnown, LockHolds
<1>16. ASSUME LockForce PROVE LockHolds'
  BY <1>16 DEF LockForce, TakeKnown, LockHolds
<1>17. ASSUME LockInsert PROVE LockHolds'
  BY <1>17 DEF LockInsert, TakeKnown, LockHolds
<1>18. ASSUME Unlock PROVE LockHolds'
  BY <1>18 DEF Unlock, TakeKnown, LockHolds
<1>19. ASSUME CloseClients PROVE LockHolds'
  BY <1>19 DEF CloseClients, TakeKnown, LockHolds
<1>20. ASSUME RemoveLock PROVE LockHolds'
  BY <1>20 DEF RemoveLock, TakeKnown, LockHolds
<1>21. ASSUME DropSession PROVE LockHolds'
  BY <1>21 DEF DropSession, TakeKnown, LockHolds
<1>22. ASSUME ForceController PROVE LockHolds'
  BY <1>22 DEF ForceController, TakeKnown, LockHolds
<1>23. ASSUME ProcessExit PROVE LockHolds'
  BY <1>23 DEF ProcessExit, TakeKnown, LockHolds
<1>24. CASE UNCHANGED vars
  BY <1>24 DEF TakeKnown, LockHolds
<1>25. QED
  BY <1>1, <1>2, <1>3, <1>4, <1>5, <1>6, <1>7, <1>8, <1>9, <1>10, <1>11, <1>12, <1>13, <1>14, <1>15, <1>16, <1>17, <1>18, <1>19, <1>20, <1>21, <1>22, <1>23, <1>24 DEF Next, Register, Quit, Broadcast, Watching, Client, Outside

LEMMA RoleStep == TypeOK /\ NoGhost /\ RolesTold /\ [Next]_vars => RolesTold'
<1> SUFFICES ASSUME TypeOK /\ NoGhost /\ RolesTold, [Next]_vars PROVE RolesTold'
  OBVIOUS
<1> USE DEF vars, coreVars, mapVars, connVars, sentVars, history
<1>1. ASSUME NEW k \in Conns, Hello(k) PROVE RolesTold'
  BY <1>1 DEF Hello, Goto, RolesTold, AtRest, Mapped
<1>2. ASSUME NEW k \in Conns, RegisterCore(k) PROVE RolesTold'
  BY <1>2 DEF RegisterCore, Goto, TypeOK, RolesTold, AtRest, Mapped
<1>3. ASSUME NEW k \in Conns, RegisterMap(k) PROVE RolesTold'
  BY <1>3 DEF RegisterMap, Goto, RolesTold, AtRest
<1>4. ASSUME NEW k \in Conns, StartWatcher(k) PROVE RolesTold'
  BY <1>4 DEF StartWatcher, Goto, Announce, TypeOK, RolesTold, AtRest, Broadcasters
<1>5. ASSUME NEW k \in Conns, Subscribe(k) PROVE RolesTold'
  BY <1>5 DEF Subscribe, Announce, TypeOK, RolesTold, AtRest, Broadcasters
<1>6. ASSUME NEW k \in Conns, Resize(k) PROVE RolesTold'
  BY <1>6 DEF Resize, Announce, RolesTold, AtRest, Mapped
<1>7. ASSUME NEW k \in Conns, RequestControl(k) PROVE RolesTold'
  BY <1>7 DEF RequestControl, Goto, RolesTold, AtRest, Mapped
<1>8. ASSUME NEW k \in Conns, TakeControl(k) PROVE RolesTold'
  BY <1>8 DEF TakeControl, Goto, Announce, TypeOK, NoGhost, RolesTold, AtRest, Mapped, Broadcasters, Watch, Tokens
<1>9. ASSUME NEW k \in Conns, Leave(k) PROVE RolesTold'
  BY <1>9 DEF Leave, Goto, RolesTold, AtRest, Mapped
<1>10. ASSUME NEW k \in Conns, Unregister(k) PROVE RolesTold'
  BY <1>10 DEF Unregister, Goto, TypeOK, RolesTold, AtRest
<1>11. ASSUME NEW k \in Conns, RemoveClient(k) PROVE RolesTold'
  BY <1>11 DEF RemoveClient, Forget, TypeOK, RolesTold, AtRest, Broadcasters
<1>12. ASSUME NEW b \in Broadcasters, ReadSummary(b) PROVE RolesTold'
  BY <1>12 DEF ReadSummary, EndMeta, TypeOK, RolesTold, AtRest
<1>13. ASSUME NEW b \in Broadcasters, SendMeta(b) PROVE RolesTold'
  <2> SUFFICES ASSUME alive', ~muted', AtRest', NEW j \in Mapped' PROVE told'[j] = Role(controller', id'[j])
    BY DEF RolesTold
  <2>1. UNCHANGED <<clients, id, controller>> /\ meta[b].controller = controller
    BY <1>13 DEF SendMeta
  <2>2. j \in Mapped /\ j \in Conns
    BY <2>1 DEF Mapped, TypeOK, Tokens
  <2>3. QED
    BY <1>13, <2>1, <2>2 DEF SendMeta
<1>14. ASSUME WatcherHears PROVE RolesTold'
  <2>1. UNCHANGED <<clients, id, told, alive, muted, pc, controller>>
    BY <1>14 DEF WatcherHears
  <2>2. AtRest' => AtRest
    BY <1>14 DEF WatcherHears, AtRest, TypeOK
  <2>3. QED
    BY <2>1, <2>2 DEF RolesTold, Mapped
<1>15. ASSUME WatcherLeaves PROVE RolesTold'
  BY <1>15 DEF WatcherLeaves, RolesTold, AtRest, Mapped
<1>16. ASSUME LockForce PROVE RolesTold'
  <2>1. UNCHANGED <<clients, id, told, alive, meta, pc>>
    BY <1>16 DEF LockForce
  <2>2. ~muted' => ~muted /\ UNCHANGED controller
    BY <1>16 DEF LockForce
  <2>3. QED
    BY <2>1, <2>2 DEF RolesTold, AtRest, Mapped
<1>17. ASSUME LockInsert PROVE RolesTold'
  BY <1>17 DEF LockInsert, RolesTold, AtRest, Mapped
<1>18. ASSUME Unlock PROVE RolesTold'
  BY <1>18 DEF Unlock, RolesTold, AtRest, Mapped
<1>19. ASSUME CloseClients PROVE RolesTold'
  BY <1>19 DEF CloseClients, Mapped, RolesTold
<1>20. ASSUME RemoveLock PROVE RolesTold'
  BY <1>20 DEF RemoveLock, RolesTold, AtRest, Mapped
<1>21. ASSUME DropSession PROVE RolesTold'
  BY <1>21 DEF DropSession, RolesTold
<1>22. ASSUME ForceController PROVE RolesTold'
  BY <1>22 DEF ForceController, RolesTold
<1>23. ASSUME ProcessExit PROVE RolesTold'
  BY <1>23 DEF ProcessExit, RolesTold, AtRest, Mapped
<1>24. CASE UNCHANGED vars
  BY <1>24 DEF RolesTold, AtRest, Mapped
<1>25. QED
  BY <1>1, <1>2, <1>3, <1>4, <1>5, <1>6, <1>7, <1>8, <1>9, <1>10, <1>11, <1>12, <1>13, <1>14, <1>15, <1>16, <1>17, <1>18, <1>19, <1>20, <1>21, <1>22, <1>23, <1>24 DEF Next, Register, Quit, Broadcast, Watching, Client, Outside


-----------------------------------------------------------------------------

LEMMA ClientInit == Init => ClientInv
<1> SUFFICES ASSUME Init PROVE ClientInv
  OBVIOUS
<1> USE DEF Init
<1>1. TypeOK
  BY ClientAssumption DEF TypeOK, Tokens, Steps, Quiet
<1>2. IdKnown /\ MetaKnown /\ TakeKnown
  BY DEF IdKnown, MetaKnown, TakeKnown, InLoop, Quiet, Broadcasters
<1>3. NoGhost /\ Accounted /\ LockHolds
  BY DEF NoGhost, Accounted, LockHolds, InLoop
<1>4. RolesTold
  BY DEF RolesTold, Mapped
<1>5. QED
  BY <1>1, <1>2, <1>3, <1>4 DEF ClientInv

LEMMA ClientStep == ClientInv /\ [Next]_vars => ClientInv'
BY TypeStep, IdStep, MetaStep, TakeStep, GhostStep, AccountStep, LockStep, RoleStep DEF ClientInv

LEMMA ClientInvHolds == Spec => []ClientInv
BY ClientInit, ClientStep, PTL DEF Spec

\* The variables of the registration, the broadcasts and the locks keep their types.
THEOREM ClientTypes == Spec => []TypeOK
<1>1. ClientInv => TypeOK
  BY DEF ClientInv
<1>2. QED
  BY <1>1, ClientInvHolds, PTL

\* Neither the client map nor the core ever names a connection that is no longer
\* served: reconnects and late cleanups of one id do not leave entries behind.
THEOREM NoGhostClients == Spec => []NoGhost
<1>1. ClientInv => NoGhost
  BY DEF ClientInv
<1>2. QED
  BY <1>1, ClientInvHolds, PTL

\* No served connection falls out of the client map without a Close or a
\* namesake that took its place.
THEOREM ClientsAccounted == Spec => []Accounted
<1>1. ClientInv => Accounted
  BY DEF ClientInv
<1>2. QED
  BY <1>1, ClientInvHolds, PTL

\* A locked PTY obeys user 0, but for the escapes that LockHolds names.
THEOREM LocksHold == Spec => []LockHolds
<1>1. ClientInv => LockHolds
  BY DEF ClientInv
<1>2. QED
  BY <1>1, ClientInvHolds, PTL

\* When the broadcasts have come to rest every client knows its role.
THEOREM RolesAreTold == Spec => []RolesTold
<1>1. ClientInv => RolesTold
  BY DEF ClientInv
<1>2. QED
  BY <1>1, ClientInvHolds, PTL
=============================================================================
