------------------------------ MODULE PtyClients ------------------------------
(***************************************************************************)
(* The terminal clients of one PTY (src/src/websocket.rs and               *)
(* src/src/shell_manager.rs).  A connection registers under an id with the *)
(* session of the core and then with ShellManager, which keeps the map     *)
(* that roles and closes are sent through; both know the connection by its *)
(* token.  Locking, removal, control and the watcher of the exit are steps *)
(* of other tasks.  PTYs share nothing but the locks of the maps, and no   *)
(* name of a PTY is used twice, so one PTY stands for all.                 *)
(***************************************************************************)
EXTENDS Naturals

CONSTANTS Conns,     \* connections; one is used once and is its own token
          Ids,       \* the names clients register under
          Zero,      \* the user "0" a PTY can be locked to
          Rec,       \* the name under which exbash attach writes
          Nobody,    \* no controller
          NoConn,
          Scenarios  \* sets of what else happens in one behaviour, see Happenings

Happenings == {"resize", "control", "lock", "force", "remove", "exit"}

ASSUME ClientAssumption ==
  /\ Zero \in Ids /\ Rec \notin Ids /\ Nobody \notin Ids \cup {Rec}
  /\ NoConn \notin Conns /\ "watch" \notin Conns /\ Scenarios \subseteq SUBSET Happenings

VARIABLES
  scenario,    \* what happens in this behaviour besides clients that come and go
  alive, exited, controller,
  holder,      \* the session's registrations: the token behind each id
  clients,     \* ShellManager::clients for this PTY: the token behind each id
  locked,      \* the PTY is in ShellManager::locked
  watching,    \* the PTY is in ShellManager::exit_watchers
  watcher,     \* the task that waits for the exit
  pc, id,      \* handle_terminal_client of each connection
  meta,        \* broadcast_meta of each connection and of the watcher
  told, toldExit, closing,   \* what a connection was sent: role, exit, Close
  locker, remover,           \* lock_pty and remove_pty, between two of their steps
  sawOpen,     \* history: the lock test of a connection found no lock
  escaped,     \* history: control moved although the PTY is locked, and why it may
  replaced,    \* history: connections whose entry a namesake took over
  muted        \* history: a change of control that nobody was told of, or told wrongly

coreVars == <<alive, exited, controller, holder>>
mapVars  == <<clients, locked, watching, watcher>>
connVars == <<pc, id, meta>>
sentVars == <<told, toldExit, closing>>
history  == <<sawOpen, escaped, replaced, muted>>
vars == <<scenario, coreVars, mapVars, connVars, sentVars, locker, remover, history>>

Watch        == "watch"      \* the watcher's own broadcast
Broadcasters == Conns \cup {Watch}
Tokens       == Conns \cup {NoConn}
Quiet        == [step |-> "off", controller |-> Nobody, exited |-> FALSE]

Steps == {"new", "core", "map", "watch", "subscribe", "announce", "serving", "take",
          "unregister", "unmap", "farewell", "done"}

-----------------------------------------------------------------------------
(* Shared steps *)

Goto(k, step) == /\ pc' = [pc EXCEPT ![k] = step]
                 /\ UNCHANGED <<id, meta>>

\* The handler enters broadcast_meta, at whose end it goes on to serve or is done.
Announce(k, step) ==
  /\ pc' = [pc EXCEPT ![k] = step]
  /\ meta' = [meta EXCEPT ![k].step = "summary"]
  /\ UNCHANGED id

\* The last broadcast of a connection, of which nothing else is left.
Forget(k) ==
  /\ pc' = [pc EXCEPT ![k] = "farewell"]
  /\ id' = [id EXCEPT ![k] = Nobody]
  /\ meta' = [meta EXCEPT ![k].step = "summary"]
  /\ told' = [told EXCEPT ![k] = "nothing"]
  /\ toldExit' = [toldExit EXCEPT ![k] = FALSE]
  /\ closing' = [closing EXCEPT ![k] = FALSE]
  /\ replaced' = replaced \ {k}

Mapped == {clients[i] : i \in Ids} \ {NoConn}

\* What remains of a broadcast is the next step of its task.
EndMeta(b) ==
  /\ meta' = [meta EXCEPT ![b] = Quiet]
  /\ \/ b = Watch /\ watcher' = "leaving" /\ UNCHANGED pc
     \/ /\ b \in Conns /\ UNCHANGED watcher
        /\ pc' = [pc EXCEPT ![b] = IF @ = "announce" THEN "serving" ELSE "done"]

Role(c, i) == IF c = i THEN "Controller" ELSE "Viewer"

-----------------------------------------------------------------------------
(* Slips a change to the code could make; each breaks a property below when  *)
(* it stands in for the definition it is named after.                        *)

\* remove_client does not look at the token.
RemoveClient_anyToken(k) ==
  /\ pc[k] = "unmap"
  /\ clients' = [clients EXCEPT ![id[k]] = NoConn]
  /\ Forget(k)
  /\ UNCHANGED <<coreVars, locked, watching, watcher, locker, remover, sawOpen, escaped, muted>>

\* The client's entry is left behind when its connection ends.
Unregister_return(k) ==
  /\ pc[k] = "unregister"
  /\ IF holder[id[k]] = k
     THEN /\ holder' = [holder EXCEPT ![id[k]] = NoConn]
          /\ controller' = IF controller = id[k] THEN Nobody ELSE controller
     ELSE UNCHANGED <<holder, controller>>
  /\ Forget(k)
  /\ UNCHANGED <<alive, exited, mapVars, locker, remover, sawOpen, escaped, muted>>

\* RequestControl does not ask whether the PTY is locked.
RequestControl_unlocked(k) ==
  /\ "control" \in scenario /\ pc[k] = "serving"
  /\ sawOpen' = [sawOpen EXCEPT ![k] = ~locked]
  /\ Goto(k, "take")
  /\ UNCHANGED <<coreVars, mapVars, sentVars, locker, remover, escaped, replaced, muted>>

\* The clients are not told when one of them takes control.
TakeControl_silent(k) ==
  /\ pc[k] = "take" /\ holder[id[k]] # NoConn
  /\ controller' = id[k]
  /\ escaped' = (escaped \/ (locked /\ sawOpen[k]))
  /\ Goto(k, "serving")
  /\ sawOpen' = [sawOpen EXCEPT ![k] = FALSE]
  /\ UNCHANGED <<alive, exited, holder, mapVars, sentVars, locker, remover, replaced, muted>>

\* A connection that finds a watcher does not announce itself.
StartWatcher_early(k) ==
  /\ pc[k] = "watch"
  /\ IF watching THEN Goto(k, "serving") /\ UNCHANGED watching
                 ELSE Goto(k, "subscribe") /\ watching' = TRUE
  /\ UNCHANGED <<coreVars, clients, locked, watcher, sentVars, locker, remover, history>>

-----------------------------------------------------------------------------
(* handle_terminal_client: from the hello to the loop *)

Hello(k) ==
  /\ pc[k] = "new"
  /\ Goto(k, IF alive THEN "core" ELSE "done")
  /\ UNCHANGED <<coreVars, mapVars, sentVars, locker, remover, history>>

\* Session::register_client of the core may refuse, give the id asked for or
\* another one, take an id over, and make a first client the controller.
RegisterCore(k) ==
  /\ pc[k] = "core"
  /\ \/ Goto(k, "done") /\ UNCHANGED <<controller, holder>>
     \/ \E i \in Ids :
          /\ holder' = [holder EXCEPT ![i] = k]
          /\ controller' \in {controller} \cup (IF controller = Nobody THEN {i} ELSE {})
          /\ id' = [id EXCEPT ![k] = i]
          /\ pc' = [pc EXCEPT ![k] = "map"] /\ UNCHANGED meta
  /\ UNCHANGED <<alive, exited, mapVars, sentVars, locker, remover, history>>

\* ShellManager::register_client, whose lock does not cover the core's.
RegisterMap(k) ==
  /\ pc[k] = "map"
  /\ clients' = [clients EXCEPT ![id[k]] = k]
  /\ replaced' = replaced \cup ({clients[id[k]]} \ {NoConn})
  /\ Goto(k, "watch")
  /\ UNCHANGED <<coreVars, locked, watching, watcher, sentVars, locker, remover,
                 sawOpen, escaped, muted>>

\* start_exit_watcher: one task for each PTY in exit_watchers.
StartWatcher(k) ==
  /\ pc[k] = "watch"
  /\ IF watching THEN Announce(k, "announce") /\ UNCHANGED watching
                 ELSE Goto(k, "subscribe") /\ watching' = TRUE
  /\ UNCHANGED <<coreVars, clients, locked, watcher, sentVars, locker, remover, history>>

\* Whether the core still tells a late subscriber of an exit is left open.
Subscribe(k) ==
  /\ pc[k] = "subscribe"
  /\ \/ ~alive /\ watching' = FALSE /\ UNCHANGED watcher
     \/ alive /\ ~exited /\ watcher' = "waiting" /\ UNCHANGED watching
     \/ alive /\ exited /\ watcher' \in {"waiting", "deaf"} /\ UNCHANGED watching
  /\ Announce(k, "announce")
  /\ UNCHANGED <<coreVars, clients, locked, sentVars, locker, remover, history>>

-----------------------------------------------------------------------------
(* broadcast_meta: the summary, then the list and the sends *)

ReadSummary(b) ==
  /\ meta[b].step = "summary"
  /\ \/ /\ ~alive
        /\ EndMeta(b)
     \/ /\ alive
        /\ meta' = [meta EXCEPT ![b] = [step |-> "send", controller |-> controller,
                                     exited |-> exited]]
        /\ UNCHANGED <<pc, watcher>>
  /\ UNCHANGED <<coreVars, clients, locked, watching, id, sentVars, locker, remover, history>>

\* The list is copied under the lock of the map, and the sends go to unbounded
\* channels: a client that enters between them is as one that enters after them.
SendMeta(b) ==
  /\ meta[b].step = "send"
  /\ told' = [k \in Conns |-> IF k \in Mapped THEN Role(meta[b].controller, id[k])
                                              ELSE told[k]]
  /\ toldExit' = [k \in Conns |-> toldExit[k] \/ (k \in Mapped /\ meta[b].exited)]
  /\ muted' = (meta[b].controller # controller)
  /\ EndMeta(b)
  /\ UNCHANGED <<coreVars, clients, locked, watching, id, closing, locker, remover,
                 sawOpen, escaped, replaced>>

-----------------------------------------------------------------------------
(* handle_client_message; writes, whose bytes are not modelled, end the loop *)
(* when the core refuses them                                                *)

Resize(k) ==
  /\ "resize" \in scenario /\ pc[k] = "serving"
  /\ Announce(k, "announce")
  /\ UNCHANGED <<coreVars, mapVars, sentVars, locker, remover, history>>

\* The lock is tested here and the control taken in a step of its own.
RequestControl(k) ==
  /\ "control" \in scenario /\ pc[k] = "serving"
  /\ ~locked \/ id[k] = Zero
  /\ sawOpen' = [sawOpen EXCEPT ![k] = ~locked]
  /\ Goto(k, "take")
  /\ UNCHANGED <<coreVars, mapVars, sentVars, locker, remover, escaped, replaced, muted>>

\* set_controller(id) takes no token; the core knows the ids that registered.
TakeControl(k) ==
  /\ pc[k] = "take"
  /\ \/ /\ holder[id[k]] # NoConn
        /\ controller' = id[k]
        /\ escaped' = (escaped \/ (locked /\ sawOpen[k]))
        /\ Announce(k, "announce")
     \/ /\ holder[id[k]] = NoConn
        /\ Goto(k, "unregister") /\ UNCHANGED <<controller, escaped>>
  /\ sawOpen' = [sawOpen EXCEPT ![k] = FALSE]
  /\ UNCHANGED <<alive, exited, holder, mapVars, sentVars, locker, remover, replaced, muted>>

-----------------------------------------------------------------------------
(* handle_terminal_client: the end.  The peer went, or a message failed. *)

Leave(k) ==
  /\ pc[k] = "serving"
  /\ Goto(k, "unregister")
  /\ UNCHANGED <<coreVars, mapVars, sentVars, locker, remover, history>>

\* The core forgets the id if the token is this one's; who controls afterwards,
\* nobody or another client, is the core's choice.
Unregister(k) ==
  /\ pc[k] = "unregister"
  /\ IF holder[id[k]] = k
     THEN /\ holder' = [holder EXCEPT ![id[k]] = NoConn]
          /\ IF controller = id[k]
             THEN controller' \in {Nobody} \cup {i \in Ids : holder'[i] # NoConn}
             ELSE UNCHANGED controller
     ELSE UNCHANGED <<holder, controller>>
  /\ escaped' = (escaped \/ (locked /\ controller' # controller))
  /\ Goto(k, "unmap")
  /\ UNCHANGED <<alive, exited, mapVars, sentVars, locker, remover, sawOpen, replaced, muted>>

RemoveClient(k) ==
  /\ pc[k] = "unmap"
  /\ clients' = [clients EXCEPT ![id[k]] = IF @ = k THEN NoConn ELSE @]
  /\ Forget(k)
  /\ UNCHANGED <<coreVars, locked, watching, watcher, locker, remover, sawOpen, escaped, muted>>

-----------------------------------------------------------------------------
(* The watcher of the exit *)

WatcherHears ==
  /\ watcher \in {"waiting", "deaf"}
  /\ \/ /\ watcher = "waiting" /\ exited
        /\ watcher' = "telling" /\ meta' = [meta EXCEPT ![Watch].step = "summary"]
     \/ /\ watcher = "deaf" \/ ~alive         \* the channel is closed
        /\ watcher' = "leaving" /\ UNCHANGED meta
  /\ UNCHANGED <<coreVars, clients, locked, watching, pc, id, sentVars, locker, remover, history>>

WatcherLeaves ==
  /\ watcher = "leaving"
  /\ watcher' = "off" /\ watching' = FALSE
  /\ UNCHANGED <<coreVars, clients, locked, connVars, sentVars, locker, remover, history>>

-----------------------------------------------------------------------------
(* lock_pty, unlock_pty, remove_pty, and what the rest of the executor does *)

LockForce ==
  /\ "lock" \in scenario /\ locker = "idle" /\ alive
  /\ controller' = Zero
  /\ muted' = (muted \/ controller # Zero)
  /\ locker' = "insert"
  /\ UNCHANGED <<alive, exited, holder, mapVars, connVars, sentVars, remover,
                 sawOpen, escaped, replaced>>

LockInsert ==
  /\ locker = "insert"
  /\ locked' = TRUE /\ locker' = "idle"
  /\ escaped' = (controller # Zero \/ (locked /\ escaped))
  /\ UNCHANGED <<coreVars, clients, watching, watcher, connVars, sentVars, remover,
                 sawOpen, replaced, muted>>

Unlock ==
  /\ locked /\ locker = "idle"
  /\ locked' = FALSE /\ escaped' = FALSE
  /\ UNCHANGED <<coreVars, clients, watching, watcher, connVars, sentVars, locker, remover,
                 sawOpen, replaced, muted>>

\* remove_pty, first step: close_pty_clients.
CloseClients ==
  /\ "remove" \in scenario /\ remover = "idle"
  /\ closing' = [k \in Conns |-> closing[k] \/ k \in Mapped]
  /\ clients' = [i \in Ids |-> NoConn]
  /\ remover' = "unlock"
  /\ UNCHANGED <<coreVars, locked, watching, watcher, connVars, told, toldExit, locker, history>>

RemoveLock ==
  /\ remover = "unlock"
  /\ locked' = FALSE /\ escaped' = FALSE /\ remover' = "drop"
  /\ UNCHANGED <<coreVars, clients, watching, watcher, connVars, sentVars, locker,
                 sawOpen, replaced, muted>>

DropSession ==
  /\ remover = "drop"
  /\ alive' = FALSE /\ remover' = "idle"
  /\ UNCHANGED <<exited, controller, holder, mapVars, connVars, sentVars, locker, history>>

\* exbash attach with input: it asks for no lock and tells no client.
ForceController ==
  /\ "force" \in scenario /\ alive /\ ~exited /\ controller # Rec
  /\ controller' = Rec
  /\ muted' = TRUE /\ escaped' = (escaped \/ locked)
  /\ UNCHANGED <<alive, exited, holder, mapVars, connVars, sentVars, locker, remover,
                 sawOpen, replaced>>

ProcessExit ==
  /\ "exit" \in scenario /\ ~exited /\ exited' = TRUE
  /\ UNCHANGED <<alive, controller, holder, mapVars, connVars, sentVars, locker, remover, history>>

-----------------------------------------------------------------------------
Init ==
  /\ scenario \in Scenarios
  /\ alive = TRUE /\ exited = FALSE /\ controller = Nobody
  /\ holder = [i \in Ids |-> NoConn]
  /\ clients = [i \in Ids |-> NoConn]
  /\ locked = FALSE /\ watching = FALSE /\ watcher = "off"
  /\ pc = [k \in Conns |-> "new"]
  /\ id = [k \in Conns |-> Nobody]
  /\ meta = [b \in Broadcasters |-> Quiet]
  /\ told = [k \in Conns |-> "nothing"]
  /\ toldExit = [k \in Conns |-> FALSE]
  /\ closing = [k \in Conns |-> FALSE]
  /\ locker = "idle" /\ remover = "idle"
  /\ sawOpen = [k \in Conns |-> FALSE]
  /\ escaped = FALSE /\ replaced = {} /\ muted = FALSE

\* What the executor does by itself once a client said hello.
Register(k) ==
  RegisterCore(k) \/ RegisterMap(k) \/ StartWatcher(k) \/ Subscribe(k) \/ TakeControl(k)

Quit(k) == Unregister(k) \/ RemoveClient(k)

Broadcast(b) == ReadSummary(b) \/ SendMeta(b)

Watching == WatcherHears \/ WatcherLeaves

Client(k) == Hello(k) \/ Resize(k) \/ RequestControl(k) \/ Leave(k)

Outside == LockForce \/ LockInsert \/ Unlock \/ CloseClients \/ RemoveLock \/ DropSession
           \/ ForceController \/ ProcessExit

Next ==
  /\ \/ \E k \in Conns : Client(k) \/ Register(k) \/ Quit(k)
     \/ \E b \in Broadcasters : Broadcast(b)
     \/ Watching \/ Outside
  /\ UNCHANGED scenario

Spec == Init /\ [][Next]_vars

\* Tasks that are ready run; clients, removals, locks and exits owe nothing.
Fairness ==
  /\ \A k \in Conns : WF_vars(Register(k) /\ UNCHANGED scenario)
  /\ \A k \in Conns : WF_vars(Quit(k) /\ UNCHANGED scenario)
  /\ \A b \in Broadcasters : WF_vars(Broadcast(b) /\ UNCHANGED scenario)
  /\ WF_vars(Watching /\ UNCHANGED scenario)

FairSpec == Spec /\ Fairness

-----------------------------------------------------------------------------
(* Properties *)

\* Every variable stays in its type.
TypeOK ==
  /\ scenario \in Scenarios
  /\ alive \in BOOLEAN /\ exited \in BOOLEAN
  /\ controller \in Ids \cup {Rec, Nobody}
  /\ holder \in [Ids -> Tokens] /\ clients \in [Ids -> Tokens]
  /\ locked \in BOOLEAN /\ watching \in BOOLEAN
  /\ watcher \in {"off", "waiting", "deaf", "telling", "leaving"}
  /\ pc \in [Conns -> Steps] /\ id \in [Conns -> Ids \cup {Nobody}]
  /\ meta \in [Broadcasters -> [step : {"off", "summary", "send"},
                                controller : Ids \cup {Rec, Nobody}, exited : BOOLEAN]]
  /\ told \in [Conns -> {"nothing", "Controller", "Viewer"}]
  /\ toldExit \in [Conns -> BOOLEAN] /\ closing \in [Conns -> BOOLEAN]
  /\ locker \in {"idle", "insert"} /\ remover \in {"idle", "unlock", "drop"}
  /\ sawOpen \in [Conns -> BOOLEAN] /\ escaped \in BOOLEAN
  /\ replaced \subseteq Conns /\ muted \in BOOLEAN

InLoop(k) == pc[k] \in {"watch", "subscribe", "announce", "serving", "take", "unregister"}

\* Every connection that is being served is in the client map, or was sent a
\* Close, or lost its entry to a later connection under its id: the cleanup of
\* another connection never takes it (remove_client compares tokens), and a
\* removal of the PTY does not forget it.
Accounted ==
  \A k \in Conns : InLoop(k) => clients[id[k]] = k \/ closing[k] \/ k \in replaced

\* The map, and the registrations of the core, name only connections that are
\* still being served, whatever order they came, were replaced and left in.
NoGhost ==
  \A i \in Ids :
    /\ clients[i] # NoConn =>
         /\ id[clients[i]] = i
         /\ InLoop(clients[i]) \/ pc[clients[i]] = "unmap"
    /\ holder[i] # NoConn =>
         /\ id[holder[i]] = i
         /\ InLoop(holder[i]) \/ pc[holder[i]] = "map"

\* While the PTY is locked user 0 is in control, unless a request that had
\* found it unlocked came through late, exbash forced its own name or the core
\* passed control on: no request made after the lock gets control.
LockHolds == locked /\ ~escaped => controller = Zero

\* No broadcast is under way, nor owed by a connection that enters or leaves.
AtRest ==
  /\ \A b \in Broadcasters : meta[b].step = "off"
  /\ \A k \in Conns : pc[k] \notin {"map", "watch", "subscribe", "unmap"}

\* Once the broadcasts are over each client knows its role, unless control was
\* forced, which is not broadcast, or a broadcast with an older summary came last.
RolesTold ==
  alive /\ AtRest /\ ~muted =>
    \A k \in Mapped : told[k] = Role(controller, id[k])

\* A client in the map of a PTY whose process has exited is told so, whichever of
\* its registration, the exit and the end of an earlier watcher came first.
ExitTold ==
  \A k \in Conns : (exited /\ k \in Mapped) ~> (toldExit[k] \/ k \notin Mapped \/ ~alive)
=============================================================================
