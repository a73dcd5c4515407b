------------------------------- MODULE Settings -------------------------------
(***************************************************************************)
(* The settings stores (src/src/settings): the root store of an executor   *)
(* over the global file, and the store of a workspace directory, layered   *)
(* over both files and kept in the executor's cache.  set_default_shell    *)
(* runs under the write lock, changes the memory of its store and then     *)
(* writes the file in place; request_reload and list_shells take no write  *)
(* lock, and every access to a store takes the store's own mutex anew.     *)
(***************************************************************************)
EXTENDS Naturals

CONSTANTS Tasks, Shells,
          Kinds,        \* the tools this instance exercises
          AutoShell,         \* the shell every store has a profile for
          Unset, Missing, Torn,   \* a field left out, no file, no valid JSON
          Nobody,
          HandMade,     \* what a settings file may hold when it was edited by hand
          MaxSlots,     \* workspace stores alive at the same time
          MaxRequests,  \* bound on the requests made
          MaxFaults     \* bound on the edits made by hand and the ends of the process

ASSUME SettingsAssumption ==
  /\ AutoShell \in Shells /\ Unset \notin Shells
  /\ Missing # Torn /\ Kinds \subseteq {"set", "reload", "list"}
  /\ MaxSlots \in Nat /\ MaxRequests \in Nat
  /\ MaxFaults \in Nat
  /\ Nobody \notin Tasks /\ Nobody \notin 0..MaxSlots

VARIABLES
  up,        \* the executor runs
  disk,      \* the two settings files
  memory,    \* SettingsState::settings of each store
  failed,    \* its reload_error is set
  inner,     \* who has its mutex over a file operation
  cached,    \* Executor::directory_settings, for the one directory
  writer,    \* Executor::write_lock
  pc, kind, store, shell, base, over,   \* each request; the layers it has read
  begun, edits, crashes,   \* how many of each there were
  fresh,     \* history: the layers a request has read are still in the files
  why,       \* history: why a store may differ from its files
  swapped,   \* history: sets whose store was reloaded after they resolved
  scars      \* history: why a file may be one the executor cannot load

storeVars == <<memory, failed, inner, cached>>
taskVars  == <<pc, kind, store, shell, base, over>>
history   == <<fresh, why, swapped>>
bounds == <<begun, edits, crashes, up>>
vars == <<disk, scars, storeVars, writer, taskVars, bounds, history>>

Root   == 0
Slots  == 1..MaxSlots
Stores == {Root} \cup Slots
Files  == {"global", "workspace"}
AllKinds == {"set", "reload", "list"}

\* A settings object, as far as shells go: the default and who has a profile.
Values   == [default : Shells \cup {Unset}, profiles : SUBSET Shells]
Contents == Values \cup {Missing, Torn}
Blank    == [default |-> Unset, profiles |-> {}]

PathOf(s)    == IF s = Root THEN "global" ELSE "workspace"
ReadersOf(f) == IF f = "global" THEN Stores ELSE Slots

\* The workspace stores somebody refers to; the others have been dropped.
Live == {cached} \cup {store[t] : t \in Tasks}

Steps == {"idle", "lookup", "loadBase", "loadOver", "insert", "lock", "resolve",
          "assign", "truncate", "fill", "readBase", "readOver", "install", "record",
          "show", "showError"}

-----------------------------------------------------------------------------
(* load_settings_layers: two layers, the built-in profiles, validation *)

Whole(c) == c # Torn

ASSUME FileAssumption ==
  /\ HandMade \subseteq Contents
  /\ Missing \notin Values /\ Torn \notin Values

\* A file that is not there is an empty object.
Layer(c) == IF c = Missing THEN Blank ELSE c

\* A slip in the merge: the base file wins over the overlay.
Merge_swapped(b, o) ==
  [default |-> CASE Layer(b).default # Unset -> Layer(b).default
                 [] Layer(b).default = Unset /\ Layer(o).default # Unset -> Layer(o).default
                 [] OTHER -> AutoShell,
   profiles |-> Layer(b).profiles \cup Layer(o).profiles \cup {AutoShell}]

Merge(b, o) ==
  [default |-> CASE Layer(o).default # Unset -> Layer(o).default
                 [] Layer(o).default = Unset /\ Layer(b).default # Unset -> Layer(b).default
                 [] OTHER -> AutoShell,
   profiles |-> Layer(b).profiles \cup Layer(o).profiles \cup {AutoShell}]

Valid(v) == v.default \in v.profiles

-----------------------------------------------------------------------------
(* Shared steps *)

Entry(k) == CASE k = "set" -> "lock" [] k = "reload" -> "readBase" [] k = "list" -> "show"

Goto(t, step) == /\ pc' = [pc EXCEPT ![t] = step]
                 /\ UNCHANGED <<kind, store, shell, base, over>>

\* The response, with the result or an error, is sent.
Done(t) == /\ pc' = [pc EXCEPT ![t] = "idle"]
           /\ kind' = [kind EXCEPT ![t] = "list"]
           /\ store' = [store EXCEPT ![t] = Root]
           /\ shell' = [shell EXCEPT ![t] = AutoShell]
           /\ base' = [base EXCEPT ![t] = Missing]
           /\ over' = [over EXCEPT ![t] = Missing]

\* What the request has read becomes the state of its store.
Adopt(t) ==
  /\ memory' = [memory EXCEPT ![store[t]] = Merge(base[t], over[t])]
  /\ failed' = [failed EXCEPT ![store[t]] = FALSE]
  /\ why' = [why EXCEPT ![store[t]] = IF fresh[t] THEN {} ELSE {"overtaken"}]

\* File f changes to c, by store s or by hand.
Put(f, c, s, reason) ==
  /\ disk' = [disk EXCEPT ![f] = c]
  /\ scars' = [scars EXCEPT ![f] = CASE s = Nobody -> {"edit"}
                                     [] s # Nobody /\ ~Whole(c) -> {"cut"}
                                     [] OTHER -> why[s] \cap {"swapped"}]
  /\ fresh' = [t \in Tasks |-> FALSE]
  /\ why' = [q \in Stores |-> CASE q = s /\ Whole(c) -> why[q] \cap {"swapped"}
                                [] q # s /\ q \in ReadersOf(f) -> why[q] \cup {reason}
                                [] OTHER -> why[q]]

-----------------------------------------------------------------------------
(* Slips a change to the code could make; each breaks a property below when  *)
(* it stands in for the definition it is named after.  Merge_swapped above   *)
(* is another.                                                               *)

\* validate_shell_settings is not called.
ReadOver_unvalidated(t) ==
  /\ pc[t] \in {"loadOver", "readOver"}
  /\ Whole(disk[PathOf(store[t])])
  /\ over' = [over EXCEPT ![t] = disk[PathOf(store[t])]]
  /\ pc' = [pc EXCEPT ![t] = IF @ = "loadOver" THEN "insert" ELSE "install"]
  /\ UNCHANGED <<disk, scars, storeVars, writer, kind, store, shell, base, bounds, history>>

\* An empty overlay is read as if there were none.
ReadOver_emptyIsMissing(t) ==
  /\ pc[t] \in {"loadOver", "readOver"}
  /\ LET c == IF Whole(disk[PathOf(store[t])]) THEN disk[PathOf(store[t])] ELSE Missing IN
       /\ Valid(Merge(base[t], c))
       /\ over' = [over EXCEPT ![t] = c]
  /\ pc' = [pc EXCEPT ![t] = IF @ = "loadOver" THEN "insert" ELSE "install"]
  /\ UNCHANGED <<disk, scars, storeVars, writer, kind, store, shell, base, bounds, history>>

\* The store's mutex outlives a failed write.
WriteFails_keepsMutex(t) ==
  /\ pc[t] \in {"truncate", "fill"}
  /\ writer' = Nobody
  /\ Done(t)
  /\ UNCHANGED <<disk, scars, storeVars, bounds, history>>

-----------------------------------------------------------------------------
(* Init: the files are there or not; the root store was loaded at the start *)

Init ==
  /\ up = TRUE /\ scars = [f \in Files |-> {}]
  /\ disk \in [Files -> {Missing} \cup {[default |-> h, profiles |-> {h}] : h \in Shells \ {AutoShell}}]
  /\ memory = [s \in Stores |-> Merge(Missing, disk["global"])]
  /\ failed = [s \in Stores |-> FALSE]
  /\ inner = [s \in Stores |-> Nobody]
  /\ cached = Nobody /\ writer = Nobody
  /\ pc = [t \in Tasks |-> "idle"]
  /\ kind = [t \in Tasks |-> "list"]
  /\ store = [t \in Tasks |-> Root]
  /\ shell = [t \in Tasks |-> AutoShell]
  /\ base = [t \in Tasks |-> Missing]
  /\ over = [t \in Tasks |-> Missing]
  /\ begun = 0 /\ edits = 0 /\ crashes = 0
  /\ fresh = [t \in Tasks |-> FALSE]
  /\ why = [s \in Stores |-> {}]
  /\ swapped = {}

-----------------------------------------------------------------------------
(* settings_for_request, settings_for_directory *)

Begin(t, k, h) ==
  /\ up /\ pc[t] = "idle"
  /\ begun < MaxRequests
  /\ begun' = begun + 1
  /\ k # "set" => h = AutoShell
  /\ kind' = [kind EXCEPT ![t] = k]
  /\ shell' = [shell EXCEPT ![t] = h]
  /\ \E directory \in BOOLEAN :
       pc' = [pc EXCEPT ![t] = IF directory THEN "lookup" ELSE Entry(k)]
  /\ UNCHANGED <<disk, scars, storeVars, writer, store, base, over, edits, crashes, up, history>>

\* With nothing cached yet the request loads a store of its own.
Lookup(t) ==
  /\ pc[t] = "lookup"
  /\ \/ /\ cached # Nobody
        /\ store' = [store EXCEPT ![t] = cached]
        /\ pc' = [pc EXCEPT ![t] = Entry(kind[t])]
     \/ /\ cached = Nobody
        /\ \E s \in Slots \ Live : /\ \A q \in Slots \ Live : s <= q
                                   /\ store' = [store EXCEPT ![t] = s]
        /\ pc' = [pc EXCEPT ![t] = "loadBase"]
  /\ UNCHANGED <<disk, scars, storeVars, writer, kind, shell, base, over, bounds, history>>

\* The entry another request made meanwhile is replaced, not used.
Insert(t) ==
  /\ pc[t] = "insert"
  /\ Adopt(t)
  /\ cached' = store[t]
  /\ Goto(t, Entry(kind[t]))
  /\ UNCHANGED <<disk, scars, inner, writer, bounds, fresh, swapped>>

-----------------------------------------------------------------------------
(* load_settings_layers, by a lookup or a reload, without any lock *)

\* The root store has no base.
ReadBase(t) ==
  /\ pc[t] \in {"loadBase", "readBase"}
  /\ LET c == IF store[t] = Root THEN Missing ELSE disk["global"] IN
       /\ Whole(c)
       /\ base' = [base EXCEPT ![t] = c]
  /\ pc' = [pc EXCEPT ![t] = IF @ = "loadBase" THEN "loadOver" ELSE "readOver"]
  /\ fresh' = [fresh EXCEPT ![t] = TRUE]
  /\ UNCHANGED <<disk, scars, storeVars, writer, kind, store, shell, over, bounds, why, swapped>>

ReadOver(t) ==
  /\ pc[t] \in {"loadOver", "readOver"}
  /\ LET c == disk[PathOf(store[t])] IN
       /\ Whole(c) /\ Valid(Merge(base[t], c))
       /\ over' = [over EXCEPT ![t] = c]
  /\ pc' = [pc EXCEPT ![t] = IF @ = "loadOver" THEN "insert" ELSE "install"]
  /\ UNCHANGED <<disk, scars, storeVars, writer, kind, store, shell, base, bounds, history>>

\* A file cannot be read or parsed, or the merged settings are not valid: the
\* lookup answers with the error, a reload records it first.
LoadFails(t) ==
  /\ \/ pc[t] \in {"loadBase", "loadOver"} /\ Done(t)
     \/ pc[t] \in {"readBase", "readOver"} /\ Goto(t, "record")
  /\ UNCHANGED <<disk, scars, storeVars, writer, bounds, history>>

-----------------------------------------------------------------------------
(* request_reload and list_shells *)

Unheld(s) == inner[s] = Nobody

Install(t) ==
  /\ pc[t] = "install" /\ Unheld(store[t])
  /\ Adopt(t)
  /\ swapped' = swapped \cup {u \in Tasks : pc[u] = "assign" /\ store[u] = store[t]}
  /\ Goto(t, "show")
  /\ UNCHANGED <<disk, scars, inner, cached, writer, bounds, fresh>>

\* The settings stay as they are.
RecordError(t) ==
  /\ pc[t] = "record" /\ Unheld(store[t])
  /\ failed' = [failed EXCEPT ![store[t]] = TRUE]
  /\ Done(t)
  /\ UNCHANGED <<disk, scars, memory, inner, cached, writer, bounds, history>>

\* Both answer with the settings the store has now; list takes the mutex
\* once more for the error.
Show(t) ==
  /\ pc[t] = "show" /\ Unheld(store[t])
  /\ \/ kind[t] = "reload" /\ Done(t)
     \/ kind[t] = "list" /\ Goto(t, "showError")
  /\ UNCHANGED <<disk, scars, storeVars, writer, bounds, history>>

ShowError(t) ==
  /\ pc[t] = "showError" /\ Unheld(store[t])
  /\ Done(t)
  /\ UNCHANGED <<disk, scars, storeVars, writer, bounds, history>>

-----------------------------------------------------------------------------
(* set_default_shell *)

TakeLock(t) ==
  /\ pc[t] = "lock" /\ writer = Nobody
  /\ writer' = t
  /\ Goto(t, "resolve")
  /\ UNCHANGED <<disk, scars, storeVars, bounds, history>>

\* resolve_shell on a copy of the settings: the profile is there, and one of
\* its candidates too.
Resolve(t) ==
  /\ pc[t] = "resolve" /\ Unheld(store[t])
  /\ shell[t] \in memory[store[t]].profiles
  /\ Goto(t, "assign")
  /\ swapped' = swapped \ {t}
  /\ UNCHANGED <<disk, scars, storeVars, writer, bounds, fresh, why>>

ResolveFails(t) ==
  /\ pc[t] = "resolve" /\ Unheld(store[t])
  /\ Done(t)
  /\ writer' = Nobody
  /\ UNCHANGED <<disk, scars, storeVars, bounds, history>>

\* The memory first, with the mutex kept until the file is written.
Assign(t) ==
  /\ pc[t] = "assign" /\ Unheld(store[t])
  /\ inner' = [inner EXCEPT ![store[t]] = t]
  /\ memory' = [memory EXCEPT ![store[t]].default = shell[t]]
  /\ why' = [why EXCEPT ![store[t]] = {"unwritten"} \cup {w \in {"swapped"} : t \in swapped}]
  /\ Goto(t, "truncate")
  /\ UNCHANGED <<disk, scars, failed, cached, writer, bounds, fresh, swapped>>

\* write_settings_file: fs::write truncates the file ...
Truncate(t) ==
  /\ pc[t] = "truncate"
  /\ Put(PathOf(store[t]), Torn, store[t], "other")
  /\ Goto(t, "fill")
  /\ UNCHANGED <<storeVars, writer, bounds, swapped>>

\* ... and writes the settings of the store, all layers merged.
Fill(t) ==
  /\ pc[t] = "fill"
  /\ Put(PathOf(store[t]), memory[store[t]], store[t], "other")
  /\ failed' = [failed EXCEPT ![store[t]] = FALSE]
  /\ inner' = [inner EXCEPT ![store[t]] = Nobody]
  /\ writer' = Nobody
  /\ Done(t)
  /\ UNCHANGED <<memory, cached, bounds, swapped>>

\* The write fails before or after the truncation; the memory stays changed.
WriteFails(t) ==
  /\ pc[t] \in {"truncate", "fill"}
  /\ inner' = [inner EXCEPT ![store[t]] = Nobody]
  /\ writer' = Nobody
  /\ Done(t)
  /\ UNCHANGED <<disk, scars, memory, failed, cached, bounds, history>>

-----------------------------------------------------------------------------

\* Somebody edits, breaks or removes a settings file.
Edit(f, c) ==
  /\ edits + crashes < MaxFaults
  /\ edits' = edits + 1
  /\ Put(f, c, Nobody, "edit")
  /\ UNCHANGED <<storeVars, writer, taskVars, begun, crashes, up, swapped>>

\* The process ends, and the stores and the requests with it; memory[Root]
\* goes on telling what was served last.
Crash ==
  /\ up /\ edits + crashes < MaxFaults
  /\ up' = FALSE /\ crashes' = crashes + 1
  /\ inner' = [s \in Stores |-> Nobody] /\ cached' = Nobody /\ writer' = Nobody
  /\ pc' = [t \in Tasks |-> "idle"] /\ kind' = [t \in Tasks |-> "list"]
  /\ store' = [t \in Tasks |-> Root] /\ shell' = [t \in Tasks |-> AutoShell]
  /\ base' = [t \in Tasks |-> Missing] /\ over' = [t \in Tasks |-> Missing]
  /\ memory' = [s \in Stores |-> IF s = Root THEN memory[Root] ELSE Merge(Missing, Missing)]
  /\ failed' = [s \in Stores |-> FALSE]
  /\ why' = [s \in Stores |-> IF s = Root THEN why[Root] ELSE {}]
  /\ fresh' = [t \in Tasks |-> FALSE] /\ swapped' = {}
  /\ UNCHANGED <<disk, scars, begun, edits>>

Loadable(c) == Whole(c) /\ Valid(Merge(Missing, c))

\* main: the executor loads its root store first and does not start without it.
Restart ==
  /\ ~up /\ Loadable(disk["global"])
  /\ up' = TRUE
  /\ memory' = [memory EXCEPT ![Root] = Merge(Missing, disk["global"])]
  /\ failed' = [failed EXCEPT ![Root] = FALSE]
  /\ why' = [why EXCEPT ![Root] = {}]
  /\ UNCHANGED <<disk, scars, inner, cached, writer, taskVars, begun, edits, crashes,
                 fresh, swapped>>

LoadStep(t) == Lookup(t) \/ Insert(t) \/ ReadBase(t) \/ ReadOver(t) \/ LoadFails(t)

ReloadStep(t) == Install(t) \/ RecordError(t) \/ Show(t) \/ ShowError(t)

SetStep(t) == \/ Resolve(t) \/ ResolveFails(t) \/ Assign(t)
              \/ Truncate(t) \/ Fill(t) \/ WriteFails(t)

Next == \/ \E t \in Tasks : \/ \E k \in Kinds, h \in Shells : Begin(t, k, h)
                            \/ TakeLock(t) \/ LoadStep(t) \/ ReloadStep(t) \/ SetStep(t)
        \/ \E f \in Files, c \in HandMade : Edit(f, c)
        \/ Crash \/ Restart

Spec == Init /\ [][Next]_vars

\* Tasks are polled; nobody has to start the executor again.
FairSpec == /\ Spec
            /\ \A t \in Tasks :
                 WF_vars(TakeLock(t) \/ LoadStep(t) \/ ReloadStep(t) \/ SetStep(t))

-----------------------------------------------------------------------------
(* Properties *)

\* Every variable keeps its type.
TypeOK ==
  /\ up \in BOOLEAN /\ crashes \in 0..MaxFaults
  /\ scars \in [Files -> SUBSET {"edit", "cut", "swapped"}]
  /\ disk \in [Files -> Contents]
  /\ memory \in [Stores -> [default : Shells, profiles : SUBSET Shells]]
  /\ failed \in [Stores -> BOOLEAN]
  /\ inner \in [Stores -> Tasks \cup {Nobody}]
  /\ cached \in Slots \cup {Nobody}
  /\ writer \in Tasks \cup {Nobody}
  /\ pc \in [Tasks -> Steps]
  /\ kind \in [Tasks -> AllKinds]
  /\ store \in [Tasks -> Stores]
  /\ shell \in [Tasks -> Shells]
  /\ base \in [Tasks -> Contents \ {Torn}]
  /\ over \in [Tasks -> Contents \ {Torn}]
  /\ begun \in 0..MaxRequests
  /\ edits \in 0..MaxFaults
  /\ fresh \in [Tasks -> BOOLEAN]
  /\ why \in [Stores -> SUBSET {"overtaken", "unwritten", "other", "edit", "swapped"}]
  /\ swapped \subseteq Tasks

\* A store that has been loaded and is still in use; the root store always is.
InUse(s) ==
  \/ s \in {Root, cached}
  \/ \E t \in Tasks : store[t] = s /\ pc[t] \notin {"idle", "loadBase", "loadOver", "insert"}

\* What a store serves and what its files say is the same default shell,
\* unless a file was edited by hand or written through another store since,
\* the write of the last set failed, or a load put back layers it had read
\* before the file changed.  Nothing else lets the two drift apart.
StaleIsExplained ==
  \A s \in Stores : InUse(s) /\ Unheld(s) /\ why[s] \subseteq {"swapped"} =>
    LET b == IF s = Root THEN Missing ELSE disk["global"]
        o == disk[PathOf(s)] IN
      /\ Whole(o)
      /\ \/ memory[s].default = Layer(o).default
         \/ Layer(o).default = Unset /\ Whole(b) /\ memory[s].default = Merge(b, o).default

\* The default a store serves always has a profile, so that exbash finds a
\* shell, unless a set resolved its shell against settings that a reload
\* replaced before it assigned it.  The same holds of the file the next start
\* of the executor will load, at every moment it may die: only that race, an
\* edit by hand or a write that was cut short can keep it from starting.
ServedIsConfigured ==
  /\ \A s \in Stores : InUse(s) /\ "swapped" \notin why[s] => Valid(memory[s])
  /\ scars["global"] = {} => Loadable(disk["global"])

\* A load that races with a write never takes the truncated file for an
\* empty or missing one: as long as nobody edits a file by hand, no order of
\* sets, loads, reloads, failed writes, crashes and restarts takes a shell
\* profile away.
ProfilesKept ==
  [][ edits' = 0 =>
        \A s \in Stores : InUse(s) /\ InUse(s)' =>
          memory[s].profiles \subseteq memory'[s].profiles ]_vars

\* Every request is answered: the write lock and the mutexes of the stores
\* are never waited for in a circle, and every failure lets them go.
EveryRequestAnswered == \A t \in Tasks : pc[t] # "idle" ~> pc[t] = "idle"
=============================================================================
