--------------------------- MODULE Settings_proofs ---------------------------
(***************************************************************************)
(* Proofs about Settings, for any number of requests, shells, stores,       *)
(* edits and restarts.                                                      *)
(***************************************************************************)
EXTENDS Settings, TLAPS

Loading == {"loadBase", "loadOver", "insert"}

\* A request that loads a store has it for itself; one that has not found its
\* store yet names the root.  Without the executor there are no requests.
StoreKnown ==
  \A t \in Tasks :
    /\ ~up => pc[t] = "idle"
    /\ pc[t] \in {"idle", "lookup"} => store[t] = Root
    /\ pc[t] \in Loading =>
         /\ store[t] \in Slots /\ cached # store[t]
         /\ \A u \in Tasks \ {t} : store[u] # store[t]

\* Layers about to be adopted have been found valid.
ReadKnown ==
  \A t \in Tasks : pc[t] \in {"insert", "install"} => Valid(Merge(base[t], over[t]))

\* A set about to assign a shell found its profile in the store, and no reload
\* has replaced the settings since, or it is recorded.
AssignKnown ==
  \A t \in Tasks : pc[t] = "assign" /\ t \notin swapped =>
    shell[t] \in memory[store[t]].profiles

\* A set between its assignment and the end of its write holds the mutex, and
\* its store is known to be ahead of the file.
WriteKnown ==
  \A t \in Tasks : pc[t] \in {"truncate", "fill"} =>
    inner[store[t]] = t /\ "unwritten" \in why[store[t]]

\* The mutex of a store is held over the write of its file only.
HeldKnown ==
  \A s \in Stores : inner[s] # Nobody =>
    store[inner[s]] = s /\ pc[inner[s]] \in {"truncate", "fill"}

\* While a request is fresh, what it has read is what the files hold.
FreshKnown ==
  \A t \in Tasks : fresh[t] =>
    /\ pc[t] \in {"loadOver", "readOver", "insert", "install"} =>
         base[t] = IF store[t] = Root THEN Missing ELSE disk["global"]
    /\ pc[t] \in {"insert", "install"} => over[t] = disk[PathOf(store[t])]

Settled == [default : Shells, profiles : SUBSET Shells]

-----------------------------------------------------------------------------
(* The merge of two layers *)

LEMMA MergeType ==
  ASSUME NEW b \in Contents \ {Torn}, NEW o \in Contents \ {Torn}
  PROVE  Merge(b, o) \in Settled
<1>1. Layer(b) \in Values /\ Layer(o) \in Values
  BY DEF Layer, Contents, Values, Blank
<1>2. QED
  BY <1>1, SettingsAssumption DEF Merge, Settled, Values

\* Settings that are valid as a store serves them are valid as a file.
LEMMA SettledLoads ==
  ASSUME NEW m \in Settled, Whole(m), Valid(m)
  PROVE  Loadable(m)
<1>1. Layer(m) = m /\ m.default # Unset
  BY SettingsAssumption, FileAssumption DEF Settled, Layer, Values
<1>2. Merge(Missing, m).default = m.default
  BY <1>1 DEF Merge
<1>3. m.profiles \subseteq Merge(Missing, m).profiles
  BY <1>1 DEF Merge
<1>4. QED
  BY <1>2, <1>3 DEF Loadable, Valid

LEMMA SettledValues == Settled \subseteq Contents
BY DEF Settled, Contents, Values



-----------------------------------------------------------------------------
(* Shared steps *)

TaskTypes ==
  /\ pc \in [Tasks -> Steps] /\ kind \in [Tasks -> AllKinds]
  /\ store \in [Tasks -> Stores] /\ shell \in [Tasks -> Shells]
  /\ base \in [Tasks -> Contents \ {Torn}] /\ over \in [Tasks -> Contents \ {Torn}]

Reasons == {"overtaken", "unwritten", "other", "edit", "swapped"}
Scars   == {"edit", "cut", "swapped"}

LEMMA EntryKnown == \A k \in AllKinds : Entry(k) \in {"lock", "readBase", "show"}
BY DEF AllKinds, Entry

LEMMA GotoType ==
  ASSUME TypeOK, NEW t \in Tasks, NEW step \in Steps, Goto(t, step)
  PROVE  TaskTypes'
BY DEF Goto, TypeOK, TaskTypes

LEMMA DoneType ==
  ASSUME TypeOK, NEW t \in Tasks, Done(t)
  PROVE  TaskTypes'
<1>1. Missing \in Contents \ {Torn} /\ Root \in Stores /\ AutoShell \in Shells
  BY SettingsAssumption DEF Contents, Stores
<1>2. QED
  BY <1>1 DEF Done, TypeOK, TaskTypes, Steps, AllKinds

LEMMA AdoptType ==
  ASSUME TypeOK, NEW t \in Tasks, Adopt(t)
  PROVE  /\ memory' \in [Stores -> Settled]
         /\ failed' \in [Stores -> BOOLEAN] /\ why' \in [Stores -> SUBSET Reasons]
<1>1. Merge(base[t], over[t]) \in Settled
  BY MergeType DEF TypeOK
<1>2. QED
  BY <1>1 DEF Adopt, TypeOK, Settled, Reasons

LEMMA PutType ==
  ASSUME TypeOK, NEW f \in Files, NEW c \in Contents, NEW s, NEW reason \in Reasons,
         Put(f, c, s, reason)
  PROVE  /\ disk' \in [Files -> Contents] /\ fresh' \in [Tasks -> BOOLEAN]
         /\ why' \in [Stores -> SUBSET Reasons] /\ scars' \in [Files -> SUBSET Scars]
<1>1. disk' \in [Files -> Contents] /\ fresh' \in [Tasks -> BOOLEAN]
  BY DEF Put, TypeOK
<1>2. ASSUME NEW q \in Stores
      PROVE  (CASE q = s /\ Whole(c) -> why[q] \cap {"swapped"}
                [] q # s /\ q \in ReadersOf(f) -> why[q] \cup {reason}
                [] OTHER -> why[q]) \in SUBSET Reasons
  <2>1. why[q] \in SUBSET Reasons
    BY DEF TypeOK, Reasons
  <2>2. QED
    BY <2>1
<1>3. scars' \in [Files -> SUBSET Scars]
  BY DEF Put, TypeOK, Scars
<1>4. QED
  BY <1>1, <1>2, <1>3 DEF Put

LEMMA BeginEntry ==
  ASSUME NEW t \in Tasks, NEW k \in Kinds, NEW h \in Shells, Begin(t, k, h),
         pc \in [Tasks -> Steps]
  PROVE  pc'[t] \in {"lookup", "lock", "readBase", "show"}
<1>1. Entry(k) \in {"lock", "readBase", "show"}
  BY EntryKnown, SettingsAssumption DEF AllKinds
<1>2. pc'[t] = "lookup" \/ pc'[t] = Entry(k)
  BY DEF Begin
<1>3. QED
  BY <1>1, <1>2

LEMMA PathType == \A s \in Stores : PathOf(s) \in Files
BY DEF PathOf, Files

-----------------------------------------------------------------------------

LEMMA TypeStep == TypeOK /\ StoreKnown /\ [Next]_vars => TypeOK'
<1> SUFFICES ASSUME TypeOK /\ StoreKnown, [Next]_vars PROVE TypeOK'
  OBVIOUS
<1> USE DEF vars, storeVars, taskVars, history, bounds
<1>1. ASSUME NEW t \in Tasks, NEW k \in Kinds, NEW h \in Shells, Begin(t, k, h) PROVE TypeOK'
  <2>1. TaskTypes'
    BY <1>1, EntryKnown, SettingsAssumption DEF Begin, TypeOK, TaskTypes, Steps, AllKinds
  <2>2. QED
    BY <1>1, <2>1, SettingsAssumption DEF Begin, TypeOK, TaskTypes
<1>2. ASSUME NEW t \in Tasks, Lookup(t) PROVE TypeOK'
  <2>1. TaskTypes'
    BY <1>2, EntryKnown DEF Lookup, TypeOK, TaskTypes, Stores, Steps
  <2>2. QED
    BY <1>2, <2>1 DEF Lookup, TypeOK, TaskTypes
<1>3. ASSUME NEW t \in Tasks, Insert(t) PROVE TypeOK'
  <2>1. TaskTypes'
    BY <1>3, GotoType, EntryKnown DEF Insert, TypeOK, Steps
  <2>2. cached' \in Slots \cup {Nobody}
    BY <1>3 DEF Insert, StoreKnown, Loading
  <2>3. QED
    BY <1>3, <2>1, <2>2, AdoptType DEF Insert, TypeOK, TaskTypes, Settled, Reasons
<1>4. ASSUME NEW t \in Tasks, ReadBase(t) PROVE TypeOK'
  <2>1. TaskTypes'
    <3>1. base' \in [Tasks -> Contents \ {Torn}]
      BY <1>4 DEF ReadBase, TypeOK, Whole, Contents, Files
    <3>2. QED
      BY <1>4, <3>1 DEF ReadBase, TypeOK, TaskTypes, Steps
  <2>2. QED
    BY <1>4, <2>1 DEF ReadBase, TypeOK, TaskTypes
<1>5. ASSUME NEW t \in Tasks, ReadOver(t) PROVE TypeOK'
  <2>1. TaskTypes'
    <3>1. over' \in [Tasks -> Contents \ {Torn}]
      BY <1>5, PathType DEF ReadOver, TypeOK, Whole
    <3>2. QED
      BY <1>5, <3>1 DEF ReadOver, TypeOK, TaskTypes, Steps
  <2>2. QED
    BY <1>5, <2>1 DEF ReadOver, TypeOK, TaskTypes
<1>6. ASSUME NEW t \in Tasks, LoadFails(t) PROVE TypeOK'
  <2>1. TaskTypes'
    BY <1>6, DoneType, GotoType DEF LoadFails, Steps
  <2>2. QED
    BY <1>6, <2>1 DEF LoadFails, TypeOK, TaskTypes
<1>7. ASSUME NEW t \in Tasks, Install(t) PROVE TypeOK'
  <2>1. TaskTypes'
    BY <1>7, GotoType DEF Install, Steps
  <2>2. QED
    BY <1>7, <2>1, AdoptType DEF Install, TypeOK, TaskTypes, Settled, Reasons
<1>8. ASSUME NEW t \in Tasks, RecordError(t) PROVE TypeOK'
  <2>1. TaskTypes'
    BY <1>8, DoneType DEF RecordError
  <2>2. QED
    BY <1>8, <2>1 DEF RecordError, TypeOK, TaskTypes
<1>9. ASSUME NEW t \in Tasks, Show(t) PROVE TypeOK'
  <2>1. TaskTypes'
    BY <1>9, DoneType, GotoType DEF Show, Steps
  <2>2. QED
    BY <1>9, <2>1 DEF Show, TypeOK, TaskTypes
<1>10. ASSUME NEW t \in Tasks, ShowError(t) PROVE TypeOK'
  <2>1. TaskTypes'
    BY <1>10, DoneType DEF ShowError
  <2>2. QED
    BY <1>10, <2>1 DEF ShowError, TypeOK, TaskTypes
<1>11. ASSUME NEW t \in Tasks, TakeLock(t) PROVE TypeOK'
  BY <1>11 DEF TakeLock, Goto, TypeOK, Steps
<1>12. ASSUME NEW t \in Tasks, Resolve(t) PROVE TypeOK'
  BY <1>12 DEF Resolve, Goto, TypeOK, Steps
<1>13. ASSUME NEW t \in Tasks, ResolveFails(t) PROVE TypeOK'
  <2>1. TaskTypes'
    BY <1>13, DoneType DEF ResolveFails
  <2>2. QED
    BY <1>13, <2>1 DEF ResolveFails, TypeOK, TaskTypes
<1>14. ASSUME NEW t \in Tasks, Assign(t) PROVE TypeOK'
  BY <1>14 DEF Assign, Goto, TypeOK, Stores, Steps
<1>15. ASSUME NEW t \in Tasks, Truncate(t) PROVE TypeOK'
  <2>1. TaskTypes'
    BY <1>15, GotoType DEF Truncate, Steps
  <2>2. Torn \in Contents /\ PathOf(store[t]) \in Files /\ "other" \in Reasons
    BY PathType DEF TypeOK, Contents, Reasons
  <2>3. QED
    BY <1>15, <2>1, <2>2, PutType DEF Truncate, TypeOK, TaskTypes, Reasons, Scars
<1>16. ASSUME NEW t \in Tasks, Fill(t) PROVE TypeOK'
  <2>1. TaskTypes'
    BY <1>16, DoneType DEF Fill
  <2>2. memory[store[t]] \in Contents /\ PathOf(store[t]) \in Files /\ "other" \in Reasons
    BY PathType, SettledValues DEF TypeOK, Settled, Reasons
  <2>3. /\ disk' \in [Files -> Contents] /\ fresh' \in [Tasks -> BOOLEAN]
        /\ why' \in [Stores -> SUBSET Reasons] /\ scars' \in [Files -> SUBSET Scars]
    BY <1>16, <2>2, PutType DEF Fill
  <2>4. QED
    BY <1>16, <2>1, <2>3 DEF Fill, TypeOK, TaskTypes, Reasons, Scars
<1>17. ASSUME NEW t \in Tasks, WriteFails(t) PROVE TypeOK'
  <2>1. TaskTypes'
    BY <1>17, DoneType DEF WriteFails
  <2>2. QED
    BY <1>17, <2>1 DEF WriteFails, TypeOK, TaskTypes
<1>18. ASSUME NEW f \in Files, NEW c \in HandMade, Edit(f, c) PROVE TypeOK'
  <2>1. c \in Contents /\ "edit" \in Reasons
    BY FileAssumption DEF Reasons
  <2>2. /\ disk' \in [Files -> Contents] /\ fresh' \in [Tasks -> BOOLEAN]
        /\ why' \in [Stores -> SUBSET Reasons] /\ scars' \in [Files -> SUBSET Scars]
    BY <1>18, <2>1, PutType DEF Edit
  <2>3. QED
    BY <1>18, <2>2, SettingsAssumption DEF Edit, TypeOK, Reasons, Scars
<1>19. CASE Crash
  <2>1. Missing \in Contents \ {Torn} /\ Root \in Stores /\ AutoShell \in Shells
    BY SettingsAssumption, FileAssumption DEF Contents, Values, Stores
  <2>2. Merge(Missing, Missing) \in Settled
    BY <2>1, MergeType
  <2>3. TaskTypes'
    BY <1>19, <2>1 DEF Crash, TaskTypes, Steps, AllKinds
  <2>4. memory' \in [Stores -> Settled]
    BY <1>19, <2>1, <2>2 DEF Crash, TypeOK, Settled
  <2>5. crashes' \in 0..MaxFaults
    BY <1>19, SettingsAssumption DEF Crash, TypeOK
  <2>6. why' \in [Stores -> SUBSET Reasons]
    BY <1>19, <2>1 DEF Crash, TypeOK, Reasons
  <2>7. QED
    BY <1>19, <2>3, <2>4, <2>5, <2>6 DEF Crash, TypeOK, TaskTypes, Settled, Reasons
<1>20. CASE Restart
  <2>1. Merge(Missing, disk["global"]) \in Settled
    BY <1>20, MergeType, SettingsAssumption, FileAssumption
       DEF Restart, Loadable, Whole, TypeOK, Contents, Values, Files
  <2>2. QED
    BY <1>20, <2>1 DEF Restart, TypeOK, Settled
<1>21. CASE UNCHANGED vars
  BY <1>21 DEF TypeOK
<1>22. QED
  BY <1>1, <1>2, <1>3, <1>4, <1>5, <1>6, <1>7, <1>8, <1>9, <1>10, <1>11, <1>12, <1>13, <1>14, <1>15, <1>16, <1>17, <1>18, <1>19, <1>20, <1>21
     DEF Next, LoadStep, ReloadStep, SetStep

LEMMA StoreStep == TypeOK /\ StoreKnown /\ [Next]_vars => StoreKnown'
<1> SUFFICES ASSUME TypeOK /\ StoreKnown, [Next]_vars PROVE StoreKnown'
  OBVIOUS
<1> USE DEF vars, storeVars, taskVars, history, bounds
<1>1. ASSUME NEW t \in Tasks, NEW k \in Kinds, NEW h \in Shells, Begin(t, k, h) PROVE StoreKnown'
  <2>1. pc'[t] \in {"lookup", "lock", "readBase", "show"}
    BY <1>1, BeginEntry DEF TypeOK
  <2>2. QED
    BY <1>1, <2>1 DEF Begin, StoreKnown, Loading
<1>2. ASSUME NEW t \in Tasks, Lookup(t) PROVE StoreKnown'
  <2>1. CASE cached # Nobody /\ store' = [store EXCEPT ![t] = cached] /\ pc' = [pc EXCEPT ![t] = Entry(kind[t])]
    BY <1>2, <2>1, EntryKnown DEF Lookup, TypeOK, StoreKnown, Loading
  <2>2. ASSUME NEW s \in Slots \ Live, store' = [store EXCEPT ![t] = s], pc' = [pc EXCEPT ![t] = "loadBase"]
        PROVE  StoreKnown'
    <3>1. s # cached /\ \A u \in Tasks : store[u] # s
      BY <2>2 DEF Live
    <3>2. QED
      BY <1>2, <2>2, <3>1 DEF Lookup, TypeOK, StoreKnown
  <2>3. QED
    BY <1>2, <2>1, <2>2 DEF Lookup
<1>3. ASSUME NEW t \in Tasks, Insert(t) PROVE StoreKnown'
  <2>1. Entry(kind[t]) \notin Loading \cup {"idle", "lookup"}
    BY EntryKnown DEF TypeOK, Loading
  <2>2. QED
    BY <1>3, <2>1 DEF Insert, Goto, TypeOK, StoreKnown
<1>4. ASSUME NEW t \in Tasks, ReadBase(t) PROVE StoreKnown'
  BY <1>4 DEF ReadBase, StoreKnown, Loading
<1>5. ASSUME NEW t \in Tasks, ReadOver(t) PROVE StoreKnown'
  BY <1>5 DEF ReadOver, StoreKnown, Loading
<1>6. ASSUME NEW t \in Tasks, LoadFails(t) PROVE StoreKnown'
  BY <1>6 DEF LoadFails, Done, Goto, TypeOK, StoreKnown, Loading, Root, Stores, Slots
<1>7. ASSUME NEW t \in Tasks, Install(t) PROVE StoreKnown'
  BY <1>7 DEF Install, Goto, StoreKnown, Loading
<1>8. ASSUME NEW t \in Tasks, RecordError(t) PROVE StoreKnown'
  BY <1>8 DEF RecordError, Done, TypeOK, StoreKnown, Loading, Root, Slots
<1>9. ASSUME NEW t \in Tasks, Show(t) PROVE StoreKnown'
  BY <1>9 DEF Show, Done, Goto, TypeOK, StoreKnown, Loading, Root, Slots
<1>10. ASSUME NEW t \in Tasks, ShowError(t) PROVE StoreKnown'
  BY <1>10 DEF ShowError, Done, TypeOK, StoreKnown, Loading, Root, Slots
<1>11. ASSUME NEW t \in Tasks, TakeLock(t) PROVE StoreKnown'
  BY <1>11 DEF TakeLock, Goto, StoreKnown, Loading
<1>12. ASSUME NEW t \in Tasks, Resolve(t) PROVE StoreKnown'
  BY <1>12 DEF Resolve, Goto, StoreKnown, Loading
<1>13. ASSUME NEW t \in Tasks, ResolveFails(t) PROVE StoreKnown'
  BY <1>13 DEF ResolveFails, Done, TypeOK, StoreKnown, Loading, Root, Slots
<1>14. ASSUME NEW t \in Tasks, Assign(t) PROVE StoreKnown'
  BY <1>14 DEF Assign, Goto, StoreKnown, Loading
<1>15. ASSUME NEW t \in Tasks, Truncate(t) PROVE StoreKnown'
  BY <1>15 DEF Truncate, Goto, StoreKnown, Loading
<1>16. ASSUME NEW t \in Tasks, Fill(t) PROVE StoreKnown'
  BY <1>16 DEF Fill, Done, TypeOK, StoreKnown, Loading, Root, Slots
<1>17. ASSUME NEW t \in Tasks, WriteFails(t) PROVE StoreKnown'
  BY <1>17 DEF WriteFails, Done, TypeOK, StoreKnown, Loading, Root, Slots
<1>18. ASSUME NEW f \in Files, NEW c \in HandMade, Edit(f, c) PROVE StoreKnown'
  BY <1>18 DEF Edit, StoreKnown
<1>19. CASE Crash
  BY <1>19 DEF Crash, StoreKnown, Loading
<1>20. CASE Restart
  BY <1>20 DEF Restart, StoreKnown
<1>21. CASE UNCHANGED vars
  BY <1>21 DEF StoreKnown
<1>22. QED
  BY <1>1, <1>2, <1>3, <1>4, <1>5, <1>6, <1>7, <1>8, <1>9, <1>10, <1>11, <1>12, <1>13, <1>14, <1>15, <1>16, <1>17, <1>18, <1>19, <1>20, <1>21
     DEF Next, LoadStep, ReloadStep, SetStep

LEMMA ReadStep == TypeOK /\ ReadKnown /\ [Next]_vars => ReadKnown'
<1> SUFFICES ASSUME TypeOK /\ ReadKnown, [Next]_vars PROVE ReadKnown'
  OBVIOUS
<1> USE DEF vars, storeVars, taskVars, history, bounds
<1>1. ASSUME NEW t \in Tasks, NEW k \in Kinds, NEW h \in Shells, Begin(t, k, h) PROVE ReadKnown'
  <2>1. pc'[t] \in {"lookup", "lock", "readBase", "show"}
    BY <1>1, BeginEntry DEF TypeOK
  <2>2. QED
    BY <1>1, <2>1 DEF Begin, ReadKnown
<1>2. ASSUME NEW t \in Tasks, Lookup(t) PROVE ReadKnown'
  <2>1. pc'[t] \in {"lock", "readBase", "show", "loadBase"}
    BY <1>2, EntryKnown DEF Lookup, TypeOK
  <2>2. QED
    BY <1>2, <2>1 DEF Lookup, TypeOK, ReadKnown
<1>3. ASSUME NEW t \in Tasks, Insert(t) PROVE ReadKnown'
  <2>1. pc'[t] \in {"lock", "readBase", "show"}
    BY <1>3, EntryKnown DEF Insert, Goto, TypeOK
  <2>2. QED
    BY <1>3, <2>1 DEF Insert, Goto, ReadKnown
<1>4. ASSUME NEW t \in Tasks, ReadBase(t) PROVE ReadKnown'
  BY <1>4 DEF ReadBase, ReadKnown
<1>5. ASSUME NEW t \in Tasks, ReadOver(t) PROVE ReadKnown'
  BY <1>5 DEF ReadOver, TypeOK, ReadKnown
<1>6. ASSUME NEW t \in Tasks, LoadFails(t) PROVE ReadKnown'
  BY <1>6 DEF LoadFails, Done, Goto, TypeOK, ReadKnown
<1>7. ASSUME NEW t \in Tasks, Install(t) PROVE ReadKnown'
  BY <1>7 DEF Install, Goto, ReadKnown
<1>8. ASSUME NEW t \in Tasks, RecordError(t) PROVE ReadKnown'
  BY <1>8 DEF RecordError, Done, ReadKnown
<1>9. ASSUME NEW t \in Tasks, Show(t) PROVE ReadKnown'
  BY <1>9 DEF Show, Done, Goto, TypeOK, ReadKnown
<1>10. ASSUME NEW t \in Tasks, ShowError(t) PROVE ReadKnown'
  BY <1>10 DEF ShowError, Done, ReadKnown
<1>11. ASSUME NEW t \in Tasks, TakeLock(t) PROVE ReadKnown'
  BY <1>11 DEF TakeLock, Goto, ReadKnown
<1>12. ASSUME NEW t \in Tasks, Resolve(t) PROVE ReadKnown'
  BY <1>12 DEF Resolve, Goto, ReadKnown
<1>13. ASSUME NEW t \in Tasks, ResolveFails(t) PROVE ReadKnown'
  BY <1>13 DEF ResolveFails, Done, ReadKnown
<1>14. ASSUME NEW t \in Tasks, Assign(t) PROVE ReadKnown'
  BY <1>14 DEF Assign, Goto, ReadKnown
<1>15. ASSUME NEW t \in Tasks, Truncate(t) PROVE ReadKnown'
  BY <1>15 DEF Truncate, Goto, ReadKnown
<1>16. ASSUME NEW t \in Tasks, Fill(t) PROVE ReadKnown'
  BY <1>16 DEF Fill, Done, ReadKnown
<1>17. ASSUME NEW t \in Tasks, WriteFails(t) PROVE ReadKnown'
  BY <1>17 DEF WriteFails, Done, ReadKnown
<1>18. ASSUME NEW f \in Files, NEW c \in HandMade, Edit(f, c) PROVE ReadKnown'
  BY <1>18 DEF Edit, ReadKnown
<1>19. CASE Crash
  BY <1>19 DEF Crash, ReadKnown
<1>20. CASE Restart
  BY <1>20 DEF Restart, ReadKnown
<1>21. CASE UNCHANGED vars
  BY <1>21 DEF ReadKnown
<1>22. QED
  BY <1>1, <1>2, <1>3, <1>4, <1>5, <1>6, <1>7, <1>8, <1>9, <1>10, <1>11, <1>12, <1>13, <1>14, <1>15, <1>16, <1>17, <1>18, <1>19, <1>20, <1>21
     DEF Next, LoadStep, ReloadStep, SetStep

LEMMA AssignStep == TypeOK /\ StoreKnown /\ AssignKnown /\ [Next]_vars => AssignKnown'
<1> SUFFICES ASSUME TypeOK /\ StoreKnown /\ AssignKnown, [Next]_vars PROVE AssignKnown'
  OBVIOUS
<1> USE DEF vars, storeVars, taskVars, history, bounds
<1>1. ASSUME NEW t \in Tasks, NEW k \in Kinds, NEW h \in Shells, Begin(t, k, h) PROVE AssignKnown'
  <2>1. pc'[t] \in {"lookup", "lock", "readBase", "show"}
    BY <1>1, BeginEntry DEF TypeOK
  <2>2. QED
    BY <1>1, <2>1 DEF Begin, AssignKnown
<1>2. ASSUME NEW t \in Tasks, Lookup(t) PROVE AssignKnown'
  <2>1. pc'[t] \in {"lock", "readBase", "show", "loadBase"}
    BY <1>2, EntryKnown DEF Lookup, TypeOK
  <2>2. QED
    BY <1>2, <2>1 DEF Lookup, TypeOK, AssignKnown
<1>3. ASSUME NEW t \in Tasks, Insert(t) PROVE AssignKnown'
  <2>1. pc'[t] \in {"lock", "readBase", "show"}
    BY <1>3, EntryKnown DEF Insert, Goto, TypeOK
  <2>2. QED
    BY <1>3, <2>1 DEF Insert, Goto, Adopt, StoreKnown, Loading, AssignKnown
<1>4. ASSUME NEW t \in Tasks, ReadBase(t) PROVE AssignKnown'
  BY <1>4 DEF ReadBase, AssignKnown
<1>5. ASSUME NEW t \in Tasks, ReadOver(t) PROVE AssignKnown'
  BY <1>5 DEF ReadOver, AssignKnown
<1>6. ASSUME NEW t \in Tasks, LoadFails(t) PROVE AssignKnown'
  BY <1>6 DEF LoadFails, Done, Goto, TypeOK, AssignKnown
<1>7. ASSUME NEW t \in Tasks, Install(t) PROVE AssignKnown'
  BY <1>7 DEF Install, Adopt, Goto, AssignKnown
<1>8. ASSUME NEW t \in Tasks, RecordError(t) PROVE AssignKnown'
  BY <1>8 DEF RecordError, Done, AssignKnown
<1>9. ASSUME NEW t \in Tasks, Show(t) PROVE AssignKnown'
  <2>1. pc'[t] \in {"idle", "showError"} /\ \A u \in Tasks \ {t} : pc'[u] = pc[u]
    BY <1>9 DEF Show, Done, Goto, TypeOK
  <2>2. \A u \in Tasks \ {t} : store'[u] = store[u] /\ shell'[u] = shell[u]
    BY <1>9 DEF Show, Done, Goto, TypeOK
  <2>3. QED
    BY <1>9, <2>1, <2>2 DEF Show, AssignKnown
<1>10. ASSUME NEW t \in Tasks, ShowError(t) PROVE AssignKnown'
  BY <1>10 DEF ShowError, Done, AssignKnown
<1>11. ASSUME NEW t \in Tasks, TakeLock(t) PROVE AssignKnown'
  BY <1>11 DEF TakeLock, Goto, AssignKnown
<1>12. ASSUME NEW t \in Tasks, Resolve(t) PROVE AssignKnown'
  BY <1>12 DEF Resolve, Goto, AssignKnown
<1>13. ASSUME NEW t \in Tasks, ResolveFails(t) PROVE AssignKnown'
  BY <1>13 DEF ResolveFails, Done, AssignKnown
<1>14. ASSUME NEW t \in Tasks, Assign(t) PROVE AssignKnown'
  BY <1>14 DEF Assign, Goto, AssignKnown
<1>15. ASSUME NEW t \in Tasks, Truncate(t) PROVE AssignKnown'
  BY <1>15 DEF Truncate, Goto, AssignKnown
<1>16. ASSUME NEW t \in Tasks, Fill(t) PROVE AssignKnown'
  BY <1>16 DEF Fill, Done, AssignKnown
<1>17. ASSUME NEW t \in Tasks, WriteFails(t) PROVE AssignKnown'
  BY <1>17 DEF WriteFails, Done, AssignKnown
<1>18. ASSUME NEW f \in Files, NEW c \in HandMade, Edit(f, c) PROVE AssignKnown'
  BY <1>18 DEF Edit, AssignKnown
<1>19. CASE Crash
  BY <1>19 DEF Crash, AssignKnown
<1>20. CASE Restart
  BY <1>20 DEF Restart, StoreKnown, AssignKnown
<1>21. CASE UNCHANGED vars
  BY <1>21 DEF AssignKnown
<1>22. QED
  BY <1>1, <1>2, <1>3, <1>4, <1>5, <1>6, <1>7, <1>8, <1>9, <1>10, <1>11, <1>12, <1>13, <1>14, <1>15, <1>16, <1>17, <1>18, <1>19, <1>20, <1>21
     DEF Next, LoadStep, ReloadStep, SetStep

LEMMA ServedStep == TypeOK /\ StoreKnown /\ ReadKnown /\ AssignKnown /\ ServedIsConfigured /\ [Next]_vars => ServedIsConfigured'
<1> SUFFICES ASSUME TypeOK /\ StoreKnown /\ ReadKnown /\ AssignKnown /\ ServedIsConfigured, [Next]_vars PROVE ServedIsConfigured'
  OBVIOUS
<1> USE DEF vars, storeVars, taskVars, history, bounds
<1>1. ASSUME NEW t \in Tasks, NEW k \in Kinds, NEW h \in Shells, Begin(t, k, h) PROVE ServedIsConfigured'
  BY <1>1 DEF Begin, StoreKnown, ServedIsConfigured, InUse
<1>2. ASSUME NEW t \in Tasks, Lookup(t) PROVE ServedIsConfigured'
  <2>1. \A s \in Stores : InUse(s)' => InUse(s)
    BY <1>2, EntryKnown DEF Lookup, InUse, TypeOK
  <2>2. QED
    BY <1>2, <2>1 DEF Lookup, ServedIsConfigured
<1>3. ASSUME NEW t \in Tasks, Insert(t) PROVE ServedIsConfigured'
  BY <1>3 DEF Insert, Adopt, Goto, TypeOK, ReadKnown, ServedIsConfigured, InUse
<1>4. ASSUME NEW t \in Tasks, ReadBase(t) PROVE ServedIsConfigured'
  BY <1>4 DEF ReadBase, ServedIsConfigured, InUse
<1>5. ASSUME NEW t \in Tasks, ReadOver(t) PROVE ServedIsConfigured'
  BY <1>5 DEF ReadOver, ServedIsConfigured, InUse
<1>6. ASSUME NEW t \in Tasks, LoadFails(t) PROVE ServedIsConfigured'
  <2>1. \A s \in Stores : InUse(s)' => InUse(s)
    BY <1>6, EntryKnown DEF LoadFails, Goto, Done, InUse, TypeOK
  <2>2. QED
    BY <1>6, <2>1 DEF LoadFails, ServedIsConfigured
<1>7. ASSUME NEW t \in Tasks, Install(t) PROVE ServedIsConfigured'
  BY <1>7 DEF Install, Adopt, Goto, TypeOK, ReadKnown, ServedIsConfigured, InUse
<1>8. ASSUME NEW t \in Tasks, RecordError(t) PROVE ServedIsConfigured'
  BY <1>8 DEF RecordError, Done, ServedIsConfigured, InUse
<1>9. ASSUME NEW t \in Tasks, Show(t) PROVE ServedIsConfigured'
  <2>1. \A s \in Stores : InUse(s)' => InUse(s)
    BY <1>9, EntryKnown DEF Show, Goto, Done, InUse, TypeOK
  <2>2. QED
    BY <1>9, <2>1 DEF Show, ServedIsConfigured
<1>10. ASSUME NEW t \in Tasks, ShowError(t) PROVE ServedIsConfigured'
  BY <1>10 DEF ShowError, Done, ServedIsConfigured, InUse
<1>11. ASSUME NEW t \in Tasks, TakeLock(t) PROVE ServedIsConfigured'
  BY <1>11 DEF TakeLock, Goto, ServedIsConfigured, InUse
<1>12. ASSUME NEW t \in Tasks, Resolve(t) PROVE ServedIsConfigured'
  BY <1>12 DEF Resolve, Goto, ServedIsConfigured, InUse
<1>13. ASSUME NEW t \in Tasks, ResolveFails(t) PROVE ServedIsConfigured'
  BY <1>13 DEF ResolveFails, Done, ServedIsConfigured, InUse
<1>14. ASSUME NEW t \in Tasks, Assign(t) PROVE ServedIsConfigured'
  BY <1>14 DEF Assign, Goto, TypeOK, AssignKnown, ServedIsConfigured, InUse, Valid
<1>15. ASSUME NEW t \in Tasks, Truncate(t) PROVE ServedIsConfigured'
  <2>1. \A s \in Stores : InUse(s)' /\ "swapped" \notin why'[s] => Valid(memory'[s])
    BY <1>15 DEF Truncate, Put, Goto, ServedIsConfigured, InUse
  <2>2. store[t] \in Stores /\ store[t] # Nobody
    BY SettingsAssumption DEF TypeOK, Stores, Slots, Root
  <2>3. scars' = [scars EXCEPT ![PathOf(store[t])] = {"cut"}]
    BY <1>15, <2>2 DEF Truncate, Put, Whole
  <2>4. disk' = [disk EXCEPT ![PathOf(store[t])] = Torn]
    BY <1>15 DEF Truncate, Put
  <2>5. scars'["global"] = {} => Loadable(disk'["global"])
    BY <2>3, <2>4 DEF ServedIsConfigured, TypeOK, Files
  <2>6. QED
    BY <2>1, <2>5 DEF ServedIsConfigured, Loadable
<1>16. ASSUME NEW t \in Tasks, Fill(t) PROVE ServedIsConfigured'
  <2>1. \A s \in Stores : InUse(s)' /\ "swapped" \notin why'[s] => Valid(memory'[s])
    BY <1>16 DEF Fill, Put, Done, ServedIsConfigured, InUse
  <2>2. store[t] \in Stores /\ store[t] # Nobody
    BY SettingsAssumption DEF TypeOK, Stores, Slots, Root
  <2>3. Whole(memory[store[t]]) /\ memory[store[t]] \in Settled
    BY <2>2, FileAssumption DEF TypeOK, Settled, Whole, Values
  <2>4. scars' = [scars EXCEPT ![PathOf(store[t])] = why[store[t]] \cap {"swapped"}]
    BY <1>16, <2>2, <2>3 DEF Fill, Put
  <2>5. disk' = [disk EXCEPT ![PathOf(store[t])] = memory[store[t]]]
    BY <1>16 DEF Fill, Put
  <2>6. ASSUME scars'["global"] = {} PROVE Loadable(disk'["global"])
    <3>1. CASE store[t] = Root
      <4>1. disk'["global"] = memory[Root] /\ "swapped" \notin why[Root]
        BY <2>4, <2>5, <2>6, <3>1 DEF PathOf, TypeOK, Files
      <4>2. Valid(memory[Root])
        BY <2>2, <3>1, <4>1 DEF ServedIsConfigured, InUse
      <4>3. QED
        BY <2>3, <3>1, <4>1, <4>2, SettledLoads
    <3>2. CASE store[t] # Root
      BY <2>4, <2>5, <2>6, <3>2 DEF PathOf, ServedIsConfigured, TypeOK, Files
    <3>3. QED
      BY <3>1, <3>2
  <2>7. QED
    BY <2>1, <2>6 DEF ServedIsConfigured, Loadable
<1>17. ASSUME NEW t \in Tasks, WriteFails(t) PROVE ServedIsConfigured'
  BY <1>17 DEF WriteFails, Done, ServedIsConfigured, InUse
<1>18. ASSUME NEW f \in Files, NEW c \in HandMade, Edit(f, c) PROVE ServedIsConfigured'
  <2>1. \A s \in Stores : InUse(s)' /\ "swapped" \notin why'[s] => Valid(memory'[s])
    BY <1>18 DEF Edit, Put, ServedIsConfigured, InUse
  <2>2. scars' = [scars EXCEPT ![f] = {"edit"}] /\ disk' = [disk EXCEPT ![f] = c]
    BY <1>18 DEF Edit, Put
  <2>3. scars'["global"] = {} => Loadable(disk'["global"])
    BY <2>2 DEF ServedIsConfigured, TypeOK, Files
  <2>4. QED
    BY <2>1, <2>3 DEF ServedIsConfigured, Loadable
<1>19. CASE Crash
  <2>1. \A s \in Stores : InUse(s)' => s = Root
    BY <1>19, SettingsAssumption DEF Crash, InUse, Stores, Slots
  <2>2. QED
    BY <1>19, <2>1 DEF Crash, ServedIsConfigured, InUse, Stores
<1>20. CASE Restart
  BY <1>20 DEF Restart, Loadable, TypeOK, ServedIsConfigured, InUse
<1>21. CASE UNCHANGED vars
  BY <1>21 DEF ServedIsConfigured, InUse
<1>22. QED
  BY <1>1, <1>2, <1>3, <1>4, <1>5, <1>6, <1>7, <1>8, <1>9, <1>10, <1>11, <1>12, <1>13, <1>14, <1>15, <1>16, <1>17, <1>18, <1>19, <1>20, <1>21
     DEF Next, LoadStep, ReloadStep, SetStep

LEMMA WriteStep == TypeOK /\ StoreKnown /\ WriteKnown /\ [Next]_vars => WriteKnown'
<1> SUFFICES ASSUME TypeOK /\ StoreKnown /\ WriteKnown, [Next]_vars PROVE WriteKnown'
  OBVIOUS
<1> USE DEF vars, storeVars, taskVars, history, bounds
<1>1. ASSUME NEW t \in Tasks, NEW k \in Kinds, NEW h \in Shells, Begin(t, k, h) PROVE WriteKnown'
  <2>1. pc'[t] \in {"lookup", "lock", "readBase", "show"}
    BY <1>1, BeginEntry DEF TypeOK
  <2>2. QED
    BY <1>1, <2>1 DEF Begin, WriteKnown
<1>2. ASSUME NEW t \in Tasks, Lookup(t) PROVE WriteKnown'
  <2>1. pc'[t] \in {"lock", "readBase", "show", "loadBase"}
    BY <1>2, EntryKnown DEF Lookup, TypeOK
  <2>2. QED
    BY <1>2, <2>1 DEF Lookup, TypeOK, WriteKnown
<1>3. ASSUME NEW t \in Tasks, Insert(t) PROVE WriteKnown'
  <2>1. pc'[t] \in {"lock", "readBase", "show"}
    BY <1>3, EntryKnown DEF Insert, Goto, TypeOK
  <2>2. QED
    BY <1>3, <2>1 DEF Insert, Goto, Adopt, StoreKnown, Loading, WriteKnown
<1>4. ASSUME NEW t \in Tasks, ReadBase(t) PROVE WriteKnown'
  BY <1>4 DEF ReadBase, WriteKnown
<1>5. ASSUME NEW t \in Tasks, ReadOver(t) PROVE WriteKnown'
  BY <1>5 DEF ReadOver, WriteKnown
<1>6. ASSUME NEW t \in Tasks, LoadFails(t) PROVE WriteKnown'
  BY <1>6 DEF LoadFails, Done, Goto, TypeOK, WriteKnown
<1>7. ASSUME NEW t \in Tasks, Install(t) PROVE WriteKnown'
  BY <1>7, SettingsAssumption DEF Install, Adopt, Goto, WriteKnown, Unheld
<1>8. ASSUME NEW t \in Tasks, RecordError(t) PROVE WriteKnown'
  BY <1>8 DEF RecordError, Done, WriteKnown
<1>9. ASSUME NEW t \in Tasks, Show(t) PROVE WriteKnown'
  BY <1>9 DEF Show, Done, Goto, TypeOK, WriteKnown
<1>10. ASSUME NEW t \in Tasks, ShowError(t) PROVE WriteKnown'
  BY <1>10 DEF ShowError, Done, WriteKnown
<1>11. ASSUME NEW t \in Tasks, TakeLock(t) PROVE WriteKnown'
  BY <1>11 DEF TakeLock, Goto, WriteKnown
<1>12. ASSUME NEW t \in Tasks, Resolve(t) PROVE WriteKnown'
  BY <1>12 DEF Resolve, Goto, WriteKnown
<1>13. ASSUME NEW t \in Tasks, ResolveFails(t) PROVE WriteKnown'
  BY <1>13 DEF ResolveFails, Done, WriteKnown
<1>14. ASSUME NEW t \in Tasks, Assign(t) PROVE WriteKnown'
  BY <1>14, SettingsAssumption DEF Assign, Goto, TypeOK, WriteKnown, Unheld
<1>15. ASSUME NEW t \in Tasks, Truncate(t) PROVE WriteKnown'
  <2>1. ASSUME NEW u \in Tasks, u # t, pc[u] \in {"truncate", "fill"}
        PROVE  store[u] # store[t] /\ "unwritten" \in why'[store[u]]
    <3>1. store[u] # store[t]
      BY <1>15, <2>1 DEF Truncate, WriteKnown
    <3>2. why'[store[u]] \in {why[store[u]], why[store[u]] \cup {"other"}}
      BY <1>15, <3>1 DEF Truncate, Put, TypeOK
    <3>3. QED
      BY <2>1, <3>1, <3>2 DEF WriteKnown
  <2>2. "unwritten" \in why'[store[t]]
    <3>1. why'[store[t]] = why[store[t]]
      BY <1>15 DEF Truncate, Put, TypeOK, Whole
    <3>2. QED
      BY <1>15, <3>1 DEF Truncate, WriteKnown
  <2>3. QED
    BY <1>15, <2>1, <2>2 DEF Truncate, Goto, WriteKnown
<1>16. ASSUME NEW t \in Tasks, Fill(t) PROVE WriteKnown'
  BY <1>16 DEF Fill, Put, Done, TypeOK, WriteKnown
<1>17. ASSUME NEW t \in Tasks, WriteFails(t) PROVE WriteKnown'
  BY <1>17 DEF WriteFails, Done, TypeOK, WriteKnown
<1>18. ASSUME NEW f \in Files, NEW c \in HandMade, Edit(f, c) PROVE WriteKnown'
  <2>1. ASSUME NEW u \in Tasks, pc[u] \in {"truncate", "fill"}
        PROVE  "unwritten" \in why'[store[u]]
    <3>1. store[u] \in Stores /\ store[u] # Nobody
      BY SettingsAssumption DEF TypeOK, Stores, Slots, Root
    <3>2. why'[store[u]] \in {why[store[u]], why[store[u]] \cup {"edit"}}
      BY <1>18, <3>1 DEF Edit, Put
    <3>3. QED
      BY <2>1, <3>2 DEF WriteKnown
  <2>2. QED
    BY <1>18, <2>1 DEF Edit, WriteKnown
<1>19. CASE Crash
  BY <1>19 DEF Crash, WriteKnown
<1>20. CASE Restart
  BY <1>20 DEF Restart, StoreKnown, WriteKnown
<1>21. CASE UNCHANGED vars
  BY <1>21 DEF WriteKnown
<1>22. QED
  BY <1>1, <1>2, <1>3, <1>4, <1>5, <1>6, <1>7, <1>8, <1>9, <1>10, <1>11, <1>12, <1>13, <1>14, <1>15, <1>16, <1>17, <1>18, <1>19, <1>20, <1>21
     DEF Next, LoadStep, ReloadStep, SetStep

LEMMA HeldStep == TypeOK /\ StoreKnown /\ HeldKnown /\ [Next]_vars => HeldKnown'
<1> SUFFICES ASSUME TypeOK /\ StoreKnown /\ HeldKnown, [Next]_vars PROVE HeldKnown'
  OBVIOUS
<1> USE DEF vars, storeVars, taskVars, history, bounds
<1>1. ASSUME NEW t \in Tasks, NEW k \in Kinds, NEW h \in Shells, Begin(t, k, h) PROVE HeldKnown'
  BY <1>1 DEF Begin, TypeOK, HeldKnown
<1>2. ASSUME NEW t \in Tasks, Lookup(t) PROVE HeldKnown'
  <2>1. \A u \in Tasks \ {t} : pc'[u] = pc[u] /\ store'[u] = store[u]
    BY <1>2 DEF Lookup, TypeOK
  <2>2. \A s \in Stores : inner[s] # Nobody => inner[s] \in Tasks \ {t}
    BY <1>2 DEF Lookup, TypeOK, HeldKnown
  <2>3. QED
    BY <1>2, <2>1, <2>2 DEF Lookup, HeldKnown
<1>3. ASSUME NEW t \in Tasks, Insert(t) PROVE HeldKnown'
  BY <1>3 DEF Insert, Goto, Done, Adopt, TypeOK, HeldKnown
<1>4. ASSUME NEW t \in Tasks, ReadBase(t) PROVE HeldKnown'
  BY <1>4 DEF ReadBase, TypeOK, HeldKnown
<1>5. ASSUME NEW t \in Tasks, ReadOver(t) PROVE HeldKnown'
  BY <1>5 DEF ReadOver, TypeOK, HeldKnown
<1>6. ASSUME NEW t \in Tasks, LoadFails(t) PROVE HeldKnown'
  BY <1>6 DEF LoadFails, Goto, Done, Adopt, TypeOK, HeldKnown
<1>7. ASSUME NEW t \in Tasks, Install(t) PROVE HeldKnown'
  BY <1>7 DEF Install, Goto, Done, Adopt, TypeOK, HeldKnown
<1>8. ASSUME NEW t \in Tasks, RecordError(t) PROVE HeldKnown'
  BY <1>8 DEF RecordError, Goto, Done, Adopt, TypeOK, HeldKnown
<1>9. ASSUME NEW t \in Tasks, Show(t) PROVE HeldKnown'
  BY <1>9 DEF Show, Goto, Done, Adopt, TypeOK, HeldKnown
<1>10. ASSUME NEW t \in Tasks, ShowError(t) PROVE HeldKnown'
  BY <1>10 DEF ShowError, Goto, Done, Adopt, TypeOK, HeldKnown
<1>11. ASSUME NEW t \in Tasks, TakeLock(t) PROVE HeldKnown'
  BY <1>11 DEF TakeLock, Goto, Done, Adopt, TypeOK, HeldKnown
<1>12. ASSUME NEW t \in Tasks, Resolve(t) PROVE HeldKnown'
  BY <1>12 DEF Resolve, Goto, Done, Adopt, TypeOK, HeldKnown
<1>13. ASSUME NEW t \in Tasks, ResolveFails(t) PROVE HeldKnown'
  BY <1>13 DEF ResolveFails, Goto, Done, Adopt, TypeOK, HeldKnown
<1>14. ASSUME NEW t \in Tasks, Assign(t) PROVE HeldKnown'
  BY <1>14 DEF Assign, Goto, Done, Adopt, TypeOK, HeldKnown
<1>15. ASSUME NEW t \in Tasks, Truncate(t) PROVE HeldKnown'
  BY <1>15 DEF Truncate, Goto, Done, Adopt, TypeOK, HeldKnown
<1>16. ASSUME NEW t \in Tasks, Fill(t) PROVE HeldKnown'
  BY <1>16 DEF Fill, Goto, Done, Adopt, TypeOK, HeldKnown
<1>17. ASSUME NEW t \in Tasks, WriteFails(t) PROVE HeldKnown'
  BY <1>17 DEF WriteFails, Goto, Done, Adopt, TypeOK, HeldKnown
<1>18. ASSUME NEW f \in Files, NEW c \in HandMade, Edit(f, c) PROVE HeldKnown'
  BY <1>18 DEF Edit, HeldKnown
<1>19. CASE Crash
  BY <1>19 DEF Crash, HeldKnown
<1>20. CASE Restart
  BY <1>20 DEF Restart, HeldKnown
<1>21. CASE UNCHANGED vars
  BY <1>21 DEF HeldKnown
<1>22. QED
  BY <1>1, <1>2, <1>3, <1>4, <1>5, <1>6, <1>7, <1>8, <1>9, <1>10, <1>11, <1>12, <1>13, <1>14, <1>15, <1>16, <1>17, <1>18, <1>19, <1>20, <1>21
     DEF Next, LoadStep, ReloadStep, SetStep

LEMMA FreshStep == TypeOK /\ StoreKnown /\ FreshKnown /\ [Next]_vars => FreshKnown'
<1> SUFFICES ASSUME TypeOK /\ StoreKnown /\ FreshKnown, [Next]_vars PROVE FreshKnown'
  OBVIOUS
<1> USE DEF vars, storeVars, taskVars, history, bounds
<1>1. ASSUME NEW t \in Tasks, NEW k \in Kinds, NEW h \in Shells, Begin(t, k, h) PROVE FreshKnown'
  <2>1. pc'[t] \in {"lookup", "lock", "readBase", "show"}
    BY <1>1, BeginEntry DEF TypeOK
  <2>2. QED
    BY <1>1, <2>1 DEF Begin, FreshKnown
<1>2. ASSUME NEW t \in Tasks, Lookup(t) PROVE FreshKnown'
  <2>1. pc'[t] \in {"lock", "readBase", "show", "loadBase"}
    BY <1>2, EntryKnown DEF Lookup, TypeOK
  <2>2. QED
    BY <1>2, <2>1 DEF Lookup, TypeOK, FreshKnown
<1>3. ASSUME NEW t \in Tasks, Insert(t) PROVE FreshKnown'
  <2>1. pc'[t] \in {"lock", "readBase", "show"}
    BY <1>3, EntryKnown DEF Insert, Goto, TypeOK
  <2>2. QED
    BY <1>3, <2>1 DEF Insert, Goto, FreshKnown
<1>4. ASSUME NEW t \in Tasks, ReadBase(t) PROVE FreshKnown'
  BY <1>4 DEF ReadBase, TypeOK, FreshKnown
<1>5. ASSUME NEW t \in Tasks, ReadOver(t) PROVE FreshKnown'
  BY <1>5 DEF ReadOver, TypeOK, FreshKnown
<1>6. ASSUME NEW t \in Tasks, LoadFails(t) PROVE FreshKnown'
  BY <1>6 DEF LoadFails, Done, Goto, TypeOK, FreshKnown
<1>7. ASSUME NEW t \in Tasks, Install(t) PROVE FreshKnown'
  BY <1>7 DEF Install, Goto, FreshKnown
<1>8. ASSUME NEW t \in Tasks, RecordError(t) PROVE FreshKnown'
  BY <1>8 DEF RecordError, Done, FreshKnown
<1>9. ASSUME NEW t \in Tasks, Show(t) PROVE FreshKnown'
  BY <1>9 DEF Show, Done, Goto, TypeOK, FreshKnown
<1>10. ASSUME NEW t \in Tasks, ShowError(t) PROVE FreshKnown'
  BY <1>10 DEF ShowError, Done, FreshKnown
<1>11. ASSUME NEW t \in Tasks, TakeLock(t) PROVE FreshKnown'
  BY <1>11 DEF TakeLock, Goto, FreshKnown
<1>12. ASSUME NEW t \in Tasks, Resolve(t) PROVE FreshKnown'
  BY <1>12 DEF Resolve, Goto, FreshKnown
<1>13. ASSUME NEW t \in Tasks, ResolveFails(t) PROVE FreshKnown'
  BY <1>13 DEF ResolveFails, Done, FreshKnown
<1>14. ASSUME NEW t \in Tasks, Assign(t) PROVE FreshKnown'
  BY <1>14 DEF Assign, Goto, FreshKnown
<1>15. ASSUME NEW t \in Tasks, Truncate(t) PROVE FreshKnown'
  BY <1>15 DEF Truncate, Put, FreshKnown
<1>16. ASSUME NEW t \in Tasks, Fill(t) PROVE FreshKnown'
  BY <1>16 DEF Fill, Put, FreshKnown
<1>17. ASSUME NEW t \in Tasks, WriteFails(t) PROVE FreshKnown'
  BY <1>17 DEF WriteFails, Done, FreshKnown
<1>18. ASSUME NEW f \in Files, NEW c \in HandMade, Edit(f, c) PROVE FreshKnown'
  BY <1>18 DEF Edit, Put, FreshKnown
<1>19. CASE Crash
  BY <1>19 DEF Crash, FreshKnown
<1>20. CASE Restart
  BY <1>20 DEF Restart, FreshKnown
<1>21. CASE UNCHANGED vars
  BY <1>21 DEF FreshKnown
<1>22. QED
  BY <1>1, <1>2, <1>3, <1>4, <1>5, <1>6, <1>7, <1>8, <1>9, <1>10, <1>11, <1>12, <1>13, <1>14, <1>15, <1>16, <1>17, <1>18, <1>19, <1>20, <1>21
     DEF Next, LoadStep, ReloadStep, SetStep


\* What StaleIsExplained says of a store.
Agrees(s) ==
  LET b == IF s = Root THEN Missing ELSE disk["global"]
      o == disk[PathOf(s)] IN
    /\ Whole(o)
    /\ \/ memory[s].default = Layer(o).default
       \/ Layer(o).default = Unset /\ Whole(b) /\ memory[s].default = Merge(b, o).default

LEMMA StaleMeans ==
  StaleIsExplained <=>
    \A s \in Stores : InUse(s) /\ Unheld(s) /\ why[s] \subseteq {"swapped"} => Agrees(s)
BY DEF StaleIsExplained, Agrees

\* Layers that are still in the files agree with what is made of them.
LEMMA MergeAgrees ==
  ASSUME TypeOK, FreshKnown, NEW t \in Tasks, fresh[t], pc[t] \in {"insert", "install"},
         NEW s \in Stores, s = store[t], memory'[s] = Merge(base[t], over[t]), UNCHANGED disk
  PROVE  Agrees(s)'
<1> DEFINE b == IF s = Root THEN Missing ELSE disk["global"]
           o == disk[PathOf(s)]
<1>1. base[t] = b /\ over[t] = o
  BY DEF FreshKnown
<1>2. Whole(b) /\ Whole(o)
  BY <1>1 DEF TypeOK, Whole
<1>3. Layer(o).default # Unset => Merge(b, o).default = Layer(o).default
  BY DEF Merge
<1>4. memory'[s].default = Merge(b, o).default
  BY <1>1
<1>5. QED
  BY <1>2, <1>3, <1>4 DEF Agrees

LEMMA StaleStep == TypeOK /\ StoreKnown /\ WriteKnown /\ HeldKnown /\ FreshKnown /\ StaleIsExplained /\ [Next]_vars => StaleIsExplained'
<1> SUFFICES ASSUME TypeOK /\ StoreKnown /\ WriteKnown /\ HeldKnown /\ FreshKnown /\ StaleIsExplained, [Next]_vars PROVE StaleIsExplained'
  OBVIOUS
<1> USE DEF vars, storeVars, taskVars, history, bounds
<1>1. ASSUME NEW t \in Tasks, NEW k \in Kinds, NEW h \in Shells, Begin(t, k, h) PROVE StaleIsExplained'
  <2>1. \A s \in Stores : InUse(s)' => InUse(s)
    BY <1>1, EntryKnown DEF Begin, InUse, StoreKnown
  <2>2. QED
    BY <1>1, <2>1 DEF Begin, StaleIsExplained, Unheld
<1>2. ASSUME NEW t \in Tasks, Lookup(t) PROVE StaleIsExplained'
  <2>1. \A s \in Stores : InUse(s)' => InUse(s)
    BY <1>2, EntryKnown DEF Lookup, InUse, TypeOK
  <2>2. QED
    BY <1>2, <2>1 DEF Lookup, StaleIsExplained, Unheld
<1>3. ASSUME NEW t \in Tasks, Insert(t) PROVE StaleIsExplained'
  <2> SUFFICES ASSUME NEW s \in Stores, InUse(s)', Unheld(s)', why'[s] \subseteq {"swapped"}
              PROVE  Agrees(s)'
    BY DEF StaleIsExplained, Agrees
  <2>1. CASE s = store[t]
    <3>1. fresh[t] /\ memory'[s] = Merge(base[t], over[t]) /\ UNCHANGED disk
      BY <1>3, <2>1 DEF Insert, Adopt, TypeOK
    <3>2. QED
      BY <1>3, <2>1, <3>1, MergeAgrees DEF Insert
  <2>2. CASE s # store[t]
    <3>1. InUse(s) /\ Unheld(s) /\ why[s] \subseteq {"swapped"}
      BY <1>3, <2>2, EntryKnown DEF Insert, Adopt, Goto, InUse, Unheld
    <3>2. Agrees(s)
      BY <3>1, StaleMeans
    <3>3. QED
      BY <1>3, <2>2, <3>2 DEF Insert, Adopt, Agrees
  <2>3. QED
    BY <2>1, <2>2
<1>4. ASSUME NEW t \in Tasks, ReadBase(t) PROVE StaleIsExplained'
  <2>1. \A s \in Stores : InUse(s)' => InUse(s)
    BY <1>4, EntryKnown DEF ReadBase, InUse
  <2>2. QED
    BY <1>4, <2>1 DEF ReadBase, StaleIsExplained, Unheld
<1>5. ASSUME NEW t \in Tasks, ReadOver(t) PROVE StaleIsExplained'
  <2>1. \A s \in Stores : InUse(s)' => InUse(s)
    BY <1>5, EntryKnown DEF ReadOver, InUse
  <2>2. QED
    BY <1>5, <2>1 DEF ReadOver, StaleIsExplained, Unheld
<1>6. ASSUME NEW t \in Tasks, LoadFails(t) PROVE StaleIsExplained'
  <2>1. \A s \in Stores : InUse(s)' => InUse(s)
    BY <1>6, EntryKnown DEF LoadFails, Goto, Done, InUse, TypeOK
  <2>2. QED
    BY <1>6, <2>1 DEF LoadFails, StaleIsExplained, Unheld
<1>7. ASSUME NEW t \in Tasks, Install(t) PROVE StaleIsExplained'
  <2> SUFFICES ASSUME NEW s \in Stores, InUse(s)', Unheld(s)', why'[s] \subseteq {"swapped"}
              PROVE  Agrees(s)'
    BY DEF StaleIsExplained, Agrees
  <2>1. CASE s = store[t]
    <3>1. fresh[t] /\ memory'[s] = Merge(base[t], over[t]) /\ UNCHANGED disk
      BY <1>7, <2>1 DEF Install, Adopt, TypeOK
    <3>2. QED
      BY <1>7, <2>1, <3>1, MergeAgrees DEF Install
  <2>2. CASE s # store[t]
    <3>1. InUse(s) /\ Unheld(s) /\ why[s] \subseteq {"swapped"}
      BY <1>7, <2>2, EntryKnown DEF Install, Adopt, Goto, InUse, Unheld
    <3>2. Agrees(s)
      BY <3>1, StaleMeans
    <3>3. QED
      BY <1>7, <2>2, <3>2 DEF Install, Adopt, Agrees
  <2>3. QED
    BY <2>1, <2>2
<1>8. ASSUME NEW t \in Tasks, RecordError(t) PROVE StaleIsExplained'
  <2>1. \A s \in Stores : InUse(s)' => InUse(s)
    BY <1>8, EntryKnown DEF RecordError, Done, InUse
  <2>2. QED
    BY <1>8, <2>1 DEF RecordError, StaleIsExplained, Unheld
<1>9. ASSUME NEW t \in Tasks, Show(t) PROVE StaleIsExplained'
  <2>1. \A s \in Stores : InUse(s)' => InUse(s)
    BY <1>9, EntryKnown DEF Show, Goto, Done, InUse, TypeOK
  <2>2. QED
    BY <1>9, <2>1 DEF Show, StaleIsExplained, Unheld
<1>10. ASSUME NEW t \in Tasks, ShowError(t) PROVE StaleIsExplained'
  <2>1. \A s \in Stores : InUse(s)' => InUse(s)
    BY <1>10, EntryKnown DEF ShowError, Done, InUse
  <2>2. QED
    BY <1>10, <2>1 DEF ShowError, StaleIsExplained, Unheld
<1>11. ASSUME NEW t \in Tasks, TakeLock(t) PROVE StaleIsExplained'
  <2>1. \A s \in Stores : InUse(s)' => InUse(s)
    BY <1>11, EntryKnown DEF TakeLock, Goto, InUse
  <2>2. QED
    BY <1>11, <2>1 DEF TakeLock, StaleIsExplained, Unheld
<1>12. ASSUME NEW t \in Tasks, Resolve(t) PROVE StaleIsExplained'
  <2>1. \A s \in Stores : InUse(s)' => InUse(s)
    BY <1>12, EntryKnown DEF Resolve, Goto, InUse
  <2>2. QED
    BY <1>12, <2>1 DEF Resolve, StaleIsExplained, Unheld
<1>13. ASSUME NEW t \in Tasks, ResolveFails(t) PROVE StaleIsExplained'
  <2>1. \A s \in Stores : InUse(s)' => InUse(s)
    BY <1>13, EntryKnown DEF ResolveFails, Done, InUse
  <2>2. QED
    BY <1>13, <2>1 DEF ResolveFails, StaleIsExplained, Unheld
<1>14. ASSUME NEW t \in Tasks, Assign(t) PROVE StaleIsExplained'
  BY <1>14, SettingsAssumption DEF Assign, Goto, TypeOK, StaleIsExplained, InUse, Unheld
<1>15. ASSUME NEW t \in Tasks, Truncate(t) PROVE StaleIsExplained'
  <2> SUFFICES ASSUME NEW s \in Stores, InUse(s)', Unheld(s)', why'[s] \subseteq {"swapped"}
              PROVE  Agrees(s)'
    BY DEF StaleIsExplained, Agrees
  <2>1. InUse(s) /\ Unheld(s) /\ s # store[t]
    BY <1>15, SettingsAssumption DEF Truncate, Goto, InUse, Unheld, WriteKnown
  <2>2. s \notin ReadersOf(PathOf(store[t])) /\ why'[s] = why[s]
    <3>1. why'[s] = IF s \in ReadersOf(PathOf(store[t])) THEN why[s] \cup {"other"} ELSE why[s]
      BY <1>15, <2>1 DEF Truncate, Put
    <3>2. QED
      BY <3>1
  <2>3. s = Root /\ PathOf(store[t]) = "workspace"
    BY <2>2 DEF ReadersOf, PathOf, Stores
  <2>4. Agrees(s)
    BY <2>1, <2>2, StaleMeans
  <2>5. QED
    BY <1>15, <2>3, <2>4 DEF Truncate, Put, Agrees, PathOf, Files
<1>16. ASSUME NEW t \in Tasks, Fill(t) PROVE StaleIsExplained'
  <2> SUFFICES ASSUME NEW s \in Stores, InUse(s)', Unheld(s)', why'[s] \subseteq {"swapped"}
              PROVE  Agrees(s)'
    BY DEF StaleIsExplained, Agrees
  <2>1. CASE s = store[t]
    <3>1. memory[s] \in Values /\ Whole(memory[s]) /\ Layer(memory[s]) = memory[s]
      BY FileAssumption DEF TypeOK, Values, Whole, Layer
    <3>2. disk'[PathOf(s)] = memory[s] /\ UNCHANGED memory
      BY <1>16, <2>1, PathType DEF Fill, Put, TypeOK
    <3>3. QED
      BY <3>1, <3>2 DEF Agrees
  <2>2. CASE s # store[t]
    <3>1. InUse(s) /\ Unheld(s)
      BY <1>16, <2>2 DEF Fill, Done, InUse, Unheld
    <3>2. s \notin ReadersOf(PathOf(store[t])) /\ why'[s] = why[s]
      <4>1. why'[s] = IF s \in ReadersOf(PathOf(store[t])) THEN why[s] \cup {"other"} ELSE why[s]
        BY <1>16, <2>2 DEF Fill, Put
      <4>2. QED
        BY <4>1
    <3>3. s = Root /\ PathOf(store[t]) = "workspace"
      BY <3>2 DEF ReadersOf, PathOf, Stores
    <3>4. Agrees(s)
      BY <3>1, <3>2, StaleMeans
    <3>5. QED
      BY <1>16, <3>3, <3>4 DEF Fill, Put, Agrees, PathOf, Files
  <2>3. QED
    BY <2>1, <2>2
<1>17. ASSUME NEW t \in Tasks, WriteFails(t) PROVE StaleIsExplained'
  BY <1>17 DEF WriteFails, Done, WriteKnown, StaleIsExplained, InUse, Unheld, PathOf
<1>18. ASSUME NEW f \in Files, NEW c \in HandMade, Edit(f, c) PROVE StaleIsExplained'
  <2> SUFFICES ASSUME NEW s \in Stores, InUse(s)', Unheld(s)', why'[s] \subseteq {"swapped"}
              PROVE  Agrees(s)'
    BY DEF StaleIsExplained, Agrees
  <2>1. InUse(s) /\ Unheld(s) /\ s # Nobody
    BY <1>18, SettingsAssumption DEF Edit, InUse, Unheld, Stores, Slots, Root
  <2>2. s \notin ReadersOf(f) /\ why'[s] = why[s]
    <3>1. why'[s] = IF s \in ReadersOf(f) THEN why[s] \cup {"edit"} ELSE why[s]
      BY <1>18, <2>1 DEF Edit, Put
    <3>2. QED
      BY <3>1
  <2>3. s = Root /\ f = "workspace"
    BY <2>2 DEF ReadersOf, Stores, Files
  <2>4. Agrees(s)
    BY <2>1, <2>2, StaleMeans
  <2>5. QED
    BY <1>18, <2>3, <2>4 DEF Edit, Put, Agrees, PathOf, Files
<1>19. CASE Crash
  <2> SUFFICES ASSUME NEW s \in Stores, InUse(s)', Unheld(s)', why'[s] \subseteq {"swapped"}
              PROVE  Agrees(s)'
    BY DEF StaleIsExplained, Agrees
  <2>1. s = Root /\ UNCHANGED disk /\ memory'[s] = memory[s] /\ why'[s] = why[s]
    BY <1>19, SettingsAssumption DEF Crash, InUse, Stores, Slots
  <2>2. Agrees(s)
    <3>1. Unheld(s)
      BY <2>1 DEF Unheld, HeldKnown, WriteKnown, TypeOK
    <3>2. QED
      BY <2>1, <3>1, StaleMeans DEF InUse
  <2>3. QED
    BY <2>1, <2>2 DEF Agrees
<1>20. CASE Restart
  <2> SUFFICES ASSUME NEW s \in Stores, InUse(s)', Unheld(s)', why'[s] \subseteq {"swapped"}
              PROVE  Agrees(s)'
    BY DEF StaleIsExplained, Agrees
  <2>1. CASE s = Root
    <3>1. memory'[s] = Merge(Missing, disk["global"]) /\ UNCHANGED disk /\ Whole(disk["global"])
      BY <1>20, <2>1 DEF Restart, Loadable, TypeOK
    <3>2. QED
      <4>1. Layer(disk["global"]).default # Unset => memory'[s].default = Layer(disk["global"]).default
        BY <3>1 DEF Merge
      <4>2. Whole(Missing)
        BY SettingsAssumption DEF Whole
      <4>3. QED
        BY <2>1, <3>1, <4>1, <4>2 DEF Agrees, PathOf
  <2>2. CASE s # Root
    <3>1. InUse(s) /\ Unheld(s) /\ why[s] \subseteq {"swapped"}
      BY <1>20, <2>2 DEF Restart, InUse, Unheld
    <3>2. Agrees(s)
      BY <3>1, StaleMeans
    <3>3. QED
      BY <1>20, <2>2, <3>2 DEF Restart, Agrees
  <2>3. QED
    BY <2>1, <2>2
<1>21. CASE UNCHANGED vars
  BY <1>21 DEF StaleIsExplained, InUse, Unheld
<1>22. QED
  BY <1>1, <1>2, <1>3, <1>4, <1>5, <1>6, <1>7, <1>8, <1>9, <1>10, <1>11, <1>12, <1>13, <1>14, <1>15, <1>16, <1>17, <1>18, <1>19, <1>20, <1>21
     DEF Next, LoadStep, ReloadStep, SetStep


-----------------------------------------------------------------------------
(* Profiles *)

\* Without an edit there are two sets of profiles, R for the root store and Q for
\* the stores of the directory: the stores have them, and the files, the layers
\* that were read and the built-in profile make them up.
ProfilesAre(R, Q) ==
  /\ AutoShell \in R /\ R \subseteq Q
  /\ memory[Root].profiles = R
  /\ \A s \in Slots : InUse(s) => memory[s].profiles = Q
  /\ Whole(disk["global"]) => Layer(disk["global"]).profiles \cup {AutoShell} = R
  /\ Whole(disk["workspace"]) => Layer(disk["workspace"]).profiles \cup R = Q
  /\ \A t \in Tasks :
       /\ pc[t] \in {"loadOver", "readOver", "insert", "install"} =>
            IF store[t] = Root THEN base[t] = Missing
            ELSE Layer(base[t]).profiles \cup {AutoShell} = R
       /\ pc[t] \in {"insert", "install"} =>
            IF store[t] = Root THEN Layer(over[t]).profiles \cup {AutoShell} = R
            ELSE Layer(over[t]).profiles \cup R = Q

ProfilesKnown == edits = 0 => \E R, Q \in SUBSET Shells : ProfilesAre(R, Q)

\* Every request keeps the layers it has read, or has none.
LayersStay ==
  \A u \in Tasks :
    \/ pc'[u] \notin {"loadOver", "readOver", "insert", "install"}
    \/ /\ pc'[u] = pc[u] /\ store'[u] = store[u]
       /\ base'[u] = base[u] /\ over'[u] = over[u]

\* A step that leaves the stores and the files alone.
LEMMA ProfilesStay ==
  ASSUME NEW R, NEW Q, ProfilesAre(R, Q), UNCHANGED disk, LayersStay,
         memory'[Root].profiles = memory[Root].profiles,
         \A s \in Slots : InUse(s)' => InUse(s) /\ memory'[s].profiles = memory[s].profiles
  PROVE  ProfilesAre(R, Q)'
BY DEF ProfilesAre, LayersStay

\* What an insertion or a reload makes of the layers.
LEMMA AdoptProfiles ==
  ASSUME TypeOK, NEW R, NEW Q, ProfilesAre(R, Q), NEW t \in Tasks,
         pc[t] \in {"insert", "install"}, Adopt(t)
  PROVE  /\ memory'[store[t]].profiles = IF store[t] = Root THEN R ELSE Q
         /\ \A s \in Stores \ {store[t]} : memory'[s] = memory[s]
<1>1. memory'[store[t]] = Merge(base[t], over[t]) /\ \A s \in Stores \ {store[t]} : memory'[s] = memory[s]
  BY DEF Adopt, TypeOK
<1>2. Merge(base[t], over[t]).profiles = Layer(base[t]).profiles \cup Layer(over[t]).profiles \cup {AutoShell}
  BY DEF Merge
<1>3. CASE store[t] = Root
  <2>1. Layer(base[t]).profiles = {}
    BY <1>3 DEF ProfilesAre, Layer, Blank
  <2>2. QED
    BY <1>1, <1>2, <1>3, <2>1 DEF ProfilesAre
<1>4. CASE store[t] # Root
  BY <1>1, <1>2, <1>4 DEF ProfilesAre
<1>5. QED
  BY <1>3, <1>4

LEMMA ProfilesStep ==
  ASSUME TypeOK, StoreKnown, NEW R, NEW Q, ProfilesAre(R, Q), [Next]_vars, edits' = 0
  PROVE  ProfilesAre(R, Q)'
<1> USE DEF vars, storeVars, taskVars, history, bounds
<1>1. ASSUME NEW t \in Tasks, NEW k \in Kinds, NEW h \in Shells, Begin(t, k, h) PROVE ProfilesAre(R, Q)'
  <2>1. pc'[t] \in {"lookup", "lock", "readBase", "show"}
    BY <1>1, BeginEntry DEF TypeOK
  <2>2. LayersStay
    BY <1>1, <2>1 DEF Begin, LayersStay
  <2>3. \A s \in Slots : InUse(s)' => InUse(s)
    BY <1>1 DEF Begin, InUse, StoreKnown, Slots, Root
  <2>4. QED
    BY <1>1, <2>2, <2>3, ProfilesStay DEF Begin
<1>2. ASSUME NEW t \in Tasks, Lookup(t) PROVE ProfilesAre(R, Q)'
  <2>1. LayersStay
    <3>1. pc'[t] \in {"lock", "readBase", "show", "loadBase"}
      BY <1>2, EntryKnown DEF Lookup, TypeOK
    <3>2. QED
      BY <1>2, <3>1 DEF Lookup, TypeOK, LayersStay
  <2>2. \A s \in Slots : InUse(s)' => InUse(s)
    BY <1>2, EntryKnown DEF Lookup, TypeOK, InUse, Stores, Slots, Root
  <2>3. QED
    BY <1>2, <2>1, <2>2, ProfilesStay DEF Lookup
<1>3. ASSUME NEW t \in Tasks, Insert(t) PROVE ProfilesAre(R, Q)'
  <2>1. /\ memory'[store[t]].profiles = IF store[t] = Root THEN R ELSE Q
        /\ \A s \in Stores \ {store[t]} : memory'[s] = memory[s]
    BY <1>3, AdoptProfiles DEF Insert
  <2>2. LayersStay
    BY <1>3, EntryKnown DEF Insert, Goto, TypeOK, LayersStay
  <2>3. \A s \in Slots : InUse(s)' => InUse(s) \/ s = store[t]
    BY <1>3, EntryKnown DEF Insert, Goto, TypeOK, InUse, Slots, Root
  <2>4. memory'[Root].profiles = R /\ \A s \in Slots : InUse(s)' => memory'[s].profiles = Q
    BY <2>1, <2>3 DEF ProfilesAre, Stores, Slots, Root
  <2>5. QED
    BY <1>3, <2>2, <2>4 DEF Insert, ProfilesAre, LayersStay
<1>4. ASSUME NEW t \in Tasks, ReadBase(t) PROVE ProfilesAre(R, Q)'
  <2>1. \A s \in Slots : InUse(s)' => InUse(s)
    BY <1>4 DEF ReadBase, InUse
  <2>2. \A u \in Tasks \ {t} : pc'[u] = pc[u] /\ base'[u] = base[u]
    BY <1>4 DEF ReadBase
  <2>3. IF store[t] = Root THEN base'[t] = Missing ELSE Layer(base'[t]).profiles \cup {AutoShell} = R
    BY <1>4 DEF ReadBase, TypeOK, ProfilesAre
  <2>4. pc'[t] \notin {"insert", "install"}
    BY <1>4 DEF ReadBase, TypeOK
  <2>5. QED
    BY <1>4, <2>1, <2>2, <2>3, <2>4 DEF ReadBase, ProfilesAre
<1>5. ASSUME NEW t \in Tasks, ReadOver(t) PROVE ProfilesAre(R, Q)'
  <2>1. \A s \in Slots : InUse(s)' => InUse(s)
    BY <1>5 DEF ReadOver, InUse
  <2>2. \A u \in Tasks \ {t} : pc'[u] = pc[u] /\ over'[u] = over[u]
    BY <1>5 DEF ReadOver
  <2>3. IF store[t] = Root THEN Layer(over'[t]).profiles \cup {AutoShell} = R
                            ELSE Layer(over'[t]).profiles \cup R = Q
    BY <1>5 DEF ReadOver, TypeOK, ProfilesAre, PathOf
  <2>4. pc[t] \in {"loadOver", "readOver"}
    BY <1>5 DEF ReadOver
  <2>5. QED
    BY <1>5, <2>1, <2>2, <2>3, <2>4 DEF ReadOver, ProfilesAre
<1>6. ASSUME NEW t \in Tasks, LoadFails(t) PROVE ProfilesAre(R, Q)'
  <2>1. LayersStay
    BY <1>6, EntryKnown DEF LoadFails, Goto, Done, TypeOK, LayersStay
  <2>2. \A s \in Slots : InUse(s)' => InUse(s)
    BY <1>6, EntryKnown DEF LoadFails, Goto, Done, TypeOK, InUse, Stores, Slots, Root
  <2>3. QED
    BY <1>6, <2>1, <2>2, ProfilesStay DEF LoadFails
<1>7. ASSUME NEW t \in Tasks, Install(t) PROVE ProfilesAre(R, Q)'
  <2>1. /\ memory'[store[t]].profiles = IF store[t] = Root THEN R ELSE Q
        /\ \A s \in Stores \ {store[t]} : memory'[s] = memory[s]
    BY <1>7, AdoptProfiles DEF Install
  <2>2. LayersStay
    BY <1>7, EntryKnown DEF Install, Goto, TypeOK, LayersStay
  <2>3. \A s \in Slots : InUse(s)' => InUse(s) \/ s = store[t]
    BY <1>7, EntryKnown DEF Install, Goto, TypeOK, InUse, Slots, Root
  <2>4. memory'[Root].profiles = R /\ \A s \in Slots : InUse(s)' => memory'[s].profiles = Q
    BY <2>1, <2>3 DEF ProfilesAre, Stores, Slots, Root
  <2>5. QED
    BY <1>7, <2>2, <2>4 DEF Install, ProfilesAre, LayersStay
<1>8. ASSUME NEW t \in Tasks, RecordError(t) PROVE ProfilesAre(R, Q)'
  <2>1. LayersStay
    BY <1>8, EntryKnown DEF RecordError, Done, TypeOK, LayersStay
  <2>2. \A s \in Slots : InUse(s)' => InUse(s)
    BY <1>8, EntryKnown DEF RecordError, Done, TypeOK, InUse, Stores, Slots, Root
  <2>3. QED
    BY <1>8, <2>1, <2>2, ProfilesStay DEF RecordError
<1>9. ASSUME NEW t \in Tasks, Show(t) PROVE ProfilesAre(R, Q)'
  <2>1. LayersStay
    BY <1>9, EntryKnown DEF Show, Goto, Done, TypeOK, LayersStay
  <2>2. \A s \in Slots : InUse(s)' => InUse(s)
    BY <1>9, EntryKnown DEF Show, Goto, Done, TypeOK, InUse, Stores, Slots, Root
  <2>3. QED
    BY <1>9, <2>1, <2>2, ProfilesStay DEF Show
<1>10. ASSUME NEW t \in Tasks, ShowError(t) PROVE ProfilesAre(R, Q)'
  <2>1. LayersStay
    BY <1>10, EntryKnown DEF ShowError, Done, TypeOK, LayersStay
  <2>2. \A s \in Slots : InUse(s)' => InUse(s)
    BY <1>10, EntryKnown DEF ShowError, Done, TypeOK, InUse, Stores, Slots, Root
  <2>3. QED
    BY <1>10, <2>1, <2>2, ProfilesStay DEF ShowError
<1>11. ASSUME NEW t \in Tasks, TakeLock(t) PROVE ProfilesAre(R, Q)'
  <2>1. LayersStay
    BY <1>11, EntryKnown DEF TakeLock, Goto, TypeOK, LayersStay
  <2>2. \A s \in Slots : InUse(s)' => InUse(s)
    BY <1>11, EntryKnown DEF TakeLock, Goto, TypeOK, InUse, Stores, Slots, Root
  <2>3. QED
    BY <1>11, <2>1, <2>2, ProfilesStay DEF TakeLock
<1>12. ASSUME NEW t \in Tasks, Resolve(t) PROVE ProfilesAre(R, Q)'
  <2>1. LayersStay
    BY <1>12, EntryKnown DEF Resolve, Goto, TypeOK, LayersStay
  <2>2. \A s \in Slots : InUse(s)' => InUse(s)
    BY <1>12, EntryKnown DEF Resolve, Goto, TypeOK, InUse, Stores, Slots, Root
  <2>3. QED
    BY <1>12, <2>1, <2>2, ProfilesStay DEF Resolve
<1>13. ASSUME NEW t \in Tasks, ResolveFails(t) PROVE ProfilesAre(R, Q)'
  <2>1. LayersStay
    BY <1>13, EntryKnown DEF ResolveFails, Done, TypeOK, LayersStay
  <2>2. \A s \in Slots : InUse(s)' => InUse(s)
    BY <1>13, EntryKnown DEF ResolveFails, Done, TypeOK, InUse, Stores, Slots, Root
  <2>3. QED
    BY <1>13, <2>1, <2>2, ProfilesStay DEF ResolveFails
<1>14. ASSUME NEW t \in Tasks, Assign(t) PROVE ProfilesAre(R, Q)'
  <2>1. LayersStay
    BY <1>14, EntryKnown DEF Assign, Goto, TypeOK, LayersStay
  <2>2. \A s \in Slots : InUse(s)' => InUse(s)
    BY <1>14, EntryKnown DEF Assign, Goto, TypeOK, InUse, Stores, Slots, Root
  <2>3. \A s \in Stores : memory'[s].profiles = memory[s].profiles
    BY <1>14 DEF Assign, TypeOK
  <2>4. QED
    BY <1>14, <2>1, <2>2, <2>3, ProfilesStay DEF Assign, Stores, Root
<1>15. ASSUME NEW t \in Tasks, Truncate(t) PROVE ProfilesAre(R, Q)'
  <2>1. LayersStay
    BY <1>15 DEF Truncate, Goto, Done, TypeOK, LayersStay
  <2>2. \A s \in Slots : InUse(s)' => InUse(s)
    BY <1>15 DEF Truncate, Goto, Done, TypeOK, InUse, Stores, Slots, Root
  <2>3. \A f \in Files : Whole(disk'[f]) => disk'[f] = disk[f]
    BY <1>15 DEF Truncate, Put, Whole, TypeOK
  <2>4. QED
    BY <1>15, <2>1, <2>2, <2>3 DEF Truncate, ProfilesAre, LayersStay, Files
<1>16. ASSUME NEW t \in Tasks, Fill(t) PROVE ProfilesAre(R, Q)'
  <2>1. LayersStay
    BY <1>16 DEF Fill, Goto, Done, TypeOK, LayersStay
  <2>2. \A s \in Slots : InUse(s)' => InUse(s)
    BY <1>16 DEF Fill, Goto, Done, TypeOK, InUse, Stores, Slots, Root
  <2>3. /\ Whole(disk'["global"]) => Layer(disk'["global"]).profiles \cup {AutoShell} = R
        /\ Whole(disk'["workspace"]) => Layer(disk'["workspace"]).profiles \cup R = Q
    <3>1. memory[store[t]] \in Settled /\ Layer(memory[store[t]]) = memory[store[t]]
      BY FileAssumption DEF TypeOK, Settled, Values, Layer
    <3>2. memory[store[t]].profiles = IF store[t] = Root THEN R ELSE Q
      BY <1>16 DEF Fill, ProfilesAre, InUse, TypeOK, Stores
    <3>3. disk' = [disk EXCEPT ![PathOf(store[t])] = memory[store[t]]]
      BY <1>16 DEF Fill, Put
    <3>4. QED
      BY <3>1, <3>2, <3>3 DEF ProfilesAre, TypeOK, PathOf, Files
  <2>4. QED
    BY <1>16, <2>1, <2>2, <2>3 DEF Fill, ProfilesAre, LayersStay, Files
<1>17. ASSUME NEW t \in Tasks, WriteFails(t) PROVE ProfilesAre(R, Q)'
  <2>1. LayersStay
    BY <1>17, EntryKnown DEF WriteFails, Done, TypeOK, LayersStay
  <2>2. \A s \in Slots : InUse(s)' => InUse(s)
    BY <1>17, EntryKnown DEF WriteFails, Done, TypeOK, InUse, Stores, Slots, Root
  <2>3. QED
    BY <1>17, <2>1, <2>2, ProfilesStay DEF WriteFails
<1>18. ASSUME NEW f \in Files, NEW c \in HandMade, Edit(f, c) PROVE ProfilesAre(R, Q)'
  BY <1>18 DEF Edit, TypeOK
<1>19. CASE Crash
  <2>1. LayersStay
    BY <1>19 DEF Crash, LayersStay
  <2>2. \A s \in Slots : ~InUse(s)'
    BY <1>19, SettingsAssumption DEF Crash, InUse, Slots, Root
  <2>3. QED
    BY <1>19, <2>1, <2>2, ProfilesStay DEF Crash, Stores
<1>20. CASE Restart
  <2>1. LayersStay
    BY <1>20 DEF Restart, LayersStay
  <2>2. memory'[Root] = Merge(Missing, disk["global"])
    BY <1>20 DEF Restart, TypeOK, Stores
  <2>3. memory'[Root].profiles = Layer(Missing).profiles \cup Layer(disk["global"]).profiles \cup {AutoShell}
    BY <2>2 DEF Merge
  <2>4. memory'[Root].profiles = R
    BY <1>20, <2>3 DEF Restart, Loadable, Layer, Blank, ProfilesAre
  <2>5. \A s \in Slots : memory'[s] = memory[s]
    BY <1>20 DEF Restart, TypeOK, Stores, Slots, Root
  <2>6. QED
    BY <1>20, <2>1, <2>4, <2>5, ProfilesStay DEF Restart, InUse, ProfilesAre
<1>21. CASE UNCHANGED vars
  BY <1>21 DEF ProfilesAre, InUse
<1>22. QED
  BY <1>1, <1>2, <1>3, <1>4, <1>5, <1>6, <1>7, <1>8, <1>9, <1>10, <1>11, <1>12, <1>13, <1>14, <1>15, <1>16, <1>17, <1>18, <1>19, <1>20, <1>21
     DEF Next, LoadStep, ReloadStep, SetStep

-----------------------------------------------------------------------------

\* The inductive invariant.
SettingsInv ==
  /\ TypeOK /\ StoreKnown /\ ReadKnown /\ AssignKnown /\ WriteKnown /\ HeldKnown /\ FreshKnown
  /\ ServedIsConfigured /\ StaleIsExplained

LEMMA SettingsInit == Init => SettingsInv
<1> SUFFICES ASSUME Init PROVE SettingsInv
  OBVIOUS
<1> USE DEF Init
<1>1. /\ Missing \in Contents \ {Torn} /\ Root \in Stores /\ AutoShell \in Shells
      /\ disk["global"] \in Contents \ {Torn}
  BY SettingsAssumption, FileAssumption DEF Contents, Values, Stores, Files
<1>2. \A s \in Stores : memory[s] = Merge(Missing, disk["global"]) /\ memory[s] \in Settled
  BY <1>1, MergeType
<1>3. disk \in [Files -> Contents]
  BY DEF Contents, Values
<1>4. TypeOK
  BY <1>1, <1>2, <1>3, SettingsAssumption DEF TypeOK, Settled, Steps, AllKinds
<1>5. StoreKnown /\ ReadKnown /\ AssignKnown /\ WriteKnown /\ HeldKnown /\ FreshKnown
  BY DEF StoreKnown, ReadKnown, AssignKnown, WriteKnown, HeldKnown, FreshKnown, Loading
<1>6. \A s \in Stores : InUse(s) => s = Root
  BY SettingsAssumption DEF InUse, Stores, Slots
<1>7. Valid(memory[Root])
  BY <1>1, <1>2, FileAssumption DEF Valid, Merge, Layer, Blank, Files, Values
<1>8. Agrees(Root)
  BY <1>1, <1>2, FileAssumption DEF Agrees, PathOf, Whole, Merge, Layer, Contents
<1>9. Loadable(disk["global"])
  BY <1>1, <1>2, <1>7, FileAssumption DEF Loadable, Whole, Stores
<1>10. ServedIsConfigured /\ StaleIsExplained
  BY <1>6, <1>7, <1>8, <1>9, StaleMeans DEF ServedIsConfigured
<1>11. QED
  BY <1>4, <1>5, <1>10 DEF SettingsInv

LEMMA SettingsStep == SettingsInv /\ [Next]_vars => SettingsInv'
BY TypeStep, StoreStep, ReadStep, AssignStep, WriteStep, HeldStep, FreshStep, ServedStep, StaleStep
   DEF SettingsInv

LEMMA SettingsInvHolds == Spec => []SettingsInv
BY SettingsInit, SettingsStep, PTL DEF Spec

\* Files, stores and requests keep their types.
THEOREM SettingsTypes == Spec => []TypeOK
<1>1. SettingsInv => TypeOK
  BY DEF SettingsInv
<1>2. QED
  BY <1>1, SettingsInvHolds, PTL

\* A store never serves a default shell without a profile, and the file never
\* keeps the next executor from starting, but for the races and the cut writes
\* that the property names.
THEOREM ServedIsAlwaysConfigured == Spec => []ServedIsConfigured
<1>1. SettingsInv => ServedIsConfigured
  BY DEF SettingsInv
<1>2. QED
  BY <1>1, SettingsInvHolds, PTL

\* Memory and files name the same default shell but for the reasons recorded.
THEOREM DriftIsExplained == Spec => []StaleIsExplained
<1>1. SettingsInv => StaleIsExplained
  BY DEF SettingsInv
<1>2. QED
  BY <1>1, SettingsInvHolds, PTL

\* Only an edit changes their number, and it makes it positive.
LEMMA EditsStep ==
  ASSUME TypeOK, [Next]_vars, edits' = 0
  PROVE  edits = 0
<1> USE DEF bounds
<1>1. ASSUME NEW t \in Tasks, NEW k \in Kinds, NEW h \in Shells, Begin(t, k, h) PROVE edits' = edits
  BY <1>1 DEF Begin
<1>2. ASSUME NEW t \in Tasks, LoadStep(t) PROVE edits' = edits
  BY <1>2 DEF LoadStep, Lookup, Insert, ReadBase, ReadOver, LoadFails
<1>3. ASSUME NEW t \in Tasks, ReloadStep(t) PROVE edits' = edits
  BY <1>3 DEF ReloadStep, Install, RecordError, Show, ShowError
<1>4. ASSUME NEW t \in Tasks, SetStep(t) \/ TakeLock(t) PROVE edits' = edits
  BY <1>4 DEF SetStep, TakeLock, Resolve, ResolveFails, Assign, Truncate, Fill, WriteFails
<1>5. ASSUME NEW f \in Files, NEW c \in HandMade, Edit(f, c) PROVE FALSE
  BY <1>5 DEF Edit, TypeOK
<1>6. CASE Crash \/ Restart \/ UNCHANGED vars
  BY <1>6 DEF Crash, Restart, vars
<1>7. QED
  BY <1>1, <1>2, <1>3, <1>4, <1>5, <1>6 DEF Next

LEMMA ProfilesInit == Init => ProfilesKnown
<1> SUFFICES ASSUME Init PROVE ProfilesKnown
  OBVIOUS
<1> DEFINE R == Layer(disk["global"]).profiles \cup {AutoShell}
           Q == Layer(disk["workspace"]).profiles \cup R
<1>1. disk["global"] \in Contents \ {Torn} /\ disk["workspace"] \in Contents \ {Torn}
  BY SettingsAssumption, FileAssumption DEF Init, Files, Contents, Values
<1>2. R \in SUBSET Shells /\ Q \in SUBSET Shells
  BY <1>1, SettingsAssumption DEF Layer, Contents, Values, Blank
<1>3. memory[Root].profiles = R
  BY DEF Init, Merge, Layer, Blank, Stores
<1>4. \A s \in Slots : ~InUse(s)
  BY SettingsAssumption DEF Init, InUse, Slots, Root
<1>5. ProfilesAre(R, Q)
  BY <1>3, <1>4 DEF Init, ProfilesAre
<1>6. QED
  BY <1>2, <1>5 DEF ProfilesKnown

LEMMA ProfilesKnownStep == SettingsInv /\ ProfilesKnown /\ [Next]_vars => ProfilesKnown'
<1> SUFFICES ASSUME SettingsInv, ProfilesKnown, [Next]_vars, edits' = 0
             PROVE  \E R, Q \in SUBSET Shells : ProfilesAre(R, Q)'
  BY DEF ProfilesKnown
<1>1. PICK R, Q \in SUBSET Shells : ProfilesAre(R, Q)
  BY EditsStep DEF SettingsInv, ProfilesKnown
<1>2. ProfilesAre(R, Q)'
  BY <1>1, ProfilesStep DEF SettingsInv
<1>3. QED
  BY <1>2

LEMMA ProfilesInvHolds == Spec => []ProfilesKnown
BY ProfilesInit, ProfilesKnownStep, SettingsInvHolds, PTL DEF Spec

\* As long as nobody edits a file by hand, no step takes a profile away from a
\* store that is in use before and after it.
THEOREM ProfilesAlwaysKept == Spec => ProfilesKept
<1>1. ASSUME SettingsInv, ProfilesKnown, [Next]_vars, edits' = 0,
             NEW s \in Stores, InUse(s), InUse(s)'
      PROVE  memory[s].profiles \subseteq memory'[s].profiles
  <2>1. PICK R, Q \in SUBSET Shells : ProfilesAre(R, Q)
    BY <1>1, EditsStep DEF SettingsInv, ProfilesKnown
  <2>2. ProfilesAre(R, Q)'
    BY <1>1, <2>1, ProfilesStep DEF SettingsInv
  <2>3. s = Root \/ s \in Slots
    BY DEF Stores
  <2>4. QED
    BY <1>1, <2>1, <2>2, <2>3 DEF ProfilesAre
<1>2. SettingsInv /\ ProfilesKnown /\ [Next]_vars =>
        [ edits' = 0 =>
            \A s \in Stores : InUse(s) /\ InUse(s)' =>
              memory[s].profiles \subseteq memory'[s].profiles ]_vars
  BY <1>1
<1>3. QED
  BY <1>2, SettingsInvHolds, ProfilesInvHolds, PTL DEF Spec, ProfilesKept
=============================================================================
