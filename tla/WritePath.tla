------------------------------ MODULE WritePath ------------------------------
(***************************************************************************)
(* How a write reaches a file: the write gate of each Caller (try_lock),   *)
(* the websocket call with its timeout, the write lock of the Executor (a  *)
(* FIFO tokio mutex shared with the uploads), and the FileAction handlers, *)
(* which read, check and write the file in separate system calls.  The     *)
(* read tool and the commands exbash runs take no lock at all.             *)
(***************************************************************************)
EXTENDS Naturals, Sequences

CONSTANTS Callers,    \* caller processes in front of one executor
          Requests,   \* write requests, each made once
          Readers,    \* read calls with hashCheckMode, each repeatable
          Edits,      \* changes made behind the executor's back, each made once
          Files, Kinds,
          Missing,    \* no file at this path
          Empty,      \* a truncated file
          Nobody

AllKinds == {"patch", "create", "delete", "rename", "upload"}

ASSUME WriteAssumption ==
  /\ Kinds \subseteq AllKinds
  /\ Requests \cap Edits = {}
  /\ Files # {}
  /\ Missing # Empty
  /\ Missing \notin Requests \cup Edits /\ Empty \notin Requests \cup Edits
  /\ Nobody \notin Requests \cup Callers

VARIABLES
  gate,      \* Caller::write_lock: the write each caller is busy with
  line,      \* the tasks waiting for Executor::write_lock, in order
  holder,    \* the task that has it
  file,      \* what each path holds: the request or edit that wrote it
  stage,     \* where each request is
  op, via, base,        \* what it asks, its caller, the content it has read
  result, answer,       \* what the executor said, what the client was told
  reader,    \* the read calls under way
  notes,     \* what clients know: a hash together with the content shown
  edits,     \* the edits still to come
  applied,   \* history: the requests that changed a file
  lost,      \* history: contents overwritten by a request that had not read them
  moved      \* history: contents that a rename put under another path

fileVars  == <<file, edits, applied, lost, moved>>
lockVars  == <<line, holder>>
readVars  == <<reader, notes>>
clientVars == <<gate, op, via, answer>>
vars == <<clientVars, lockVars, fileVars, readVars, stage, base, result>>

Contents == Requests \cup Edits \cup {Missing, Empty}
Texts    == Contents \ {Missing}
Ops      == [kind : AllKinds, file : Files, to : Files, strict : BOOLEAN,
             hash : Contents, seen : Contents]
Notes    == [file : Files, hash : Texts, content : Texts]

SomeFile == CHOOSE f \in Files : TRUE
NoOp   == [kind |-> "patch", file |-> SomeFile, to |-> SomeFile, strict |-> FALSE,
           hash |-> Missing, seen |-> Missing]
NoRead == [on |-> FALSE, file |-> SomeFile, hash |-> Empty]

\* What the executor process loses when it dies.
Remote  == {"sent", "queued", "checking", "ready", "filling", "replied"}
Inside  == {"checking", "ready", "filling"}
Stages  == Remote \cup {"new", "gone", "over"}

-----------------------------------------------------------------------------
(* Steps that several handlers share *)

\* The handler returns: the guard is dropped, then the response is sent.
Finish(r, outcome) ==
  /\ stage' = [stage EXCEPT ![r] = "replied"]
  /\ result' = [result EXCEPT ![r] = outcome]
  /\ holder' = Nobody

\* What r would overwrite without having read it.
Unread(r, f) == {c \in {file[f]} : c \notin {Missing, Empty, base[r]}}

\* The knowledge a client takes from a successful answer with a hashCode.
Learned(r) ==
  {n \in Notes : /\ result[r] = "ok" /\ op[r].strict
                 /\ \/ /\ op[r].kind \in {"patch", "create"}
                       /\ n = [file |-> op[r].file, hash |-> r, content |-> r]
                    \/ /\ op[r].kind = "rename"
                       /\ n = [file |-> op[r].to, hash |-> base[r],
                               content |-> op[r].seen]}

-----------------------------------------------------------------------------
(* Slips a change to the code could make; each breaks a property below when  *)
(* it stands in for the definition it is named after.                        *)

\* handle takes no write lock.
Acquire_unlocked(r) ==
  /\ stage[r] = "queued"
  /\ \E i \in 1..Len(line) : line[i] = r
  /\ line' = SelectSeq(line, LAMBDA q : q # r)
  /\ holder' = r
  /\ stage' = [stage EXCEPT ![r] = "checking"]
  /\ UNCHANGED <<clientVars, fileVars, readVars, base, result>>

\* The handler takes the lock its dispatcher holds already.
Check_locksAgain(r) ==
  /\ stage[r] = "checking" /\ holder = Nobody
  /\ stage' = [stage EXCEPT ![r] = "ready"]
  /\ base' = [base EXCEPT ![r] = file[op[r].file]]
  /\ UNCHANGED <<clientVars, lockVars, fileVars, readVars, result>>

\* read_path reads the content before it computes the hash.
ReadContent_hashLast(p) ==
  /\ reader[p].on
  /\ \/ file[reader[p].file] = Missing /\ UNCHANGED notes
     \/ /\ file[reader[p].file] # Missing
        /\ notes' = notes \cup {[file |-> reader[p].file, content |-> reader[p].hash,
                                 hash |-> file[reader[p].file]]}
  /\ reader' = [reader EXCEPT ![p] = NoRead]
  /\ UNCHANGED <<clientVars, lockVars, fileVars, stage, base, result>>

\* A timed out write is reported as refused.
GiveUp_asRefused(r) ==
  /\ answer[r] = "none" /\ via[r] \in Callers
  /\ answer' = [answer EXCEPT ![r] = "refused"]
  /\ gate' = [gate EXCEPT ![via[r]] = Nobody]
  /\ \/ UNCHANGED stage
     \/ stage[r] = "sent" /\ stage' = [stage EXCEPT ![r] = "over"]
  /\ UNCHANGED <<op, via, lockVars, fileVars, readVars, base, result>>

\* A call has no timeout: only a closed connection ends it.
GiveUp_closedOnly(r) ==
  /\ answer[r] = "none" /\ via[r] \in Callers
  /\ stage[r] = "gone"
  /\ answer' = [answer EXCEPT ![r] = "lost"]
  /\ gate' = [gate EXCEPT ![via[r]] = Nobody]
  /\ UNCHANGED <<stage, op, via, lockVars, fileVars, readVars, base, result>>

-----------------------------------------------------------------------------
(* Init *)

Init ==
  /\ gate = [c \in Callers |-> Nobody]
  /\ line = <<>>
  /\ holder = Nobody
  /\ file = [f \in Files |-> Missing]
  /\ stage = [r \in Requests |-> "new"]
  /\ op = [r \in Requests |-> NoOp]
  /\ reader = [p \in Readers |-> NoRead]
  /\ via = [r \in Requests |-> Nobody]
  /\ base = [r \in Requests |-> Missing]
  /\ result = [r \in Requests |-> "none"]
  /\ answer = [r \in Requests |-> "none"]
  /\ notes = {}
  /\ edits = Edits
  /\ applied = {} /\ lost = {} /\ moved = {}

-----------------------------------------------------------------------------
(* The client and its caller: handle, handle_inner, call, call_ws *)

\* The requests a client can make.  A hash comes with the content it was
\* shown with; only rename has a second path.  For create and upload strict
\* is the wish for a hashCode and the absence of X-RE-Overwrite.
Asks ==
  {o \in Ops :
     /\ o.kind \in Kinds
     /\ IF o.kind = "rename" THEN o.to # o.file ELSE o.to = o.file
     /\ IF o.strict /\ o.kind \in {"patch", "delete", "rename"}
        THEN [file |-> o.file, hash |-> o.hash, content |-> o.seen] \in notes
        ELSE o.hash = Missing /\ o.seen = Missing}

\* A write goes through the gate of its caller or is refused there.
Submit(r, c) ==
  /\ stage[r] = "new"
  /\ \E o \in Asks : o.kind # "upload" /\ op' = [op EXCEPT ![r] = o]
  /\ via' = [via EXCEPT ![r] = c]
  /\ \/ /\ gate[c] # Nobody
        /\ answer' = [answer EXCEPT ![r] = "refused"]
        /\ stage' = [stage EXCEPT ![r] = "over"]
        /\ UNCHANGED gate
     \/ /\ gate[c] = Nobody
        /\ gate' = [gate EXCEPT ![c] = r]
        /\ stage' = [stage EXCEPT ![r] = "sent"]
        /\ UNCHANGED answer
  /\ UNCHANGED <<lockVars, fileVars, readVars, base, result>>

\* An upload is sent to the executor itself, over HTTP.
SubmitUpload(r) ==
  /\ stage[r] = "new"
  /\ \E o \in Asks : o.kind = "upload" /\ op' = [op EXCEPT ![r] = o]
  /\ stage' = [stage EXCEPT ![r] = "sent"]
  /\ UNCHANGED <<gate, via, answer, lockVars, fileVars, readVars, base, result>>

\* 30 s without a response, or the connection fails: the caller answers and
\* its gate opens, wherever the request is by then.  It may not have left.
GiveUp(r) ==
  /\ answer[r] = "none" /\ via[r] \in Callers
  /\ answer' = [answer EXCEPT ![r] = "lost"]
  /\ gate' = [gate EXCEPT ![via[r]] = Nobody]
  /\ \/ UNCHANGED stage
     \/ stage[r] = "sent" /\ stage' = [stage EXCEPT ![r] = "over"]
  /\ UNCHANGED <<op, via, lockVars, fileVars, readVars, base, result>>

Deliver(r) ==
  /\ stage[r] = "replied" /\ answer[r] = "none" /\ via[r] \in Callers
  /\ answer' = [answer EXCEPT ![r] = result[r]]
  /\ gate' = [gate EXCEPT ![via[r]] = Nobody]
  /\ notes' = notes \cup Learned(r)
  /\ UNCHANGED <<op, via, lockVars, fileVars, reader, stage, base, result>>

-----------------------------------------------------------------------------
(* The executor: handle, dispatch_tool, file_action, handle_upload *)

Arrive(r) ==
  /\ stage[r] = "sent"
  /\ line' = Append(line, r)
  /\ stage' = [stage EXCEPT ![r] = "queued"]
  /\ UNCHANGED <<clientVars, holder, fileVars, readVars, base, result>>

Acquire(r) ==
  /\ stage[r] = "queued"
  /\ holder = Nobody /\ line # <<>> /\ Head(line) = r
  /\ holder' = r
  /\ line' = Tail(line)
  /\ stage' = [stage EXCEPT ![r] = "checking"]
  /\ UNCHANGED <<clientVars, fileVars, readVars, base, result>>

\* read_existing_with_hash_check; the existence tests of create, of the
\* destination of a rename and of the target of an upload.
Allowed(r) ==
  LET o == op[r] IN
    CASE o.kind = "create" -> file[o.file] = Missing
      [] o.kind = "upload" -> o.strict => file[o.file] = Missing
      [] o.kind = "rename" -> /\ file[o.file] # Missing /\ file[o.to] = Missing
                              /\ o.strict => file[o.file] = o.hash
      [] o.kind \in {"patch", "delete"} -> /\ file[o.file] # Missing
                                           /\ o.strict => file[o.file] = o.hash

Check(r) ==
  /\ stage[r] = "checking"
  /\ \/ /\ Allowed(r)
        /\ stage' = [stage EXCEPT ![r] = "ready"]
        /\ base' = [base EXCEPT ![r] = file[op[r].file]]
        /\ UNCHANGED <<holder, result>>
     \/ Finish(r, "error") /\ UNCHANGED base   \* refused, or the patch is bad
  /\ UNCHANGED <<clientVars, line, fileVars, readVars>>

\* fs::write of patch and create opens the file with O_TRUNC ...
Truncate(r) ==
  /\ stage[r] = "ready" /\ op[r].kind \in {"patch", "create"}
  /\ file' = [file EXCEPT ![op[r].file] = Empty]
  /\ lost' = lost \cup Unread(r, op[r].file)
  /\ applied' = applied \cup {r}
  /\ stage' = [stage EXCEPT ![r] = "filling"]
  /\ UNCHANGED <<clientVars, lockVars, readVars, edits, moved, base, result>>

\* ... and writes the bytes, or fails and leaves it truncated.
Fill(r) ==
  /\ stage[r] = "filling"
  /\ \/ file' = [file EXCEPT ![op[r].file] = r] /\ Finish(r, "ok")
     \/ Finish(r, "error") /\ UNCHANGED file
  /\ UNCHANGED <<clientVars, line, readVars, edits, applied, lost, moved, base>>

Delete(r) ==
  /\ stage[r] = "ready" /\ op[r].kind = "delete"
  /\ LET f == op[r].file IN
       /\ file[f] # Missing
       /\ file' = [file EXCEPT ![f] = Missing]
       /\ lost' = lost \cup Unread(r, f)
  /\ applied' = applied \cup {r}
  /\ Finish(r, "ok")
  /\ UNCHANGED <<clientVars, line, readVars, edits, moved, base>>

\* fs::rename replaces whatever has appeared at the destination.
Rename(r) ==
  /\ stage[r] = "ready" /\ op[r].kind = "rename"
  /\ LET f == op[r].file
         g == op[r].to IN
       /\ file[f] # Missing
       /\ file' = [file EXCEPT ![f] = Missing, ![g] = file[f]]
       /\ moved' = moved \cup {file[f]}
       /\ lost' = lost \cup {c \in {file[g]} : c \notin {Missing, Empty}}
  /\ applied' = applied \cup {r}
  /\ Finish(r, "ok")
  /\ UNCHANGED <<clientVars, line, readVars, edits, base>>

\* The body arrives at the client's pace, with the lock held throughout.  An
\* overwrite is meant to replace whatever it finds.
Upload(r) ==
  /\ stage[r] = "ready" /\ op[r].kind = "upload"
  /\ file' = [file EXCEPT ![op[r].file] = r]
  /\ lost' = IF op[r].strict THEN lost \cup Unread(r, op[r].file) ELSE lost
  /\ applied' = applied \cup {r}
  /\ Finish(r, "ok")
  /\ UNCHANGED <<clientVars, line, readVars, edits, moved, base>>

\* The file system says no, or the client of an upload goes away.
WriteFails(r) ==
  /\ stage[r] = "ready"
  /\ Finish(r, "error")
  /\ UNCHANGED <<clientVars, line, fileVars, readVars, base>>

\* The executor process dies; what it was doing to a file stays half done.
Crash ==
  /\ \E r \in Requests : stage[r] \in Remote
  /\ stage' = [r \in Requests |-> IF stage[r] \in Remote THEN "gone" ELSE stage[r]]
  /\ line' = <<>>
  /\ holder' = Nobody
  /\ UNCHANGED <<clientVars, fileVars, readVars, base, result>>

-----------------------------------------------------------------------------
(* Outside the lock: read_path and the rest of the machine *)

\* read_path hashes the file first ...
ReadHash(p, f) ==
  /\ ~reader[p].on
  /\ file[f] # Missing
  /\ reader' = [reader EXCEPT ![p] = [on |-> TRUE, file |-> f, hash |-> file[f]]]
  /\ UNCHANGED <<clientVars, lockVars, fileVars, notes, stage, base, result>>

\* ... and reads it again for the lines it shows.
ReadContent(p) ==
  /\ reader[p].on
  /\ \/ file[reader[p].file] = Missing /\ UNCHANGED notes
     \/ /\ file[reader[p].file] # Missing
        /\ notes' = notes \cup {[file |-> reader[p].file, hash |-> reader[p].hash,
                                 content |-> file[reader[p].file]]}
  /\ reader' = [reader EXCEPT ![p] = NoRead]
  /\ UNCHANGED <<clientVars, lockVars, fileVars, stage, base, result>>

\* A command started with exbash, or another program, writes or removes a file.
Edit(e, f) ==
  /\ e \in edits
  /\ edits' = edits \ {e}
  /\ \E c \in {e, Missing} : file' = [file EXCEPT ![f] = c]
  /\ UNCHANGED <<clientVars, lockVars, readVars, applied, lost, moved, stage, base, result>>

-----------------------------------------------------------------------------

Write(r) == Truncate(r) \/ Fill(r) \/ Delete(r) \/ Rename(r) \/ WriteFails(r)

Next == \/ \E r \in Requests :
             \/ \E c \in Callers : Submit(r, c)
             \/ SubmitUpload(r) \/ GiveUp(r) \/ Deliver(r)
             \/ Arrive(r) \/ Acquire(r) \/ Check(r) \/ Write(r) \/ Upload(r)
        \/ \E f \in Files : \/ \E p \in Readers : ReadHash(p, f)
                            \/ \E e \in Edits : Edit(e, f)
        \/ \E p \in Readers : ReadContent(p)
        \/ Crash

Spec == Init /\ [][Next]_vars

\* Ready tasks are polled and the caller's timer rings.  Nothing makes the
\* client of an upload send its body.
FairSpec == /\ Spec
            /\ \A r \in Requests :
                 /\ WF_vars(GiveUp(r))
                 /\ WF_vars(Arrive(r) \/ Acquire(r) \/ Check(r)
                            \/ (op[r].kind # "upload" /\ Write(r)))

-----------------------------------------------------------------------------
(* Properties *)

\* Every variable keeps its type.
TypeOK ==
  /\ gate \in [Callers -> Requests \cup {Nobody}]
  /\ line \in Seq(Requests)
  /\ holder \in Requests \cup {Nobody}
  /\ file \in [Files -> Contents]
  /\ stage \in [Requests -> Stages]
  /\ op \in [Requests -> Ops]
  /\ via \in [Requests -> Callers \cup {Nobody}]
  /\ base \in [Requests -> Contents]
  /\ result \in [Requests -> {"none", "ok", "error"}]
  /\ answer \in [Requests -> {"none", "refused", "ok", "error", "lost"}]
  /\ reader \in [Readers -> [on : BOOLEAN, file : Files, hash : Texts]]
  /\ notes \subseteq Notes
  /\ edits \subseteq Edits
  /\ applied \subseteq Requests
  /\ lost \subseteq Requests \cup Edits
  /\ moved \subseteq Texts

\* A FileAction or a non-overwriting upload replaces or removes only what it
\* has read itself, unless somebody changed the file behind the executor's
\* back: two requests never lose each other's work, with or without hashes.
NoLostUpdate == lost \subseteq Edits

\* A request that passed its hash check is applied to the content its client
\* was shown with that hash, although read takes two reads and no lock.  The
\* exceptions are a truncated file and a content a rename has brought back.
SeenIsReplaced ==
  \A r \in Requests :
    r \in applied /\ op[r].strict /\ op[r].kind \in {"patch", "delete"} =>
      base[r] \in {op[r].seen, Empty} \cup moved

\* What a client is told of its write is true: ok was done, a refusal by its
\* caller was not and will not be, an error of the executor changed nothing
\* unless the bytes could not be written.
AnswersAreTrue ==
  \A r \in Requests :
    /\ answer[r] = "ok" => r \in applied
    /\ answer[r] = "refused" => r \notin applied /\ stage[r] = "over"
    /\ answer[r] = "error" /\ r \in applied => op[r].kind \in {"patch", "create"}

\* Every write that got past the gate is answered, whoever has the lock.
EveryWriteAnswered ==
  \A r \in Requests : stage[r] = "sent" /\ via[r] \in Callers ~> answer[r] # "none"

\* Only an upload can keep a write waiting at the executor.
OnlyUploadsBlock ==
  \A r \in Requests : stage[r] = "queued" ~>
    \/ stage[r] \in {"replied", "gone"}
    \/ \E u \in Requests : holder = u /\ op[u].kind = "upload"

\* tools/README.md: "Small tools (read, glob, stat, FileAction, rg) are
\* wrapped by the Executor host timeout".
HostTimeoutApplies ==
  \A r \in Requests : stage[r] = "queued" /\ op[r].kind # "upload" ~>
    stage[r] \in {"replied", "gone"}
=============================================================================
