-------------------------- MODULE WritePath_proofs --------------------------
(***************************************************************************)
(* Proofs about WritePath, for any number of callers, requests, readers,   *)
(* edits and files and any crashes.                                        *)
(***************************************************************************)
EXTENDS WritePath, TLAPS

\* The stages of a request that may still write its content.
Pending == {"new", "sent", "queued", "checking", "ready", "filling"}

\* A content that is not still to come.
Written(c) == (c \in Requests => stage[c] \notin Pending) /\ c \notin edits

Guarded(r) == op[r].strict /\ op[r].kind \in {"patch", "delete", "rename"}

\* The stage of a request tells what it has done and what was said of it.
StageKnown ==
  \A r \in Requests :
    /\ stage[r] \in Inside => holder = r
    /\ stage[r] = "filling" => r \in applied /\ op[r].kind \in {"patch", "create"}
    /\ r \in applied => stage[r] \in {"filling", "replied", "gone"}
    /\ result[r] # "none" => stage[r] \in {"replied", "gone"}
    /\ result[r] = "ok" => r \in applied
    /\ result[r] = "error" /\ r \in applied => op[r].kind \in {"patch", "create"}
    /\ answer[r] \in {"ok", "error"} => result[r] = answer[r]
    /\ answer[r] = "refused" => stage[r] = "over"
    /\ stage[r] = "new" => via[r] = Nobody

\* While a request has the lock its files change only by hand.
FilesKept ==
  \A r \in Requests : stage[r] = "ready" =>
    /\ file[op[r].file] \in {base[r], Missing} \cup Edits
    /\ op[r].kind = "rename" => file[op[r].to] \in {Missing} \cup Edits

\* A content is in one place, and not before it was written.
FilesApart ==
  /\ \A f \in Files : Written(file[f])
  /\ \A f, g \in Files : file[f] = file[g] /\ file[f] \notin {Missing, Empty} => f = g

\* The content with this hash is the one that was shown, or is nowhere and will not
\* be back, or was truncated or renamed.
Fits(hash, content) ==
  /\ Written(hash)
  /\ \/ hash = content
     \/ hash \in moved \cup {Empty}
     \/ \A f \in Files : file[f] # hash

\* What is under way in a read, known to a client, or sent with a request.
HashesFit ==
  /\ \A p \in Readers : reader[p].on => Fits(reader[p].hash, file[reader[p].file])
  /\ \A n \in notes : Fits(n.hash, n.content)
  /\ \A r \in Requests : stage[r] # "new" /\ Guarded(r) =>
       op[r].hash # Missing /\ Fits(op[r].hash, op[r].seen)

\* A guarded request has read what its client was shown.
BaseFits ==
  \A r \in Requests : (stage[r] = "ready" \/ r \in applied) /\ Guarded(r) =>
    base[r] = op[r].hash /\ base[r] \in {op[r].seen, Empty} \cup moved

\* The inductive invariant.
WriteInv == /\ TypeOK /\ StageKnown /\ FilesKept /\ FilesApart /\ HashesFit /\ BaseFits
            /\ NoLostUpdate

-----------------------------------------------------------------------------
(* Types *)

LEMMA AskTypes == Asks \subseteq Ops
BY DEF Asks

LEMMA TypeStep == TypeOK /\ StageKnown /\ [Next]_vars => TypeOK'
<1> SUFFICES ASSUME TypeOK, StageKnown, [Next]_vars PROVE TypeOK'
  OBVIOUS
<1> USE DEF vars, clientVars, lockVars, fileVars, readVars
<1>0. \A r \in Requests : op[r] \in Ops /\ op[r].file \in Files /\ op[r].to \in Files
                          /\ r \in Contents
  BY DEF TypeOK, Ops, Contents
<1>1. ASSUME NEW r \in Requests, NEW c \in Callers, Submit(r, c) PROVE TypeOK'
  BY <1>1, AskTypes DEF Submit, TypeOK, Stages, Remote
<1>2. ASSUME NEW r \in Requests, SubmitUpload(r) PROVE TypeOK'
  BY <1>2, AskTypes DEF SubmitUpload, TypeOK, Stages, Remote
<1>3. ASSUME NEW r \in Requests, GiveUp(r) PROVE TypeOK'
  BY <1>3 DEF GiveUp, TypeOK, Stages
<1>4. ASSUME NEW r \in Requests, Deliver(r) PROVE TypeOK'
  BY <1>4 DEF Deliver, Learned, TypeOK
<1>5. ASSUME NEW r \in Requests, Arrive(r) PROVE TypeOK'
  BY <1>5 DEF Arrive, TypeOK, Stages, Remote
<1>6. ASSUME NEW r \in Requests, Acquire(r) PROVE TypeOK'
  BY <1>6 DEF Acquire, TypeOK, Stages, Remote
<1>7. ASSUME NEW r \in Requests, Check(r) PROVE TypeOK'
  BY <1>0, <1>7 DEF Check, Finish, TypeOK, Stages, Remote
<1>8. ASSUME NEW r \in Requests, Write(r) \/ Upload(r) PROVE TypeOK'
  <2>1. file' \in [Files -> Contents]
    BY <1>0, <1>8 DEF TypeOK, Contents, Write, Truncate, Fill, Delete, Rename, WriteFails, Upload
  <2>2. stage' \in [Requests -> Stages] /\ result' \in [Requests -> {"none", "ok", "error"}]
        /\ holder' \in Requests \cup {Nobody}
    BY <1>8 DEF TypeOK, Stages, Remote, Finish, Write, Truncate, Fill, Delete, Rename, WriteFails, Upload
  <2>3. applied' \subseteq Requests /\ moved' \subseteq Texts
    BY <1>0, <1>8 DEF TypeOK, Texts, Write, Truncate, Fill, Delete, Rename, WriteFails, Upload
  <2>4. lost' \subseteq Requests \cup Edits
    BY <1>0, <1>8 DEF TypeOK, Contents, Unread, Write, Truncate, Fill, Delete, Rename, WriteFails, Upload
  <2>5. UNCHANGED <<clientVars, line, readVars, edits, base>>
    BY <1>8 DEF Write, Truncate, Fill, Delete, Rename, WriteFails, Upload
  <2>6. QED
    BY <2>1, <2>2, <2>3, <2>4, <2>5 DEF TypeOK
<1>9. ASSUME NEW p \in Readers, NEW f \in Files, ReadHash(p, f) PROVE TypeOK'
  <2>1. file[f] \in Texts
    BY <1>9 DEF ReadHash, TypeOK, Texts
  <2>2. QED
    BY <1>9, <2>1 DEF ReadHash, TypeOK
<1>10. ASSUME NEW p \in Readers, ReadContent(p) PROVE TypeOK'
  <2>1. NoRead \in [on : BOOLEAN, file : Files, hash : Texts]
    BY WriteAssumption DEF NoRead, SomeFile, Texts, Contents
  <2>2. file[reader[p].file] # Missing =>
          [file |-> reader[p].file, hash |-> reader[p].hash, content |-> file[reader[p].file]] \in Notes
    BY DEF TypeOK, Notes, Texts
  <2>3. QED
    BY <1>10, <2>1, <2>2 DEF ReadContent, TypeOK
<1>11. ASSUME NEW e \in Edits, NEW f \in Files, Edit(e, f) PROVE TypeOK'
  BY <1>11 DEF Edit, TypeOK, Contents
<1>12. CASE Crash
  BY <1>12 DEF Crash, TypeOK, Stages
<1>13. CASE UNCHANGED vars
  BY <1>13 DEF TypeOK
<1>14. QED
  BY <1>1, <1>2, <1>3, <1>4, <1>5, <1>6, <1>7, <1>8, <1>9, <1>10, <1>11, <1>12, <1>13 DEF Next

LEMMA StageStep == TypeOK /\ StageKnown /\ [Next]_vars => StageKnown'
<1> SUFFICES ASSUME TypeOK, StageKnown, [Next]_vars PROVE StageKnown'
  OBVIOUS
<1> USE DEF vars, clientVars, lockVars, fileVars, readVars
<1>1. ASSUME NEW r \in Requests, NEW c \in Callers, Submit(r, c) PROVE StageKnown'
  BY <1>1 DEF Submit, TypeOK, StageKnown, Inside
<1>2. ASSUME NEW r \in Requests, SubmitUpload(r) PROVE StageKnown'
  BY <1>2 DEF SubmitUpload, TypeOK, StageKnown, Inside
<1>3. ASSUME NEW r \in Requests, GiveUp(r) PROVE StageKnown'
  BY <1>3, WriteAssumption DEF GiveUp, TypeOK, StageKnown, Inside
<1>4. ASSUME NEW r \in Requests, Deliver(r) PROVE StageKnown'
  BY <1>4 DEF Deliver, TypeOK, StageKnown
<1>5. ASSUME NEW r \in Requests, Arrive(r) PROVE StageKnown'
  BY <1>5 DEF Arrive, TypeOK, StageKnown, Inside
<1>6. ASSUME NEW r \in Requests, Acquire(r) PROVE StageKnown'
  BY <1>6, WriteAssumption DEF Acquire, TypeOK, StageKnown, Inside
<1>7. ASSUME NEW r \in Requests, Check(r) PROVE StageKnown'
  BY <1>7, WriteAssumption DEF Check, Finish, TypeOK, StageKnown, Inside
<1>8. ASSUME NEW r \in Requests, Write(r) \/ Upload(r) PROVE StageKnown'
  <2>1. stage[r] \in Inside /\ \A q \in Requests \ {r} : stage[q] \notin Inside
    BY <1>8, WriteAssumption DEF StageKnown, Inside, Write, Truncate, Fill, Delete, Rename, WriteFails, Upload
  <2>2. UNCHANGED clientVars /\ \A q \in Requests \ {r} :
          stage'[q] = stage[q] /\ result'[q] = result[q] /\ (q \in applied' <=> q \in applied)
    BY <1>8 DEF TypeOK, Finish, Write, Truncate, Fill, Delete, Rename, WriteFails, Upload
  <2>3. /\ result[r] = "none" /\ answer[r] \notin {"ok", "error", "refused"}
        /\ \/ stage'[r] = "filling" /\ r \in applied' /\ op[r].kind \in {"patch", "create"}
              /\ holder' = r /\ result'[r] = "none"
           \/ stage'[r] = "replied" /\ result'[r] = "ok" /\ r \in applied'
           \/ stage'[r] = "replied" /\ result'[r] = "error"
              /\ (r \in applied' => op[r].kind \in {"patch", "create"})
    BY <1>8 DEF TypeOK, StageKnown, Inside, Finish, Write, Truncate, Fill, Delete, Rename, WriteFails, Upload
  <2>4. QED
    BY <2>1, <2>2, <2>3 DEF StageKnown, Inside
<1>9. CASE Crash
  BY <1>9 DEF Crash, TypeOK, StageKnown, Inside, Remote
<1>10. CASE UNCHANGED <<clientVars, holder, stage, result, applied>>
  BY <1>10 DEF StageKnown
<1>11. QED
  BY <1>1, <1>2, <1>3, <1>4, <1>5, <1>6, <1>7, <1>8, <1>9, <1>10 DEF Next, ReadHash, ReadContent, Edit

-----------------------------------------------------------------------------
(* Files and what is known of them *)

\* The request at work is alone, and is not new.
LEMMA WriterAlone ==
  ASSUME TypeOK, StageKnown, NEW r \in Requests, Write(r) \/ Upload(r)
  PROVE  /\ stage[r] \in {"ready", "filling"} /\ stage'[r] \in {"filling", "replied"}
         /\ \A q \in Requests \ {r} : stage[q] \notin Inside /\ stage'[q] = stage[q]
         /\ \A q \in Requests \ {r} : q \in applied' <=> q \in applied
         /\ r \in applied' => stage[r] = "ready" \/ r \in applied
         /\ UNCHANGED <<clientVars, readVars, base, edits>>
<1> USE DEF clientVars, lockVars, fileVars, readVars
<1>1. stage[r] \in {"ready", "filling"} /\ \A q \in Requests \ {r} : stage[q] \notin Inside
  BY WriteAssumption DEF StageKnown, Inside, Write, Truncate, Fill, Delete, Rename, WriteFails, Upload
<1>2. /\ stage'[r] \in {"filling", "replied"} /\ \A q \in Requests \ {r} : stage'[q] = stage[q]
      /\ UNCHANGED <<clientVars, readVars, base, edits>>
  BY DEF TypeOK, Finish, Write, Truncate, Fill, Delete, Rename, WriteFails, Upload
<1>3. \A q \in Requests \ {r} : q \in applied' <=> q \in applied
  BY DEF Write, Truncate, Fill, Delete, Rename, WriteFails, Upload
<1>4. r \in applied' => stage[r] = "ready" \/ r \in applied
  BY <1>1 DEF StageKnown
<1>5. QED
  BY <1>1, <1>2, <1>3, <1>4

LEMMA WrittenStays ==
  ASSUME TypeOK, StageKnown, [Next]_vars, NEW c, Written(c)
  PROVE  Written(c)'
<1> USE DEF vars, clientVars, lockVars, fileVars, readVars
<1>1. edits' \subseteq edits
  BY DEF Next, Submit, SubmitUpload, GiveUp, Deliver, Arrive, Acquire, Check, Finish, Write, Truncate, Fill, Delete, Rename, WriteFails, Upload, ReadHash, ReadContent, Edit, Crash
<1>2. \A q \in Requests : stage[q] \notin Pending => stage'[q] \notin Pending
  <2>1. ASSUME NEW r \in Requests, Write(r) \/ Upload(r),
               NEW q \in Requests, stage[q] \notin Pending
        PROVE  stage'[q] \notin Pending
    BY <2>1, WriterAlone DEF Pending
  <2>2. CASE UNCHANGED stage
    BY <2>2
  <2>3. CASE Crash
    BY <2>3 DEF Crash, Pending, TypeOK
  <2>4. ASSUME NEW r \in Requests,
               (\E k \in Callers : Submit(r, k)) \/ SubmitUpload(r) \/ GiveUp(r) \/ Arrive(r)
                 \/ Acquire(r) \/ Check(r)
        PROVE  \A q \in Requests : stage[q] \notin Pending => stage'[q] \notin Pending
    BY <2>4 DEF Submit, SubmitUpload, GiveUp, Arrive, Acquire, Check, Finish, Pending, TypeOK
  <2>5. QED
    BY <2>1, <2>2, <2>3, <2>4 DEF Next, Deliver, ReadHash, ReadContent, Edit
<1>3. QED
  BY <1>1, <1>2 DEF Written

\* What a step can put into a file.
LEMMA FileStep ==
  ASSUME TypeOK, StageKnown, [Next]_vars
  PROVE  /\ moved \subseteq moved'
         /\ \A f \in Files : file'[f] \in {file[f], Missing, Empty} \cup moved' \/ ~Written(file'[f])
<1> USE DEF vars, clientVars, lockVars, fileVars, readVars
<1> DEFINE Known == /\ moved \subseteq moved'
                    /\ \A f \in Files : \/ file'[f] \in {file[f], Missing, Empty} \cup moved'
                                       \/ ~Written(file'[f])
<1>1. ASSUME NEW r \in Requests, Write(r) \/ Upload(r) PROVE Known
  <2>0. op[r].file \in Files /\ op[r].to \in Files /\ ~Written(r)
    BY <1>1, WriterAlone DEF Written, Pending, TypeOK, Ops
  <2>1. CASE Truncate(r) \/ Delete(r) \/ WriteFails(r)
    BY <2>0, <2>1 DEF Truncate, Delete, WriteFails, TypeOK
  <2>2. CASE Fill(r) \/ Upload(r)
    BY <2>0, <2>2 DEF Fill, Upload, TypeOK
  <2>3. CASE Rename(r)
    BY <2>0, <2>3 DEF Rename, TypeOK
  <2>4. QED
    BY <1>1, <2>1, <2>2, <2>3 DEF Write
<1>2. ASSUME NEW e \in Edits, NEW f \in Files, Edit(e, f) PROVE Known
  <2>1. ~Written(e)
    BY <1>2 DEF Edit, Written
  <2>2. QED
    BY <1>2, <2>1 DEF Edit, TypeOK
<1>3. CASE UNCHANGED <<file, moved>>
  BY <1>3
<1>4. QED
  BY <1>1, <1>2, <1>3 DEF Next, Submit, SubmitUpload, GiveUp, Deliver, Arrive, Acquire, Check, ReadHash, ReadContent, Crash

LEMMA ApartStep == TypeOK /\ StageKnown /\ FilesApart /\ [Next]_vars => FilesApart'
<1> SUFFICES ASSUME TypeOK, StageKnown, FilesApart, [Next]_vars PROVE FilesApart'
  OBVIOUS
<1> USE DEF vars, clientVars, lockVars, fileVars, readVars
<1>1. (\A c \in {Missing, Empty} : Written(c)') /\ \A c : Written(c) => Written(c)'
  <2>1. edits' \subseteq Edits
    BY TypeStep DEF TypeOK
  <2>2. \A c \in {Missing, Empty} : Written(c)'
    BY <2>1, WriteAssumption DEF Written
  <2>3. QED
    BY <2>2, WrittenStays
<1>3. ASSUME NEW F, file' = F,
             \A f \in Files : (F[f] \in {Missing, Empty} \/ Written(F[f])) \/ Written(F[f])',
             \A f, g \in Files : F[f] = F[g] /\ F[f] \notin {Missing, Empty} => f = g
      PROVE  FilesApart'
  <2>1. \A f \in Files : Written(F[f])'
    BY <1>1, <1>3
  <2>2. QED
    BY <1>3, <2>1 DEF FilesApart, Written
<1>4. ASSUME NEW g \in Files, NEW c, c \in {Missing, Empty} \/ (~Written(c) /\ Written(c)'),
             file' = [file EXCEPT ![g] = c]
      PROVE  FilesApart'
  <2>1. PICK F : F = file'
    OBVIOUS
  <2>2. F[g] = c /\ \A f \in Files \ {g} : F[f] = file[f] /\ Written(F[f])
    BY <1>4, <2>1 DEF TypeOK, FilesApart
  <2>3. ASSUME NEW x \in Files, NEW y \in Files, F[x] = F[y], F[x] \notin {Missing, Empty}
        PROVE  x = y
    <3>1. ASSUME NEW z \in Files \ {g}, F[z] = c PROVE c \in {Missing, Empty}
      BY <1>4, <2>2, <3>1 DEF Written
    <3>2. CASE x # g /\ y # g
      BY <2>2, <2>3, <3>2 DEF FilesApart
    <3>3. QED
      BY <2>2, <2>3, <3>1, <3>2
  <2>4. \A f \in Files : (F[f] \in {Missing, Empty} \/ Written(F[f])) \/ Written(F[f])'
    <3>1. (c \in {Missing, Empty} \/ Written(c)) \/ Written(c)'
      BY <1>4
    <3>2. QED
      BY <2>2, <3>1
  <2>5. QED
    BY <1>3, <2>1, <2>3, <2>4
<1>5. CASE UNCHANGED file
  <2>1. PICK F : F = file
    OBVIOUS
  <2>2. QED
    BY <1>3, <1>5, <2>1 DEF FilesApart
<1>10. ASSUME NEW r \in Requests, Rename(r) PROVE FilesApart'
  <2>1. op[r].file \in Files /\ op[r].to \in Files
    BY DEF TypeOK, Ops
  <2>2. PICK F : F = file'
    OBVIOUS
  <2>3. \A f \in Files : F[f] = Missing \/ (F[f] = file[f] /\ f # op[r].to /\ f # op[r].file)
                          \/ (f = op[r].to /\ F[f] = file[op[r].file])
    BY <1>10, <2>1, <2>2 DEF Rename, TypeOK
  <2>4. QED
    BY <1>3, <2>1, <2>2, <2>3 DEF FilesApart
<1>6. ASSUME NEW r \in Requests, Truncate(r) \/ Delete(r) \/ WriteFails(r) PROVE FilesApart'
  <2>1. op[r].file \in Files
    BY DEF TypeOK, Ops
  <2>2. QED
    BY <1>4, <1>5, <1>6, <2>1 DEF Truncate, Delete, WriteFails
<1>7. ASSUME NEW r \in Requests, Fill(r) \/ Upload(r) PROVE FilesApart'
  <2>1. op[r].file \in Files
    BY DEF TypeOK, Ops
  <2>2. ~Written(r) /\ Written(r)'
    BY <1>7, WriteAssumption DEF Fill, Upload, Finish, Written, Pending, TypeOK
  <2>3. QED
    BY <1>4, <1>5, <1>7, <2>1, <2>2 DEF Fill, Upload
<1>8. ASSUME NEW e \in Edits, NEW f \in Files, Edit(e, f) PROVE FilesApart'
  <2>1. ~Written(e) /\ Written(e)'
    BY <1>8, WriteAssumption DEF Edit, Written
  <2>2. QED
    BY <1>4, <1>8, <2>1 DEF Edit
<1>9. QED
  BY <1>5, <1>6, <1>7, <1>8, <1>10 DEF Next, Write, Submit, SubmitUpload, GiveUp, Deliver, Arrive, Acquire, Check, ReadHash, ReadContent, Crash

LEMMA KeptStep == TypeOK /\ StageKnown /\ FilesKept /\ [Next]_vars => FilesKept'
<1> SUFFICES ASSUME TypeOK, StageKnown, FilesKept, [Next]_vars PROVE FilesKept'
  OBVIOUS
<1> USE DEF vars, clientVars, lockVars, fileVars, readVars
<1>1. ASSUME NEW r \in Requests, Write(r) \/ Upload(r) PROVE FilesKept'
  BY <1>1, WriterAlone DEF FilesKept, Inside
<1>2. ASSUME NEW r \in Requests, Check(r) PROVE FilesKept'
  <2>1. \A q \in Requests \ {r} : stage'[q] = stage[q] /\ base'[q] = base[q]
    BY <1>2 DEF Check, Finish, TypeOK
  <2>2. stage'[r] = "ready" => /\ base'[r] = file[op[r].file]
                               /\ op[r].kind = "rename" => file[op[r].to] = Missing
    BY <1>2 DEF Check, Finish, Allowed, TypeOK
  <2>3. UNCHANGED <<op, file>>
    BY <1>2 DEF Check
  <2>4. ASSUME NEW q \in Requests, stage'[q] = "ready"
        PROVE  /\ file'[op'[q].file] \in {base'[q], Missing} \cup Edits
               /\ op'[q].kind = "rename" => file'[op'[q].to] \in {Missing} \cup Edits
    <3>1. CASE q = r
      BY <2>2, <2>3, <2>4, <3>1
    <3>2. CASE q # r
      BY <2>1, <2>3, <2>4, <3>2 DEF FilesKept
    <3>3. QED
      BY <3>1, <3>2
  <2>5. QED
    BY <2>4 DEF FilesKept
<1>3. ASSUME NEW r \in Requests,
             (\E c \in Callers : Submit(r, c)) \/ SubmitUpload(r) \/ GiveUp(r) \/ Deliver(r)
               \/ Arrive(r) \/ Acquire(r)
      PROVE  FilesKept'
  <2>1. UNCHANGED <<file, base>> /\ \A q \in Requests : stage'[q] = "ready" => stage[q] = "ready" /\ op'[q] = op[q]
    BY <1>3 DEF Submit, SubmitUpload, GiveUp, Deliver, Arrive, Acquire, TypeOK
  <2>2. QED
    BY <2>1 DEF FilesKept
<1>4. ASSUME NEW e \in Edits, NEW f \in Files, Edit(e, f) PROVE FilesKept'
  <2>1. \A x \in Files : file'[x] \in {file[x], e, Missing}
    BY <1>4 DEF Edit, TypeOK
  <2>2. \A r \in Requests : op[r].file \in Files /\ op[r].to \in Files
    BY DEF TypeOK, Ops
  <2>3. QED
    BY <1>4, <2>1, <2>2 DEF Edit, FilesKept
<1>5. CASE Crash
  BY <1>5 DEF Crash, FilesKept, TypeOK, Remote
<1>6. CASE UNCHANGED <<stage, file, base, op>>
  BY <1>6 DEF FilesKept
<1>7. QED
  BY <1>1, <1>2, <1>3, <1>4, <1>5, <1>6 DEF Next, ReadHash, ReadContent

LEMMA LostStep == TypeOK /\ FilesKept /\ NoLostUpdate /\ StageKnown /\ [Next]_vars => NoLostUpdate'
<1> SUFFICES ASSUME TypeOK, FilesKept, NoLostUpdate, StageKnown, [Next]_vars PROVE NoLostUpdate'
  OBVIOUS
<1> USE DEF vars, clientVars, lockVars, fileVars, readVars
<1>1. ASSUME NEW r \in Requests, Write(r) \/ Upload(r) PROVE NoLostUpdate'
  <2>1. stage[r] = "ready" => Unread(r, op[r].file) \subseteq Edits
    BY DEF FilesKept, Unread
  <2>2. QED
    BY <1>1, <2>1 DEF NoLostUpdate, FilesKept, Write, Truncate, Fill, Delete, Rename, WriteFails, Upload
<1>2. CASE UNCHANGED lost
  BY <1>2 DEF NoLostUpdate
<1>3. QED
  BY <1>1, <1>2 DEF Next, Submit, SubmitUpload, GiveUp, Deliver, Arrive, Acquire, Check, ReadHash, ReadContent, Edit, Crash

\* A content that fits its hash keeps fitting it.
LEMMA FitsStays ==
  ASSUME TypeOK, StageKnown, FilesApart, [Next]_vars, NEW h \in Texts, NEW c, Fits(h, c)
  PROVE  Fits(h, c)'
<1>1. Written(h)'
  BY WrittenStays DEF Fits
<1>2. CASE \A f \in Files : file[f] # h
  BY <1>1, <1>2, FileStep DEF Fits, Texts
<1>3. CASE h \in moved \cup {Empty} \/ h = c
  BY <1>1, <1>3, FileStep DEF Fits
<1>4. QED
  BY <1>2, <1>3 DEF Fits

\* The same of a read under way, whose file may change.
LEMMA ReadFitsStays ==
  ASSUME TypeOK, StageKnown, FilesApart, [Next]_vars,
         NEW h \in Texts, NEW f \in Files, Fits(h, file[f]), NEW d, d = file'[f]
  PROVE  Fits(h, d)'
<1>1. Written(h)'
  BY WrittenStays DEF Fits
<1>2. \A x \in Files : file'[x] = h => file[x] = h \/ h \in moved' \cup {Empty}
  BY FileStep DEF Fits, Texts
<1>3. h \in moved \cup {Empty} \/ (\A x \in Files \ {f} : file[x] # h)
  BY DEF Fits, FilesApart, Texts
<1>4. h \in moved' \cup {Empty} \/ h = d \/ \A x \in Files : file'[x] # h
  BY <1>2, <1>3, FileStep
<1>5. QED
  BY <1>1, <1>4 DEF Fits

LEMMA HashStep ==
  TypeOK /\ StageKnown /\ FilesApart /\ HashesFit /\ BaseFits /\ [Next]_vars => HashesFit'
<1> SUFFICES ASSUME TypeOK, StageKnown, FilesApart, HashesFit, BaseFits, [Next]_vars
             PROVE  HashesFit'
  OBVIOUS
<1> USE DEF vars, clientVars, lockVars, fileVars, readVars
<1>1. ASSUME NEW p \in Readers, NEW h, NEW d, reader'[p].on,
             h = reader'[p].hash, d = file'[reader'[p].file]
      PROVE  Fits(h, d)'
  <2>1. CASE reader'[p] = reader[p]
    <3>1. h \in Texts /\ reader[p].file \in Files /\ Fits(h, file[reader[p].file])
      BY <1>1, <2>1 DEF TypeOK, HashesFit
    <3>2. QED
      BY <1>1, <2>1, <3>1, ReadFitsStays
  <2>2. ASSUME NEW f \in Files, ReadHash(p, f) PROVE Fits(h, d)'
    <3>1. h = d /\ h = file[f]
      BY <1>1, <2>2 DEF ReadHash, TypeOK
    <3>2. Written(h)
      BY <3>1 DEF FilesApart
    <3>3. Written(h)'
      BY <3>2, WrittenStays
    <3>4. QED
      BY <3>1, <3>3 DEF Fits
  <2>3. reader'[p] = reader[p] \/ \E f \in Files : ReadHash(p, f)
    <3>1. ASSUME NEW q \in Readers, NEW f \in Files, ReadHash(q, f) PROVE reader'[p] = reader[p] \/ ReadHash(p, f)
      BY <3>1 DEF ReadHash, TypeOK
    <3>2. ASSUME NEW q \in Readers, ReadContent(q) PROVE reader'[p] = reader[p]
      BY <1>1, <3>2 DEF ReadContent, TypeOK, NoRead
    <3>3. ASSUME NEW r \in Requests, Write(r) \/ Upload(r) PROVE reader'[p] = reader[p]
      BY <3>3, WriterAlone
    <3>4. CASE UNCHANGED reader
      BY <3>4
    <3>5. QED
      BY <3>1, <3>2, <3>3, <3>4 DEF Next, Submit, SubmitUpload, GiveUp, Deliver, Arrive, Acquire, Check, Edit, Crash
  <2>4. QED
    BY <2>1, <2>2, <2>3
<1>2. ASSUME NEW n \in notes', NEW h, NEW c, h = n.hash, c = n.content PROVE Fits(h, c)'
  <2>1. CASE n \in notes
    <3>1. h \in Texts /\ Fits(h, c)
      BY <1>2, <2>1 DEF TypeOK, Notes, HashesFit
    <3>2. QED
      BY <3>1, FitsStays
  <2>2. ASSUME NEW p \in Readers, ReadContent(p), n \notin notes PROVE Fits(h, c)'
    <3>1. reader[p].on /\ h = reader[p].hash /\ c = file[reader[p].file]
      BY <1>2, <2>2 DEF ReadContent
    <3>2. h \in Texts /\ Fits(h, c)
      BY <3>1 DEF TypeOK, HashesFit
    <3>3. QED
      BY <3>2, FitsStays
  <2>3. ASSUME NEW r \in Requests, Deliver(r), n \in Learned(r) PROVE Fits(h, c)'
    <3>1. stage[r] = "replied" /\ result[r] = "ok" /\ r \in applied /\ op[r].strict
      BY <2>3 DEF Deliver, Learned, StageKnown
    <3>2. CASE op[r].kind \in {"patch", "create"} /\ n = [file |-> op[r].file, hash |-> r, content |-> r]
      <4>1. h = r /\ c = r /\ r \in Texts
        BY <1>2, <3>2, WriteAssumption DEF Texts, Contents
      <4>2. Written(r)
        BY <3>1, WriteAssumption DEF Written, Pending, TypeOK
      <4>3. QED
        BY <4>1, <4>2, FitsStays DEF Fits
    <3>3. CASE op[r].kind = "rename" /\ n = [file |-> op[r].to, hash |-> base[r], content |-> op[r].seen]
      <4>1. h = base[r] /\ c = op[r].seen
        BY <1>2, <3>3
      <4>2. base[r] = op[r].hash /\ op[r].hash # Missing /\ Fits(op[r].hash, op[r].seen)
        BY <3>1, <3>3 DEF BaseFits, HashesFit, Guarded
      <4>3. h \in Texts /\ Fits(h, c)
        BY <4>1, <4>2 DEF TypeOK, Texts
      <4>4. QED
        BY <4>3, FitsStays
    <3>4. QED
      BY <2>3, <3>2, <3>3 DEF Learned
  <2>4. \/ n \in notes \/ (\E p \in Readers : ReadContent(p))
        \/ (\E r \in Requests : Deliver(r) /\ n \in Learned(r))
    <3>1. ASSUME NEW r \in Requests, Write(r) \/ Upload(r) PROVE n \in notes
      BY <1>2, <3>1, WriterAlone
    <3>2. QED
      BY <1>2, <3>1 DEF Next, Submit, SubmitUpload, GiveUp, Deliver, Arrive, Acquire, Check, Edit, Crash, ReadHash
  <2>5. QED
    BY <2>1, <2>2, <2>3, <2>4
<1>3. ASSUME NEW r \in Requests, stage'[r] # "new", Guarded(r)', NEW h, NEW c,
             h = op'[r].hash, c = op'[r].seen
      PROVE  h # Missing /\ Fits(h, c)'
  <2>1. CASE op'[r] = op[r] /\ stage[r] # "new"
    <3>1. h \in Texts /\ Fits(h, c)
      BY <1>3, <2>1 DEF HashesFit, Guarded, TypeOK, Ops, Texts
    <3>2. QED
      BY <3>1, FitsStays DEF Texts
  <2>2. CASE stage[r] = "new" /\ op'[r] \in Asks
    <3>1. op'[r].strict /\ op'[r].kind \in {"patch", "delete", "rename"}
      BY <1>3 DEF Guarded
    <3>2. [file |-> op'[r].file, hash |-> h, content |-> c] \in notes
      BY <1>3, <2>2, <3>1 DEF Asks
    <3>3. h \in Texts /\ Fits(h, c)
      BY <3>2 DEF TypeOK, Notes, HashesFit
    <3>4. QED
      BY <3>3, FitsStays DEF Texts
  <2>3. (op'[r] = op[r] /\ stage[r] # "new") \/ (stage[r] = "new" /\ op'[r] \in Asks)
    <3>1. ASSUME NEW q \in Requests, Write(q) \/ Upload(q)
          PROVE  op'[r] = op[r] /\ stage[r] # "new"
      BY <1>3, <3>1, WriterAlone
    <3>2. ASSUME NEW q \in Requests, (\E k \in Callers : Submit(q, k)) \/ SubmitUpload(q)
          PROVE  (op'[r] = op[r] /\ stage[r] # "new") \/ (stage[r] = "new" /\ op'[r] \in Asks)
      BY <1>3, <3>2 DEF Submit, SubmitUpload, TypeOK
    <3>3. ASSUME NEW q \in Requests, GiveUp(q) \/ Deliver(q) \/ Arrive(q) \/ Acquire(q) \/ Check(q)
          PROVE  op'[r] = op[r] /\ stage[r] # "new"
      BY <1>3, <3>3 DEF GiveUp, Deliver, Arrive, Acquire, Check, Finish, TypeOK
    <3>4. CASE Crash
      BY <1>3, <3>4 DEF Crash, TypeOK, Remote
    <3>5. CASE UNCHANGED <<op, stage>>
      BY <1>3, <3>5
    <3>6. QED
      BY <3>1, <3>2, <3>3, <3>4, <3>5 DEF Next, ReadHash, ReadContent, Edit
  <2>4. QED
    BY <2>1, <2>2, <2>3
<1>4. \A p \in Readers : (reader[p].on => Fits(reader[p].hash, file[reader[p].file]))'
  BY <1>1 DEF Fits, Written
<1>5. \A n \in notes' : Fits(n.hash, n.content)'
  BY <1>2
<1>6. \A r \in Requests : (stage[r] # "new" /\ Guarded(r)
                            => op[r].hash # Missing /\ Fits(op[r].hash, op[r].seen))'
  BY <1>3 DEF Fits, Written, Guarded
<1>7. QED
  BY <1>4, <1>5, <1>6 DEF HashesFit

LEMMA BaseStep ==
  TypeOK /\ StageKnown /\ HashesFit /\ BaseFits /\ [Next]_vars => BaseFits'
<1> SUFFICES ASSUME TypeOK, StageKnown, HashesFit, BaseFits, [Next]_vars PROVE BaseFits'
  OBVIOUS
<1> USE DEF vars, clientVars, lockVars, fileVars, readVars
<1>1. moved \subseteq moved'
  BY FileStep
<1>2. ASSUME NEW r \in Requests, Check(r), stage'[r] = "ready", Guarded(r)
      PROVE  base'[r] = op[r].hash /\ base'[r] \in {op[r].seen, Empty} \cup moved
  <2>1. base'[r] = file[op[r].file] /\ file[op[r].file] = op[r].hash /\ op[r].file \in Files
    BY <1>2 DEF Check, Finish, Allowed, Guarded, TypeOK, Ops
  <2>2. stage[r] # "new" /\ Fits(op[r].hash, op[r].seen)
    BY <1>2 DEF Check, HashesFit
  <2>3. QED
    BY <2>1, <2>2 DEF Fits
<1>3. \A r \in Requests :
        (stage'[r] = "ready" \/ r \in applied') /\ Guarded(r)' =>
          \/ Check(r) /\ stage'[r] = "ready" /\ op'[r] = op[r]
          \/ op'[r] = op[r] /\ base'[r] = base[r] /\ (stage[r] = "ready" \/ r \in applied)
  <2>1. ASSUME NEW q \in Requests, Write(q) \/ Upload(q), NEW r \in Requests,
               stage'[r] = "ready" \/ r \in applied'
        PROVE  op'[r] = op[r] /\ base'[r] = base[r] /\ (stage[r] = "ready" \/ r \in applied)
    BY <2>1, WriterAlone
  <2>2. ASSUME NEW q \in Requests, Check(q), NEW r \in Requests,
               stage'[r] = "ready" \/ r \in applied'
        PROVE  \/ Check(r) /\ stage'[r] = "ready" /\ op'[r] = op[r]
               \/ op'[r] = op[r] /\ base'[r] = base[r] /\ (stage[r] = "ready" \/ r \in applied)
    BY <2>2 DEF Check, Finish, TypeOK, StageKnown
  <2>3. ASSUME NEW q \in Requests,
               (\E k \in Callers : Submit(q, k)) \/ SubmitUpload(q) \/ GiveUp(q) \/ Deliver(q)
                 \/ Arrive(q) \/ Acquire(q),
               NEW r \in Requests, stage'[r] = "ready" \/ r \in applied'
        PROVE  op'[r] = op[r] /\ base'[r] = base[r] /\ (stage[r] = "ready" \/ r \in applied)
    BY <2>3 DEF Submit, SubmitUpload, GiveUp, Deliver, Arrive, Acquire, TypeOK, StageKnown
  <2>4. CASE Crash
    BY <2>4 DEF Crash, TypeOK
  <2>5. CASE UNCHANGED <<op, base, stage, applied>>
    BY <2>5
  <2>6. QED
    BY <2>1, <2>2, <2>3, <2>4, <2>5 DEF Next, ReadHash, ReadContent, Edit
<1>4. QED
  BY <1>1, <1>2, <1>3 DEF BaseFits, Guarded

-----------------------------------------------------------------------------
(* The invariant and what follows from it *)

LEMMA WriteInit == Init => WriteInv
<1> SUFFICES ASSUME Init PROVE WriteInv
  OBVIOUS
<1>1. SomeFile \in Files
  BY WriteAssumption DEF SomeFile
<1>2. NoOp \in Ops /\ NoRead \in [on : BOOLEAN, file : Files, hash : Texts]
  BY <1>1, WriteAssumption DEF NoOp, NoRead, Ops, AllKinds, Texts, Contents
<1>3. TypeOK
  BY <1>2 DEF Init, TypeOK, Contents, Stages
<1>4. StageKnown /\ FilesKept /\ BaseFits /\ NoLostUpdate
  BY DEF Init, StageKnown, FilesKept, BaseFits, NoLostUpdate, Inside
<1>5. FilesApart
  BY WriteAssumption DEF Init, FilesApart, Written
<1>6. HashesFit
  BY DEF Init, HashesFit, NoRead
<1>7. QED
  BY <1>3, <1>4, <1>5, <1>6 DEF WriteInv

LEMMA WriteStep == WriteInv /\ [Next]_vars => WriteInv'
BY TypeStep, StageStep, ApartStep, KeptStep, LostStep, HashStep, BaseStep DEF WriteInv

LEMMA WriteInvHolds == Spec => []WriteInv
BY WriteInit, WriteStep, PTL DEF Spec

\* Every variable keeps its type.
THEOREM WriteTypes == Spec => []TypeOK
<1>1. WriteInv => TypeOK
  BY DEF WriteInv
<1>2. QED
  BY <1>1, WriteInvHolds, PTL

\* The lock, and the tests made under it, keep two requests from losing each
\* other's work: what a request overwrites unread was changed by hand.
THEOREM NoUpdateIsLost == Spec => []NoLostUpdate
<1>1. WriteInv => NoLostUpdate
  BY DEF WriteInv
<1>2. QED
  BY <1>1, WriteInvHolds, PTL

\* A request that passed its hash check replaces the content its client was
\* shown, or a truncated or renamed one.
THEOREM SeenStaysReplaced == Spec => []SeenIsReplaced
<1>1. WriteInv => SeenIsReplaced
  BY DEF WriteInv, BaseFits, Guarded, SeenIsReplaced
<1>2. QED
  BY <1>1, WriteInvHolds, PTL

\* The answer to a write says what became of it, also over timeouts and crashes.
THEOREM AnswersStayTrue == Spec => []AnswersAreTrue
<1>1. WriteInv => AnswersAreTrue
  BY DEF WriteInv, StageKnown, AnswersAreTrue
<1>2. QED
  BY <1>1, WriteInvHolds, PTL
=============================================================================
