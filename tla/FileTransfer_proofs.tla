------------------------- MODULE FileTransfer_proofs -------------------------
(***************************************************************************)
(* Proofs about FileTransfer, for any number of uploads, tools, downloads  *)
(* and crashes and contents of any length.                                 *)
(***************************************************************************)
EXTENDS FileTransfer, TLAPS

\* The stages of an upload whose file has not reached the target.
Coming == {"new", "head", "body", "sum", "install", "place"}

\* Uploads and tools keep to their own stages.
StageKinds ==
  /\ \A u \in Uploads : stage[u] \notin {"write", "fill"}
  /\ \A w \in Tools : stage[w] \in {"new", "write", "fill", "over", "dead"}

\* Who is at work has the lock, and so is alone; the file a tool fills is there.
LockHeld ==
  /\ \A w \in Writers : stage[w] \in Held => holder = w
  /\ \A w \in Tools : stage[w] = "fill" => target # None

\* The file of an upload on its way is its own: nobody reads or writes it.
OwnTemp ==
  \A u \in Uploads :
    /\ stage[u] \in Coming \/ u \in temp => target # u /\ \A d \in Downloads : fd[d] # u
    /\ stage[u] \in {"body", "sum", "install", "place"} => u \in temp /\ data[u].by = u
    /\ stage[u] \in {"sum", "install", "place"} => data[u] = Whole(u)
    /\ stage[u] \in {"install", "place"} => sha[u] # "wrong"

\* What an upload wrote is nowhere but in its own file.
Authored == \A i \in Writers : data[i].by \in Uploads => data[i].by = i

\* How far an upload must have come for each mark it leaves.
MarksKnown ==
  \A u \in Uploads :
    /\ u \in removed => stage[u] \notin Coming \ {"place"}
    /\ u \in renamed => stage[u] \notin Coming
    /\ stage[u] = "stamp" => u \in renamed
    /\ status[u] # 0 => stage[u] \in {"reply", "over", "dead"}

\* What a download knows of the file it has open.
OpenKnown ==
  \A d \in Downloads :
    /\ phase[d] \in {"new", "opened"} => body[d] = NoBody /\ hash[d] = None
    /\ phase[d] = "new" => fd[d] = None
    /\ phase[d] \in {"opened", "stream"} =>
         /\ fd[d] \in Writers /\ opened[d] \in Content
         /\ announced[d] = opened[d].len /\ offset[d] <= announced[d]
         /\ steady[d] => data[fd[d]] = opened[d]
    /\ phase[d] = "opened" /\ bound[d] => target = fd[d]

\* A stream is exact as far as it has come.
StreamExact ==
  \A d \in Downloads : phase[d] = "stream" /\ steady[d] =>
    /\ offset[d] + body[d].len <= announced[d]
    /\ body[d].from \subseteq {opened[d].by}
    /\ hash[d] # None /\ bound[d] => hash[d] = opened[d]

\* The inductive invariant.
TransferInv == /\ TypeOK /\ StageKinds /\ LockHeld /\ OwnTemp /\ Authored /\ MarksKnown
               /\ OpenKnown /\ StreamExact
               /\ TargetIsWhole /\ NothingLost /\ TempAccounted /\ StatusIsTrue
               /\ DownloadIsExact

-----------------------------------------------------------------------------

UploadTypes ==
  /\ holder \in Writers \cup {None}
  /\ stage \in [Writers -> Held \cup {"new", "over", "aborted", "dead"}]
  /\ overwrite \in [Uploads -> BOOLEAN] /\ sha \in [Uploads -> {"absent", "right", "wrong"}]
  /\ status \in [Uploads -> {0, 200, 400, 409}]
  /\ crashes \in 0..MaxCrashes

DiskTypes ==
  /\ target \in Writers \cup {None} /\ data \in [Writers -> Content] /\ temp \subseteq Uploads
  /\ removed \subseteq Uploads /\ renamed \subseteq Uploads
  /\ steady \in [Downloads -> BOOLEAN] /\ bound \in [Downloads -> BOOLEAN]

DownloadTypes ==
  /\ fd \in [Downloads -> Writers \cup {None}] /\ offset \in [Downloads -> 0..Chunks]
  /\ announced \in [Downloads -> 0..Chunks] /\ hash \in [Downloads -> Content \cup {None}]
  /\ body \in [Downloads -> Body]
  /\ phase \in [Downloads -> {"new", "opened", "stream", "closed", "done"}]
  /\ opened \in [Downloads -> Content \cup {None}]

LEMMA TypeParts == TypeOK <=> UploadTypes /\ DiskTypes /\ DownloadTypes
BY DEF TypeOK, UploadTypes, DiskTypes, DownloadTypes

LEMMA TypeStep == TypeOK /\ StageKinds /\ LockHeld /\ OpenKnown /\ [Next]_vars => TypeOK'
<1> SUFFICES ASSUME TypeOK, StageKinds, LockHeld, OpenKnown, [Next]_vars PROVE TypeOK'
  OBVIOUS
<1> USE DEF vars, lockVars, uploadVars, diskVars, downloadVars, history
<1> DEFINE Upload(u) == Start(u) \/ UploadStep(u) \/ Receive(u) \/ BodyBreaks(u)
           Tool(w) == ToolStart(w) \/ ToolStep(w)
           Download(d) == Open(d) \/ HashIt(d) \/ Stream(d)
<1>0. UploadTypes /\ DiskTypes /\ DownloadTypes /\ Uploads \subseteq Writers /\ Tools \subseteq Writers
  BY TypeParts DEF Writers
<1>1. ASSUME NEW u \in Uploads, Upload(u) PROVE TypeOK'
  <2>1. UploadTypes'
    BY <1>0, <1>1 DEF UploadTypes, Start, UploadStep, Receive, BodyBreaks, Head, HeadRefused, Sum, Unlink, Place, Stamp, Reply, Answer, Abort, Held
  <2>2. data' \in [Writers -> Content]
    <3>1. CASE Head(u)
      BY <1>0, <3>1, TransferAssumption DEF Head, DiskTypes, Content, Part
    <3>2. CASE Receive(u)
      <4>1. data[u] \in Content /\ (data[u].len < Chunks => data[u].len + 1 \in 0..Chunks)
        BY <1>0, TransferAssumption DEF DiskTypes, Content
      <4>2. data[u].len < Chunks => [data[u] EXCEPT !.len = @ + 1] \in Content
        BY <4>1 DEF Content
      <4>3. QED
        BY <1>0, <3>2, <4>2 DEF Receive, DiskTypes
    <3>3. QED
      BY <1>0, <1>1, <3>1, <3>2 DEF DiskTypes, Start, UploadStep, BodyBreaks, HeadRefused, Sum, Unlink, Place, Stamp, Reply
  <2>3. DiskTypes'
    BY <1>0, <1>1, <2>2 DEF DiskTypes, Start, UploadStep, Receive, BodyBreaks, Head, HeadRefused, Sum, Unlink, Place, Stamp, Reply, Rebinds
  <2>4. DownloadTypes'
    BY <1>0, <1>1 DEF DownloadTypes, Start, UploadStep, Receive, BodyBreaks, Head, HeadRefused, Sum, Unlink, Place, Stamp, Reply
  <2>5. QED
    BY <2>1, <2>3, <2>4 DEF TypeOK, UploadTypes, DiskTypes, DownloadTypes
<1>2. ASSUME NEW w \in Tools, Tool(w) PROVE TypeOK'
  <2>1. UploadTypes'
    BY <1>0, <1>2 DEF UploadTypes, ToolStart, ToolStep, ToolTruncate, ToolFill, ToolUnlink, Held
  <2>2. Part(w, 0) \in Content /\ Whole(w) \in Content
    BY <1>0, TransferAssumption DEF Part, Whole, Content
  <2>3. DiskTypes'
    <3>1. CASE ToolStart(w)
      BY <1>0, <3>1 DEF ToolStart, DiskTypes
    <3>2. CASE ToolTruncate(w)
      BY <1>0, <2>2, <3>2 DEF ToolTruncate, DiskTypes, Disturbs
    <3>3. CASE ToolFill(w)
      BY <1>0, <2>2, <3>3 DEF ToolFill, DiskTypes, Disturbs
    <3>4. CASE ToolUnlink(w)
      BY <1>0, <3>4 DEF ToolUnlink, DiskTypes, Rebinds
    <3>5. QED
      BY <1>2, <3>1, <3>2, <3>3, <3>4 DEF ToolStep
  <2>4. DownloadTypes'
    BY <1>0, <1>2 DEF DownloadTypes, ToolStart, ToolStep, ToolTruncate, ToolFill, ToolUnlink
  <2>5. QED
    BY <2>1, <2>3, <2>4 DEF TypeOK, UploadTypes, DiskTypes, DownloadTypes
<1>3. ASSUME NEW d \in Downloads, Download(d) PROVE TypeOK'
  <2>1. UploadTypes' /\ DiskTypes'
    BY <1>0, <1>3 DEF UploadTypes, DiskTypes, Open, HashIt, Stream
  <2>2. CASE Open(d)
    <3>1. data[target] \in Content /\ data[target].len \in 0..Chunks
      BY <1>0, <2>2 DEF Open, DiskTypes, Content
    <3>2. DownloadTypes'
      BY <1>0, <2>2, <3>1, TransferAssumption DEF Open, DiskTypes, DownloadTypes
    <3>3. QED
      BY <2>1, <3>2 DEF TypeOK, UploadTypes, DiskTypes, DownloadTypes
  <2>3. CASE HashIt(d)
    <3>1. DownloadTypes'
      BY <1>0, <2>3 DEF HashIt, DiskTypes, DownloadTypes
    <3>2. QED
      BY <2>1, <3>1 DEF TypeOK, UploadTypes, DiskTypes, DownloadTypes
  <2>4. CASE Stream(d)
    <3>1. data[fd[d]] \in Content /\ data[fd[d]].len \in 0..Chunks /\ data[fd[d]].by \in Writers
      BY <1>0, <2>4 DEF Stream, DiskTypes, OpenKnown, Content
    <3>2. body[d] \in Body /\ body[d].len \in 0..Chunks /\ offset[d] \in 0..Chunks
          /\ body[d].from \subseteq Writers
      BY <1>0 DEF DownloadTypes, Body
    <3>3. offset[d] + body[d].len < data[fd[d]].len =>
            [from |-> body[d].from \cup {data[fd[d]].by}, len |-> body[d].len + 1] \in Body
      BY <3>1, <3>2, TransferAssumption DEF Body
    <3>4. DownloadTypes'
      BY <1>0, <2>4, <3>3 DEF Stream, DownloadTypes
    <3>5. QED
      BY <2>1, <3>4 DEF TypeOK, UploadTypes, DiskTypes, DownloadTypes
  <2>5. QED
    BY <1>3, <2>2, <2>3, <2>4
<1>4. CASE Crash
  BY <1>4, TransferAssumption DEF Crash, TypeOK
<1>5. CASE UNCHANGED vars
  BY <1>5 DEF TypeOK
<1>6. QED
  BY <1>1, <1>2, <1>3, <1>4, <1>5 DEF Next

LEMMA StageStep == TypeOK /\ StageKinds /\ [Next]_vars => StageKinds'
<1> SUFFICES ASSUME TypeOK, StageKinds, [Next]_vars PROVE StageKinds'
  OBVIOUS
<1> USE DEF vars, uploadVars
<1>1. ASSUME NEW u \in Uploads, Start(u) \/ UploadStep(u) \/ Receive(u) \/ BodyBreaks(u)
      PROVE  StageKinds'
  <2>1. \E s \in {"head", "body", "sum", "install", "place", "stamp", "reply", "over", "aborted"} :
          stage' = [stage EXCEPT ![u] = s] \/ stage' = stage
    BY <1>1 DEF Start, UploadStep, Receive, BodyBreaks, Head, HeadRefused, Sum, Unlink, Place, Stamp, Reply, Answer, Abort
  <2>2. QED
    BY <2>1, TransferAssumption DEF StageKinds, TypeOK, Writers
<1>2. ASSUME NEW w \in Tools, ToolStart(w) \/ ToolStep(w) PROVE StageKinds'
  BY <1>2, TransferAssumption DEF StageKinds, TypeOK, Writers, ToolStart, ToolStep, ToolTruncate, ToolFill, ToolUnlink
<1>3. CASE Crash
  BY <1>3 DEF Crash, StageKinds, TypeOK, Writers
<1>4. CASE UNCHANGED stage
  BY <1>4 DEF StageKinds
<1>5. QED
  BY <1>1, <1>2, <1>3, <1>4 DEF Next, Open, HashIt, Stream

LEMMA LockStep == TypeOK /\ StageKinds /\ LockHeld /\ [Next]_vars => LockHeld'
<1> SUFFICES ASSUME TypeOK, StageKinds, LockHeld, [Next]_vars PROVE LockHeld'
  OBVIOUS
<1> USE DEF vars, lockVars, uploadVars, diskVars
<1>0. Uploads \subseteq Writers /\ Tools \subseteq Writers
  BY DEF Writers
<1>1. ASSUME NEW u \in Uploads, Start(u) \/ UploadStep(u) \/ Receive(u) \/ BodyBreaks(u)
      PROVE  LockHeld'
  <2>1. \A w \in Writers \ {u} : stage'[w] = stage[w] /\ stage[w] \notin Held
    BY <1>0, <1>1, TransferAssumption DEF LockHeld, TypeOK, Held, Start, UploadStep, Receive, BodyBreaks, Head, HeadRefused, Sum, Unlink, Place, Stamp, Reply, Answer, Abort
  <2>2. stage'[u] \in Held => holder' = u
    BY <1>0, <1>1 DEF LockHeld, TypeOK, Held, Start, UploadStep, Receive, BodyBreaks, Head, HeadRefused, Sum, Unlink, Place, Stamp, Reply, Answer, Abort
  <2>3. QED
    BY <1>0, <2>1, <2>2, TransferAssumption DEF LockHeld, Held
<1>2. ASSUME NEW t \in Tools, ToolStart(t) \/ ToolStep(t) PROVE LockHeld'
  <2>1. \A w \in Writers \ {t} : stage'[w] = stage[w] /\ stage[w] \notin Held
    BY <1>0, <1>2, TransferAssumption DEF LockHeld, TypeOK, Held, ToolStart, ToolStep, ToolTruncate, ToolFill, ToolUnlink
  <2>2. (stage'[t] \in Held => holder' = t) /\ (stage'[t] = "fill" => target' # None)
    BY <1>0, <1>2, TransferAssumption DEF LockHeld, TypeOK, Held, ToolStart, ToolStep, ToolTruncate, ToolFill, ToolUnlink
  <2>3. QED
    BY <1>0, <2>1, <2>2 DEF LockHeld, Held
<1>3. CASE Crash
  BY <1>3 DEF Crash, LockHeld, TypeOK, Held, Writers
<1>4. CASE UNCHANGED <<stage, holder, target>>
  BY <1>4 DEF LockHeld
<1>5. QED
  BY <1>1, <1>2, <1>3, <1>4 DEF Next, Open, HashIt, Stream

\* Only the upload at work touches its stage, marks and temporary file.
LEMMA OthersKept ==
  ASSUME TypeOK, NEW u \in Uploads, Start(u) \/ UploadStep(u) \/ Receive(u) \/ BodyBreaks(u)
  PROVE  /\ \A v \in Uploads \ {u} :
              /\ stage'[v] = stage[v] /\ status'[v] = status[v] /\ sha'[v] = sha[v]
              /\ v \in temp' <=> v \in temp
              /\ v \in removed' <=> v \in removed
              /\ v \in renamed' <=> v \in renamed
         /\ \A i \in Writers \ {u} : stage'[i] = stage[i] /\ data'[i] = data[i]
BY TransferAssumption DEF TypeOK, Writers, vars, lockVars, uploadVars, diskVars, Start, UploadStep, Receive, BodyBreaks, Head, HeadRefused, Sum, Unlink, Place, Stamp, Reply, Answer, Abort

LEMMA TempStep ==
  TypeOK /\ StageKinds /\ LockHeld /\ OwnTemp /\ MarksKnown /\ [Next]_vars => OwnTemp'
<1> SUFFICES ASSUME TypeOK, StageKinds, LockHeld, OwnTemp, MarksKnown, [Next]_vars PROVE OwnTemp'
  OBVIOUS
<1> USE DEF vars, lockVars, uploadVars, diskVars, downloadVars
<1>0. Uploads \subseteq Writers /\ Tools \subseteq Writers
  BY DEF Writers
<1>1. ASSUME NEW u \in Uploads, Start(u) \/ UploadStep(u) \/ Receive(u) \/ BodyBreaks(u)
      PROVE  OwnTemp'
  <2>1. UNCHANGED fd
    BY <1>1 DEF Start, UploadStep, Receive, BodyBreaks, Head, HeadRefused, Sum, Unlink, Place, Stamp, Reply, Answer, Abort
  <2>2. target' = target \/ target' = None \/ (target' = u /\ stage'[u] = "stamp" /\ u \notin temp')
    BY <1>1, <1>0 DEF TypeOK, Start, UploadStep, Receive, BodyBreaks, Head, HeadRefused, Sum, Unlink, Place, Stamp, Reply, Answer, Abort
  <2>3. /\ stage'[u] \in Coming \/ u \in temp' => (stage[u] \in Coming \/ u \in temp)
        /\ stage'[u] \in {"body", "sum", "install", "place"} => u \in temp' /\ data'[u].by = u
        /\ stage'[u] \in {"sum", "install", "place"} => data'[u] = Whole(u)
        /\ stage'[u] \in {"install", "place"} => sha'[u] # "wrong"
    <3>1. CASE Head(u)
      BY <3>1, <1>0 DEF Head, TypeOK, Part, Coming
    <3>2. CASE Receive(u)
      <4>1. data[u] \in Content /\ (data[u].len = Chunks => data[u] = Whole(u))
        BY <3>2, <1>0 DEF Receive, TypeOK, Content, Whole, OwnTemp
      <4>2. QED
        BY <3>2, <4>1, <1>0 DEF Receive, TypeOK, Content, OwnTemp, Coming
    <3>3. QED
      BY <1>1, <1>0, <3>1, <3>2 DEF TypeOK, OwnTemp, Coming, Start, UploadStep, BodyBreaks, HeadRefused, Sum, Unlink, Place, Stamp, Reply, Answer, Abort
  <2>4. QED
    BY <1>0, <2>1, <2>2, <2>3, OthersKept, <1>1, TransferAssumption DEF OwnTemp, Coming
<1>2. ASSUME NEW t \in Tools, ToolStart(t) \/ ToolStep(t) PROVE OwnTemp'
  <2>1. UNCHANGED <<fd, temp, sha>> /\ \A u \in Uploads : stage'[u] = stage[u]
    BY <1>2, <1>0, TransferAssumption DEF TypeOK, ToolStart, ToolStep, ToolTruncate, ToolFill, ToolUnlink
  <2>2. target' = target \/ target' = None \/ target' = t
    BY <1>2 DEF ToolStart, ToolStep, ToolTruncate, ToolFill, ToolUnlink
  <2>3. \A u \in Uploads : u # target => data'[u] = data[u]
    BY <1>2, <1>0, TransferAssumption DEF TypeOK, ToolStart, ToolStep, ToolTruncate, ToolFill, ToolUnlink
  <2>4. QED
    BY <1>0, <2>1, <2>2, <2>3, TransferAssumption DEF OwnTemp, Coming
<1>3. ASSUME NEW d \in Downloads, Open(d) PROVE OwnTemp'
  BY <1>3 DEF Open, OwnTemp, TypeOK
<1>4. CASE Crash
  BY <1>4, <1>0 DEF Crash, OwnTemp, TypeOK, Coming, Held
<1>5. CASE UNCHANGED <<stage, temp, target, fd, data, sha>>
  BY <1>5 DEF OwnTemp
<1>6. QED
  BY <1>1, <1>2, <1>3, <1>4, <1>5 DEF Next, HashIt, Stream

LEMMA AuthorStep == TypeOK /\ OwnTemp /\ Authored /\ [Next]_vars => Authored'
<1> SUFFICES ASSUME TypeOK, OwnTemp, Authored, [Next]_vars PROVE Authored'
  OBVIOUS
<1> USE DEF vars, diskVars
<1>0. Uploads \subseteq Writers /\ Tools \subseteq Writers
  BY DEF Writers
<1>1. ASSUME NEW u \in Uploads, Start(u) \/ UploadStep(u) \/ Receive(u) \/ BodyBreaks(u)
      PROVE  Authored'
  <2>1. CASE Head(u)
    BY <1>0, <2>1 DEF Head, Part, TypeOK, Authored
  <2>2. CASE Receive(u)
    <3>1. data[u] \in Content /\ data[u].by = u
      BY <1>0, <2>2 DEF Receive, TypeOK, OwnTemp
    <3>2. data'[u].by = u
      BY <1>0, <2>2, <3>1 DEF Receive, TypeOK, Content
    <3>3. QED
      BY <3>2, OthersKept, <1>1 DEF Authored
  <2>3. CASE UNCHANGED data
    BY <2>3 DEF Authored
  <2>4. QED
    BY <1>1, <2>1, <2>2, <2>3 DEF Start, UploadStep, BodyBreaks, HeadRefused, Sum, Unlink, Place, Stamp, Reply
<1>2. ASSUME NEW t \in Tools, ToolStart(t) \/ ToolStep(t) PROVE Authored'
  BY <1>0, <1>2, TransferAssumption DEF ToolStart, ToolStep, ToolTruncate, ToolFill, ToolUnlink, Part, Whole, TypeOK, Authored
<1>3. CASE UNCHANGED data
  BY <1>3 DEF Authored
<1>4. QED
  BY <1>1, <1>2, <1>3 DEF Next, Open, HashIt, Stream, Crash

LEMMA MarkStep ==
  TypeOK /\ StageKinds /\ MarksKnown /\ StatusIsTrue /\ [Next]_vars => MarksKnown' /\ StatusIsTrue'
<1> SUFFICES ASSUME TypeOK, StageKinds, MarksKnown, StatusIsTrue, [Next]_vars
             PROVE  MarksKnown' /\ StatusIsTrue'
  OBVIOUS
<1> USE DEF vars, lockVars, uploadVars
<1>0. Uploads \subseteq Writers /\ Tools \subseteq Writers
  BY DEF Writers
<1>1. ASSUME NEW u \in Uploads, Start(u) \/ UploadStep(u) \/ Receive(u) \/ BodyBreaks(u)
      PROVE  MarksKnown' /\ StatusIsTrue'
  <2>1. /\ u \in removed' => stage'[u] \notin Coming \ {"place"}
        /\ u \in renamed' => stage'[u] \notin Coming
        /\ stage'[u] = "stamp" => u \in renamed'
        /\ status'[u] # 0 => stage'[u] \in {"reply", "over", "dead"}
    BY <1>1, <1>0 DEF TypeOK, MarksKnown, Coming, Start, UploadStep, Receive, BodyBreaks, Head, HeadRefused, Sum, Unlink, Place, Stamp, Reply, Answer, Abort
  <2>2. status'[u] # 0 => (status'[u] = 200 <=> u \in renamed')
    BY <1>1, <1>0 DEF TypeOK, MarksKnown, StatusIsTrue, Coming, Start, UploadStep, Receive, BodyBreaks, Head, HeadRefused, Sum, Unlink, Place, Stamp, Reply, Answer, Abort
  <2>3. QED
    BY <2>1, <2>2, OthersKept, <1>1 DEF MarksKnown, StatusIsTrue, Coming
<1>2. ASSUME NEW t \in Tools, ToolStart(t) \/ ToolStep(t) PROVE MarksKnown' /\ StatusIsTrue'
  <2>1. UNCHANGED <<removed, renamed, status>> /\ \A u \in Uploads : stage'[u] = stage[u]
    BY <1>2, <1>0, TransferAssumption DEF TypeOK, ToolStart, ToolStep, ToolTruncate, ToolFill, ToolUnlink
  <2>2. QED
    BY <2>1 DEF MarksKnown, StatusIsTrue, Coming
<1>3. CASE Crash
  BY <1>3, <1>0 DEF Crash, MarksKnown, StatusIsTrue, TypeOK, Coming, Held
<1>4. CASE UNCHANGED uploadVars
  BY <1>4 DEF MarksKnown, StatusIsTrue
<1>5. QED
  BY <1>1, <1>2, <1>3, <1>4 DEF Next, Open, HashIt, Stream

LEMMA TempAccountStep ==
  TypeOK /\ TempAccounted /\ [Next]_vars => TempAccounted'
<1> SUFFICES ASSUME TypeOK, TempAccounted, [Next]_vars PROVE TempAccounted'
  OBVIOUS
<1> USE DEF vars, lockVars, uploadVars, diskVars
<1>0. Uploads \subseteq Writers /\ Tools \subseteq Writers
  BY DEF Writers
<1>1. ASSUME NEW u \in Uploads, Start(u) \/ UploadStep(u) \/ Receive(u) \/ BodyBreaks(u)
      PROVE  TempAccounted'
  <2>1. u \in temp' => stage'[u] \in {"body", "sum", "install", "place", "dead", "aborted"}
    BY <1>1, <1>0 DEF TypeOK, TempAccounted, Start, UploadStep, Receive, BodyBreaks, Head, HeadRefused, Sum, Unlink, Place, Stamp, Reply, Answer, Abort
  <2>2. temp' \subseteq Uploads
    BY <1>1 DEF TypeOK, Start, UploadStep, Receive, BodyBreaks, Head, HeadRefused, Sum, Unlink, Place, Stamp, Reply, Answer, Abort
  <2>3. QED
    BY <2>1, <2>2, OthersKept, <1>1 DEF TempAccounted
<1>2. ASSUME NEW t \in Tools, ToolStart(t) \/ ToolStep(t) PROVE TempAccounted'
  <2>1. UNCHANGED temp /\ \A u \in Uploads : stage'[u] = stage[u]
    BY <1>2, <1>0, TransferAssumption DEF TypeOK, ToolStart, ToolStep, ToolTruncate, ToolFill, ToolUnlink
  <2>2. QED
    BY <2>1 DEF TempAccounted, TypeOK
<1>3. CASE Crash
  BY <1>3, <1>0 DEF Crash, TempAccounted, TypeOK, Held
<1>4. CASE UNCHANGED <<temp, stage>>
  BY <1>4 DEF TempAccounted
<1>5. QED
  BY <1>1, <1>2, <1>3, <1>4 DEF Next, Open, HashIt, Stream

LEMMA NothingLostStep ==
  TypeOK /\ StageKinds /\ OwnTemp /\ MarksKnown /\ NothingLost /\ [Next]_vars => NothingLost'
<1> SUFFICES ASSUME TypeOK, StageKinds, OwnTemp, MarksKnown, NothingLost, [Next]_vars
             PROVE  NothingLost'
  OBVIOUS
<1> USE DEF vars, lockVars, uploadVars, diskVars
<1>0. Uploads \subseteq Writers /\ Tools \subseteq Writers
  BY DEF Writers
<1>1. ASSUME NEW u \in Uploads, Start(u) \/ UploadStep(u) \/ Receive(u) \/ BodyBreaks(u)
      PROVE  NothingLost'
  <2>1. u \in removed' \ renamed' => u \in temp' /\ data'[u] = Whole(u) /\ sha'[u] # "wrong"
    <3>1. CASE u \in removed
      BY <1>1, <1>0, <3>1 DEF TypeOK, MarksKnown, NothingLost, Coming, Start, UploadStep, Receive, BodyBreaks, Head, HeadRefused, Sum, Unlink, Place, Stamp, Reply, Answer, Abort
    <3>2. CASE u \notin removed
      BY <1>1, <1>0, <3>2 DEF TypeOK, OwnTemp, Start, UploadStep, Receive, BodyBreaks, Head, HeadRefused, Sum, Unlink, Place, Stamp, Reply, Answer, Abort
    <3>3. QED
      BY <3>1, <3>2
  <2>2. removed' \subseteq Uploads
    BY <1>1 DEF TypeOK, Start, UploadStep, Receive, BodyBreaks, Head, HeadRefused, Sum, Unlink, Place, Stamp, Reply, Answer, Abort
  <2>3. QED
    BY <2>1, <2>2, <1>0, OthersKept, <1>1 DEF NothingLost
<1>2. ASSUME NEW t \in Tools, ToolStart(t) \/ ToolStep(t) PROVE NothingLost'
  <2>1. UNCHANGED <<removed, renamed, temp, sha>> /\ \A u \in temp : data'[u] = data[u]
    BY <1>2, <1>0, TransferAssumption DEF TypeOK, OwnTemp, ToolStart, ToolStep, ToolTruncate, ToolFill, ToolUnlink
  <2>2. QED
    BY <2>1 DEF NothingLost
<1>3. CASE UNCHANGED <<removed, renamed, temp, data, sha>>
  BY <1>3 DEF NothingLost
<1>4. QED
  BY <1>1, <1>2, <1>3 DEF Next, Open, HashIt, Stream, Crash

LEMMA WholeStep ==
  /\ TypeOK /\ StageKinds /\ LockHeld /\ OwnTemp /\ Authored /\ TargetIsWhole /\ [Next]_vars
  => TargetIsWhole'
<1> SUFFICES ASSUME TypeOK, StageKinds, LockHeld, OwnTemp, Authored, TargetIsWhole, [Next]_vars
             PROVE  TargetIsWhole'
  OBVIOUS
<1> USE DEF vars, lockVars, uploadVars, diskVars
<1>0. Uploads \subseteq Writers /\ Tools \subseteq Writers
  BY DEF Writers
<1>1. ASSUME NEW u \in Uploads, Start(u) \/ UploadStep(u) \/ Receive(u) \/ BodyBreaks(u)
      PROVE  TargetIsWhole'
  <2>1. CASE target' # target
    <3>1. target' = None \/ (stage[u] = "place" /\ target' = u /\ UNCHANGED <<data, sha>>)
      BY <1>1, <2>1 DEF Start, UploadStep, Receive, BodyBreaks, Head, HeadRefused, Sum, Unlink, Place, Stamp, Reply, Answer, Abort
    <3>2. QED
      BY <3>1, <1>0 DEF TargetIsWhole, OwnTemp
  <2>2. CASE target' = target
    <3>1. target # None => target # u \/ data'[u] = data[u]
      BY <1>1, <1>0 DEF TypeOK, OwnTemp, Coming, Start, UploadStep, Receive, BodyBreaks, Head, HeadRefused, Sum, Unlink, Place, Stamp, Reply, Answer, Abort
    <3>2. target # None => data'[target] = data[target]
      BY <3>1, OthersKept, <1>1 DEF TypeOK
    <3>3. \A w \in Uploads : target # None /\ data[target] = Whole(w) => sha'[w] = sha[w]
      <4>1. target # None => target # u \/ stage[u] # "new"
        BY DEF OwnTemp, Coming
      <4>2. stage[u] # "new" => UNCHANGED sha
        BY <1>1 DEF Start, UploadStep, Receive, BodyBreaks, Head, HeadRefused, Sum, Unlink, Place, Stamp, Reply, Answer, Abort
      <4>3. QED
        BY <4>1, <4>2, OthersKept, <1>1 DEF Authored, Whole, TypeOK
    <3>4. \A w \in Tools : stage'[w] = stage[w]
      BY <1>0, OthersKept, <1>1, TransferAssumption
    <3>5. QED
      BY <2>2, <3>2, <3>3, <3>4 DEF TargetIsWhole
  <2>3. QED
    BY <2>1, <2>2
<1>2. ASSUME NEW t \in Tools, ToolStart(t) \/ ToolStep(t) PROVE TargetIsWhole'
  <2>1. UNCHANGED sha /\ \A w \in Tools : stage[w] \in {"over", "dead"} => stage'[w] = stage[w]
    BY <1>2, <1>0 DEF TypeOK, ToolStart, ToolStep, ToolTruncate, ToolFill, ToolUnlink
  <2>2. CASE ToolStart(t)
    BY <1>0, <2>1, <2>2 DEF ToolStart, TypeOK, TargetIsWhole
  <2>3. CASE ToolTruncate(t)
    BY <1>0, <2>3, TransferAssumption DEF ToolTruncate, TypeOK, TargetIsWhole
  <2>4. CASE ToolFill(t)
    <3>1. \A w \in Tools \ {t} : stage[w] # "fill" /\ stage'[w] = stage[w]
      BY <1>0, <2>4 DEF ToolFill, LockHeld, Held, TypeOK
    <3>2. stage'[t] = "over"
      BY <1>0, <2>4 DEF ToolFill, TypeOK
    <3>3. CASE data' = [data EXCEPT ![target] = Whole(t)]
      BY <1>0, <2>4, <3>3, TransferAssumption DEF ToolFill, TypeOK, TargetIsWhole
    <3>4. CASE UNCHANGED data
      BY <2>1, <2>4, <3>1, <3>2, <3>4 DEF ToolFill, TargetIsWhole
    <3>5. QED
      BY <2>4, <3>3, <3>4 DEF ToolFill
  <2>5. CASE ToolUnlink(t)
    BY <2>5 DEF ToolUnlink, TargetIsWhole
  <2>6. QED
    BY <1>2, <2>2, <2>3, <2>4, <2>5 DEF ToolStep
<1>3. CASE Crash
  BY <1>3, <1>0 DEF Crash, TypeOK, TargetIsWhole, Held
<1>4. CASE UNCHANGED <<target, data, sha, stage>>
  BY <1>4 DEF TargetIsWhole
<1>5. QED
  BY <1>1, <1>2, <1>3, <1>4 DEF Next, Open, HashIt, Stream

-----------------------------------------------------------------------------

\* A write into an inode or a new binding of the path is what the two histories say.
LEMMA StrangersNoticed ==
  ASSUME TypeOK, StageKinds, LockHeld, OwnTemp, NEW d \in Downloads,
         (\E u \in Uploads : Start(u) \/ UploadStep(u) \/ Receive(u) \/ BodyBreaks(u))
         \/ (\E w \in Tools : ToolStart(w) \/ ToolStep(w))
  PROVE  /\ UNCHANGED downloadVars
         /\ steady'[d] => steady[d] /\ (fd[d] \in Writers => data'[fd[d]] = data[fd[d]])
         /\ bound'[d] => bound[d] /\ (phase[d] = "opened" => target' = target \/ target = None)
<1> USE DEF vars, lockVars, uploadVars, diskVars, downloadVars, history
<1>0. Uploads \subseteq Writers /\ Tools \subseteq Writers
  BY DEF Writers
<1>1. ASSUME NEW u \in Uploads, Start(u) \/ UploadStep(u) \/ Receive(u) \/ BodyBreaks(u)
      PROVE  /\ UNCHANGED downloadVars
             /\ steady'[d] => steady[d] /\ (fd[d] \in Writers => data'[fd[d]] = data[fd[d]])
             /\ bound'[d] => bound[d] /\ (phase[d] = "opened" => target' = target \/ target = None)
  <2>1. UNCHANGED <<downloadVars, steady>>
    BY <1>1 DEF Start, UploadStep, Receive, BodyBreaks, Head, HeadRefused, Sum, Unlink, Place, Stamp, Reply, Answer, Abort
  <2>2. bound'[d] => bound[d] /\ (phase[d] = "opened" => target' = target \/ target = None)
    <3>1. UNCHANGED <<bound, target>> \/ Rebinds
      BY <1>1 DEF Start, UploadStep, Receive, BodyBreaks, Head, HeadRefused, Sum, Unlink, Place, Stamp, Reply, Answer, Abort
    <3>2. CASE Rebinds
      <4>1. bound'[d] = (bound[d] /\ phase[d] # "opened")
        BY <3>2 DEF Rebinds
      <4>2. QED
        BY <4>1
    <3>3. QED
      BY <3>1, <3>2
  <2>3. stage[u] \in Coming \/ data' = data
    BY <1>1 DEF Coming, Start, UploadStep, Receive, BodyBreaks, Head, HeadRefused, Sum, Unlink, Place, Stamp, Reply, Answer, Abort
  <2>4. fd[d] \in Writers => data'[fd[d]] = data[fd[d]]
    BY <1>0, <2>3, OthersKept, <1>1 DEF OwnTemp
  <2>5. QED
    BY <2>1, <2>2, <2>4
<1>2. ASSUME NEW t \in Tools, ToolStart(t) \/ ToolStep(t)
      PROVE  /\ UNCHANGED downloadVars
             /\ steady'[d] => steady[d] /\ (fd[d] \in Writers => data'[fd[d]] = data[fd[d]])
             /\ bound'[d] => bound[d] /\ (phase[d] = "opened" => target' = target \/ target = None)
  <2>1. CASE ToolStart(t)
    BY <2>1 DEF ToolStart
  <2>2. CASE ToolTruncate(t)
    BY <1>0, <2>2 DEF ToolTruncate, Disturbs, TypeOK
  <2>3. CASE ToolFill(t)
    <3>1. UNCHANGED <<downloadVars, bound, target>>
      BY <2>3 DEF ToolFill
    <3>2. CASE data' = [data EXCEPT ![target] = Whole(t)] /\ Disturbs(target)
      BY <3>1, <3>2 DEF Disturbs, TypeOK
    <3>3. CASE UNCHANGED <<data, steady>>
      BY <3>1, <3>3
    <3>4. QED
      BY <2>3, <3>1, <3>2, <3>3 DEF ToolFill
  <2>4. CASE ToolUnlink(t)
    BY <1>0, <2>4 DEF ToolUnlink, Rebinds, TypeOK
  <2>5. QED
    BY <1>2, <2>1, <2>2, <2>3, <2>4 DEF ToolStep
<1>3. QED
  BY <1>1, <1>2

LEMMA OpenStep ==
  TypeOK /\ StageKinds /\ LockHeld /\ OwnTemp /\ OpenKnown /\ [Next]_vars => OpenKnown'
<1> SUFFICES ASSUME TypeOK, StageKinds, LockHeld, OwnTemp, OpenKnown, [Next]_vars PROVE OpenKnown'
  OBVIOUS
<1> USE DEF vars, lockVars, uploadVars, diskVars, downloadVars, history
<1>1. CASE (\E u \in Uploads : Start(u) \/ UploadStep(u) \/ Receive(u) \/ BodyBreaks(u))
           \/ (\E w \in Tools : ToolStart(w) \/ ToolStep(w))
  BY <1>1, StrangersNoticed, TransferAssumption DEF OpenKnown
<1>2. ASSUME NEW e \in Downloads, Open(e) PROVE OpenKnown'
  <2>1. data[target] \in Content /\ data[target].len \in 0..Chunks /\ target \in Writers
    BY <1>2 DEF Open, TypeOK, Content
  <2>2. QED
    BY <1>2, <2>1, TransferAssumption DEF Open, TypeOK, OpenKnown
<1>3. ASSUME NEW e \in Downloads, HashIt(e) PROVE OpenKnown'
  BY <1>3 DEF HashIt, TypeOK, OpenKnown
<1>4. ASSUME NEW e \in Downloads, Stream(e) PROVE OpenKnown'
  BY <1>4 DEF Stream, TypeOK, OpenKnown
<1>5. CASE Crash
  BY <1>5 DEF Crash, TypeOK, OpenKnown
<1>6. CASE UNCHANGED <<downloadVars, history, data, target>>
  BY <1>6 DEF OpenKnown
<1>7. QED
  BY <1>1, <1>2, <1>3, <1>4, <1>5, <1>6 DEF Next

LEMMA ExactStep ==
  /\ TypeOK /\ StageKinds /\ LockHeld /\ OwnTemp /\ OpenKnown /\ StreamExact
  /\ DownloadIsExact /\ [Next]_vars
  => StreamExact' /\ DownloadIsExact'
<1> SUFFICES ASSUME TypeOK, StageKinds, LockHeld, OwnTemp, OpenKnown, StreamExact,
                    DownloadIsExact, [Next]_vars
             PROVE  StreamExact' /\ DownloadIsExact'
  OBVIOUS
<1> USE DEF vars, lockVars, uploadVars, diskVars, downloadVars, history
<1>1. CASE (\E u \in Uploads : Start(u) \/ UploadStep(u) \/ Receive(u) \/ BodyBreaks(u))
           \/ (\E w \in Tools : ToolStart(w) \/ ToolStep(w))
  BY <1>1, StrangersNoticed DEF StreamExact, DownloadIsExact
<1>2. ASSUME NEW e \in Downloads, Open(e) PROVE StreamExact' /\ DownloadIsExact'
  BY <1>2 DEF Open, TypeOK, StreamExact, DownloadIsExact
<1>3. ASSUME NEW e \in Downloads, HashIt(e) PROVE StreamExact' /\ DownloadIsExact'
  <2>1. body[e] = NoBody /\ hash[e] = None /\ offset[e] \in Nat /\ offset[e] <= announced[e]
    BY <1>3 DEF HashIt, OpenKnown, TypeOK
  <2>2. target # None /\ steady[e] /\ bound[e] => data[target] = opened[e]
    BY <1>3 DEF HashIt, OpenKnown
  <2>3. QED
    BY <1>3, <2>1, <2>2 DEF HashIt, NoBody, TypeOK, StreamExact, DownloadIsExact
<1>4. ASSUME NEW e \in Downloads, Stream(e) PROVE StreamExact' /\ DownloadIsExact'
  <2>1. /\ steady[e] => data[fd[e]] = opened[e]
        /\ announced[e] = opened[e].len /\ announced[e] \in Nat /\ offset[e] \in Nat
        /\ body[e].len \in Nat
    BY <1>4 DEF Stream, OpenKnown, TypeOK, Body
  <2>2. \A d \in Downloads \ {e} : phase'[d] = phase[d] /\ body'[d] = body[d]
    BY <1>4 DEF Stream, TypeOK
  <2>3. CASE offset[e] + body[e].len < data[fd[e]].len
    <3>0. fd[e] \in Writers /\ data[fd[e]].len \in Nat
      BY <1>4 DEF Stream, OpenKnown, TypeOK, Content
    <3>1. phase' = phase
          /\ body'[e] = [from |-> body[e].from \cup {data[fd[e]].by}, len |-> body[e].len + 1]
      <4>1. ~(offset[e] + body[e].len >= data[fd[e]].len)
        BY <2>1, <2>3, <3>0
      <4>2. /\ phase' = phase
            /\ body' = [body EXCEPT ![e] = [from |-> @.from \cup {data[fd[e]].by}, len |-> @.len + 1]]
        BY <1>4, <4>1 DEF Stream
      <4>3. QED
        BY <4>2 DEF TypeOK
    <3>2. StreamExact'
      BY <1>4, <2>1, <2>2, <2>3, <3>1 DEF Stream, StreamExact
    <3>3. DownloadIsExact'
      BY <1>4, <2>2, <3>1 DEF Stream, DownloadIsExact
    <3>4. QED
      BY <3>2, <3>3
  <2>4. CASE ~(offset[e] + body[e].len < data[fd[e]].len)
    BY <1>4, <2>1, <2>2, <2>4 DEF Stream, TypeOK, StreamExact, DownloadIsExact
  <2>5. QED
    BY <2>3, <2>4
<1>5. CASE Crash
  BY <1>5 DEF Crash, TypeOK, StreamExact, DownloadIsExact
<1>6. CASE UNCHANGED <<downloadVars, history>>
  BY <1>6 DEF StreamExact, DownloadIsExact
<1>7. QED
  BY <1>1, <1>2, <1>3, <1>4, <1>5, <1>6 DEF Next

-----------------------------------------------------------------------------

LEMMA TransferInit == Init => TransferInv
<1> SUFFICES ASSUME Init PROVE TransferInv
  OBVIOUS
<1> USE DEF Init
<1>1. TypeOK
  <2>1. \A w \in Writers : Whole(w) \in Content
    BY TransferAssumption DEF Whole, Content
  <2>2. NoBody \in Body
    BY TransferAssumption DEF NoBody, Body
  <2>3. QED
    BY <2>1, <2>2, TransferAssumption DEF TypeOK, Writers
<1>2. \E old \in Tools \cup {None} : target = old /\ stage = [w \in Writers |-> IF w = old THEN "over" ELSE "new"]
  OBVIOUS
<1>3. StageKinds /\ LockHeld /\ OwnTemp /\ Authored /\ MarksKnown
  BY <1>2, TransferAssumption DEF StageKinds, LockHeld, OwnTemp, Authored, MarksKnown, Writers, Held, Coming, Whole
<1>4. OpenKnown /\ StreamExact /\ DownloadIsExact
  BY DEF OpenKnown, StreamExact, DownloadIsExact
<1>5. TargetIsWhole
  BY <1>2, TransferAssumption DEF TargetIsWhole, Writers
<1>6. NothingLost /\ TempAccounted /\ StatusIsTrue
  BY DEF NothingLost, TempAccounted, StatusIsTrue
<1>7. QED
  BY <1>1, <1>3, <1>4, <1>5, <1>6 DEF TransferInv

LEMMA TransferStep == TransferInv /\ [Next]_vars => TransferInv'
BY TypeStep, StageStep, LockStep, TempStep, AuthorStep, MarkStep, TempAccountStep, NothingLostStep, WholeStep, OpenStep, ExactStep DEF TransferInv

LEMMA TransferInvHolds == Spec => []TransferInv
BY TransferInit, TransferStep, PTL DEF Spec

\* The lock, the disk, every upload and every download keep their types.
THEOREM TransferTypes == Spec => []TypeOK
<1>1. TransferInv => TypeOK
  BY DEF TransferInv
<1>2. QED
  BY <1>1, TransferInvHolds, PTL

\* The target is never part of an upload nor one with a wrong checksum, whatever
\* crashes, fails or runs beside it.
THEOREM TargetStaysWhole == Spec => []TargetIsWhole
<1>1. TransferInv => TargetIsWhole
  BY DEF TransferInv
<1>2. QED
  BY <1>1, TransferInvHolds, PTL

\* The content that was to replace a removed file is on the disk, whole.
THEOREM NothingIsLost == Spec => []NothingLost
<1>1. TransferInv => NothingLost
  BY DEF TransferInv
<1>2. QED
  BY <1>1, TransferInvHolds, PTL

\* Only a crash or a failed remove or rename leaves a temporary file behind.
THEOREM TempsAccounted == Spec => []TempAccounted
<1>1. TransferInv => TempAccounted
  BY DEF TransferInv
<1>2. QED
  BY <1>1, TransferInvHolds, PTL

\* An upload is answered with 200 exactly when its file reached the target.
THEOREM StatusesAreTrue == Spec => []StatusIsTrue
<1>1. TransferInv => StatusIsTrue
  BY DEF TransferInv
<1>2. QED
  BY <1>1, TransferInvHolds, PTL

\* A finished download nobody wrote into is the content it opened, with its hash.
THEOREM DownloadsAreExact == Spec => []DownloadIsExact
<1>1. TransferInv => DownloadIsExact
  BY DEF TransferInv
<1>2. QED
  BY <1>1, TransferInvHolds, PTL

=============================================================================
