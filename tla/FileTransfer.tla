---------------------------- MODULE FileTransfer ----------------------------
(***************************************************************************)
(* The HTTP file transfer of the executor (src/src/file_transfer.rs) on    *)
(* one target path: uploads into a temporary file that is then renamed,    *)
(* and downloads, which take no lock, beside the FileAction writers that   *)
(* share the write lock and write in place, and crashes of the executor.   *)
(* A file is an inode, named after the writer that created it; an open     *)
(* download keeps the inode it opened when the path is bound to another.   *)
(***************************************************************************)
EXTENDS Naturals

CONSTANTS Uploads, Tools, Downloads,
          Chunks,       \* length of every complete content
          None,         \* no inode, no hash, nobody
          MaxCrashes    \* bound on the crashes

Writers == Uploads \cup Tools

ASSUME TransferAssumption ==
  /\ Chunks \in Nat \ {0} /\ MaxCrashes \in Nat
  /\ None \notin Writers /\ Uploads \cap Tools = {}

VARIABLES
  holder,    \* Executor::write_lock
  target,    \* the inode at the target path
  data,      \* the content of each inode: who wrote it and how much of it
  temp,      \* the temporary names that exist: u names inode u
  stage, overwrite, sha,   \* each upload or tool write, its headers
  status,    \* the HTTP status an upload was answered with, 0 for none
  fd, offset, announced, hash, body, phase,   \* each download
  crashes,
  removed,   \* history: uploads that removed the file they replace
  renamed,   \* history: uploads whose file reached the target
  opened,    \* history: the content of fd when it was opened
  steady,    \* history: nobody wrote into fd since
  bound      \* history: nobody bound the path to another inode before the hash

lockVars  == <<holder, crashes>>
uploadVars == <<stage, overwrite, sha, status, removed, renamed>>
diskVars  == <<target, data, temp>>
downloadVars == <<fd, offset, announced, hash, body, phase, opened>>
history   == <<steady, bound>>
vars == <<lockVars, uploadVars, diskVars, downloadVars, history>>

Content == [by : Writers, len : 0..Chunks]
Whole(w) == [by |-> w, len |-> Chunks]
Part(w, n) == [by |-> w, len |-> n]
Body    == [from : SUBSET Writers, len : 0..Chunks]
NoBody  == [from |-> {}, len |-> 0]

Held == {"head", "body", "sum", "install", "place", "stamp", "reply", "write", "fill"}

-----------------------------------------------------------------------------
(* Shared steps *)

Answer(u, code) == /\ stage' = [stage EXCEPT ![u] = "reply"]
                   /\ status' = [status EXCEPT ![u] = code]

\* The handler returns with ?: no response, the connection closes.
Abort(w) == /\ stage' = [stage EXCEPT ![w] = "aborted"]
            /\ holder' = None

\* Writing into inode i disturbs the downloads that have it open.
Disturbs(i) == steady' = [d \in Downloads |-> steady[d] /\ fd[d] # i]

\* Binding the path to another inode disturbs those that have not hashed yet.
Rebinds == bound' = [d \in Downloads |-> bound[d] /\ phase[d] # "opened"]

-----------------------------------------------------------------------------
(* Slips a change to the code could make; each breaks a property below when  *)
(* it stands in for the definition it is named after.                        *)

\* The upload writes straight into the target file.
Head_inPlace(u) ==
  /\ stage[u] = "head"
  /\ target' = IF target = None THEN u ELSE target
  /\ data' = [data EXCEPT ![u] = Part(u, 0)]
  /\ stage' = [stage EXCEPT ![u] = "body"]
  /\ Disturbs(u)
  /\ UNCHANGED <<lockVars, temp, overwrite, sha, status, removed, renamed,
                 downloadVars, bound>>

\* The temporary file is left behind when the body breaks off.
BodyBreaks_keeps(u) ==
  /\ stage[u] = "body"
  /\ Answer(u, 400)
  /\ UNCHANGED <<lockVars, overwrite, sha, removed, renamed, diskVars,
                 downloadVars, history>>

\* The old file is removed before the new one has arrived.
Head_removesFirst(u) ==
  /\ stage[u] = "head"
  /\ target' = IF overwrite[u] THEN None ELSE target
  /\ removed' = IF overwrite[u] /\ target # None THEN removed \cup {u} ELSE removed
  /\ temp' = temp \cup {u}
  /\ data' = [data EXCEPT ![u] = Part(u, 0)]
  /\ stage' = [stage EXCEPT ![u] = "body"]
  /\ Rebinds
  /\ UNCHANGED <<lockVars, overwrite, sha, status, renamed, downloadVars, steady>>

\* The copy loop ignores the offset it has sought to.
Stream_noSeek(d) ==
  /\ phase[d] = "stream"
  /\ LET c == data[fd[d]] IN
       \/ /\ body[d].len < c.len
          /\ body' = [body EXCEPT ![d] = [from |-> @.from \cup {c.by}, len |-> @.len + 1]]
          /\ UNCHANGED phase
       \/ /\ body[d].len >= c.len
          /\ phase' = [phase EXCEPT ![d] = "done"]
          /\ UNCHANGED body
  /\ UNCHANGED <<lockVars, uploadVars, diskVars, fd, offset, announced, hash, opened,
                 history>>

\* The result of the rename is discarded.
Place_unchecked(u) ==
  /\ stage[u] = "place"
  /\ \/ /\ target' = u
        /\ temp' = temp \ {u}
        /\ renamed' = renamed \cup {u}
        /\ Rebinds
     \/ UNCHANGED <<target, temp, renamed, bound>>
  /\ stage' = [stage EXCEPT ![u] = "stamp"]
  /\ UNCHANGED <<lockVars, overwrite, sha, status, removed, data, downloadVars, steady>>

-----------------------------------------------------------------------------
(* Init: the path is free, or holds a file some tool wrote before *)

Init ==
  /\ holder = None /\ crashes = 0
  /\ temp = {}
  /\ data = [w \in Writers |-> Whole(w)]
  /\ \E old \in Tools \cup {None} :
       /\ target = old
       /\ stage = [w \in Writers |-> IF w = old THEN "over" ELSE "new"]
  /\ overwrite = [u \in Uploads |-> FALSE]
  /\ sha = [u \in Uploads |-> "absent"]
  /\ status = [u \in Uploads |-> 0]
  /\ fd = [d \in Downloads |-> None]
  /\ offset = [d \in Downloads |-> 0]
  /\ announced = [d \in Downloads |-> 0]
  /\ hash = [d \in Downloads |-> None]
  /\ body = [d \in Downloads |-> NoBody]
  /\ phase = [d \in Downloads |-> "new"]
  /\ opened = [d \in Downloads |-> None]
  /\ removed = {} /\ renamed = {}
  /\ steady = [d \in Downloads |-> TRUE]
  /\ bound = [d \in Downloads |-> TRUE]

-----------------------------------------------------------------------------
(* handle_upload, with the write lock held to its very end *)

\* A PUT arrives and takes the lock; sha says whether X-RE-Sha256 is there
\* and whether it is that of the bytes the client will send.
Start(u) ==
  /\ stage[u] = "new" /\ holder = None
  /\ holder' = u
  /\ stage' = [stage EXCEPT ![u] = "head"]
  /\ \E o \in BOOLEAN : overwrite' = [overwrite EXCEPT ![u] = o]
  /\ \E s \in {"absent", "right", "wrong"} : sha' = [sha EXCEPT ![u] = s]
  /\ UNCHANGED <<crashes, status, removed, renamed, diskVars, downloadVars, history>>

\* The path and the headers are good and the target is free or may be replaced.
Head(u) ==
  /\ stage[u] = "head"
  /\ target = None \/ overwrite[u]
  /\ temp' = temp \cup {u}
  /\ data' = [data EXCEPT ![u] = Part(u, 0)]
  /\ stage' = [stage EXCEPT ![u] = "body"]
  /\ UNCHANGED <<lockVars, overwrite, sha, status, removed, renamed, target,
                 downloadVars, history>>

\* An existing target, a missing parent, a bad length or bad headers.
HeadRefused(u) ==
  /\ stage[u] = "head"
  /\ \/ target # None /\ ~overwrite[u] /\ Answer(u, 409) /\ UNCHANGED holder
     \/ Answer(u, 400) /\ UNCHANGED holder      \* also for 404 and 411
     \/ Abort(u) /\ UNCHANGED status
  /\ UNCHANGED <<crashes, overwrite, sha, removed, renamed, diskVars, downloadVars,
                 history>>

\* receive_upload_body: one read of the socket, until Content-Length is met.
Receive(u) ==
  /\ stage[u] = "body"
  /\ \/ /\ data[u].len < Chunks
        /\ data' = [data EXCEPT ![u].len = @ + 1]
        /\ UNCHANGED stage
     \/ /\ data[u].len = Chunks
        /\ stage' = [stage EXCEPT ![u] = "sum"]
        /\ UNCHANGED data
  /\ UNCHANGED <<lockVars, overwrite, sha, status, removed, renamed, target, temp,
                 downloadVars, history>>

\* The client closes early or sends too much, or the disk is full.
BodyBreaks(u) ==
  /\ stage[u] = "body"
  /\ temp' = temp \ {u}
  /\ Answer(u, 400)
  /\ UNCHANGED <<lockVars, overwrite, sha, removed, renamed, target, data,
                 downloadVars, history>>

Sum(u) ==
  /\ stage[u] = "sum"
  /\ \/ /\ sha[u] # "wrong"
        /\ stage' = [stage EXCEPT ![u] = "install"]
        /\ UNCHANGED <<temp, status>>
     \/ /\ sha[u] = "wrong"
        /\ temp' = temp \ {u}
        /\ Answer(u, 409)
  /\ UNCHANGED <<lockVars, overwrite, sha, removed, renamed, target, data,
                 downloadVars, history>>

\* An overwrite removes the old file first; if that fails the handler returns.
Unlink(u) ==
  /\ stage[u] = "install"
  /\ \/ /\ overwrite[u] /\ target # None
        /\ target' = None
        /\ removed' = removed \cup {u}
        /\ stage' = [stage EXCEPT ![u] = "place"]
        /\ Rebinds
        /\ UNCHANGED holder
     \/ /\ ~overwrite[u] \/ target = None
        /\ stage' = [stage EXCEPT ![u] = "place"]
        /\ UNCHANGED <<holder, target, removed, bound>>
     \/ overwrite[u] /\ Abort(u) /\ UNCHANGED <<target, removed, bound>>
  /\ UNCHANGED <<crashes, overwrite, sha, status, renamed, data, temp, downloadVars,
                 steady>>

\* The rename, which replaces what it finds, or fails.
Place(u) ==
  /\ stage[u] = "place"
  /\ \/ /\ target' = u
        /\ temp' = temp \ {u}
        /\ renamed' = renamed \cup {u}
        /\ stage' = [stage EXCEPT ![u] = "stamp"]
        /\ Rebinds
        /\ UNCHANGED holder
     \/ Abort(u) /\ UNCHANGED <<target, temp, renamed, bound>>
  /\ UNCHANGED <<crashes, overwrite, sha, status, removed, data, downloadVars, steady>>

Stamp(u) ==
  /\ stage[u] = "stamp"
  /\ \/ Answer(u, 200) /\ UNCHANGED holder
     \/ Abort(u) /\ UNCHANGED status
  /\ UNCHANGED <<crashes, overwrite, sha, removed, renamed, diskVars, downloadVars,
                 history>>

\* The response is written; only then does the guard go.
Reply(u) ==
  /\ stage[u] = "reply"
  /\ stage' = [stage EXCEPT ![u] = "over"]
  /\ holder' = None
  /\ UNCHANGED <<crashes, overwrite, sha, status, removed, renamed, diskVars,
                 downloadVars, history>>

-----------------------------------------------------------------------------
(* The FileAction writers: patch and create write in place, delete unlinks *)

ToolStart(w) ==
  /\ stage[w] = "new" /\ holder = None
  /\ holder' = w
  /\ stage' = [stage EXCEPT ![w] = "write"]
  /\ UNCHANGED <<crashes, overwrite, sha, status, removed, renamed, diskVars,
                 downloadVars, history>>

\* fs::write truncates the inode at the path, or creates one.
ToolTruncate(w) ==
  /\ stage[w] = "write"
  /\ LET i == IF target = None THEN w ELSE target IN
       /\ target' = i
       /\ data' = [data EXCEPT ![i] = Part(w, 0)]
       /\ Disturbs(i)
  /\ stage' = [stage EXCEPT ![w] = "fill"]
  /\ UNCHANGED <<lockVars, overwrite, sha, status, removed, renamed, temp,
                 downloadVars, bound>>

ToolFill(w) ==
  /\ stage[w] = "fill"
  /\ \/ data' = [data EXCEPT ![target] = Whole(w)] /\ Disturbs(target)
     \/ UNCHANGED <<data, steady>>
  /\ stage' = [stage EXCEPT ![w] = "over"]
  /\ holder' = None
  /\ UNCHANGED <<crashes, overwrite, sha, status, removed, renamed, target, temp,
                 downloadVars, bound>>

\* delete, or a rename of the target to another path.
ToolUnlink(w) ==
  /\ stage[w] = "write" /\ target # None
  /\ target' = None
  /\ stage' = [stage EXCEPT ![w] = "over"]
  /\ holder' = None
  /\ Rebinds
  /\ UNCHANGED <<crashes, overwrite, sha, status, removed, renamed, data, temp,
                 downloadVars, steady>>

-----------------------------------------------------------------------------
(* handle_download *)

\* File::open and its metadata: the length goes into the headers.
Open(d) ==
  /\ phase[d] = "new" /\ target # None
  /\ fd' = [fd EXCEPT ![d] = target]
  /\ opened' = [opened EXCEPT ![d] = data[target]]
  /\ announced' = [announced EXCEPT ![d] = data[target].len]
  /\ \E o \in 0..data[target].len : offset' = [offset EXCEPT ![d] = o]
  /\ phase' = [phase EXCEPT ![d] = "opened"]
  /\ UNCHANGED <<lockVars, uploadVars, diskVars, hash, body, history>>

\* file_hash_code opens the path once more, whatever it is bound to by now;
\* with nothing there the handler returns without a response.
HashIt(d) ==
  /\ phase[d] = "opened"
  /\ \/ /\ target # None
        /\ hash' = [hash EXCEPT ![d] = data[target]]
        /\ phase' = [phase EXCEPT ![d] = "stream"]
     \/ /\ target = None
        /\ phase' = [phase EXCEPT ![d] = "closed"]
        /\ UNCHANGED hash
     \/ /\ phase' = [phase EXCEPT ![d] = "stream"]   \* no X-RE-Hash: true
        /\ UNCHANGED hash
  /\ UNCHANGED <<lockVars, uploadVars, diskVars, fd, offset, announced, body, opened,
                 history>>

\* The copy loop reads to the end of the inode as it is then.
Stream(d) ==
  /\ phase[d] = "stream"
  /\ LET c == data[fd[d]] IN
       \/ /\ offset[d] + body[d].len < c.len
          /\ body' = [body EXCEPT ![d] = [from |-> @.from \cup {c.by}, len |-> @.len + 1]]
          /\ UNCHANGED phase
       \/ /\ offset[d] + body[d].len >= c.len
          /\ phase' = [phase EXCEPT ![d] = "done"]
          /\ UNCHANGED body
  /\ UNCHANGED <<lockVars, uploadVars, diskVars, fd, offset, announced, hash, opened,
                 history>>

-----------------------------------------------------------------------------

\* The executor dies and is started again: the disk stays as it is.
Crash ==
  /\ crashes < MaxCrashes
  /\ crashes' = crashes + 1
  /\ holder' = None
  /\ stage' = [w \in Writers |-> IF stage[w] \in Held THEN "dead" ELSE stage[w]]
  /\ phase' = [d \in Downloads |->
                 IF phase[d] \in {"opened", "stream"} THEN "closed" ELSE phase[d]]
  /\ UNCHANGED <<overwrite, sha, status, removed, renamed, diskVars,
                 fd, offset, announced, hash, body, opened, history>>

UploadStep(u) ==
  \/ Head(u) \/ HeadRefused(u) \/ Sum(u) \/ Unlink(u) \/ Place(u) \/ Stamp(u)
  \/ Reply(u)

ToolStep(w) == ToolTruncate(w) \/ ToolFill(w) \/ ToolUnlink(w)

Next == \/ \E u \in Uploads : Start(u) \/ UploadStep(u) \/ Receive(u) \/ BodyBreaks(u)
        \/ \E w \in Tools : ToolStart(w) \/ ToolStep(w)
        \/ \E d \in Downloads : Open(d) \/ HashIt(d) \/ Stream(d)
        \/ Crash

Spec == Init /\ [][Next]_vars

-----------------------------------------------------------------------------
(* Properties *)

\* Every variable keeps its type.
TypeOK ==
  /\ holder \in Writers \cup {None}
  /\ target \in Writers \cup {None}
  /\ data \in [Writers -> Content]
  /\ temp \subseteq Uploads
  /\ stage \in [Writers -> Held \cup {"new", "over", "aborted", "dead"}]
  /\ overwrite \in [Uploads -> BOOLEAN]
  /\ sha \in [Uploads -> {"absent", "right", "wrong"}]
  /\ status \in [Uploads -> {0, 200, 400, 409}]
  /\ fd \in [Downloads -> Writers \cup {None}]
  /\ offset \in [Downloads -> 0..Chunks]
  /\ announced \in [Downloads -> 0..Chunks]
  /\ hash \in [Downloads -> Content \cup {None}]
  /\ body \in [Downloads -> Body]
  /\ phase \in [Downloads -> {"new", "opened", "stream", "closed", "done"}]
  /\ crashes \in 0..MaxCrashes
  /\ removed \subseteq Uploads /\ renamed \subseteq Uploads
  /\ opened \in [Downloads -> Content \cup {None}]
  /\ steady \in [Downloads -> BOOLEAN]
  /\ bound \in [Downloads -> BOOLEAN]

\* The target never holds part of an upload, nor one whose checksum is wrong,
\* at any moment and after any crash.  What is not whole there was truncated
\* by a FileAction that is still writing or could not finish.
TargetIsWhole ==
  target # None =>
    \/ \E w \in Writers : /\ data[target] = Whole(w)
                          /\ w \in Uploads => sha[w] # "wrong"
    \/ \E w \in Tools : data[target] = Part(w, 0) /\ stage[w] \in {"fill", "over", "dead"}

\* When an upload has removed the file it replaces and has not put its own in
\* place, whether it is about to, failed to or died, the complete new content
\* is still there under the temporary name.
NothingLost ==
  \A u \in removed \ renamed : u \in temp /\ data[u] = Whole(u) /\ sha[u] # "wrong"

\* A temporary file without its upload at work is left only by a crash or by
\* a remove or rename that failed; every answered upload has cleaned up.
TempAccounted ==
  \A u \in temp : stage[u] \in {"body", "sum", "install", "place", "dead", "aborted"}

\* A 200 means the file got there, any other answer that it did not.
StatusIsTrue ==
  \A u \in Uploads : status[u] # 0 => (status[u] = 200 <=> u \in renamed)

\* A download that ended normally is exactly the content that was there when
\* it began, from its offset on and as long as announced, and its hash is of
\* that content, unless somebody wrote into the file meanwhile or bound the
\* path to another file before the hash.  An upload that replaces the file
\* during the transfer cannot tear it.
DownloadIsExact ==
  \A d \in Downloads : phase[d] = "done" /\ steady[d] =>
    /\ offset[d] + body[d].len = announced[d]
    /\ body[d].from \subseteq {opened[d].by}
    /\ hash[d] # None /\ bound[d] => hash[d] = opened[d]
=============================================================================
