------------------------------ MODULE ReadTools ------------------------------
(***************************************************************************)
(* The tools that change nothing and take no lock: read, which shows a     *)
(* file or a directory page by page (src/src/tools/fs), and the searches   *)
(* glob and rg, which walk a tree until a deadline of their own, while the *)
(* caller that sent them waits until a deadline it has worked out by       *)
(* itself.  A file is one of Patch: lines with their endings, or bytes.    *)
(***************************************************************************)
EXTENDS Integers, SequencesExt

CONSTANTS
  MaxRows,             \* bound on the rows of a file
  Offsets, Limits,     \* where a client starts to read, and how much it asks for
  BinaryLimit,         \* BINARY_READ_LIMIT
  Listing,             \* how many entries the directory has
  Rewrites,            \* what others may make of a file that is being read
  Trees,               \* the trees to search: their entries in walking order
  Counts,              \* the values of max_count
  GlobLimit,           \* GLOB_LIMIT
  Timeouts, ToolTimeouts, Absent,  \* what a search gives for its timeouts
  DefaultTimeout,      \* DEFAULT_SEARCH_TIMEOUT_MS, in units of time
  Buffer,              \* EXBASH_TIMEOUT_BUFFER_MS
  MaxTime              \* bound on the clock

\* An entry of a walk and its lines that match (for glob: whether its path matches).
\* A damaged file cannot be read to its end, a bad entry not at all.
Entry == [kind : {"file", "damaged", "dir", "bad"}, hits : Nat]

\* What the constants may be.
ReadParameters ==
  /\ MaxRows \in Nat
  /\ Offsets \subseteq Nat /\ Limits \subseteq Nat /\ BinaryLimit \in Nat \ {0}
  /\ Listing \in Nat /\ Trees \subseteq Seq(Entry)
  /\ Counts \subseteq Nat /\ GlobLimit \in Nat
  /\ Timeouts \subseteq Int \cup {Absent} /\ ToolTimeouts \subseteq Nat \cup {Absent}
  /\ DefaultTimeout \in Nat /\ Buffer \in Nat \ {0} /\ MaxTime \in Nat

VARIABLES
  file,     \* the file, of Patch
  split,    \* the row of it that is too long, with a character where it is cut, or 0
  read,     \* the pages a client has asked for
  search,   \* the search it has asked for
  now,      \* time since the search was sent
  spare     \* history: time that passed outside the search, or beyond its deadline

readVars   == <<split, read>>
searchVars == <<search, now, spare>>

Idle == [step |-> "idle"]

\* The search is past its own deadline.
Expired == \E d \in search.deadline : now >= d

-----------------------------------------------------------------------------
(* Slips a change to the code could make; each breaks a property below when  *)
(* it stands in for the definition it is named after.                        *)

\* Text is read from line 0, as bytes are.
Start_fromZero(mode, offset) == offset

\* The hint names the last line shown.
Hint_overlaps(offset, count) == offset + count - 1

\* The hint skips a line.
Hint_skips(offset, count) == offset + count + 1

\* The caller gives the search no more time than the search gives itself.
CallLimit_bare(timeout) ==
  IF timeout = -1 THEN {} ELSE {IF timeout = Absent THEN DefaultTimeout ELSE Max({timeout, 0})}

\* The walk stops at its deadline without a word.
WalkExpires_silently ==
  /\ search.step = "walking" /\ search.next <= Len(search.tree) /\ Expired
  /\ search' = [search EXCEPT !.step = "finished"]
  /\ UNCHANGED <<file, split, read, now, spare>>

\* The walk looks for the next entry before it is past the last one.
Pass_pastEnd == search' = [search EXCEPT !.step = "walking", !.next = @ + 2, !.found = 0]

-----------------------------------------------------------------------------
(* read: the items of the file, and the window of a page *)

\* str::lines does not end a line at a lone carriage return: a row is the lines
\* of a patch up to the next line feed.
Rows(lines) ==
  LET starts == {i \in DOMAIN lines : i = 1 \/ lines[i - 1].eol # "cr"}
  IN  [n \in 1..Cardinality(starts) |->
         CHOOSE i \in starts : Cardinality({j \in starts : j < i}) = n - 1]

Items(mode) == CASE mode = "text"   -> Rows(file.lines)
                 [] mode = "binary" -> [i \in DOMAIN file.bytes |-> i]
                 [] mode = "dir"    -> [i \in 1..Listing |-> i]

\* Text and directories count from 1, bytes from 0.
Start(mode, offset) == IF mode = "binary" THEN offset ELSE offset - 1

\* A limit of 0 is 1; bytes are shown BinaryLimit at a time.
Count(mode, limit, rest) ==
  Max({0, Min({rest, Max({limit, 1})} \cup (IF mode = "binary" THEN {BinaryLimit} ELSE {}))})

\* An empty text may be read from line 1; a directory has no last offset.
Refused(mode, offset, n) ==
  CASE mode = "text"   -> offset < 1 \/ (n < offset /\ ~(n = 0 /\ offset = 1))
    [] mode = "binary" -> offset > n
    [] mode = "dir"    -> offset < 1

\* The offset a page tells its client to go on with.
Hint(offset, count) == offset + count

\* What read_file, read_binary_file and read_dir show.
Page(mode, offset, limit) ==
  LET items == Items(mode)
      start == Start(mode, offset)
      count == Count(mode, limit, Len(items) - start)
  IN  [rows |-> [k \in 1..count |-> [number |-> offset + k - 1, item |-> items[start + k]]],
       more |-> start + count < Len(items), hint |-> Hint(offset, count)]

\* truncate_line slices at a byte: inside a character it panics, and the
\* connection ends without an answer.
Panics(mode, page) ==
  mode = "text" /\ \E k \in DOMAIN page.rows : page.rows[k].number = split

BeginRead(mode, offset, limit) ==
  /\ read = Idle /\ search = Idle
  /\ mode = "dir" \/ mode = file.kind
  /\ read' = [step |-> "asking", mode |-> mode, first |-> offset, offset |-> offset,
              limit |-> limit, shown |-> <<>>, changed |-> FALSE]
  /\ split' \in 0..(IF mode = "text" THEN MaxRows ELSE 0)
  /\ UNCHANGED <<file, searchVars>>

\* read_path, on the file as it is now; the client follows the hint.
ReadPage ==
  /\ read.step = "asking"
  /\ LET page == Page(read.mode, read.offset, read.limit)
         n == Len(Items(read.mode))
     IN  \/ /\ Refused(read.mode, read.offset, n)
            /\ read' = [read EXCEPT !.step = "refused"]
         \/ /\ ~Refused(read.mode, read.offset, n) /\ Panics(read.mode, page)
            /\ read' = [read EXCEPT !.step = "lost"]
         \/ /\ ~Refused(read.mode, read.offset, n) /\ ~Panics(read.mode, page)
            /\ read' = [read EXCEPT !.step = IF page.more THEN "asking" ELSE "done",
                                    !.offset = IF page.more THEN page.hint ELSE @,
                                    !.shown = @ \o page.rows]
  /\ UNCHANGED <<file, split, searchVars>>

\* Another request writes the file between two pages.
Rewrite ==
  /\ read.step = "asking" /\ read.mode = file.kind /\ ~read.changed
  /\ file' \in {f \in Rewrites : f.kind = file.kind}
  /\ read' = [read EXCEPT !.changed = TRUE]
  /\ split' \in 0..(IF read.mode = "text" THEN MaxRows ELSE 0)
  /\ UNCHANGED searchVars

EndRead ==
  /\ read.step \in {"refused", "lost", "done"}
  /\ read' = Idle /\ split' = 0
  /\ UNCHANGED <<file, searchVars>>

-----------------------------------------------------------------------------
(* glob and rg: two deadlines for one search *)

\* apply_soft_timeout_param: the timeout of the tool serves where the search has
\* none of its own; -1 is no deadline.
Given(timeout, toolTimeout) ==
  CASE timeout # Absent -> timeout
    [] timeout = Absent /\ toolTimeout # Absent -> toolTimeout
    [] OTHER -> DefaultTimeout

\* call_timeout_ms_for looks at the timeout of the search only.
CallLimit(timeout) ==
  IF timeout = -1 THEN {}
  ELSE {(IF timeout = Absent THEN DefaultTimeout ELSE Max({timeout, 0})) + Buffer}

BeginSearch(tool, timeout, toolTimeout, count, tree) ==
  /\ read = Idle /\ search = Idle
  /\ tool = "glob" => count = Max(Counts)      \* glob has none
  /\ search' = [step |-> "sent", call |-> "waiting", tool |-> tool, timeout |-> timeout,
                toolTimeout |-> toolTimeout, count |-> count, tree |-> tree,
                deadline |-> {}, next |-> 1, found |-> 0, hits |-> 0,
                timedOut |-> FALSE, truncated |-> FALSE]
  /\ now' = 0 /\ spare' = 0
  /\ UNCHANGED <<file, readVars>>

\* SoftTimeout::from_millis starts the clock of the search; a timeout below -1
\* and a bad pattern are refused.
StartWalk ==
  /\ search.step = "sent"
  /\ LET t == Given(search.timeout, search.toolTimeout) IN
       \/ search' = [search EXCEPT !.step = "failed"]
       \/ /\ t >= -1
          /\ search' = [search EXCEPT !.step = "walking",
                                      !.deadline = IF t = -1 THEN {} ELSE {now + t}]
  /\ UNCHANGED <<file, readVars, now, spare>>

Finish == search' = [search EXCEPT !.step = "finished"]
Pass   == search' = [search EXCEPT !.step = "walking", !.next = @ + 1, !.found = 0]

WalkExpires ==
  /\ search.step = "walking" /\ search.next <= Len(search.tree) /\ Expired
  /\ search' = [search EXCEPT !.step = "finished", !.timedOut = TRUE]
  /\ UNCHANGED <<file, readVars, now, spare>>

WalkEnds ==
  /\ search.step = "walking" /\ search.next > Len(search.tree)
  /\ Finish
  /\ UNCHANGED <<file, readVars, now, spare>>

Enough == search.tool = "rg" /\ search.hits >= search.count

\* The next entry of the walk.  One that cannot be read fails the whole search.
Visit ==
  /\ search.step = "walking" /\ search.next <= Len(search.tree) /\ ~Expired
  /\ LET e == search.tree[search.next] IN
       \/ e.kind = "bad" /\ search' = [search EXCEPT !.step = "failed"]
       \/ e.kind # "bad" /\ Enough /\ Finish
       \/ e.kind = "dir" /\ ~Enough /\ Pass
       \/ /\ e.kind \in {"file", "damaged"} /\ ~Enough
          /\ \/ search.tool = "rg" /\ search' = [search EXCEPT !.step = "reading"]
             \/ search.tool = "glob" /\ e.hits = 0 /\ Pass
             \/ /\ search.tool = "glob" /\ e.hits > 0 /\ search.hits >= GlobLimit
                /\ search' = [search EXCEPT !.step = "finished", !.truncated = TRUE]
             \/ /\ search.tool = "glob" /\ e.hits > 0 /\ search.hits < GlobLimit
                /\ search' = [search EXCEPT !.hits = @ + 1, !.next = @ + 1]
  /\ UNCHANGED <<file, readVars, now, spare>>

\* search_file: each matching line, until the count or the deadline is reached.
\* The error of a file that cannot be opened, or has a line that is not UTF-8, is
\* dropped, and the file passed over from there on.
ReadMatch ==
  /\ search.step = "reading"
  /\ LET e == search.tree[search.next] IN
       \/ Expired /\ search' = [search EXCEPT !.step = "walking", !.next = @ + 1, !.found = 0,
                                              !.timedOut = TRUE]
       \/ (e.kind = "damaged" \/ search.found = e.hits) /\ Pass
       \/ /\ ~Expired /\ search.found < e.hits
          /\ IF search.hits + 1 < search.count
             THEN search' = [search EXCEPT !.hits = @ + 1, !.found = @ + 1]
             ELSE search' = [search EXCEPT !.hits = @ + 1, !.step = "walking", !.next = @ + 1,
                                           !.found = 0]
  /\ UNCHANGED <<file, readVars, now, spare>>

\* Time the search does not count: before its clock starts, after its deadline
\* and on the way back.
Tick ==
  /\ search.step # "idle" /\ search.call = "waiting" /\ now < MaxTime
  /\ now' = now + 1
  /\ spare' = IF search.step \in {"walking", "reading"} /\ ~Expired THEN spare ELSE spare + 1
  /\ UNCHANGED <<file, readVars, search>>

\* call_ws: the answer, or the timeout; the search itself goes on.
Deliver ==
  /\ search.step \in {"finished", "failed"} /\ search.call = "waiting"
  /\ search' = [search EXCEPT !.call = "answered"]
  /\ UNCHANGED <<file, readVars, now, spare>>

GiveUp ==
  /\ search.step # "idle" /\ search.call = "waiting"
  /\ \E d \in CallLimit(search.timeout) : now >= d
  /\ search' = [search EXCEPT !.call = "gaveUp"]
  /\ UNCHANGED <<file, readVars, now, spare>>

EndSearch ==
  /\ search.step # "idle" /\ search.call # "waiting"
  /\ search' = Idle /\ now' = 0 /\ spare' = 0
  /\ UNCHANGED <<file, readVars>>

-----------------------------------------------------------------------------
Init ==
  /\ split = 0 /\ read = Idle /\ search = Idle
  /\ now = 0 /\ spare = 0

Reading ==
  \/ \E m \in {"text", "binary", "dir"}, o \in Offsets, l \in Limits : BeginRead(m, o, l)
  \/ ReadPage \/ Rewrite \/ EndRead

Searching ==
  \/ \E tool \in {"glob", "rg"}, t \in Timeouts, tt \in ToolTimeouts, c \in Counts, tree \in Trees :
       BeginSearch(tool, t, tt, c, tree)
  \/ StartWalk \/ WalkExpires \/ WalkEnds \/ Visit \/ ReadMatch
  \/ Tick \/ Deliver \/ GiveUp \/ EndSearch

Next == Reading \/ Searching

-----------------------------------------------------------------------------
(* Properties *)

TypeOK ==
  /\ split \in 0..MaxRows
  /\ read = Idle \/ read.step \in {"asking", "refused", "lost", "done"}
  /\ search = Idle \/ /\ search.step \in {"sent", "walking", "reading", "finished", "failed"}
                      /\ search.next \in 1..(Len(search.tree) + 1)
                      /\ search.hits \in Nat
  /\ now \in 0..MaxTime /\ spare \in 0..now

\* A client that reads from some place to the end by following the hints of the
\* pages sees every line, byte or entry from there on, once and in order, whatever
\* limit it asks for, as long as nobody writes the file meanwhile.
PagesCover ==
  read # Idle /\ read.step = "done" /\ ~read.changed =>
    LET items == Items(read.mode)
        from == Start(read.mode, read.first)
    IN  read.shown = [k \in 1..Max({0, Len(items) - from}) |->
                        [number |-> read.first + k - 1, item |-> items[from + k]]]

\* What a page tells the client to go on with is there: unless the file was
\* written meanwhile it is not refused, and it is lost only in a text with a line
\* further on that cannot be cut.
HintsHold ==
  read # Idle /\ read.step \in {"refused", "lost"} /\ read.shown # <<>> =>
    \/ read.changed
    \/ read.step = "lost" /\ read.mode = "text" /\ split >= read.offset

\* The number a line is shown under is the one a text patch finds it by, up to
\* the first line that ends in a lone carriage return: from there on the patch
\* counts more lines than read does.
NumbersAgree ==
  read # Idle /\ read.mode = "text" /\ ~read.changed =>
    \A k \in DOMAIN read.shown :
      LET row == read.shown[k] IN
        row.number = row.item <=> \A j \in 1..(row.item - 1) : file.lines[j].eol # "cr"

\* A caller gives up a search only when the time lost outside the search, before
\* its own clock starts, between two looks at it and on the way, uses up the
\* buffer, unless the search has the timeout of the tool for want of its own:
\* the caller does not count with that one.
AnsweredInTime ==
  search # Idle /\ search.call = "gaveUp" =>
    \/ spare >= Buffer
    \/ search.timeout = Absent /\ search.toolTimeout # Absent
       /\ search.toolTimeout > DefaultTimeout

Hits(tree, kinds) ==
  LET upTo[n \in 0..Len(tree)] ==
        IF n = 0 THEN 0
        ELSE upTo[n - 1] + (IF tree[n].kind \in kinds THEN tree[n].hits ELSE 0)
  IN  upTo[Len(tree)]
Paths(tree) == Cardinality({i \in DOMAIN tree : tree[i].kind # "dir" /\ tree[i].hits > 0})

\* A search that does not say it ran out of time has looked at everything, up to
\* the count it was given: rg has found every match but those of damaged files,
\* about which it says nothing, glob every path or the first of them with a word
\* that there are more.
FlagsAreTrue ==
  search # Idle /\ search.step = "finished" /\ ~search.timedOut =>
    IF search.tool = "rg"
    THEN search.hits \in Min({search.count, Hits(search.tree, {"file"})})
                           .. Min({search.count, Hits(search.tree, {"file", "damaged"})})
    ELSE /\ search.hits = Min({GlobLimit, Paths(search.tree)})
         /\ search.truncated <=> Paths(search.tree) > GlobLimit

=============================================================================
