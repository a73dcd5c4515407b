--------------------------- MODULE Workspace_proofs ---------------------------
(***************************************************************************)
(* Proofs about Workspace and the modules it is made of, Patch and         *)
(* ReadTools, for files, patches, pages, trees and timeouts of any size.   *)
(***************************************************************************)
EXTENDS Workspace, DataLemmas

-----------------------------------------------------------------------------
(* Searches: the clock, and the answer in time.                            *)

\* The greater of two numbers.
LEMMA MaxOfTwo ==
  ASSUME NEW a \in Int, NEW b \in Int
  PROVE  Tools!Max({a, b}) = IF a >= b THEN a ELSE b
<1> DEFINE m == IF a >= b THEN a ELSE b
           Largest(x) == x \in {a, b} /\ \A y \in {a, b} : x >= y
<1>1. Largest(m) /\ \A x : Largest(x) => x = m
  OBVIOUS
<1>2. Tools!Max({a, b}) = CHOOSE x \in {a, b} : \A y \in {a, b} : x >= y
  BY DEF Tools!Max
<1> QED  BY <1>1, <1>2

\* The smaller of two numbers.
LEMMA MinOfTwo ==
  ASSUME NEW a \in Int, NEW b \in Int
  PROVE  Tools!Min({a, b}) = IF a <= b THEN a ELSE b
<1> DEFINE m == IF a <= b THEN a ELSE b
           Least(x) == x \in {a, b} /\ \A y \in {a, b} : x <= y
<1>1. Least(m) /\ \A x : Least(x) => x = m
  OBVIOUS
<1>2. Tools!Min({a, b}) = CHOOSE x \in {a, b} : \A y \in {a, b} : x <= y
  BY DEF Tools!Min
<1> QED  BY <1>1, <1>2

\* A search and its clock, as they are typed.
Searches ==
  [step : {"sent", "walking", "reading", "finished", "failed"},
   call : {"waiting", "answered", "gaveUp"}, tool : {"glob", "rg"},
   timeout : Timeouts, toolTimeout : ToolTimeouts, count : Counts, tree : Trees,
   deadline : SUBSET Int, next : Nat \ {0}, found : Nat, hits : Nat,
   timedOut : BOOLEAN, truncated : BOOLEAN]

SearchTyped ==
  /\ now \in 0..MaxTime /\ spare \in 0..now
  /\ search # Tools!Idle =>
       /\ search \in Searches
       /\ search.next <= Len(search.tree) + 1
       /\ search.step = "reading" =>
            search.next <= Len(search.tree) /\ search.tree[search.next].kind \in {"file", "damaged"}

NotNegative(t) == IF t > 0 THEN t ELSE 0

\* While the walk goes on no time is spare but what passed before it began, and
\* no more than the timeout is ever not spare.
ClockHolds ==
  search # Tools!Idle =>
    LET given == Tools!Given(search.timeout, search.toolTimeout) IN
    /\ search.step = "sent" => spare = now
    /\ search.timeout # -1 => given \in Int /\ now - spare <= NotNegative(given)
    /\ search.timeout # -1 /\ search.step \in {"walking", "reading"} =>
         \E d \in Int : /\ search.deadline = {d}
                        /\ given >= 0
                        /\ now < d => spare = d - given
                        

\* No search is running at first.
LEMMA SearchInit == WorkInit => SearchTyped /\ ClockHolds /\ AnsweredInTime
  BY WorkAssumption DEF WorkInit, Tools!Init, SearchTyped, ClockHolds, AnsweredInTime,
     Tools!AnsweredInTime, Tools!ReadParameters, Tools!Idle

\* The timeout a search works with; one of its own counts before the tool's.
LEMMA GivenIsInt ==
  ASSUME NEW t \in Timeouts, NEW tt \in ToolTimeouts
  PROVE  /\ Tools!Given(t, tt) \in Int
         /\ t # -1 => Tools!Given(t, tt) # -1
  BY WorkAssumption DEF Tools!ReadParameters, Tools!Given

\* What a client asked for.
Asked == <<search.tool, search.timeout, search.toolTimeout, search.count, search.tree>>

\* What starting the walk changes: the deadline is set from the clock then.
LEMMA Starts ==
  ASSUME SearchTyped, Tools!StartWalk
  PROVE  LET given == Tools!Given(search.timeout, search.toolTimeout) IN
         /\ search \in Searches /\ search' \in Searches
         /\ search.step = "sent"
         /\ UNCHANGED <<Asked, now, spare>>
         /\ UNCHANGED <<search.call, search.next, search.found, search.hits>>
         /\ UNCHANGED <<search.timedOut, search.truncated>>
         /\ \/ search'.step = "failed"
            \/ /\ search'.step = "walking"
               /\ given \in Int /\ given >= -1
               /\ search'.deadline = IF given = -1 THEN {} ELSE {now + given}
<1> DEFINE t == Tools!Given(search.timeout, search.toolTimeout)
<1>1. search.step = "sent" /\ search \in Searches /\ now \in Int
  BY DEF Tools!StartWalk, SearchTyped, Tools!Idle
<1>2. t \in Int
  BY <1>1, GivenIsInt DEF Searches
<1> HIDE DEF t
<1>3. CASE search' = [search EXCEPT !.step = "failed"]
  BY <1>1, <1>3 DEF Asked, Searches, Tools!StartWalk
<1>4. CASE t >= -1 /\ search' = [search EXCEPT !.step = "walking",
                                               !.deadline = IF t = -1 THEN {} ELSE {now + t}]
  <2> DEFINE d == IF t = -1 THEN {} ELSE {now + t}
  <2>1. d \in SUBSET Int
    BY <1>1, <1>2
  <2>2. search' = [search EXCEPT !.step = "walking", !.deadline = d]
    BY <1>4
  <2> HIDE DEF d
  <2>3. /\ search' \in Searches /\ search'.step = "walking" /\ search'.deadline = d
        /\ UNCHANGED <<Asked, search.call, search.next, search.found, search.hits>>
        /\ UNCHANGED <<search.timedOut, search.truncated>>
    BY <1>1, <2>1, <2>2 DEF Asked, Searches
  <2>4. UNCHANGED <<now, spare>>
    BY DEF Tools!StartWalk
  <2> QED  BY <1>1, <1>2, <1>4, <2>3, <2>4 DEF t, d
<1> QED  BY <1>1, <1>2, <1>3, <1>4 DEF Tools!StartWalk, t

\* What ends a walk: its deadline, or the last entry.
LEMMA Stops ==
  ASSUME SearchTyped, Tools!WalkExpires \/ Tools!WalkEnds
  PROVE  /\ search \in Searches /\ search' \in Searches
         /\ search.step = "walking" /\ search'.step = "finished"
         /\ UNCHANGED <<Asked, now, spare>>
         /\ UNCHANGED <<search.call, search.deadline, search.next, search.found, search.hits>>
         /\ UNCHANGED search.truncated
         /\ search'.timedOut \/ (UNCHANGED search.timedOut /\ search.next > Len(search.tree))
<1>1. search.step = "walking" /\ search \in Searches
  BY DEF Tools!WalkExpires, Tools!WalkEnds, SearchTyped, Tools!Idle
<1>2. CASE Tools!WalkExpires
  BY <1>1, <1>2 DEF Tools!WalkExpires, Asked, Searches
<1>3. CASE Tools!WalkEnds
  BY <1>1, <1>3 DEF Tools!WalkEnds, Tools!Finish, Asked, Searches
<1> QED  BY <1>2, <1>3

\* What ends the call: the answer, or the caller's own limit.
LEMMA Returns ==
  ASSUME SearchTyped, Tools!Deliver \/ Tools!GiveUp
  PROVE  /\ search \in Searches /\ search' \in Searches
         /\ search.call = "waiting" /\ search'.call # "waiting"
         /\ UNCHANGED <<Asked, now, spare>>
         /\ UNCHANGED <<search.step, search.deadline, search.next, search.found, search.hits>>
         /\ UNCHANGED <<search.timedOut, search.truncated>>
         /\ search'.call = "gaveUp" => \E d \in Tools!CallLimit(search.timeout) : now >= d
<1>1. search.call = "waiting" /\ search \in Searches
  BY DEF Tools!Deliver, Tools!GiveUp, SearchTyped, Tools!Idle
<1>2. CASE Tools!Deliver
  BY <1>1, <1>2 DEF Tools!Deliver, Asked, Searches
<1>3. CASE Tools!GiveUp
  BY <1>1, <1>3 DEF Tools!GiveUp, Asked, Searches
<1> QED  BY <1>2, <1>3

\* One look at the next entry.
LEMMA Visits ==
  ASSUME SearchTyped, Tools!Visit
  PROVE  /\ search \in Searches /\ search' \in Searches
         /\ search.step = "walking" /\ search.next <= Len(search.tree)
         /\ UNCHANGED <<Asked, now, spare>>
         /\ UNCHANGED <<search.call, search.deadline, search.timedOut>>
         /\ LET e == search.tree[search.next] IN
            \/ /\ search'.step = "failed"
               /\ UNCHANGED <<search.next, search.found, search.hits, search.truncated>>
            \/ /\ search'.step = "finished" /\ search.tool = "rg" /\ search.hits >= search.count
               /\ UNCHANGED <<search.next, search.found, search.hits, search.truncated>>
            \/ /\ search'.step = "walking" /\ search'.next = search.next + 1 /\ search'.found = 0
               /\ e.kind = "dir" \/ (search.tool = "glob" /\ e.kind \in {"file", "damaged"} /\ e.hits = 0)
               /\ UNCHANGED <<search.hits, search.truncated>>
            \/ /\ search'.step = "reading" /\ search.tool = "rg" /\ search.hits < search.count
               /\ e.kind \in {"file", "damaged"}
               /\ UNCHANGED <<search.next, search.found, search.hits, search.truncated>>
            \/ /\ search'.step = "finished" /\ search.tool = "glob" /\ e.hits > 0 /\ e.kind # "dir"
               /\ search.hits >= GlobLimit /\ search'.truncated
               /\ UNCHANGED <<search.next, search.found, search.hits>>
            \/ /\ search'.step = "walking" /\ search.tool = "glob" /\ e.hits > 0 /\ e.kind # "dir"
               /\ search.hits < GlobLimit /\ search'.hits = search.hits + 1
               /\ search'.next = search.next + 1
               /\ UNCHANGED <<search.found, search.truncated>>
<1> DEFINE e == search.tree[search.next]
<1>1. search.step = "walking" /\ search \in Searches /\ search.next <= Len(search.tree)
  BY DEF Tools!Visit, SearchTyped, Tools!Idle
<1>2. search.count \in Nat
  BY <1>1, WorkAssumption DEF Searches, Tools!ReadParameters
<1>3. UNCHANGED <<now, spare>>
  BY DEF Tools!Visit
<1>4. CASE search' = [search EXCEPT !.step = "failed"]
  BY <1>1, <1>3, <1>4 DEF Asked, Searches
<1>5. CASE Tools!Enough /\ Tools!Finish
  BY <1>1, <1>2, <1>3, <1>5 DEF Asked, Searches, Tools!Enough, Tools!Finish
<1> DEFINE n == search.next + 1
           h == search.hits + 1
           f == search.found + 1
<1>a. n \in Nat \ {0} /\ h \in Nat /\ f \in Nat
  BY <1>1 DEF Searches
<1>b. Tools!Pass => search' = [search EXCEPT !.step = "walking", !.next = n, !.found = 0]
  BY DEF Tools!Pass
<1> HIDE DEF n, h, f
<1>6. CASE Tools!Pass /\ (e.kind = "dir" \/ (search.tool = "glob" /\ e.kind \in {"file", "damaged"} /\ e.hits = 0))
  <2>0. search' = [search EXCEPT !.step = "walking", !.next = n, !.found = 0]
    BY <1>b, <1>6
  <2>1. search' \in Searches /\ search'.step = "walking" /\ search'.next = n /\ search'.found = 0
    BY <1>1, <1>a, <2>0 DEF Searches
  <2>2. UNCHANGED <<Asked, search.call, search.deadline, search.timedOut, search.hits, search.truncated>>
    BY <1>1, <1>a, <2>0 DEF Asked, Searches
  <2> QED  BY <1>1, <1>3, <1>6, <2>1, <2>2 DEF n
<1>7. CASE /\ search' = [search EXCEPT !.step = "reading"] /\ search.tool = "rg" /\ ~Tools!Enough
           /\ e.kind \in {"file", "damaged"}
  BY <1>1, <1>2, <1>3, <1>7 DEF Asked, Searches, Tools!Enough
<1>8. CASE /\ search' = [search EXCEPT !.step = "finished", !.truncated = TRUE]
           /\ search.tool = "glob" /\ e.hits > 0 /\ e.kind # "dir" /\ search.hits >= GlobLimit
  BY <1>1, <1>3, <1>8 DEF Asked, Searches
<1>9. CASE /\ search' = [search EXCEPT !.hits = h, !.next = n]
           /\ search.tool = "glob" /\ e.hits > 0 /\ e.kind # "dir" /\ search.hits < GlobLimit
  <2>1. search' \in Searches /\ search'.step = "walking" /\ search'.next = n /\ search'.hits = h
    BY <1>1, <1>a, <1>9 DEF Searches
  <2>2. UNCHANGED <<Asked, search.call, search.deadline, search.timedOut, search.found, search.truncated>>
    BY <1>1, <1>a, <1>9 DEF Asked, Searches
  <2> QED  BY <1>1, <1>3, <1>9, <2>1, <2>2 DEF n, h
<1> HIDE DEF e
<1> QED  BY <1>4, <1>5, <1>6, <1>7, <1>8, <1>9 DEF Tools!Visit, e, n, h

\* One look at the next line of a file.
LEMMA Reads ==
  ASSUME SearchTyped, Tools!ReadMatch
  PROVE  /\ search \in Searches /\ search' \in Searches
         /\ search.step = "reading"
         /\ UNCHANGED <<Asked, now, spare>>
         /\ UNCHANGED <<search.call, search.deadline, search.truncated>>
         /\ LET e == search.tree[search.next] IN
            \/ /\ search'.step = "walking" /\ search'.next = search.next + 1 /\ search'.found = 0
               /\ UNCHANGED search.hits
               /\ \/ search'.timedOut
                  \/ UNCHANGED search.timedOut /\ (e.kind = "damaged" \/ search.found = e.hits)
            \/ /\ search.found < e.hits /\ search.hits + 1 < search.count
               /\ search'.hits = search.hits + 1 /\ search'.found = search.found + 1
               /\ UNCHANGED <<search.step, search.next, search.timedOut>>
            \/ /\ search.found < e.hits /\ search.hits + 1 >= search.count
               /\ search'.step = "walking" /\ search'.next = search.next + 1 /\ search'.found = 0
               /\ search'.hits = search.hits + 1
               /\ UNCHANGED search.timedOut
<1> DEFINE e == search.tree[search.next]
<1>1. search.step = "reading" /\ search \in Searches
  BY DEF Tools!ReadMatch, SearchTyped, Tools!Idle
<1>2. search.count \in Nat
  BY <1>1, WorkAssumption DEF Searches, Tools!ReadParameters
<1>3. UNCHANGED <<now, spare>>
  BY DEF Tools!ReadMatch
<1> DEFINE n == search.next + 1
           h == search.hits + 1
           f == search.found + 1
<1>a. n \in Nat \ {0} /\ h \in Nat /\ f \in Nat
  BY <1>1 DEF Searches
<1>b. Tools!Pass => search' = [search EXCEPT !.step = "walking", !.next = n, !.found = 0]
  BY DEF Tools!Pass
<1> HIDE DEF n, h, f
<1>4. CASE search' = [search EXCEPT !.step = "walking", !.next = n, !.found = 0, !.timedOut = TRUE]
  <2>1. search' \in Searches /\ search'.step = "walking" /\ search'.next = n /\ search'.found = 0
    BY <1>1, <1>a, <1>4 DEF Searches
  <2>2. search'.timedOut /\ UNCHANGED <<Asked, search.call, search.deadline, search.hits, search.truncated>>
    BY <1>1, <1>a, <1>4 DEF Asked, Searches
  <2> QED  BY <1>1, <1>3, <2>1, <2>2 DEF n
<1>5. CASE (e.kind = "damaged" \/ search.found = e.hits) /\ Tools!Pass
  <2>0. search' = [search EXCEPT !.step = "walking", !.next = n, !.found = 0]
    BY <1>b, <1>5
  <2>1. search' \in Searches /\ search'.step = "walking" /\ search'.next = n /\ search'.found = 0
    BY <1>1, <1>a, <2>0 DEF Searches
  <2>2. UNCHANGED <<Asked, search.call, search.deadline, search.timedOut, search.hits, search.truncated>>
    BY <1>1, <1>a, <2>0 DEF Asked, Searches
  <2> QED  BY <1>1, <1>3, <1>5, <2>1, <2>2 DEF n
<1>6. CASE /\ search.found < e.hits /\ search.hits + 1 < search.count
           /\ search' = [search EXCEPT !.hits = h, !.found = f]
  <2>1. search' \in Searches /\ search'.hits = h /\ search'.found = f
    BY <1>1, <1>a, <1>6 DEF Searches
  <2>2. UNCHANGED <<Asked, search.step, search.call, search.deadline, search.next, search.timedOut, search.truncated>>
    BY <1>1, <1>a, <1>6 DEF Asked, Searches
  <2> QED  BY <1>1, <1>3, <1>6, <2>1, <2>2 DEF f, h
<1>7. CASE /\ search.found < e.hits /\ ~(search.hits + 1 < search.count)
           /\ search' = [search EXCEPT !.hits = h, !.step = "walking", !.next = n, !.found = 0]
  <2>1. /\ search' \in Searches /\ search'.step = "walking"
        /\ search'.next = n /\ search'.found = 0 /\ search'.hits = h
    BY <1>1, <1>a, <1>7 DEF Searches
  <2>2. UNCHANGED <<Asked, search.call, search.deadline, search.timedOut, search.truncated>>
    BY <1>1, <1>a, <1>7 DEF Asked, Searches
  <2>3. search.hits + 1 >= search.count
    BY <1>1, <1>2, <1>7 DEF Searches
  <2> QED  BY <1>1, <1>3, <1>7, <2>1, <2>2, <2>3 DEF n, h
<1> HIDE DEF e
<1> QED  BY <1>4, <1>5, <1>6, <1>7 DEF Tools!ReadMatch, e, n, h, f

\* A second passes for the search, or is lost outside it.
LEMMA Ticks ==
  ASSUME SearchTyped, Tools!Tick
  PROVE  /\ search \in Searches /\ UNCHANGED search /\ search.call = "waiting"
         /\ now < MaxTime /\ now' = now + 1
         /\ \/ /\ search.step \in {"walking", "reading"} /\ spare' = spare
               /\ \A d \in search.deadline : now < d
            \/ /\ spare' = spare + 1
               /\ search.step \in {"walking", "reading"} => \E d \in search.deadline : now >= d
  BY DEF Tools!Tick, Tools!Expired, SearchTyped, Tools!Idle, Searches

\* A search is asked for.
LEMMA Begins ==
  ASSUME SearchTyped, NEW tool \in {"glob", "rg"}, NEW t \in Timeouts, NEW tt \in ToolTimeouts,
         NEW c \in Counts, NEW tree \in Trees, Tools!BeginSearch(tool, t, tt, c, tree)
  PROVE  /\ search' \in Searches
         /\ search'.step = "sent" /\ search'.call = "waiting" /\ search'.next = 1
         /\ search'.found = 0 /\ search'.hits = 0 /\ ~search'.truncated
         /\ now' = 0 /\ spare' = 0
  BY DEF Tools!BeginSearch, Searches

\* A step that is not of a search leaves it alone.
LEMMA NotSearching ==
  ASSUME [Work]_<<vars, toolVars>>
  PROVE  Tools!Searching \/ UNCHANGED <<search, now, spare>>
  BY DEF Work, Tools!Next, Tools!Reading, Tools!BeginRead, Tools!ReadPage, Tools!Rewrite,
         Tools!EndRead, Tools!searchVars, toolVars

\* Steps keep the type of a search.
LEMMA SearchStep ==
  ASSUME SearchTyped, [Work]_<<vars, toolVars>>
  PROVE  SearchTyped'
<1>1. CASE UNCHANGED <<search, now, spare>>
  BY <1>1 DEF Tools!Idle, SearchTyped
<1>2. ASSUME Tools!Searching PROVE SearchTyped'
  <2> DEFINE Typed ==
        /\ search.next <= Len(search.tree) + 1
        /\ search.step = "reading" =>
             search.next <= Len(search.tree) /\ search.tree[search.next].kind \in {"file", "damaged"}
  <2>1. CASE \E tool \in {"glob", "rg"}, t \in Timeouts, tt \in ToolTimeouts, c \in Counts, tree \in Trees :
               Tools!BeginSearch(tool, t, tt, c, tree)
    <3>1. PICK tool \in {"glob", "rg"}, t \in Timeouts, tt \in ToolTimeouts, c \in Counts, tree \in Trees :
            Tools!BeginSearch(tool, t, tt, c, tree)
      BY <2>1
    <3>2. Len(search'.tree) \in Nat
      BY <3>1, Begins, WorkAssumption DEF Searches, Tools!ReadParameters
    <3> QED  BY <3>1, <3>2, Begins, WorkAssumption DEF SearchTyped, Tools!ReadParameters
  <2>2. CASE Tools!EndSearch
    BY <2>2, WorkAssumption DEF Tools!EndSearch, SearchTyped, Tools!ReadParameters
  <2>3. CASE Tools!Tick
    BY <2>3, Ticks, WorkAssumption DEF SearchTyped, Tools!ReadParameters
  <2>4. CASE /\ \/ Tools!StartWalk \/ Tools!WalkExpires \/ Tools!WalkEnds \/ Tools!Visit
                \/ Tools!ReadMatch \/ Tools!Deliver \/ Tools!GiveUp
             /\ search \in Searches /\ search' \in Searches
    <3>1. search # Tools!Idle
      BY <2>4 DEF Searches, Tools!Idle
    <3>2. Len(search.tree) \in Nat /\ search.next \in Nat
      BY <2>4, WorkAssumption DEF Searches, Tools!ReadParameters
    <3>3. UNCHANGED <<Asked, now, spare>> /\ Typed'
      <4>1. CASE Tools!StartWalk
        BY <3>1, <3>2, <4>1, Starts DEF SearchTyped, Asked
      <4>2. CASE Tools!WalkExpires \/ Tools!WalkEnds
        BY <3>1, <3>2, <4>2, Stops DEF SearchTyped, Asked
      <4>3. CASE Tools!Visit
        BY <3>1, <3>2, <4>3, Visits DEF SearchTyped, Asked
      <4>4. CASE Tools!ReadMatch
        BY <3>1, <3>2, <4>4, Reads DEF SearchTyped, Asked
      <4>5. CASE Tools!Deliver \/ Tools!GiveUp
        BY <3>1, <3>2, <4>5, Returns DEF SearchTyped, Asked
      <4> QED  BY <2>4, <4>1, <4>2, <4>3, <4>4, <4>5
    <3> QED  BY <2>4, <3>1, <3>3 DEF SearchTyped, Asked
  <2> QED  BY <1>2, <2>1, <2>2, <2>3, <2>4, Starts, Stops, Visits, Reads, Returns DEF Tools!Searching
<1> QED  BY <1>1, <1>2, NotSearching

\* Steps keep the account of the seconds.
LEMMA ClockStep ==
  ASSUME SearchTyped, SearchTyped', ClockHolds, [Work]_<<vars, toolVars>>
  PROVE  ClockHolds'
<1>1. CASE UNCHANGED <<search, now, spare>>
  BY <1>1 DEF Tools!Idle, Tools!Given, ClockHolds
<1>2. ASSUME Tools!Searching PROVE ClockHolds'
  <2>1. CASE \E tool \in {"glob", "rg"}, t \in Timeouts, tt \in ToolTimeouts, c \in Counts, tree \in Trees :
               Tools!BeginSearch(tool, t, tt, c, tree)
    BY <2>1, Begins, GivenIsInt DEF ClockHolds, NotNegative, Searches
  <2>2. CASE Tools!EndSearch
    BY <2>2 DEF Tools!EndSearch, ClockHolds
  <2>3. CASE Tools!Tick
    <3> DEFINE g == Tools!Given(search.timeout, search.toolTimeout)
    <3>1. /\ search # Tools!Idle /\ UNCHANGED search
          /\ now \in Int /\ spare \in Int /\ now' = now + 1 /\ g \in Int
      BY <2>3, Ticks, GivenIsInt DEF Searches, Tools!Idle, SearchTyped
    <3>2. g' = g
      BY <3>1 DEF Tools!Given
    <3>3. ASSUME search.step = "sent" PROVE spare' = now'
      BY <2>3, <3>1, <3>3, Ticks DEF ClockHolds
    <3>4. ASSUME search.timeout # -1 PROVE now' - spare' <= NotNegative(g)
      <4>1. CASE spare' = spare + 1
        BY <3>1, <3>4, <4>1 DEF ClockHolds
      <4>2. CASE /\ search.step \in {"walking", "reading"} /\ spare' = spare
                 /\ \A d \in search.deadline : now < d
        <5> HIDE DEF g
        <5>1. PICK d \in Int : search.deadline = {d} /\ g >= 0 /\ (now < d => spare = d - g)
          BY <3>1, <3>4, <4>2 DEF ClockHolds, g
        <5> QED  BY <3>1, <4>2, <5>1 DEF NotNegative
      <4> QED  BY <2>3, <4>1, <4>2, Ticks
    <3>5. ASSUME search.timeout # -1, search.step \in {"walking", "reading"}
          PROVE  \E d \in Int : search.deadline = {d} /\ g >= 0 /\ (now' < d => spare' = d - g)
      <4> HIDE DEF g
      <4>1. PICK d \in Int : search.deadline = {d} /\ g >= 0 /\ (now < d => spare = d - g)
        BY <3>1, <3>5 DEF ClockHolds, g
      <4>2. now' < d => spare' = spare
        BY <2>3, <3>1, <3>5, <4>1, Ticks
      <4> QED  BY <3>1, <4>1, <4>2
    <3> HIDE DEF g
    <3>6. search.timeout' = search.timeout /\ search.step' = search.step /\ search.deadline' = search.deadline
      BY <3>1
    <3> QED  BY <3>1, <3>2, <3>3, <3>4, <3>5, <3>6 DEF ClockHolds, g
  <2>4. CASE \/ Tools!WalkExpires \/ Tools!WalkEnds \/ Tools!Visit
             \/ Tools!ReadMatch \/ Tools!Deliver \/ Tools!GiveUp
    <3>1. /\ search \in Searches /\ search # Tools!Idle
          /\ UNCHANGED <<Asked, now, spare, search.deadline>>
          /\ search'.step = "sent" => search.step = "sent"
          /\ search'.step \in {"walking", "reading"} => search.step \in {"walking", "reading"}
      BY <2>4, Stops, Visits, Reads, Returns DEF Searches, Tools!Idle
    <3> QED  BY <3>1 DEF Asked, ClockHolds
  <2>5. CASE Tools!StartWalk
    <3>1. /\ search \in Searches /\ search # Tools!Idle
          /\ UNCHANGED <<Asked, now, spare>> /\ search.step = "sent"
      BY <2>5, Starts DEF Searches, Tools!Idle
    <3> QED  BY <3>1, <2>5, Starts, GivenIsInt DEF Asked, ClockHolds, SearchTyped, Searches
  <2> QED  BY <1>2, <2>1, <2>2, <2>3, <2>4, <2>5 DEF Tools!Searching
<1> QED  BY <1>1, <1>2, NotSearching

\* A caller that gives up has lost as many seconds as the buffer has.
LEMMA AnswerStep ==
  ASSUME SearchTyped, ClockHolds, AnsweredInTime, [Work]_<<vars, toolVars>>
  PROVE  AnsweredInTime'
<1> USE DEF AnsweredInTime, Tools!AnsweredInTime
<1>1. CASE UNCHANGED <<search, now, spare>>
  BY <1>1 DEF Tools!Idle
<1>2. ASSUME Tools!Searching PROVE AnsweredInTime'
  <2>1. CASE \E tool \in {"glob", "rg"}, t \in Timeouts, tt \in ToolTimeouts, c \in Counts, tree \in Trees :
               Tools!BeginSearch(tool, t, tt, c, tree)
    BY <2>1, Begins
  <2>2. CASE Tools!EndSearch
    BY <2>2 DEF Tools!EndSearch
  <2>3. CASE Tools!Tick
    BY <2>3, Ticks
  <2>4. CASE Tools!StartWalk \/ Tools!WalkExpires \/ Tools!WalkEnds \/ Tools!Visit \/ Tools!ReadMatch
    <3>1. /\ search \in Searches /\ search # Tools!Idle
          /\ UNCHANGED <<Asked, now, spare, search.call>>
      BY <2>4, Starts, Stops, Visits, Reads DEF Searches, Tools!Idle
    <3> QED  BY <3>1 DEF Asked
  <2>5. CASE Tools!Deliver \/ Tools!GiveUp
    <3>1. /\ search \in Searches /\ search' \in Searches /\ search # Tools!Idle
          /\ UNCHANGED <<Asked, now, spare>>
      BY <2>5, Returns DEF Searches, Tools!Idle
    <3>2. SUFFICES ASSUME search'.call = "gaveUp"
                   PROVE  \/ spare >= Buffer
                          \/ /\ search.timeout = Absent /\ search.toolTimeout # Absent
                             /\ search.toolTimeout > DefaultTimeout
      BY <3>1 DEF Asked
    <3>3. PICK d \in Tools!CallLimit(search.timeout) : now >= d
      BY <2>5, <3>2, Returns
    <3>4. search.timeout # -1 /\ d = (IF search.timeout = Absent THEN DefaultTimeout
                                     ELSE NotNegative(search.timeout)) + Buffer
      <4>1. search.timeout \in Int \cup {Absent}
        BY <3>1, WorkAssumption DEF Searches, Tools!ReadParameters
      <4>2. search.timeout # Absent => Tools!Max({search.timeout, 0}) = NotNegative(search.timeout)
        BY <4>1, MaxOfTwo DEF NotNegative
      <4> QED  BY <3>3, <4>2 DEF Tools!CallLimit
    <3>5. now - spare <= NotNegative(Tools!Given(search.timeout, search.toolTimeout))
      BY <3>1, <3>4 DEF ClockHolds
    <3>6. /\ now \in Int /\ spare \in Int /\ Buffer \in Int /\ DefaultTimeout \in Nat
          /\ search.timeout # Absent => search.timeout \in Int
          /\ search.toolTimeout # Absent => search.toolTimeout \in Nat
      <4>1. now \in Int /\ spare \in Int
        BY DEF SearchTyped
      <4>2. search.timeout \in Timeouts /\ search.toolTimeout \in ToolTimeouts
        BY <3>1 DEF Searches
      <4>3. /\ Buffer \in Int /\ DefaultTimeout \in Nat
            /\ \A t \in Timeouts : t # Absent => t \in Int
            /\ \A t \in ToolTimeouts : t # Absent => t \in Nat
        BY WorkAssumption DEF Tools!ReadParameters
      <4> QED  BY <4>1, <4>2, <4>3
    <3>7. CASE search.timeout # Absent
      BY <3>3, <3>4, <3>5, <3>6, <3>7 DEF NotNegative, Tools!Given
    <3>8. CASE search.timeout = Absent /\ search.toolTimeout # Absent
      BY <3>3, <3>4, <3>5, <3>6, <3>8 DEF NotNegative, Tools!Given
    <3>9. CASE search.timeout = Absent /\ search.toolTimeout = Absent
      BY <3>3, <3>4, <3>5, <3>6, <3>9 DEF NotNegative, Tools!Given
    <3> QED  BY <3>7, <3>8, <3>9
  <2> QED  BY <1>2, <2>1, <2>2, <2>3, <2>4, <2>5 DEF Tools!Searching
<1> QED  BY <1>1, <1>2, NotSearching

-----------------------------------------------------------------------------
(* What a search has found, and what its flags say.                        *)

\* f adds up the matches of the entries of a tree that are of one of the kinds.
Sums(f, tree, kinds) ==
  /\ f \in [0..Len(tree) -> Nat]
  /\ f[0] = 0
  /\ \A i \in 1..Len(tree) : f[i] = f[i - 1] + (IF tree[i].kind \in kinds THEN tree[i].hits ELSE 0)

\* The matches of a tree are a sum over its entries.
LEMMA HitsAreSums ==
  ASSUME NEW tree \in Seq(Tools!Entry), NEW kinds
  PROVE  \E f : Sums(f, tree, kinds) /\ Tools!Hits(tree, kinds) = f[Len(tree)]
<1> DEFINE n == Len(tree)
           add == [i \in 1..n |-> IF tree[i].kind \in kinds THEN tree[i].hits ELSE 0]
           step == [i \in 1..n |-> [v \in Nat |-> v + add[i]]]
           rec(g) == g = [i \in 0..n |-> IF i = 0 THEN 0
                            ELSE g[i - 1] + (IF tree[i].kind \in kinds THEN tree[i].hits ELSE 0)]
           up == CHOOSE g : rec(g)
<1>1. n \in Nat /\ add \in [1..n -> Nat]
  <2>1. n \in Nat /\ \A i \in 1..n : tree[i] \in Tools!Entry
    OBVIOUS
  <2>2. \A i \in 1..n : (IF tree[i].kind \in kinds THEN tree[i].hits ELSE 0) \in Nat
    BY <2>1 DEF Tools!Entry
  <2> HIDE DEF n
  <2> QED  BY <2>1, <2>2
<1>2. \A i \in 1..n : add[i] = IF tree[i].kind \in kinds THEN tree[i].hits ELSE 0
  OBVIOUS
<1> HIDE DEF n, add
<1>3. PICK f : Follows(f, n, 0, step, Nat)
  <2>1. step \in Steps(n, Nat)
    BY <1>1 DEF Steps
  <2> HIDE DEF step
  <2> QED  BY <1>1, <2>1, Recursion
<1>4. /\ f \in [0..n -> Nat] /\ f[0] = 0
      /\ \A i \in 1..n : f[i] = step[i][f[i - 1]]
  BY <1>3 DEF Follows
<1>5. \A i \in 1..n : f[i] = f[i - 1] + add[i]
  <2> SUFFICES ASSUME NEW i \in 1..n PROVE f[i] = f[i - 1] + add[i]
    OBVIOUS
  <2>1. f[i - 1] \in Nat
    BY <1>1, <1>4
  <2> QED  BY <1>4, <2>1
<1> HIDE DEF step
<1>6. rec(f)
  <2>1. \A i \in 0..n : i = 0 \/ i \in 1..n
    BY <1>1
  <2> QED  BY <1>2, <1>4, <1>5, <2>1
<1>7. rec(up)
  BY <1>6
<1>8. Tools!Hits(tree, kinds) = up[n]
  BY DEF Tools!Hits, n
<1> HIDE DEF up
<1>9. up[0] = 0 /\ \A i \in 1..n : up[i] = up[i - 1] + add[i]
  <2>1. 0 \in 0..n /\ \A i \in 1..n : i \in 0..n /\ i # 0
    BY <1>1
  <2> QED  BY <1>2, <1>7, <2>1
<1>10. up \in [0..n -> Nat]
  <2> DEFINE S == {i \in Int : up[i] \in Nat}
  <2>1. 0 \in S /\ \A i \in 1..n : i - 1 \in S => i \in S
    BY <1>1, <1>9
  <2>2. 0..n \subseteq S
    <3> HIDE DEF S
    <3> QED  BY <1>1, <2>1, UpTo
  <2> QED  BY <1>7, <2>2
<1> QED  BY <1>2, <1>8, <1>9, <1>10 DEF Sums, n

\* A sum over more entries is no smaller.
LEMMA SumsGrow ==
  ASSUME NEW tree \in Seq(Tools!Entry), NEW kinds, NEW f, Sums(f, tree, kinds),
         NEW i \in 0..Len(tree), NEW j \in 0..Len(tree), i <= j
  PROVE  f[i] <= f[j]
<1> DEFINE n == Len(tree)
           S == {k \in Int : k >= i => f[i] <= f[k]}
<1>1. n \in Nat /\ f \in [0..n -> Nat]
  BY DEF Sums
<1>2. \A k \in 1..n : f[k - 1] <= f[k]
  <2> SUFFICES ASSUME NEW k \in 1..n PROVE f[k - 1] <= f[k]
    OBVIOUS
  <2>1. PICK x \in Nat : f[k] = f[k - 1] + x
    <3>1. tree[k] \in Tools!Entry
      OBVIOUS
    <3> QED  BY <3>1 DEF Tools!Entry, Sums
  <2> QED  BY <1>1, <2>1
<1> HIDE DEF n
<1>3. i \in 0..n /\ j \in 0..n
  BY DEF n
<1>4. 0 \in S /\ \A k \in 1..n : k - 1 \in S => k \in S
  <2>1. i \in Nat /\ 0 \in 0..n /\ f[0] \in Nat
    BY <1>1, <1>3
  <2>2. 0 \in S
    <3>1. 0 >= i => i = 0
      BY <2>1
    <3> QED  BY <2>1, <3>1
  <2>3. ASSUME NEW k \in 1..n, k - 1 \in S PROVE k \in S
    <3> DEFINE x == f[k - 1]
               y == f[k]
               z == f[i]
    <3>1. k - 1 \in 0..n /\ k \in 0..n /\ k \in Int
      BY <1>1
    <3>2. x \in Nat /\ y \in Nat /\ z \in Nat /\ x <= y
      BY <1>1, <1>2, <1>3, <3>1
    <3>3. k - 1 >= i => z <= x
      BY <2>3
    <3>4. k >= i => k - 1 >= i \/ k = i
      BY <2>1, <3>1
    <3>5. k = i => y = z
      OBVIOUS
    <3>6. k >= i => z <= y
      <4> HIDE DEF x, y, z
      <4> QED  BY <3>2, <3>3, <3>4, <3>5
    <3> QED  BY <3>1, <3>6
  <2> HIDE DEF S
  <2> QED  BY <2>2, <2>3
<1>5. 0..n \subseteq S
  <2> HIDE DEF S
  <2> QED  BY <1>1, <1>4, UpTo
<1> QED  BY <1>3, <1>5

\* The module is instantiated with a Cardinality of its own.
LEMMA SameCardinality == ASSUME NEW S PROVE Tools!Cardinality(S) = Cardinality(S)
  BY DEF Tools!Cardinality, Cardinality

\* The paths glob finds among the first n entries.
PathsUpTo(tree, n) == {i \in 1..n : tree[i].kind # "dir" /\ tree[i].hits > 0}

\* The paths glob finds, one entry at a time.
LEMMA PathsAreCounted ==
  ASSUME NEW tree \in Seq(Tools!Entry)
  PROVE  /\ Cardinality(PathsUpTo(tree, 0)) = 0
         /\ \A n \in 1..Len(tree) :
              /\ Cardinality(PathsUpTo(tree, n - 1)) \in Nat
              /\ Cardinality(PathsUpTo(tree, n)) =
                    Cardinality(PathsUpTo(tree, n - 1))
                      + (IF tree[n].kind # "dir" /\ tree[n].hits > 0 THEN 1 ELSE 0)
              /\ Cardinality(PathsUpTo(tree, n)) <= Tools!Paths(tree)
         /\ Tools!Paths(tree) = Cardinality(PathsUpTo(tree, Len(tree)))
         /\ Tools!Paths(tree) \in Nat
<1>1. Cardinality(PathsUpTo(tree, 0)) = 0
  <2>1. PathsUpTo(tree, 0) = {}
    BY DEF PathsUpTo
  <2> QED  BY <2>1, FS_EmptySet
<1>2. Tools!Paths(tree) = Cardinality(PathsUpTo(tree, Len(tree)))
  <2>1. {i \in DOMAIN tree : tree[i].kind # "dir" /\ tree[i].hits > 0} = PathsUpTo(tree, Len(tree))
    BY DOMAIN tree = 1..Len(tree) DEF PathsUpTo
  <2>2. Tools!Paths(tree) =
          Tools!Cardinality({i \in DOMAIN tree : tree[i].kind # "dir" /\ tree[i].hits > 0})
    BY DEF Tools!Paths
  <2> QED  BY <2>1, <2>2, SameCardinality
<1>3. \A n \in 0..Len(tree) : IsFiniteSet(PathsUpTo(tree, n))
  <2> SUFFICES ASSUME NEW n \in 0..Len(tree) PROVE IsFiniteSet(PathsUpTo(tree, n))
    OBVIOUS
  <2>1. IsFiniteSet(1..n)
    BY FS_Interval
  <2>2. PathsUpTo(tree, n) \in SUBSET (1..n)
    BY DEF PathsUpTo
  <2> QED  BY <2>1, <2>2, FS_Subset
<1>4. ASSUME NEW n \in 1..Len(tree)
      PROVE  /\ Cardinality(PathsUpTo(tree, n - 1)) \in Nat
             /\ Cardinality(PathsUpTo(tree, n)) =
                    Cardinality(PathsUpTo(tree, n - 1))
                      + (IF tree[n].kind # "dir" /\ tree[n].hits > 0 THEN 1 ELSE 0)
             /\ Cardinality(PathsUpTo(tree, n)) <= Tools!Paths(tree)
  <2>1. IsFiniteSet(PathsUpTo(tree, n - 1)) /\ IsFiniteSet(PathsUpTo(tree, Len(tree)))
    BY <1>3
  <2>2. Cardinality(PathsUpTo(tree, n - 1)) \in Nat
    BY <2>1, FS_CardinalityType
  <2>3. PathsUpTo(tree, n) \in SUBSET PathsUpTo(tree, Len(tree))
    BY DEF PathsUpTo
  <2>4. Cardinality(PathsUpTo(tree, n)) <= Tools!Paths(tree)
    BY <1>2, <2>1, <2>3, FS_Subset
  <2>5. CASE tree[n].kind # "dir" /\ tree[n].hits > 0
    <3>1. PathsUpTo(tree, n) = PathsUpTo(tree, n - 1) \cup {n} /\ n \notin PathsUpTo(tree, n - 1)
      BY <2>5 DEF PathsUpTo
    <3> QED  BY <2>1, <2>2, <2>4, <2>5, <3>1, FS_AddElement
  <2>6. CASE ~(tree[n].kind # "dir" /\ tree[n].hits > 0)
    <3>1. PathsUpTo(tree, n) = PathsUpTo(tree, n - 1)
      BY <2>6 DEF PathsUpTo
    <3> QED  BY <2>2, <2>4, <2>6, <3>1
  <2> QED  BY <2>5, <2>6
<1>5. Tools!Paths(tree) \in Nat
  <2>1. IsFiniteSet(PathsUpTo(tree, Len(tree)))
    BY <1>3, Len(tree) \in Nat
  <2> QED  BY <1>2, <2>1, FS_CardinalityType
<1> QED  BY <1>1, <1>2, <1>4, <1>5

\* What a search that has not run out of time has found so far: rg at least
\* the matches of the readable files it has passed and at most those of all
\* it has opened, or its count of them; glob every path.
RgHolds(a, b) ==
  LET done == search.next - 1 IN
  /\ search.step = "walking" =>
       /\ search.found = 0 /\ search.hits <= b[done]
       /\ search.hits = search.count \/ (search.hits < search.count /\ a[done] <= search.hits)
  /\ search.step = "reading" =>
       LET e == search.tree[search.next] IN
       /\ search.found <= e.hits /\ search.hits < search.count
       /\ a[done] + (IF e.kind = "file" THEN search.found ELSE 0) <= search.hits
       /\ search.hits <= b[done] + search.found

GlobHolds ==
  /\ search.step # "reading"
  /\ search.step \in {"sent", "walking"} =>
       /\ search.hits = Cardinality(PathsUpTo(search.tree, search.next - 1))
       /\ search.hits <= GlobLimit /\ ~search.truncated

FoundHolds ==
  search # Tools!Idle /\ ~search.timedOut =>
    /\ search.step = "sent" => /\ search.next = 1 /\ search.found = 0
                               /\ search.hits = 0 /\ ~search.truncated
    /\ search.tool = "rg" =>
         \A a, b : Sums(a, search.tree, {"file"}) /\ Sums(b, search.tree, {"file", "damaged"})
                     => RgHolds(a, b)
    /\ search.tool # "rg" => GlobHolds

\* The sums of the tree that is searched.
LEMMA SearchSums ==
  ASSUME search \in Searches, NEW kinds
  PROVE  \E f : Sums(f, search.tree, kinds) /\ Tools!Hits(search.tree, kinds) = f[Len(search.tree)]
<1>1. search.tree \in Seq(Tools!Entry)
  BY WorkAssumption DEF Searches, Tools!ReadParameters
<1> QED  BY <1>1, HitsAreSums

\* What the trees and the limits are.
LEMMA SearchValues ==
  ASSUME search \in Searches
  PROVE  /\ search.tree \in Seq(Tools!Entry) /\ Len(search.tree) \in Nat
         /\ search.count \in Nat /\ GlobLimit \in Nat
         /\ search.next \in Nat \ {0} /\ search.found \in Nat /\ search.hits \in Nat
         /\ search.tool \in {"rg", "glob"}
<1>1. search.tree \in Seq(Tools!Entry) /\ search.count \in Nat /\ GlobLimit \in Nat
  BY WorkAssumption DEF Searches, Tools!ReadParameters
<1> QED  BY <1>1 DEF Searches

\* A step of rg keeps its account of the matches, and its result is within them.
LEMMA RgStep ==
  ASSUME SearchTyped, SearchTyped', search \in Searches, search' \in Searches, UNCHANGED Asked,
         ~search.timedOut, ~search'.timedOut, search.tool = "rg",
         search.step # "finished",
         \/ Tools!StartWalk \/ Tools!WalkExpires \/ Tools!WalkEnds \/ Tools!Visit \/ Tools!ReadMatch,
         search.step = "sent" => search.next = 1 /\ search.found = 0 /\ search.hits = 0,
         NEW a, Sums(a, search.tree, {"file"}),
         NEW b, Sums(b, search.tree, {"file", "damaged"}),
         RgHolds(a, b)
  PROVE  /\ RgHolds(a, b)'
         /\ search'.step = "finished" =>
              \/ search'.hits = search.count /\ search'.hits <= b[Len(search.tree)]
              \/ /\ search'.hits <= search.count /\ a[Len(search.tree)] <= search'.hits
                 /\ search'.hits <= b[Len(search.tree)]
<1> DEFINE n == Len(search.tree)
           done == search.next - 1
           e == search.tree[search.next]
<1>1. /\ search.tree \in Seq(Tools!Entry) /\ n \in Nat /\ search.count \in Nat
      /\ search.next \in Nat \ {0} /\ search.found \in Nat /\ search.hits \in Nat
      /\ search.next <= n + 1
  BY SearchValues DEF SearchTyped, Searches, Tools!Idle
<1>2. /\ a \in [0..n -> Nat] /\ b \in [0..n -> Nat] /\ a[0] = 0 /\ b[0] = 0
      /\ \A i \in 0..n : b[i] <= b[n]
  <2>1. \A i \in 0..n : b[i] <= b[n]
    BY <1>1, SumsGrow
  <2> QED  BY <2>1 DEF Sums
<1>3. search.next <= n =>
        /\ e.hits \in Nat /\ done \in 0..n /\ search.next \in 0..n
        /\ a[search.next] = a[done] + (IF e.kind = "file" THEN e.hits ELSE 0)
        /\ b[search.next] = b[done] + (IF e.kind \in {"file", "damaged"} THEN e.hits ELSE 0)
  <2> SUFFICES ASSUME search.next <= n
               PROVE  /\ e.hits \in Nat /\ done \in 0..n /\ search.next \in 0..n
                      /\ a[search.next] = a[done] + (IF e.kind = "file" THEN e.hits ELSE 0)
                      /\ b[search.next] = b[done] + (IF e.kind \in {"file", "damaged"} THEN e.hits ELSE 0)
    OBVIOUS
  <2>1. search.next \in 1..n /\ e \in Tools!Entry
    BY <1>1
  <2>2. e.hits \in Nat /\ done \in 0..n /\ search.next \in 0..n
    BY <1>1, <2>1 DEF Tools!Entry
  <2>3. a[search.next] = a[done] + (IF e.kind \in {"file"} THEN e.hits ELSE 0)
    BY <2>1 DEF Sums
  <2>4. b[search.next] = b[done] + (IF e.kind \in {"file", "damaged"} THEN e.hits ELSE 0)
    BY <2>1 DEF Sums
  <2> QED  BY <2>2, <2>3, <2>4
<1>4. search'.tree = search.tree /\ search'.count = search.count
  BY DEF Asked
<1>5. CASE Tools!StartWalk
  BY <1>1, <1>2, <1>4, <1>5, Starts DEF RgHolds
<1>6. CASE Tools!WalkExpires \/ Tools!WalkEnds
  <2>1. search.step = "walking" /\ search'.step = "finished" /\ search'.hits = search.hits
    BY <1>6, Stops
  <2>2. search.next = n + 1
    BY <1>1, <1>6, Stops
  <2>3. done = n /\ a[n] \in Nat /\ b[n] \in Nat
    <3>1. n \in 0..n /\ (n + 1) - 1 = n
      BY <1>1
    <3> QED  BY <1>2, <2>2, <3>1
  <2>4. /\ search.hits <= b[done]
        /\ search.hits = search.count \/ (search.hits < search.count /\ a[done] <= search.hits)
    BY <2>1 DEF RgHolds
  <2>5. RgHolds(a, b)'
    BY <2>1 DEF RgHolds
  <2>6. /\ search.hits <= search.count /\ search.hits <= b[n]
        /\ search.hits = search.count \/ a[n] <= search.hits
    BY <1>1, <2>3, <2>4
  <2> QED  BY <1>4, <2>1, <2>5, <2>6
<1>7. CASE Tools!Visit
  <2> HIDE DEF n, e, done
  <2>1. search.step = "walking" /\ search.next <= n
    BY <1>7, Visits DEF n
  <2>2. /\ search.found = 0 /\ search.hits <= b[done]
        /\ search.hits = search.count \/ (search.hits < search.count /\ a[done] <= search.hits)
    BY <2>1 DEF RgHolds, done
  <2>3. done = search.next - 1 /\ a[done] \in Nat /\ b[done] \in Nat /\ b[done] <= b[n]
    BY <1>2, <1>3, <2>1 DEF done
  <2>4. CASE search'.step = "failed"
    BY <2>4 DEF RgHolds
  <2>5. CASE search'.step = "finished" /\ search.hits >= search.count /\ search'.hits = search.hits
    <3>1. b[n] \in Nat
      BY <1>1, <1>2
    <3>2. search.hits = search.count /\ search.hits <= b[n]
      BY <1>1, <2>2, <2>3, <2>5, <3>1
    <3> QED  BY <2>5, <3>2 DEF RgHolds, n
  <2>6. CASE /\ search'.step = "walking" /\ search'.next = search.next + 1 /\ search'.found = 0
             /\ e.kind = "dir" /\ search'.hits = search.hits
    <3>1. search'.next - 1 = search.next /\ a[search.next] = a[done] /\ b[search.next] = b[done]
      BY <1>1, <1>3, <2>1, <2>3, <2>6
    <3> QED  BY <1>4, <2>2, <2>6, <3>1 DEF RgHolds
  <2>7. CASE /\ search'.step = "reading" /\ search.hits < search.count
             /\ UNCHANGED <<search.next, search.found, search.hits>>
    <3>1. search'.next - 1 = done /\ search'.tree[search'.next] = e
      BY <1>4, <2>3, <2>7 DEF e
    <3> QED  BY <1>1, <1>3, <1>4, <2>1, <2>2, <2>3, <2>7, <3>1 DEF RgHolds
  <2> QED  BY <1>7, <2>4, <2>5, <2>6, <2>7, Visits DEF e
<1>8. CASE Tools!ReadMatch
  <2> HIDE DEF n, e, done
  <2>1. search.step = "reading" /\ search.next <= n /\ e.kind \in {"file", "damaged"} /\ search # Tools!Idle
    BY <1>8, Reads DEF SearchTyped, n, e, Searches, Tools!Idle
  <2>2. /\ search.found <= e.hits /\ search.hits < search.count
        /\ a[done] + (IF e.kind = "file" THEN search.found ELSE 0) <= search.hits
        /\ search.hits <= b[done] + search.found
    BY <2>1 DEF RgHolds, done, e
  <2>3. /\ done = search.next - 1 /\ a[done] \in Nat /\ b[done] \in Nat /\ e.hits \in Nat
        /\ b[search.next] = b[done] + e.hits
    BY <1>2, <1>3, <2>1 DEF done
  <2>4. CASE /\ search'.step = "walking" /\ search'.next = search.next + 1 /\ search'.found = 0
             /\ search'.hits = search.hits /\ (e.kind = "damaged" \/ search.found = e.hits)
    <3>1. search'.next - 1 = search.next /\ a[search.next] <= search.hits /\ search.hits <= b[search.next]
      <4>1. a[search.next] <= search.hits
        <5>1. CASE e.kind = "file"
          BY <1>3, <2>1, <2>2, <2>4, <5>1
        <5>2. CASE e.kind = "damaged"
          BY <1>3, <2>1, <2>2, <2>3, <5>2
        <5> QED  BY <2>1, <5>1, <5>2
      <4>2. search.hits <= b[search.next]
        BY <1>1, <2>2, <2>3
      <4> QED  BY <1>1, <2>4, <4>1, <4>2
    <3> QED  BY <1>4, <2>2, <2>4, <3>1 DEF RgHolds
  <2>5. CASE /\ search.found < e.hits /\ search.hits + 1 < search.count
             /\ search'.hits = search.hits + 1 /\ search'.found = search.found + 1
             /\ UNCHANGED <<search.step, search.next>>
    <3>1. search'.next - 1 = done /\ search'.tree[search'.next] = e
      BY <1>4, <2>3, <2>5 DEF e
    <3>2. /\ search'.found <= e.hits /\ search'.hits < search.count
          /\ a[done] + (IF e.kind = "file" THEN search'.found ELSE 0) <= search'.hits
          /\ search'.hits <= b[done] + search'.found
      <4>1. search'.found <= e.hits /\ search'.hits < search.count
        BY <1>1, <2>3, <2>5
      <4>2. a[done] + (IF e.kind = "file" THEN search'.found ELSE 0) <= search'.hits
        <5>1. CASE e.kind = "file"
          BY <1>1, <2>2, <2>3, <2>5, <5>1
        <5>2. CASE e.kind # "file"
          BY <1>1, <2>2, <2>3, <2>5, <5>2
        <5> QED  BY <5>1, <5>2
      <4>3. search'.hits <= b[done] + search'.found
        BY <1>1, <2>2, <2>3, <2>5
      <4> QED  BY <4>1, <4>2, <4>3
    <3> QED  BY <1>4, <2>1, <2>5, <3>1, <3>2 DEF RgHolds
  <2>6. CASE /\ search.found < e.hits /\ search.hits + 1 >= search.count
             /\ search'.step = "walking" /\ search'.next = search.next + 1 /\ search'.found = 0
             /\ search'.hits = search.hits + 1
    <3>1. search'.next - 1 = search.next /\ search'.hits = search.count /\ search'.hits <= b[search.next]
      <4>1. search'.hits = search.count
        BY <1>1, <2>2, <2>6
      <4>2. search.hits + 1 <= b[done] + e.hits
        BY <1>1, <2>2, <2>3, <2>6
      <4> QED  BY <1>1, <2>3, <2>6, <4>1, <4>2
    <3> QED  BY <1>4, <2>6, <3>1 DEF RgHolds
  <2> QED  BY <1>8, <2>4, <2>5, <2>6, Reads DEF e
<1> QED  BY <1>5, <1>6, <1>7, <1>8

\* A step of glob keeps its account of the paths, and its result is exact.
LEMMA GlobStep ==
  ASSUME SearchTyped, search \in Searches, search' \in Searches, UNCHANGED Asked,
         ~search.timedOut, ~search'.timedOut, search.tool # "rg",
         search.step = "sent" => search.next = 1 /\ search.hits = 0 /\ ~search.truncated,
         \/ Tools!StartWalk \/ Tools!WalkExpires \/ Tools!WalkEnds \/ Tools!Visit \/ Tools!ReadMatch,
         GlobHolds
  PROVE  /\ GlobHolds'
         /\ search'.step = "finished" =>
              \/ ~search'.truncated /\ search'.hits <= GlobLimit /\ search'.hits = Tools!Paths(search.tree)
              \/ search'.truncated /\ search'.hits = GlobLimit /\ GlobLimit < Tools!Paths(search.tree)
<1> DEFINE n == Len(search.tree)
           P(i) == Cardinality(PathsUpTo(search.tree, i))
           e == search.tree[search.next]
<1>1. /\ search.tree \in Seq(Tools!Entry) /\ n \in Nat /\ GlobLimit \in Nat
      /\ search.next \in Nat \ {0} /\ search.hits \in Nat
      /\ search.next <= n + 1
  BY SearchValues DEF SearchTyped, Searches, Tools!Idle
<1>2. /\ P(0) = 0 /\ Tools!Paths(search.tree) = P(n)
      /\ search.next <= n =>
           /\ P(search.next - 1) \in Nat /\ P(search.next) <= P(n)
           /\ P(search.next) = P(search.next - 1) + (IF e.kind # "dir" /\ e.hits > 0 THEN 1 ELSE 0)
  BY <1>1, PathsAreCounted
<1>3. search'.tree = search.tree
  BY DEF Asked
<1>4. CASE Tools!StartWalk
  BY <1>1, <1>2, <1>3, <1>4, Starts DEF GlobHolds
<1>5. CASE Tools!WalkExpires \/ Tools!WalkEnds
  <2>1. search.step = "walking" /\ search'.step = "finished" /\ search.next > n
    BY <1>5, Stops
  <2>2. search.next - 1 = n
    BY <1>1, <2>1
  <2> QED  BY <1>1, <1>2, <1>5, <2>1, <2>2, Stops DEF GlobHolds
<1>6. CASE Tools!Visit
  <2> HIDE DEF n, e
  <2>1. search.step = "walking" /\ search.next <= n
    BY <1>6, Visits DEF n
  <2>2. search.hits = P(search.next - 1) /\ search.hits <= GlobLimit /\ ~search.truncated
    BY <2>1 DEF GlobHolds
  <2> HIDE DEF P
  <2>3. CASE search'.step = "failed"
    BY <2>3 DEF GlobHolds
  <2>4. CASE /\ search'.step = "walking" /\ search'.next = search.next + 1
             /\ e.kind = "dir" \/ e.hits = 0
             /\ search'.hits = search.hits /\ search'.truncated = search.truncated
    <3>1. search'.next - 1 = search.next /\ P(search.next) = P(search.next - 1)
      BY <1>1, <1>2, <2>1, <2>4
    <3> QED  BY <1>3, <2>2, <2>4, <3>1 DEF GlobHolds, P
  <2>5. CASE /\ search'.step = "finished" /\ e.hits > 0 /\ e.kind # "dir" /\ search.hits >= GlobLimit
             /\ search'.truncated /\ search'.hits = search.hits
    <3>1. P(search.next) = P(search.next - 1) + 1
      BY <1>2, <2>1, <2>5
    <3>2. P(n) \in Int
      BY <1>1, <1>2, PathsAreCounted
    <3>3. search.hits = GlobLimit /\ GlobLimit < P(n)
      BY <1>1, <1>2, <2>1, <2>2, <2>5, <3>1, <3>2
    <3> QED  BY <1>2, <2>5, <3>3 DEF GlobHolds
  <2>6. CASE /\ search'.step = "walking" /\ e.hits > 0 /\ e.kind # "dir" /\ search.hits < GlobLimit
             /\ search'.hits = search.hits + 1 /\ search'.next = search.next + 1
             /\ search'.truncated = search.truncated
    <3>1. /\ search'.next - 1 = search.next /\ P(search.next) = P(search.next - 1) + 1
          /\ search'.hits <= GlobLimit
      BY <1>1, <1>2, <2>1, <2>6
    <3> QED  BY <1>3, <2>2, <2>6, <3>1 DEF GlobHolds, P
  <2> QED  BY <1>6, <2>3, <2>4, <2>5, <2>6, Visits DEF e
<1>7. CASE Tools!ReadMatch
  BY <1>7, Reads DEF GlobHolds
<1> QED  BY <1>4, <1>5, <1>6, <1>7

\* Steps keep the accounts, and a search that ends has the right flags.
LEMMA FlagsStep ==
  ASSUME SearchTyped, SearchTyped', FoundHolds, FlagsAreTrue, [Work]_<<vars, toolVars>>
  PROVE  FoundHolds' /\ FlagsAreTrue'
<1> DEFINE Lo == Tools!Hits(search.tree, {"file"})
           Hi == Tools!Hits(search.tree, {"file", "damaged"})
<1>1. CASE UNCHANGED <<search, now, spare>>
  BY <1>1 DEF Tools!Idle, FoundHolds, FlagsAreTrue, Tools!FlagsAreTrue, RgHolds, GlobHolds
<1>2. ASSUME Tools!Searching PROVE FoundHolds' /\ FlagsAreTrue'
  <2>1. CASE \E tool \in {"glob", "rg"}, t \in Timeouts, tt \in ToolTimeouts, c \in Counts, tree \in Trees :
               Tools!BeginSearch(tool, t, tt, c, tree)
    <3>1. /\ search' \in Searches /\ search'.step = "sent" /\ search'.next = 1
          /\ search'.found = 0 /\ search'.hits = 0 /\ ~search'.truncated
      BY <2>1, Begins
    <3>2. search'.tree \in Seq(Tools!Entry) /\ GlobLimit \in Nat
      BY <3>1, WorkAssumption DEF Searches, Tools!ReadParameters
    <3>3. Cardinality(PathsUpTo(search'.tree, 0)) = 0
      BY <3>2, PathsAreCounted
    <3>4. GlobHolds' /\ \A a, b : RgHolds(a, b)'
      BY <3>1, <3>2, <3>3 DEF GlobHolds, RgHolds
    <3> QED  BY <3>1, <3>4 DEF FoundHolds, FlagsAreTrue, Tools!FlagsAreTrue
  <2>2. CASE Tools!EndSearch
    BY <2>2 DEF Tools!EndSearch, FoundHolds, FlagsAreTrue, Tools!FlagsAreTrue
  <2>3. CASE Tools!Tick
    BY <2>3, Ticks DEF FoundHolds, FlagsAreTrue, Tools!FlagsAreTrue, RgHolds, GlobHolds, Tools!Idle
  <2>4. CASE Tools!Deliver \/ Tools!GiveUp
    <3>1. /\ search \in Searches /\ search # Tools!Idle
          /\ UNCHANGED <<Asked, search.step, search.next, search.found, search.hits, search.timedOut, search.truncated>>
      BY <2>4, Returns DEF Searches, Tools!Idle
    <3> QED  BY <3>1 DEF Asked, FoundHolds, FlagsAreTrue, Tools!FlagsAreTrue, RgHolds, GlobHolds
  <2>5. CASE \/ Tools!StartWalk \/ Tools!WalkExpires \/ Tools!WalkEnds \/ Tools!Visit \/ Tools!ReadMatch
    <3>1. /\ search \in Searches /\ search' \in Searches /\ UNCHANGED Asked
          /\ search.step # "finished" /\ (~search'.timedOut => ~search.timedOut)
          /\ search'.step # "sent"
      BY <2>5, Starts, Stops, Visits, Reads DEF Searches
    <3>2. search # Tools!Idle /\ search' # Tools!Idle
      BY <3>1 DEF Searches, Tools!Idle
    <3>3. search'.tree = search.tree /\ search'.count = search.count /\ search'.tool = search.tool
      BY <3>1 DEF Asked
    <3>4. CASE search'.timedOut
      BY <3>4 DEF FoundHolds, FlagsAreTrue, Tools!FlagsAreTrue
    <3>5. CASE ~search'.timedOut /\ search.tool = "rg"
      <4>1. ~search.timedOut /\ (search.step = "sent" => search.next = 1 /\ search.found = 0 /\ search.hits = 0)
        BY <3>1, <3>2, <3>5 DEF FoundHolds
      <4>2. ASSUME NEW a, NEW b, Sums(a, search.tree, {"file"}), Sums(b, search.tree, {"file", "damaged"})
            PROVE  /\ RgHolds(a, b)'
                   /\ search'.step = "finished" =>
                        \/ search'.hits = search.count /\ search'.hits <= b[Len(search.tree)]
                        \/ /\ search'.hits <= search.count /\ a[Len(search.tree)] <= search'.hits
                           /\ search'.hits <= b[Len(search.tree)]
        <5>1. RgHolds(a, b)
          BY <3>2, <3>5, <4>1, <4>2 DEF FoundHolds
        <5> QED  BY <2>5, <3>1, <3>5, <4>1, <4>2, <5>1, RgStep
      <4>3. FoundHolds'
        BY <3>1, <3>3, <3>5, <4>2 DEF FoundHolds
      <4>4. PICK a : Sums(a, search.tree, {"file"}) /\ Lo = a[Len(search.tree)]
        BY <3>1, SearchSums
      <4>5. PICK b : Sums(b, search.tree, {"file", "damaged"}) /\ Hi = b[Len(search.tree)]
        BY <3>1, SearchSums
      <4>6. Lo \in Nat /\ Hi \in Nat /\ search.count \in Nat /\ search'.hits \in Nat
        <5>1. Len(search.tree) \in 0..Len(search.tree)
          BY <3>1, SearchValues
        <5> QED  BY <3>1, <4>4, <4>5, <5>1, SearchValues DEF Sums, Searches
      <4> HIDE DEF Lo, Hi
      <4>7. search'.step = "finished" =>
              search'.hits \in Tools!Min({search.count, Lo}) .. Tools!Min({search.count, Hi})
        <5>1. /\ Tools!Min({search.count, Lo}) = IF search.count <= Lo THEN search.count ELSE Lo
              /\ Tools!Min({search.count, Hi}) = IF search.count <= Hi THEN search.count ELSE Hi
          BY <4>6, MinOfTwo
        <5>2. search'.step = "finished" =>
                search'.hits <= Hi /\ (search'.hits = search.count
                                        \/ (search'.hits <= search.count /\ Lo <= search'.hits))
          BY <4>2, <4>4, <4>5
        <5> QED  BY <4>6, <5>1, <5>2
      <4> QED  BY <3>3, <3>5, <4>3, <4>7 DEF FlagsAreTrue, Tools!FlagsAreTrue, Lo, Hi
    <3>6. CASE ~search'.timedOut /\ search.tool # "rg"
      <4>1. /\ ~search.timedOut /\ GlobHolds
            /\ search.step = "sent" => search.next = 1 /\ search.hits = 0 /\ ~search.truncated
        BY <3>1, <3>2, <3>6 DEF FoundHolds
      <4>2. /\ GlobHolds'
            /\ search'.step = "finished" =>
                 \/ ~search'.truncated /\ search'.hits <= GlobLimit /\ search'.hits = Tools!Paths(search.tree)
                 \/ search'.truncated /\ search'.hits = GlobLimit /\ GlobLimit < Tools!Paths(search.tree)
        BY <2>5, <3>1, <3>6, <4>1, GlobStep
      <4>3. FoundHolds'
        BY <3>1, <3>3, <3>6, <4>2 DEF FoundHolds
      <4>4. Tools!Paths(search.tree) \in Nat /\ GlobLimit \in Nat /\ search'.hits \in Nat
        BY <3>1, SearchValues, PathsAreCounted DEF Searches
      <4>5. search'.step = "finished" =>
              /\ search'.hits = Tools!Min({GlobLimit, Tools!Paths(search.tree)})
              /\ search'.truncated <=> Tools!Paths(search.tree) > GlobLimit
        <5>1. Tools!Min({GlobLimit, Tools!Paths(search.tree)}) =
                IF GlobLimit <= Tools!Paths(search.tree) THEN GlobLimit ELSE Tools!Paths(search.tree)
          BY <4>4, MinOfTwo
        <5> QED  BY <4>2, <4>4, <5>1
      <4> QED  BY <3>3, <3>6, <4>3, <4>5 DEF FlagsAreTrue, Tools!FlagsAreTrue
    <3> QED  BY <3>4, <3>5, <3>6
  <2> QED  BY <1>2, <2>1, <2>2, <2>3, <2>4, <2>5 DEF Tools!Searching
<1> QED  BY <1>1, <1>2, NotSearching

-----------------------------------------------------------------------------
(* Patches: their types.                                                   *)

Instructions == IF file.kind = "text" THEN LineOp ELSE Hunk

\* A file is a text or bytes.
LEMMA KindsOfFiles == \A f \in Files : f.kind \in {"text", "binary"}
  BY DEF Files

\* Until it is patched the file has the type and the size of a file. A
\* replacement of a line brings one line, a deletion of bytes nothing.
Patchable ==
  /\ patch \in Seq(Instructions)
  /\ answer = None =>
       /\ file \in Files
       /\ file.kind = "binary" => Len(file.bytes) < UsizeMax
  /\ \A k \in Places({"replace"}) :
       file.kind = "text" => Len(patch[k].body) = 1 /\ patch[k].from = patch[k].to
  /\ \A k \in Places({"delete"}) : file.kind = "binary" => patch[k].body = <<>>

\* The lines an instruction brings, as a sequence.
LEMMA BroughtTyped ==
  ASSUME NEW k \in Nat, NEW n \in Nat
  PROVE  Brought(k, n) \in Seq(Nat \X Nat) /\ Len(Brought(k, n)) = n
  BY DEF Brought

\* Instructions are records of the right type; a replacement has one line.
LEMMA LineInstructionsTyped ==
  ASSUME NEW n \in Nat, NEW k \in Nat, NEW op \in LineInstructions(n, k)
  PROVE  op \in LineOp /\ (op.op = "replace" => Len(op.body) = 1 /\ op.from = op.to)
<1> DEFINE Number == 0..(n + 1)
<1>1. CASE \E s \in Number, e \in Number :
             op = [op |-> "delete", from |-> s, to |-> e, after |-> 0, body |-> <<>>]
  BY <1>1 DEF LineOp
<1>2. CASE \E s \in Number, e \in Number, t \in Number \cup {-1} :
             op = [op |-> "move", from |-> s, to |-> e, after |-> t, body |-> <<>>]
  BY <1>2 DEF LineOp
<1>3. CASE \E t \in Number \cup {-1}, b \in 0..MaxBlock :
             op = [op |-> "append", from |-> 0, to |-> 0, after |-> t, body |-> Brought(k, b)]
  <2>1. \A b \in 0..MaxBlock : Brought(k, b) \in Seq(Nat \X Nat)
    BY BroughtTyped, PatchAssumption
  <2> QED  BY <1>3, <2>1 DEF LineOp
<1>4. CASE \E i \in Number :
             op = [op |-> "replace", from |-> i, to |-> i, after |-> 0, body |-> Brought(k, 1)]
  <2>1. Brought(k, 1) \in Seq(Nat \X Nat) /\ Len(Brought(k, 1)) = 1
    BY BroughtTyped
  <2> HIDE DEF Number
  <2>2. \A i \in Number : i \in Nat
    BY DEF Number
  <2> QED  BY <1>4, <2>1, <2>2 DEF LineOp
<1> QED  BY <1>1, <1>2, <1>3, <1>4 DEF LineInstructions

\* Hunks are records of the right type; a deletion brings nothing.
LEMMA HunksTyped ==
  ASSUME NEW total \in Nat, total < UsizeMax, NEW k \in Nat, NEW op \in Hunks(total, k)
  PROVE  op \in Hunk /\ (op.op = "delete" => op.body = <<>>)
<1> DEFINE Offset == 0..(total + 1) \cup {UsizeMax}
<1>1. Offset \subseteq 0..UsizeMax /\ 0..MaxBlock \subseteq 0..UsizeMax
  BY PatchAssumption
<1>2. \A n \in 0..MaxBlock, x \in {0, 1} : Brought(k, n + x) \in Seq(Nat \X Nat)
  <2> SUFFICES ASSUME NEW n \in 0..MaxBlock, NEW x \in {0, 1}
               PROVE  Brought(k, n + x) \in Seq(Nat \X Nat)
    OBVIOUS
  <2>1. n + x \in Nat
    BY PatchAssumption
  <2> QED  BY <2>1, BroughtTyped
<1>3. 0 \in 0..UsizeMax
  BY PatchAssumption
<1> HIDE DEF Offset
<1>4. CASE \E o \in Offset, n \in 0..MaxBlock :
             op = [op |-> "delete", from |-> o, len |-> n, after |-> 0, body |-> <<>>]
  BY <1>1, <1>3, <1>4 DEF Hunk
<1>5. CASE \E o \in Offset, n \in 0..MaxBlock, x \in {0, 1} :
             op = [op |-> "replace", from |-> o, len |-> n, after |-> 0, body |-> Brought(k, n + x)]
  <2>1. PICK o \in Offset, n \in 0..MaxBlock, x \in {0, 1} :
          op = [op |-> "replace", from |-> o, len |-> n, after |-> 0, body |-> Brought(k, n + x)]
    BY <1>5
  <2>2. o \in 0..UsizeMax /\ n \in 0..UsizeMax /\ Brought(k, n + x) \in Seq(Nat \X Nat)
    BY <1>1, <1>2
  <2> QED  BY <1>3, <2>1, <2>2 DEF Hunk
<1>6. CASE \E o \in Offset \cup {-1}, n \in 0..MaxBlock, x \in {0, 1} :
             op = [op |-> "append", from |-> 0, len |-> n, after |-> o, body |-> Brought(k, n + x)]
  <2>1. PICK o \in Offset \cup {-1}, n \in 0..MaxBlock, x \in {0, 1} :
          op = [op |-> "append", from |-> 0, len |-> n, after |-> o, body |-> Brought(k, n + x)]
    BY <1>6
  <2>2. /\ o \in (0..UsizeMax) \cup {-1} /\ n \in 0..UsizeMax
        /\ Brought(k, n + x) \in Seq(Nat \X Nat)
    BY <1>1, <1>2
  <2> QED  BY <1>3, <2>1, <2>2 DEF Hunk
<1> QED  BY <1>4, <1>5, <1>6 DEF Hunks, Offset

\* A total is the last of the partial sums.
LEMMA TotalIs ==
  ASSUME NEW counts \in Seq(Int)
  PROVE  \E f \in [0..Len(counts) -> Int] :
           /\ f[0] = 0
           /\ \A i \in 1..Len(counts) : f[i] = f[i - 1] + counts[i]
           /\ Total(counts) = f[Len(counts)]
<1> DEFINE step == [i \in 1..Len(counts) |-> [v \in Int |-> v + counts[i]]]
           rec(g) == g = [n \in 0..Len(counts) |-> IF n = 0 THEN 0 ELSE g[n - 1] + counts[n]]
           up == CHOOSE g : rec(g)
<1>1. PICK f : Follows(f, Len(counts), 0, step, Int)
  <2>1. Len(counts) \in Nat /\ 0 \in Int /\ step \in Steps(Len(counts), Int)
    BY DEF Steps
  <2> HIDE DEF step
  <2> QED  BY <2>1, Recursion
<1>2. f \in [0..Len(counts) -> Int] /\ f[0] = 0
  BY <1>1 DEF Follows
<1>3. \A i \in 1..Len(counts) : f[i] = f[i - 1] + counts[i]
  <2> SUFFICES ASSUME NEW i \in 1..Len(counts) PROVE f[i] = f[i - 1] + counts[i]
    OBVIOUS
  <2>1. f[i - 1] \in Int /\ f[i] = step[i][f[i - 1]]
    BY <1>1, i - 1 \in 0..Len(counts) DEF Follows
  <2> QED  BY <2>1
<1> HIDE DEF step
<1>4. rec(f)
  <2>1. \A n \in 0..Len(counts) : n = 0 \/ n \in 1..Len(counts)
    OBVIOUS
  <2>2. \A n \in 0..Len(counts) : f[n] = IF n = 0 THEN 0 ELSE f[n - 1] + counts[n]
    BY <1>2, <1>3, <2>1
  <2> QED  BY <1>2, <2>2
<1>5. rec(up)
  BY <1>4
<1>6. Total(counts) = up[Len(counts)]
  BY DEF Total
<1> HIDE DEF up
<1>7. up[0] = 0 /\ \A i \in 1..Len(counts) : up[i] = up[i - 1] + counts[i]
  <2>1. 0 \in 0..Len(counts) /\ \A i \in 1..Len(counts) : i \in 0..Len(counts) /\ i # 0
    OBVIOUS
  <2> QED  BY <1>5, <2>1
<1>8. up \in [0..Len(counts) -> Int]
  <2> DEFINE S == {i \in Int : up[i] \in Int}
  <2>1. Len(counts) \in Nat /\ 0 \in S /\ \A i \in 1..Len(counts) : i - 1 \in S => i \in S
    BY <1>7
  <2>2. 0..Len(counts) \subseteq S
    <3> HIDE DEF S
    <3> QED  BY <2>1, UpTo
  <2> QED  BY <1>5, <2>2
<1> QED  BY <1>6, <1>7, <1>8

\* Additions and deletions are numbers.
LEMMA TotalsTyped ==
  ASSUME patch \in Seq(Hunk)
  PROVE  Additions \in Int /\ Deletions \in Int
<1> DEFINE came == [k \in DOMAIN patch |-> Len(patch[k].body)]
           went == [k \in DOMAIN patch |->
                      IF patch[k].op \in {"replace", "delete"} THEN patch[k].len ELSE 0]
<1>1. /\ DOMAIN patch = 1..Len(patch) /\ Len(patch) \in Nat
      /\ \A k \in DOMAIN patch : Len(patch[k].body) \in Int /\ patch[k].len \in Int
  <2>1. DOMAIN patch = 1..Len(patch) /\ Len(patch) \in Nat
    OBVIOUS
  <2>2. ASSUME NEW k \in DOMAIN patch PROVE Len(patch[k].body) \in Int /\ patch[k].len \in Int
    <3>1. patch[k] \in Hunk
      OBVIOUS
    <3>2. patch[k].body \in Seq(Nat \X Nat) /\ patch[k].len \in 0..UsizeMax
      BY <3>1 DEF Hunk
    <3> QED  BY <3>2, PatchAssumption
  <2> QED  BY <2>1, <2>2
<1>2. came \in Seq(Int) /\ went \in Seq(Int)
  BY <1>1
<1>3. \A counts \in Seq(Int) : Total(counts) \in Int
  <2> SUFFICES ASSUME NEW counts \in Seq(Int) PROVE Total(counts) \in Int
    OBVIOUS
  <2>1. PICK f \in [0..Len(counts) -> Int] : Total(counts) = f[Len(counts)]
    BY TotalIs
  <2> QED  BY <2>1, Len(counts) \in 0..Len(counts)
<1>4. Additions = Total(came) /\ Deletions = Total(went)
  BY DEF Additions, Deletions
<1> HIDE DEF came, went
<1> QED  BY <1>2, <1>3, <1>4

\* A patch is answered.
LEMMA AppliesAnswer ==
  ASSUME Patchable, ApplyTextPatch \/ ApplyBinaryPatch
  PROVE  answer = None /\ answer' \in Answers /\ answer' # None /\ UNCHANGED patch
<1>1. answer = None /\ file \in Files
  BY DEF ApplyTextPatch, ApplyBinaryPatch, Patchable
<1>2. answer' \in Answers /\ UNCHANGED patch
  <2>1. CASE Refused("text")
    BY <2>1 DEF Refused, Answers
  <2>2. CASE Refused("binary")
    BY <2>2 DEF Refused, Answers
  <2>3. CASE answer' = [mode |-> "text", ok |-> TRUE, before |-> file] /\ UNCHANGED patch
    BY <1>1, <2>3 DEF Answers
  <2>4. CASE /\ file.kind = "binary" /\ UNCHANGED patch
             /\ answer' = [mode |-> "binary", ok |-> TRUE, before |-> file,
                           additions |-> Additions, deletions |-> Deletions]
    <3>1. patch \in Seq(Hunk)
      BY <2>4 DEF Patchable, Instructions
    <3>2. Additions \in Int /\ Deletions \in Int
      BY <3>1, TotalsTyped
    <3> QED  BY <1>1, <2>4, <3>2 DEF Answers
  <2> QED  BY <2>1, <2>2, <2>3, <2>4 DEF ApplyTextPatch, ApplyBinaryPatch
<1> QED  BY <1>1, <1>2, NoneAssumption

\* Of the tools only Rewrite touches the file, and only others make it.
LEMMA ToolsKeepFile ==
  ASSUME Tools!Next
  PROVE  UNCHANGED file \/ (file' \in Rewrites /\ file'.kind = file.kind)
  BY DEF Tools!Next, Tools!Reading, Tools!BeginRead, Tools!ReadPage, Tools!Rewrite, Tools!EndRead,
     Tools!Searching, Tools!BeginSearch, Tools!StartWalk, Tools!WalkExpires, Tools!WalkEnds,
     Tools!Visit, Tools!ReadMatch, Tools!Tick, Tools!Deliver, Tools!GiveUp, Tools!EndSearch

\* No patch is being written at first.
LEMMA PatchInit == WorkInit => Patchable
<1> SUFFICES ASSUME WorkInit PROVE Patchable
  OBVIOUS
<1>1. file \in Files /\ (file.kind = "binary" => Len(file.bytes) < UsizeMax)
  <2>1. CASE \E bom \in BOOLEAN, ends \in Endings : file = TextFile(bom, ends)
    <3>1. PICK bom \in BOOLEAN, ends \in Endings : file = TextFile(bom, ends)
      BY <2>1
    <3> DEFINE rows == [i \in DOMAIN ends |-> [text |-> <<0, i>>, eol |-> ends[i]]]
    <3>2. /\ ends \in Seq({"lf", "crlf", "cr", "none"}) /\ DOMAIN ends = 1..Len(ends)
          /\ \A i \in DOMAIN ends : ends[i] = "none" => i = Len(ends)
      BY PatchAssumption
    <3>3. \A i \in DOMAIN ends : [text |-> <<0, i>>, eol |-> ends[i]] \in Line
      BY <3>2 DEF Line
    <3>4. rows \in Seq(Line) /\ Len(rows) = Len(ends) /\ DOMAIN rows = DOMAIN ends
      BY <3>2, <3>3
    <3>5. \A i \in DOMAIN rows : rows[i].eol = "none" => i = Len(rows)
      BY <3>2, <3>4
    <3>6. file = [kind |-> "text", bom |-> bom, lines |-> rows]
      BY <3>1 DEF TextFile
    <3> HIDE DEF rows
    <3> QED  BY <3>4, <3>5, <3>6 DEF Files
  <2>2. CASE \E size \in Sizes : file = BinaryFile(size)
    <3>1. PICK size \in Sizes : file = BinaryFile(size)
      BY <2>2
    <3>2. size \in Nat /\ size < UsizeMax
      BY PatchAssumption
    <3>3. Brought(0, size) \in Seq(Nat \X Nat) /\ Len(Brought(0, size)) = size
      BY <3>2, BroughtTyped
    <3> QED  BY <3>1, <3>2, <3>3 DEF BinaryFile, Files
  <2> QED  BY <2>1, <2>2 DEF WorkInit, Init
<1>2. patch = <<>>
  BY DEF WorkInit, Init
<1>3. patch \in Seq(Instructions) /\ DOMAIN patch = {}
  BY <1>2
<1> QED  BY <1>1, <1>3 DEF Patchable, Places

\* Steps keep the patch and the file well formed.
LEMMA PatchableStep ==
  ASSUME Patchable, [Work]_<<vars, toolVars>>
  PROVE  Patchable'
<1>1. CASE UNCHANGED <<file, patch, answer>>
  BY <1>1 DEF Patchable, Instructions, Places
<1>2. CASE patch = <<>> /\ answer = None /\ Tools!Next /\ UNCHANGED <<patch, answer>>
  <2>1. file' \in Files /\ (file'.kind = "binary" => Len(file'.bytes) < UsizeMax)
    BY <1>2, ToolsKeepFile, WorkAssumption DEF Patchable
  <2>2. patch' \in Seq(Instructions)' /\ DOMAIN patch' = {}
    BY <1>2
  <2> QED  BY <2>1, <2>2 DEF Patchable, Places
<1>3. CASE InstructLines
  <2>1. /\ answer = None /\ file.kind = "text" /\ file \in Files /\ UNCHANGED <<file, answer>>
        /\ patch \in Seq(LineOp)
    BY <1>3 DEF InstructLines, Patchable, Instructions
  <2>2. PICK op \in LineInstructions(Len(file.lines), Len(patch) + 1) : patch' = Append(patch, op)
    BY <1>3 DEF InstructLines
  <2>3. Len(file.lines) \in Nat
    BY <2>1 DEF Files
  <2>4. op \in LineOp /\ (op.op = "replace" => Len(op.body) = 1 /\ op.from = op.to)
    BY <2>1, <2>3, LineInstructionsTyped
  <2>5. patch' \in Seq(LineOp) /\ \A k \in DOMAIN patch' : patch'[k] = op \/ (k \in DOMAIN patch /\ patch'[k] = patch[k])
    BY <2>1, <2>2, <2>4
  <2>6. patch' \in Seq(Instructions)'
    BY <2>1, <2>5 DEF Instructions
  <2>7. \A k \in Places({"replace"})' : Len(patch'[k].body) = 1 /\ patch'[k].from = patch'[k].to
    BY <2>1, <2>4, <2>5 DEF Places, Patchable
  <2> QED  BY <2>1, <2>6, <2>7 DEF Patchable
<1>4. CASE InstructBytes
  <2>1. /\ answer = None /\ file.kind = "binary" /\ file \in Files /\ UNCHANGED <<file, answer>>
        /\ patch \in Seq(Hunk) /\ Len(file.bytes) < UsizeMax
    BY <1>4 DEF InstructBytes, Patchable, Instructions
  <2>2. PICK op \in Hunks(Len(file.bytes), Len(patch) + 1) : patch' = Append(patch, op)
    BY <1>4 DEF InstructBytes
  <2>3. Len(file.bytes) \in Nat
    BY <2>1 DEF Files
  <2>4. op \in Hunk /\ (op.op = "delete" => op.body = <<>>)
    BY <2>1, <2>2, <2>3, HunksTyped
  <2>5. patch' \in Seq(Hunk) /\ \A k \in DOMAIN patch' : patch'[k] = op \/ (k \in DOMAIN patch /\ patch'[k] = patch[k])
    BY <2>1, <2>2, <2>4
  <2>6. patch' \in Seq(Instructions)'
    BY <2>1, <2>5 DEF Instructions
  <2>7. \A k \in Places({"delete"})' : patch'[k].body = <<>>
    BY <2>1, <2>4, <2>5 DEF Places, Patchable
  <2> QED  BY <2>1, <2>6, <2>7 DEF Patchable
<1>5. CASE ApplyTextPatch \/ ApplyBinaryPatch
  <2>1. answer' # None /\ UNCHANGED patch
    BY <1>5, AppliesAnswer
  <2>2. file'.kind = file.kind
    BY <1>5 DEF ApplyTextPatch, ApplyBinaryPatch, Refused, Files, Patchable
  <2> QED  BY <2>1, <2>2 DEF Patchable, Instructions, Places
<1> QED  BY <1>1, <1>2, <1>3, <1>4, <1>5 DEF Work, Next, vars

-----------------------------------------------------------------------------
(* Text patches: the type of the result, and the line endings.             *)

Text == Nat \X Nat

\* A set of numbers has a least one.
LEMMA MinIs ==
  ASSUME NEW T \in SUBSET Nat, T # {}
  PROVE  Min(T) \in T /\ \A m \in T : Min(T) <= m
<1>1. PICK n \in T : \A m \in T : n <= m
  BY NatMin
<1>2. Min(T) = CHOOSE x \in T : \A y \in T : x <= y
  BY DEF Min
<1> QED  BY <1>1, <1>2

\* detect_line_ending answers an ending the text has, if it has one of the two.
LEMMA EndingDetected ==
  ASSUME NEW lines \in Seq(Line)
  PROVE  /\ DetectLineEnding(lines) \in {"lf", "crlf"}
         /\ (\E i \in DOMAIN lines : lines[i].eol \in {"lf", "crlf"}) =>
               \E i \in DOMAIN lines : lines[i].eol = DetectLineEnding(lines)
<1> DEFINE fed == {i \in DOMAIN lines : lines[i].eol \in {"lf", "crlf"}}
<1>1. DetectLineEnding(lines) = IF fed = {} THEN "lf" ELSE lines[Min(fed)].eol
  BY DEF DetectLineEnding
<1>2. fed \in SUBSET Nat
  BY DOMAIN lines = 1..Len(lines)
<1>3. fed # {} => Min(fed) \in fed
  <2> HIDE DEF fed
  <2> QED  BY <1>2, MinIs
<1> QED  BY <1>1, <1>3

\* The text of a line after replacement.
LEMMA LineTextTyped ==
  ASSUME Patchable, file.kind = "text", NEW texts \in Seq(Text), NEW i \in 1..Len(texts)
  PROVE  LineText(texts, i) \in Text
<1> DEFINE by == {k \in Places({"replace"}) : patch[k].from = i}
<1>1. CASE by = {}
  <2>1. LineText(texts, i) = texts[i]
    BY <1>1 DEF LineText
  <2>2. texts[i] \in Text
    OBVIOUS
  <2> QED  BY <2>1, <2>2
<1>2. CASE by # {}
  <2>1. PICK k \in by : LineText(texts, i) = patch[k].body[1]
    BY <1>2 DEF LineText
  <2>2. k \in DOMAIN patch /\ Len(patch[k].body) = 1
    BY <2>1 DEF Patchable, Places
  <2>3. patch[k].body \in Seq(Text)
    <3>1. patch \in Seq(LineOp)
      BY DEF Patchable, Instructions
    <3>2. patch[k] \in LineOp
      BY <2>2, <3>1
    <3> QED  BY <3>2 DEF LineOp, Text
  <2>4. patch[k].body[1] \in Text
    BY <2>2, <2>3, ElementOfSeq
  <2> QED  BY <2>1, <2>4
<1> QED  BY <1>1, <1>2

\* What an instruction inserts.
LEMMA InsertedTyped ==
  ASSUME Patchable, file.kind = "text", NEW texts \in Seq(Text), LinesAccepted(Len(texts)),
         NEW k \in Places({"move", "append"})
  PROVE  Inserted(texts, k) \in Seq(Text)
<1>1. k \in DOMAIN patch /\ patch[k] \in LineOp /\ patch[k].op \in {"move", "append"}
  BY DEF Places, Patchable, Instructions
<1>2. CASE patch[k].op = "append"
  BY <1>1, <1>2 DEF Inserted, LineOp, Text
<1>3. CASE patch[k].op = "move"
  <2> DEFINE a == patch[k].from
             n == patch[k].to - a + 1
  <2>1. /\ a \in Nat /\ patch[k].to \in Nat /\ 1 <= a /\ a <= patch[k].to /\ patch[k].to <= Len(texts)
    <3>1. k \in Places({"delete", "move", "replace"})
      BY <1>1, <1>3 DEF Places
    <3>2. InLines(patch[k], Len(texts))
      BY <3>1 DEF LinesAccepted
    <3> QED  BY <1>1, <3>2 DEF InLines, LineOp
  <2>2. n \in Nat /\ \A j \in 1..n : a + j - 1 \in 1..Len(texts)
    <3> DEFINE z == patch[k].to
               t == Len(texts)
    <3>1. t \in Nat /\ n = z - a + 1
      OBVIOUS
    <3> HIDE DEF a, n, z, t
    <3>2. a \in Nat /\ z \in Nat /\ 1 <= a /\ a <= z /\ z <= t
      BY <2>1 DEF t, z
    <3>3. n \in Nat
      BY <3>1, <3>2
    <3>4. \A j \in 1..n : a + j - 1 \in 1..t
      BY <3>1, <3>2
    <3> QED  BY <3>3, <3>4 DEF t
  <2>3. \A j \in 1..n : LineText(texts, a + j - 1) \in Text
    <3> HIDE DEF a, n
    <3> QED  BY <2>2, LineTextTyped
  <2>4. Inserted(texts, k) = [j \in 1..n |-> LineText(texts, a + j - 1)]
    BY <1>3 DEF Inserted
  <2> HIDE DEF a, n
  <2> QED  BY <2>2, <2>3, <2>4
<1> QED  BY <1>1, <1>2, <1>3

\* What is inserted before a line.
LEMMA InsertionsTyped ==
  ASSUME Patchable, file.kind = "text", NEW texts \in Seq(Text), LinesAccepted(Len(texts)), NEW b
  PROVE  Insertions(texts, b) \in Seq(Text)
<1> DEFINE put(k) == IF k \in Places({"move", "append"}) /\ Boundary(patch[k], Len(texts)) = b
                     THEN Inserted(texts, k) ELSE <<>>
           puts == [k \in DOMAIN patch |-> put(k)]
<1>1. DOMAIN patch = 1..Len(patch) /\ Len(patch) \in Nat
  BY DEF Patchable
<1>2. \A k \in DOMAIN patch : put(k) \in Seq(Text)
  BY InsertedTyped
<1>3. Insertions(texts, b) = FlattenSeq(puts)
  BY DEF Insertions
<1> HIDE DEF put
<1>4. puts \in Seq(Seq(Text))
  BY <1>1, <1>2
<1> HIDE DEF puts
<1> QED  BY <1>3, <1>4, FlattenTyped

\* The result of a text patch is a sequence of texts.
LEMMA PatchedTyped ==
  ASSUME Patchable, file.kind = "text", NEW texts \in Seq(Text), LinesAccepted(Len(texts))
  PROVE  ApplyLinePatch(texts) \in Seq(Text)
<1> DEFINE piece(i) == (IF Removed(i) THEN <<>> ELSE <<LineText(texts, i)>>) \o Insertions(texts, i)
           pieces == [i \in DOMAIN texts |-> piece(i)]
<1>1. DOMAIN texts = 1..Len(texts) /\ Len(texts) \in Nat
  OBVIOUS
<1>2. ASSUME NEW i \in DOMAIN texts PROVE piece(i) \in Seq(Text)
  <2>1. LineText(texts, i) \in Text
    BY <1>1, LineTextTyped
  <2>2. (IF Removed(i) THEN <<>> ELSE <<LineText(texts, i)>>) \in Seq(Text)
    BY <2>1
  <2> QED  BY <2>2, InsertionsTyped, ConcatProperties
<1>3. ApplyLinePatch(texts) = Insertions(texts, 0) \o FlattenSeq(pieces)
  BY DEF ApplyLinePatch
<1> HIDE DEF piece
<1>4. pieces \in Seq(Seq(Text))
  BY <1>1, <1>2
<1> HIDE DEF pieces
<1>5. FlattenSeq(pieces) \in Seq(Text) /\ Insertions(texts, 0) \in Seq(Text)
  BY <1>4, FlattenTyped, InsertionsTyped
<1> QED  BY <1>3, <1>5, ConcatProperties

\* Written back, every line has the ending that was detected.
LEMMA Encodes ==
  ASSUME NEW lines \in Seq(Line), NEW out \in Seq(Text)
  PROVE  /\ Encode(lines, out) \in Seq(Line)
         /\ \A i \in DOMAIN Encode(lines, out) : Encode(lines, out)[i].eol = DetectLineEnding(lines)
<1> DEFINE rows == IF out = <<>> /\ lines # <<>> /\ Last(lines).eol # "none" THEN <<Blank>> ELSE out
           e == DetectLineEnding(lines)
<1>1. rows \in Seq(Text)
  <2>1. Blank \in Text
    BY DEF Blank, Text
  <2>2. <<Blank>> \in Seq(Text)
    BY <2>1
  <2> QED  BY <2>2
<1>2. e \in {"lf", "crlf"}
  BY EndingDetected
<1>3. Encode(lines, out) = [i \in DOMAIN rows |-> [text |-> rows[i], eol |-> e]]
  BY DEF Encode
<1> HIDE DEF rows, e
<1>4. DOMAIN rows = 1..Len(rows) /\ Len(rows) \in Nat /\ \A i \in DOMAIN rows : rows[i] \in Text
  BY <1>1
<1>5. \A i \in DOMAIN rows : [text |-> rows[i], eol |-> e] \in Line
  BY <1>2, <1>4 DEF Line, Text
<1> QED  BY <1>3, <1>4, <1>5 DEF e

\* What apply_text_patch leaves.
LEMMA TextApplied ==
  ASSUME Patchable, ApplyTextPatch
  PROVE  \/ answer'.ok = FALSE /\ UNCHANGED file
         \/ /\ file.kind = "text" /\ file \in Files
            /\ answer' = [mode |-> "text", ok |-> TRUE, before |-> file]
            /\ file' \in Files /\ file'.kind = "text" /\ file'.bom = file.bom
            /\ \A i \in DOMAIN file'.lines : file'.lines[i].eol = DetectLineEnding(file.lines)
<1>1. CASE Refused("text")
  BY <1>1 DEF Refused
<1>2. CASE /\ file.kind = "text" /\ LinesAccepted(Len(file.lines))
           /\ file' = [file EXCEPT !.lines = Encode(@, ApplyLinePatch(Texts(@)))]
           /\ answer' = [mode |-> "text", ok |-> TRUE, before |-> file]
  <2> DEFINE texts == Texts(file.lines)
             out == Encode(file.lines, ApplyLinePatch(texts))
  <2>1. file \in Files /\ file.lines \in Seq(Line)
    BY <1>2 DEF ApplyTextPatch, Patchable, Files
  <2>2. texts \in Seq(Text) /\ Len(texts) = Len(file.lines)
    <3>1. DOMAIN file.lines = 1..Len(file.lines) /\ Len(file.lines) \in Nat
      BY <2>1
    <3>2. \A i \in DOMAIN file.lines : file.lines[i].text \in Text
      <4>1. \A i \in DOMAIN file.lines : file.lines[i] \in Line
        BY <2>1
      <4> QED  BY <4>1 DEF Line, Text
    <3> QED  BY <3>1, <3>2 DEF Texts
  <2>3. ApplyLinePatch(texts) \in Seq(Text)
    <3> HIDE DEF texts
    <3> QED  BY <1>2, <2>2, PatchedTyped
  <2>4. /\ out \in Seq(Line)
        /\ \A i \in DOMAIN out : out[i].eol = DetectLineEnding(file.lines)
    <3> HIDE DEF texts
    <3> QED  BY <2>1, <2>3, Encodes
  <2>5. DetectLineEnding(file.lines) # "none"
    BY <2>1, EndingDetected
  <2>6. file' = [file EXCEPT !.lines = out]
    BY <1>2
  <2> HIDE DEF out
  <2>7. file.bom \in BOOLEAN /\ file = [kind |-> "text", bom |-> file.bom, lines |-> file.lines]
    BY <1>2, <2>1 DEF Files
  <2>8. file' = [kind |-> "text", bom |-> file.bom, lines |-> out]
    BY <2>6, <2>7
  <2>9. file' \in Files
    BY <2>4, <2>5, <2>7, <2>8 DEF Files
  <2> QED  BY <1>2, <2>1, <2>4, <2>8, <2>9
<1> QED  BY <1>1, <1>2 DEF ApplyTextPatch

\* Once answered, nothing is written any more.
LEMMA AnswerStays ==
  ASSUME answer # None, [Work]_<<vars, toolVars>>
  PROVE  UNCHANGED <<file, patch, answer>>
  BY DEF Work, Next, InstructLines, InstructBytes, ApplyTextPatch, ApplyBinaryPatch, vars

\* Only a patch answers.
LEMMA AnswerComes ==
  ASSUME answer = None, answer' # None, [Work]_<<vars, toolVars>>
  PROVE  ApplyTextPatch \/ ApplyBinaryPatch
  BY DEF Work, Next, InstructLines, InstructBytes, vars

\* Lines that all end the same way have one ending.
LEMMA OneEnding ==
  ASSUME NEW lines, NEW e, \A i \in DOMAIN lines : lines[i].eol = e
  PROVE  LET new == {lines[i].eol : i \in DOMAIN lines}
         IN  new \subseteq {e} /\ Cardinality(new) <= 1
<1> DEFINE new == {lines[i].eol : i \in DOMAIN lines}
<1>1. new \subseteq {e}
  OBVIOUS
<1>2. IsFiniteSet({e}) /\ Cardinality({e}) = 1
  BY FS_Singleton
<1> HIDE DEF new
<1>3. Cardinality(new) <= 1
  BY <1>1, <1>2, FS_Subset
<1> QED  BY <1>1, <1>3 DEF new

\* A step that writes a text keeps its endings.
LEMMA EndingsStep ==
  ASSUME Patchable, EndingsKept, [Work]_<<vars, toolVars>>
  PROVE  EndingsKept'
<1>1. CASE answer # None
  <2>1. UNCHANGED <<file, answer>>
    BY <1>1, AnswerStays
  <2>2. UNCHANGED Before
    BY <2>1 DEF Before
  <2> DEFINE Ends(a, f, b) ==
        a # None /\ f.kind = "text" /\ a.ok =>
          LET old == {b.lines[i].eol : i \in DOMAIN b.lines} \ {"none"}
              new == {f.lines[i].eol : i \in DOMAIN f.lines}
          IN  /\ f.bom = b.bom
              /\ \A e \in {"lf", "crlf"} : old = {e} => new \subseteq {e}
              /\ new \subseteq {"lf", "crlf"} /\ Cardinality(new) <= 1
  <2>3. EndingsKept <=> Ends(answer, file, Before)
    BY DEF EndingsKept
  <2>4. EndingsKept' <=> Ends(answer', file', Before')
    BY DEF EndingsKept
  <2> HIDE DEF Ends
  <2> QED  BY <2>1, <2>2, <2>3, <2>4
<1>2. CASE answer = None /\ answer' = None
  BY <1>2 DEF EndingsKept
<1>3. CASE answer = None /\ ApplyBinaryPatch
  BY <1>3 DEF ApplyBinaryPatch, Refused, EndingsKept, Patchable, Files
<1>4. CASE answer = None /\ ApplyTextPatch
  <2>1. CASE answer'.ok = FALSE
    BY <2>1 DEF EndingsKept
  <2>2. CASE /\ file.kind = "text" /\ file \in Files
             /\ answer' = [mode |-> "text", ok |-> TRUE, before |-> file]
             /\ file'.bom = file.bom
             /\ \A i \in DOMAIN file'.lines : file'.lines[i].eol = DetectLineEnding(file.lines)
    <3> DEFINE new == {file'.lines[i].eol : i \in DOMAIN file'.lines}
               old == {file.lines[i].eol : i \in DOMAIN file.lines} \ {"none"}
               e == DetectLineEnding(file.lines)
    <3>1. file.lines \in Seq(Line)
      BY <2>2 DEF Files
    <3>2. new \subseteq {e} /\ Cardinality(new) <= 1
      BY <2>2, OneEnding
    <3>3. /\ e \in {"lf", "crlf"}
          /\ (\E i \in DOMAIN file.lines : file.lines[i].eol \in {"lf", "crlf"}) =>
               \E i \in DOMAIN file.lines : file.lines[i].eol = e
      BY <3>1, EndingDetected
    <3>4. ASSUME NEW x \in {"lf", "crlf"}, old = {x} PROVE e = x
      BY <3>3, <3>4
    <3>5. Before' = file
      BY <2>2 DEF Before
    <3> HIDE DEF e
    <3>6. new \subseteq {"lf", "crlf"} /\ \A x \in {"lf", "crlf"} : old = {x} => new \subseteq {x}
      BY <3>2, <3>3, <3>4
    <3>7. file'.bom = Before'.bom
      BY <2>2, <3>5
    <3>8. EndingsKept' <=>
            (answer' # None /\ file'.kind = "text" /\ answer'.ok =>
               /\ file'.bom = Before'.bom
               /\ \A x \in {"lf", "crlf"} : old = {x} => new \subseteq {x}
               /\ new \subseteq {"lf", "crlf"} /\ Cardinality(new) <= 1)
      BY <3>5 DEF EndingsKept
    <3> HIDE DEF new, old
    <3> QED  BY <3>2, <3>6, <3>7, <3>8
  <2> QED  BY <1>4, <2>1, <2>2, TextApplied
<1> QED  BY <1>1, <1>2, <1>3, <1>4, AnswerComes

-----------------------------------------------------------------------------
(* Text patches: what is written is what the instructions mean.            *)

\* The document of the reference: lines and anchors.
Item == [line : Nat, text : Text \cup {None}]
LineItem(l, t) == [line |-> l, text |-> t]

\* What instruction j does to line l, or at boundary b.
Takes(j, l) == patch[j].op \in {"delete", "move"} /\ l \in patch[j].from..patch[j].to
Replaces(j, l) == patch[j].op = "replace" /\ patch[j].from = l
PutsAt(j, b, n) == patch[j].op \in {"move", "append"} /\ Boundary(patch[j], n) = b

\* A text patch that is accepted.
Accepted(n) ==
  /\ patch \in Seq(LineOp) /\ n \in Nat /\ LinesAccepted(n)
  /\ \A k \in Places({"replace"}) : Len(patch[k].body) = 1 /\ patch[k].from = patch[k].to

\* The instructions of an accepted patch.
LEMMA InstructionFacts ==
  ASSUME NEW n, Accepted(n)
  PROVE  /\ n \in Nat /\ Len(patch) \in Nat /\ DOMAIN patch = 1..Len(patch)
         /\ \A k \in 1..Len(patch) :
              /\ patch[k].op \in {"delete", "move", "append", "replace"}
              /\ patch[k].from \in Nat /\ patch[k].to \in Nat /\ patch[k].after \in Nat \cup {-1}
              /\ patch[k].body \in Seq(Text)
              /\ patch[k].op # "append" => 1 <= patch[k].from /\ patch[k].from <= patch[k].to /\ patch[k].to <= n
              /\ patch[k].op = "replace" => patch[k].from = patch[k].to /\ Len(patch[k].body) = 1
              /\ patch[k].op \in {"move", "append"} => Boundary(patch[k], n) \in 0..n
<1>1. n \in Nat /\ patch \in Seq(LineOp) /\ Len(patch) \in Nat /\ DOMAIN patch = 1..Len(patch)
  BY DEF Accepted
<1>2. ASSUME NEW k \in 1..Len(patch)
      PROVE  /\ patch[k].op \in {"delete", "move", "append", "replace"}
             /\ patch[k].from \in Nat /\ patch[k].to \in Nat /\ patch[k].after \in Nat \cup {-1}
             /\ patch[k].body \in Seq(Text)
             /\ patch[k].op # "append" => 1 <= patch[k].from /\ patch[k].from <= patch[k].to /\ patch[k].to <= n
             /\ patch[k].op = "replace" => patch[k].from = patch[k].to /\ Len(patch[k].body) = 1
             /\ patch[k].op \in {"move", "append"} => Boundary(patch[k], n) \in 0..n
  <2>1. patch[k] \in LineOp /\ k \in DOMAIN patch
    BY <1>1, <1>2
  <2>2. /\ patch[k].op \in {"delete", "move", "append", "replace"}
        /\ patch[k].from \in Nat /\ patch[k].to \in Nat /\ patch[k].after \in Nat \cup {-1}
        /\ patch[k].body \in Seq(Text)
    BY <2>1 DEF LineOp, Text
  <2>3. patch[k].op # "append" => 1 <= patch[k].from /\ patch[k].from <= patch[k].to /\ patch[k].to <= n
    <3>1. patch[k].op # "append" => k \in Places({"delete", "move", "replace"})
      BY <2>1, <2>2 DEF Places
    <3> QED  BY <3>1 DEF Accepted, LinesAccepted, InLines
  <2>4. patch[k].op = "replace" => patch[k].from = patch[k].to /\ Len(patch[k].body) = 1
    <3>1. patch[k].op = "replace" => k \in Places({"replace"})
      BY <2>1 DEF Places
    <3> QED  BY <3>1 DEF Accepted
  <2>5. patch[k].op \in {"move", "append"} => Boundary(patch[k], n) \in 0..n
    <3>1. patch[k].op \in {"move", "append"} => Boundary(patch[k], n) <= n
      <4>1. patch[k].op \in {"move", "append"} => k \in Places({"move", "append"})
        BY <2>1 DEF Places
      <4> QED  BY <4>1 DEF Accepted, LinesAccepted
    <3> QED  BY <1>1, <2>2, <3>1 DEF Boundary
  <2> QED  BY <2>2, <2>3, <2>4, <2>5
<1> QED  BY <1>1, <1>2

\* No two instructions take the same line, and no two replace it.
LEMMA OneTaker ==
  ASSUME NEW n, Accepted(n), NEW j \in 1..Len(patch), NEW k \in 1..Len(patch), j # k, NEW l
  PROVE  ~(Takes(j, l) /\ Takes(k, l)) /\ ~(Replaces(j, l) /\ Replaces(k, l))
<1>1. /\ patch[j].from \in Nat /\ patch[j].to \in Nat /\ patch[k].from \in Nat /\ patch[k].to \in Nat
      /\ DOMAIN patch = 1..Len(patch)
  BY InstructionFacts
<1>2. ASSUME Takes(j, l), Takes(k, l) PROVE FALSE
  <2>1. j \in Places({"delete", "move"}) /\ k \in Places({"delete", "move"})
    BY <1>1, <1>2 DEF Takes, Places
  <2>2. Apart(patch[j], patch[k])
    BY <2>1 DEF Accepted, LinesAccepted
  <2> QED  BY <1>1, <1>2, <2>2 DEF Takes, Apart
<1>3. ASSUME Replaces(j, l), Replaces(k, l) PROVE FALSE
  <2>1. j \in Places({"replace"}) /\ k \in Places({"replace"})
    BY <1>1, <1>3 DEF Replaces, Places
  <2>2. Apart(patch[j], patch[k])
    BY <2>1 DEF Accepted, LinesAccepted
  <2>3. patch[j].from = patch[j].to /\ patch[k].from = patch[k].to
    BY <2>1 DEF Accepted
  <2> QED  BY <1>1, <1>3, <2>2, <2>3 DEF Replaces, Apart
<1> QED  BY <1>2, <1>3

\* The text of a line, and whether it has left its place, after k instructions.
TextAt(texts, k, l) ==
  LET by == {j \in 1..k : Replaces(j, l)}
  IN  IF by = {} THEN texts[l] ELSE patch[CHOOSE j \in by : TRUE].body[1]
GoneAt(k, l) == \E j \in 1..k : Takes(j, l)

\* The text of a line, instruction by instruction: in the end it is that of line_text.
LEMMA TextSteps ==
  ASSUME NEW texts \in Seq(Text), Accepted(Len(texts)), NEW l \in 1..Len(texts)
  PROVE  /\ \A k \in 0..Len(patch) : TextAt(texts, k, l) \in Text
         /\ TextAt(texts, 0, l) = texts[l]
         /\ \A k \in 1..Len(patch) :
              TextAt(texts, k, l) = IF Replaces(k, l) THEN patch[k].body[1] ELSE TextAt(texts, k - 1, l)
         /\ TextAt(texts, Len(patch), l) = LineText(texts, l)
<1> DEFINE N == Len(patch)
           by(k) == {j \in 1..k : Replaces(j, l)}
           text(s) == IF s = {} THEN texts[l] ELSE patch[CHOOSE j \in s : TRUE].body[1]
<1>0. N \in Nat /\ DOMAIN patch = 1..N
  BY InstructionFacts
<1>1. \A k : TextAt(texts, k, l) = text(by(k))
  BY DEF TextAt
<1>2. \A k \in 1..N : Replaces(k, l) => patch[k].body[1] \in Text
  <2> SUFFICES ASSUME NEW k \in 1..N, Replaces(k, l) PROVE patch[k].body[1] \in Text
    OBVIOUS
  <2>1. patch[k].body \in Seq(Text) /\ Len(patch[k].body) = 1
    BY InstructionFacts DEF Replaces
  <2> QED  BY <2>1, ElementOfSeq
<1>3. texts[l] \in Text
  BY ElementOfSeq
<1> HIDE DEF N
<1>4. \A k \in 0..N : text(by(k)) \in Text
  <2> SUFFICES ASSUME NEW k \in 0..N PROVE text(by(k)) \in Text
    OBVIOUS
  <2>1. CASE by(k) = {}
    BY <1>3, <2>1
  <2>2. CASE by(k) # {}
    <3> DEFINE c == CHOOSE j \in by(k) : TRUE
    <3>1. c \in by(k)
      BY <2>2
    <3>2. c \in 1..N /\ Replaces(c, l)
      BY <1>0, <3>1
    <3>3. text(by(k)) = patch[c].body[1]
      BY <2>2
    <3> HIDE DEF c
    <3> QED  BY <1>2, <3>2, <3>3
  <2> QED  BY <2>1, <2>2
<1>5. by(0) = {}
  OBVIOUS
<1>6. ASSUME NEW k \in 1..N
      PROVE  text(by(k)) = IF Replaces(k, l) THEN patch[k].body[1] ELSE text(by(k - 1))
  <2>1. 1..k = 1..(k - 1) \cup {k} /\ k \in Nat
    BY <1>0
  <2>2. CASE Replaces(k, l)
    <3>1. \A j \in 1..(k - 1) : j \in 1..N /\ j # k
      BY <1>0
    <3>2. \A j \in 1..(k - 1) : ~Replaces(j, l)
      BY <2>2, <3>1, OneTaker DEF N
    <3>3. by(k) = {k}
      BY <2>1, <2>2, <3>2
    <3>4. (CHOOSE j \in {k} : TRUE) = k
      OBVIOUS
    <3> HIDE DEF by
    <3> QED  BY <2>2, <3>3, <3>4
  <2>3. CASE ~Replaces(k, l)
    <3>1. by(k) = by(k - 1)
      BY <2>1, <2>3
    <3> HIDE DEF by
    <3> QED  BY <2>3, <3>1
  <2> QED  BY <2>2, <2>3
<1>7. text(by(N)) = LineText(texts, l)
  <2> DEFINE ones == {k \in Places({"replace"}) : patch[k].from = l}
             all == by(N)
  <2>1. LineText(texts, l) = text(ones)
    BY DEF LineText
  <2>2. \A k : k \in ones <=> k \in 1..N /\ Replaces(k, l)
    BY <1>0, Zenon DEF Places, Replaces
  <2>3. \A k : k \in all <=> k \in 1..N /\ Replaces(k, l)
    OBVIOUS
  <2> HIDE DEF ones, all, by, text
  <2>4. ones = all
    BY <2>2, <2>3
  <2> QED  BY <2>1, <2>4 DEF all
<1>8. text(by(0)) = texts[l]
  BY <1>5
<1> HIDE DEF by, text
<1> QED  BY <1>1, <1>4, <1>6, <1>7, <1>8 DEF N

\* A line leaves its place once, and in the end it is one the code removes.
LEMMA GoneSteps ==
  ASSUME NEW n, Accepted(n), NEW l
  PROVE  /\ ~GoneAt(0, l)
         /\ \A k \in 1..Len(patch) : GoneAt(k, l) <=> GoneAt(k - 1, l) \/ Takes(k, l)
         /\ \A k \in 1..Len(patch) : Takes(k, l) => ~GoneAt(k - 1, l)
         /\ GoneAt(Len(patch), l) <=> Removed(l)
<1>0. Len(patch) \in Nat /\ DOMAIN patch = 1..Len(patch)
  BY InstructionFacts
<1>1. ~GoneAt(0, l)
  BY DEF GoneAt
<1>2. ASSUME NEW k \in 1..Len(patch) PROVE GoneAt(k, l) <=> GoneAt(k - 1, l) \/ Takes(k, l)
  <2>1. 1..k = 1..(k - 1) \cup {k}
    BY <1>0
  <2> QED  BY <2>1 DEF GoneAt
<1>3. ASSUME NEW k \in 1..Len(patch), Takes(k, l) PROVE ~GoneAt(k - 1, l)
  <2>1. \A j \in 1..(k - 1) : j \in 1..Len(patch) /\ j # k
    BY <1>0
  <2>2. \A j \in 1..(k - 1) : ~Takes(j, l)
    BY <1>3, <2>1, OneTaker
  <2> QED  BY <2>2 DEF GoneAt
<1>4. GoneAt(Len(patch), l) <=> Removed(l)
  BY <1>0 DEF GoneAt, Removed, Places, Takes
<1> QED  BY <1>1, <1>2, <1>3, <1>4

\* None is the text of an anchor alone.
LEMMA ItemFacts ==
  /\ None \notin Text
  /\ \A b \in Nat : Anchor(b) \in Item /\ ~IsLine(Anchor(b)) /\ Anchor(b).line = b
  /\ \A l \in Nat, t \in Text :
       /\ LineItem(l, t) \in Item /\ IsLine(LineItem(l, t))
       /\ LineItem(l, t).line = l /\ LineItem(l, t).text = t
       /\ \A u : [LineItem(l, t) EXCEPT !.text = u] = LineItem(l, u)
       /\ \A b : LineItem(l, t) # Anchor(b)
  /\ \A a, b \in Nat : Anchor(a) = Anchor(b) => a = b
<1>1. None \notin Text
  BY NoneAssumption DEF Text
<1>2. \A b \in Nat : Anchor(b) \in Item /\ ~IsLine(Anchor(b)) /\ Anchor(b).line = b
  BY DEF Anchor, Item, IsLine
<1>3. ASSUME NEW l \in Nat, NEW t \in Text
      PROVE  /\ LineItem(l, t) \in Item /\ IsLine(LineItem(l, t))
             /\ LineItem(l, t).line = l /\ LineItem(l, t).text = t
             /\ \A u : [LineItem(l, t) EXCEPT !.text = u] = LineItem(l, u)
             /\ \A b : LineItem(l, t) # Anchor(b)
  <2>1. t # None
    BY <1>1
  <2>2. LineItem(l, t).line = l /\ LineItem(l, t).text = t
    BY DEF LineItem
  <2>3. LineItem(l, t) \in Item /\ IsLine(LineItem(l, t))
    BY <2>1 DEF LineItem, Item, IsLine
  <2>4. \A u : [LineItem(l, t) EXCEPT !.text = u] = LineItem(l, u)
    BY DEF LineItem
  <2>5. \A b : Anchor(b).text = None
    BY DEF Anchor
  <2> QED  BY <2>1, <2>2, <2>3, <2>4, <2>5
<1>4. \A a, b \in Nat : Anchor(a) = Anchor(b) => a = b
  BY <1>2
<1> QED  BY <1>1, <1>2, <1>3, <1>4

\* What an instruction makes of an item, and the items it moves.
Names(op, x) == IsLine(x) /\ x.line \in op.from..op.to
Turn(op, n, block) ==
  [x \in Item |->
     CASE op.op \in {"move", "append"} /\ x = Anchor(Boundary(op, n)) -> Append(block, x)
       [] op.op \in {"delete", "move"} /\ Names(op, x) -> <<>>
       [] op.op = "replace" /\ Names(op, x) -> <<[x EXCEPT !.text = op.body[1]]>>
       [] OTHER -> <<x>>]
Pick(op) == [x \in Item |-> IF Names(op, x) THEN <<x>> ELSE <<>>]
Carried(op, doc) == IF op.op = "append" THEN [j \in DOMAIN op.body |-> LineItem(0, op.body[j])]
                    ELSE Spread(Pick(op), doc)

\* One instruction of the reference spreads over the items of the document.
LEMMA FollowIs ==
  ASSUME NEW doc \in Seq(Item), NEW op, NEW n
  PROVE  Follow(doc, op, n) = Spread(Turn(op, n, Carried(op, doc)), doc)
<1> DEFINE block == IF op.op = "append"
                    THEN [j \in DOMAIN op.body |-> [line |-> 0, text |-> op.body[j]]]
                    ELSE FlattenSeq([p \in DOMAIN doc |-> IF Names(op, doc[p]) THEN <<doc[p]>> ELSE <<>>])
           becomes(b, x) ==
             CASE op.op \in {"move", "append"} /\ x = Anchor(Boundary(op, n)) -> Append(b, x)
               [] op.op \in {"delete", "move"} /\ Names(op, x) -> <<>>
               [] op.op = "replace" /\ Names(op, x) -> <<[x EXCEPT !.text = op.body[1]]>>
               [] OTHER -> <<x>>
           h == Turn(op, n, Carried(op, doc))
<1>1. \A p \in DOMAIN doc : doc[p] \in Item
  OBVIOUS
<1>2. Follow(doc, op, n) = FlattenSeq([p \in DOMAIN doc |-> becomes(block, doc[p])])
  BY DEF Follow, Names
<1>3. block = Carried(op, doc)
  <2>1. [p \in DOMAIN doc |-> IF Names(op, doc[p]) THEN <<doc[p]>> ELSE <<>>] = [p \in DOMAIN doc |-> Pick(op)[doc[p]]]
    BY <1>1 DEF Pick
  <2> QED  BY <2>1 DEF Carried, Spread, LineItem
<1>4. \A x \in Item : h[x] = becomes(Carried(op, doc), x)
  BY DEF Turn
<1> HIDE DEF block, becomes, h
<1>5. [p \in DOMAIN doc |-> becomes(block, doc[p])] = [p \in DOMAIN doc |-> h[doc[p]]]
  BY <1>1, <1>3, <1>4
<1> QED  BY <1>2, <1>5 DEF Spread, h

\* Appending is joining with one element.
LEMMA AppendIsBoth ==
  ASSUME NEW S, NEW s \in Seq(S), NEW x \in S
  PROVE  Append(s, x) = Both(s, <<x>>)
<1>1. Append(s, x) \in Seq(S) /\ s \o <<x>> \in Seq(S) /\ Len(Append(s, x)) = Len(s \o <<x>>)
  OBVIOUS
<1>2. \A i \in 1..Len(Append(s, x)) : Append(s, x)[i] = (s \o <<x>>)[i]
  OBVIOUS
<1> QED  BY <1>1, <1>2, SeqEqual DEF Both

\* What instruction k makes of anchors, of the lines it finds and of new lines.
Turns(h, texts, k, block) ==
  /\ Maps(h, Item, Item)
  /\ \A b \in 0..Len(texts) :
       h[Anchor(b)] = IF PutsAt(k, b, Len(texts)) THEN Both(block, <<Anchor(b)>>) ELSE <<Anchor(b)>>
  /\ \A l \in 1..Len(texts) :
       h[LineItem(l, TextAt(texts, k - 1, l))]
         = IF Takes(k, l) THEN <<>> ELSE <<LineItem(l, TextAt(texts, k, l))>>
  /\ \A t \in Text : h[LineItem(0, t)] = <<LineItem(0, t)>>

\* That is what Turn does.
LEMMA TurnFacts ==
  ASSUME NEW texts \in Seq(Text), Accepted(Len(texts)), NEW k \in 1..Len(patch), NEW block \in Seq(Item)
  PROVE  Turns(Turn(patch[k], Len(texts), block), texts, k, block)
<1> DEFINE n == Len(texts)
           op == patch[k]
           h == Turn(op, n, block)
<1>1. /\ n \in Nat /\ op.op \in {"delete", "move", "append", "replace"}
      /\ op.from \in Nat /\ op.to \in Nat
      /\ op.body \in Seq(Text)
      /\ op.op # "append" => 1 <= op.from /\ op.from <= op.to /\ op.to <= n
      /\ op.op = "replace" => op.from = op.to /\ Len(op.body) = 1 /\ op.body[1] \in Text
      /\ op.op \in {"move", "append"} => Boundary(op, n) \in 0..n
  <2>1. op.op = "replace" => op.body[1] \in Text
    <3>1. op.op = "replace" => Len(op.body) = 1 /\ op.body \in Seq(Text)
      BY InstructionFacts
    <3> QED  BY <3>1, ElementOfSeq
  <2> QED  BY <2>1, InstructionFacts
<1>2. /\ \A l : Takes(k, l) <=> op.op \in {"delete", "move"} /\ l \in op.from..op.to
      /\ \A l : Replaces(k, l) <=> op.op = "replace" /\ op.from = l
      /\ \A b : PutsAt(k, b, n) <=> op.op \in {"move", "append"} /\ Boundary(op, n) = b
  BY DEF Takes, Replaces, PutsAt
<1> DEFINE turned(x) ==
             CASE op.op \in {"move", "append"} /\ x = Anchor(Boundary(op, n)) -> Append(block, x)
               [] op.op \in {"delete", "move"} /\ Names(op, x) -> <<>>
               [] op.op = "replace" /\ Names(op, x) -> <<[x EXCEPT !.text = op.body[1]]>>
               [] OTHER -> <<x>>
<1>3. h = [x \in Item |-> turned(x)]
  BY DEF Turn
<1>31. \A l \in 1..n : /\ TextAt(texts, k - 1, l) \in Text
                       /\ TextAt(texts, k, l) = IF Replaces(k, l) THEN op.body[1] ELSE TextAt(texts, k - 1, l)
  <2>1. k - 1 \in 0..Len(patch)
    BY InstructionFacts
  <2> QED  BY <2>1, TextSteps
<1> HIDE DEF n, op
<1>4. ASSUME NEW x \in Item PROVE turned(x) \in Seq(Item)
  <2>1. Append(block, x) \in Seq(Item) /\ <<>> \in Seq(Item) /\ <<x>> \in Seq(Item)
    OBVIOUS
  <2>2. op.op = "replace" => <<[x EXCEPT !.text = op.body[1]]>> \in Seq(Item)
    <3>1. op.op = "replace" => [x EXCEPT !.text = op.body[1]] \in Item
      BY <1>1 DEF Item
    <3> QED  BY <3>1
  <2> QED  BY <2>1, <2>2
<1>5. Maps(h, Item, Item)
  BY <1>3, <1>4 DEF Maps
<1>6. ASSUME NEW b \in 0..n
      PROVE  h[Anchor(b)] = IF PutsAt(k, b, n) THEN Both(block, <<Anchor(b)>>) ELSE <<Anchor(b)>>
  <2> DEFINE x == Anchor(b)
  <2>1. x \in Item /\ ~Names(op, x) /\ b \in Nat
    BY <1>1, ItemFacts DEF Names
  <2>2. x = Anchor(Boundary(op, n)) /\ op.op \in {"move", "append"} <=> PutsAt(k, b, n)
    BY <1>1, <1>2, <2>1, ItemFacts
  <2>3. h[x] = turned(x)
    BY <1>3, <2>1
  <2>4. Append(block, x) = Both(block, <<x>>)
    BY <2>1, AppendIsBoth
  <2>5. turned(x) = IF PutsAt(k, b, n) THEN Append(block, x) ELSE <<x>>
    <3> HIDE DEF x
    <3> QED  BY <2>1, <2>2
  <2> QED  BY <2>3, <2>4, <2>5
<1>7. ASSUME NEW l \in 1..n
      PROVE  h[LineItem(l, TextAt(texts, k - 1, l))]
                 = IF Takes(k, l) THEN <<>> ELSE <<LineItem(l, TextAt(texts, k, l))>>
  <2> DEFINE t == TextAt(texts, k - 1, l)
             x == LineItem(l, t)
  <2>1. t \in Text /\ l \in Nat
    BY <1>1, <1>31
  <2> HIDE DEF t
  <2>2. x \in Item /\ IsLine(x) /\ x.line = l /\ \A u : [x EXCEPT !.text = u] = LineItem(l, u)
    BY <2>1, ItemFacts
  <2>3. \A b : x # Anchor(b)
    BY <2>1, ItemFacts
  <2>4. h[x] = turned(x)
    BY <1>3, <2>2
  <2>5. x = LineItem(l, t)
    OBVIOUS
  <2> HIDE DEF x
  <2>6. Names(op, x) <=> l \in op.from..op.to
    BY <2>2 DEF Names
  <2>7. op.op = "replace" => (l \in op.from..op.to <=> op.from = l)
    BY <1>1, <2>1
  <2>8. turned(x) = IF Takes(k, l) THEN <<>> ELSE IF Replaces(k, l) THEN <<[x EXCEPT !.text = op.body[1]]>> ELSE <<x>>
    BY <1>1, <1>2, <2>3, <2>6, <2>7
  <2>9. TextAt(texts, k, l) = IF Replaces(k, l) THEN op.body[1] ELSE t
    BY <1>31 DEF t
  <2> HIDE DEF turned
  <2> QED  BY <2>2, <2>4, <2>5, <2>8, <2>9 DEF t
<1>8. ASSUME NEW t \in Text
      PROVE  h[LineItem(0, t)] = <<LineItem(0, t)>>
  <2> DEFINE x == LineItem(0, t)
  <2>1. x \in Item /\ x.line = 0 /\ \A b : x # Anchor(b)
    BY ItemFacts
  <2>2. h[x] = turned(x)
    BY <1>3, <2>1
  <2> HIDE DEF x
  <2>3. op.op # "append" => ~Names(op, x)
    BY <1>1, <2>1 DEF Names
  <2>4. turned(x) = <<x>>
    BY <1>1, <2>1, <2>3
  <2> HIDE DEF turned
  <2> QED  BY <2>2, <2>4 DEF x
<1> HIDE DEF h, turned
<1> QED  BY <1>5, <1>6, <1>7, <1>8 DEF Turns, h, n, op

\* The lines instruction j has put into the document, after k instructions.
Block(texts, k, j) ==
  IF patch[j].op = "append"
  THEN [i \in 1..Len(patch[j].body) |-> LineItem(0, patch[j].body[i])]
  ELSE [i \in 1..(patch[j].to - patch[j].from + 1) |->
          LineItem(patch[j].from + i - 1, TextAt(texts, k, patch[j].from + i - 1))]

\* A block is a sequence of items.
LEMMA BlockTyped ==
  ASSUME NEW texts \in Seq(Text), Accepted(Len(texts)), NEW k \in 0..Len(patch), NEW j \in 1..Len(patch)
  PROVE  Block(texts, k, j) \in Seq(Item)
<1> DEFINE from == patch[j].from
           m == patch[j].to - from + 1
           body == patch[j].body
<1>1. CASE patch[j].op = "append"
  <2>1. body \in Seq(Text)
    BY InstructionFacts
  <2>2. \A i \in 1..Len(body) : LineItem(0, body[i]) \in Item
    BY <2>1, ElementOfSeq, ItemFacts
  <2>3. Block(texts, k, j) = [i \in 1..Len(body) |-> LineItem(0, body[i])]
    BY <1>1 DEF Block
  <2>4. Len(body) \in Nat
    BY <2>1
  <2> HIDE DEF body
  <2> QED  BY <2>2, <2>3, <2>4
<1>2. CASE patch[j].op # "append"
  <2>1. m \in Nat /\ \A i \in 1..m : from + i - 1 \in 1..Len(texts)
    <3>1. from \in Nat /\ patch[j].to \in Nat /\ 1 <= from /\ from <= patch[j].to /\ patch[j].to <= Len(texts)
      BY <1>2, InstructionFacts
    <3>2. Len(texts) \in Nat
      OBVIOUS
    <3> QED  BY <3>1, <3>2
  <2>2. Block(texts, k, j) = [i \in 1..m |-> LineItem(from + i - 1, TextAt(texts, k, from + i - 1))]
    BY <1>2 DEF Block
  <2> HIDE DEF from, m
  <2>3. \A i \in 1..m : LineItem(from + i - 1, TextAt(texts, k, from + i - 1)) \in Item
    <3>1. \A l \in 1..Len(texts) : LineItem(l, TextAt(texts, k, l)) \in Item
      BY TextSteps, ItemFacts
    <3> QED  BY <2>1, <3>1
  <2> QED  BY <2>1, <2>2, <2>3
<1> QED  BY <1>1, <1>2

\* A later instruction replaces lines in a block and no more.
LEMMA BlockTurns ==
  ASSUME NEW texts \in Seq(Text), Accepted(Len(texts)), NEW k \in 1..Len(patch), NEW j \in 1..(k - 1),
         patch[j].op \in {"move", "append"}, NEW h, NEW block, Turns(h, texts, k, block)
  PROVE  Spread(h, Block(texts, k - 1, j)) = Block(texts, k, j)
<1> DEFINE from == patch[j].from
           m == patch[j].to - from + 1
           body == patch[j].body
           s == Block(texts, k - 1, j)
           r == Block(texts, k, j)
<1>1. Len(patch) \in Nat /\ k - 1 \in 0..Len(patch) /\ k \in 0..Len(patch) /\ j \in 1..Len(patch) /\ j # k
  BY InstructionFacts
<1>2. s \in Seq(Item) /\ r \in Seq(Item)
  BY <1>1, BlockTyped
<1>3. CASE patch[j].op = "append"
  <2>1. body \in Seq(Text) /\ Len(body) \in Nat
    BY <1>1, InstructionFacts
  <2>2. \A i \in 1..Len(body) : h[LineItem(0, body[i])] = <<LineItem(0, body[i])>>
    BY <2>1, ElementOfSeq DEF Turns
  <2>3. /\ s = [i \in 1..Len(body) |-> LineItem(0, body[i])]
        /\ r = [i \in 1..Len(body) |-> LineItem(0, body[i])]
    BY <1>3 DEF Block
  <2> HIDE DEF s, r, body
  <2>4. Len(s) = Len(body) /\ r = s /\ \A i \in 1..Len(body) : s[i] = LineItem(0, body[i])
    BY <2>1, <2>3
  <2>5. Singles(h, s, r)
    BY <2>2, <2>4 DEF Singles
  <2>6. Spread(h, s) = r
    BY <1>2, <2>5, SpreadSingles
  <2> QED  BY <2>6 DEF s, r
<1>4. CASE patch[j].op = "move"
  <2>1. m \in Nat /\ \A i \in 1..m : from + i - 1 \in 1..Len(texts) /\ from + i - 1 \in from..patch[j].to
    <3>1. from \in Nat /\ patch[j].to \in Nat /\ 1 <= from /\ from <= patch[j].to /\ patch[j].to <= Len(texts)
      BY <1>1, <1>4, InstructionFacts
    <3>2. Len(texts) \in Nat
      OBVIOUS
    <3> QED  BY <3>1, <3>2
  <2>2. \A l \in from..patch[j].to : Takes(j, l)
    BY <1>4 DEF Takes
  <2>3. \A l \in from..patch[j].to : ~Takes(k, l)
    BY <1>1, <2>2, OneTaker
  <2>4. /\ s = [i \in 1..m |-> LineItem(from + i - 1, TextAt(texts, k - 1, from + i - 1))]
        /\ r = [i \in 1..m |-> LineItem(from + i - 1, TextAt(texts, k, from + i - 1))]
    BY <1>4 DEF Block
  <2> HIDE DEF s, r, from, m
  <2>5. \A l \in 1..Len(texts) : ~Takes(k, l) =>
          h[LineItem(l, TextAt(texts, k - 1, l))] = <<LineItem(l, TextAt(texts, k, l))>>
    BY DEF Turns
  <2>6. \A i \in 1..m : h[LineItem(from + i - 1, TextAt(texts, k - 1, from + i - 1))]
                          = <<LineItem(from + i - 1, TextAt(texts, k, from + i - 1))>>
    BY <2>1, <2>3, <2>5
  <2>7. Len(s) = m /\ Len(r) = m
    BY <2>1, <2>4
  <2>8. \A i \in 1..m : h[s[i]] = <<r[i]>>
    BY <2>4, <2>6
  <2>9. Singles(h, s, r)
    BY <2>7, <2>8 DEF Singles
  <2>10. Spread(h, s) = r
    BY <1>2, <2>9, SpreadSingles
  <2> QED  BY <2>10 DEF s, r
<1> QED  BY <1>3, <1>4

\* What stands at a boundary, before its anchor.
PutBy(texts, k, j, b) == IF PutsAt(j, b, Len(texts)) THEN Block(texts, k, j) ELSE <<>>
PutList(texts, k, b) == [j \in 1..k |-> PutBy(texts, k, j, b)]
Put(texts, k, b) == FlattenSeq(PutList(texts, k, b))

\* So is what stands at a boundary.
LEMMA PutTyped ==
  ASSUME NEW texts \in Seq(Text), Accepted(Len(texts)), NEW k \in 0..Len(patch), NEW b
  PROVE  /\ \A j \in 1..k : PutBy(texts, k, j, b) \in Seq(Item)
         /\ Lists(PutList(texts, k, b), Item)
         /\ Put(texts, k, b) \in Seq(Item)
<1>1. Len(patch) \in Nat
  BY InstructionFacts
<1>2. ASSUME NEW j \in 1..k PROVE PutBy(texts, k, j, b) \in Seq(Item)
  <2>1. j \in 1..Len(patch)
    BY <1>1
  <2>2. Block(texts, k, j) \in Seq(Item)
    BY <2>1, BlockTyped
  <2> QED  BY <2>2 DEF PutBy
<1>3. PutList(texts, k, b) \in Seq(Seq(Item))
  <2>1. k \in Nat
    BY <1>1
  <2> QED  BY <1>2, <2>1 DEF PutList
<1>4. Lists(PutList(texts, k, b), Item)
  BY <1>3 DEF Lists
<1> QED  BY <1>2, <1>3, <1>4, FlattenTyped DEF Put

\* An instruction keeps what is put at a boundary and puts its own block after it.
LEMMA PutTurns ==
  ASSUME NEW texts \in Seq(Text), Accepted(Len(texts)), NEW k \in 1..Len(patch), NEW b \in 0..Len(texts),
         NEW h, NEW block \in Seq(Item), Turns(h, texts, k, block),
         PutsAt(k, b, Len(texts)) => block = Block(texts, k, k)
  PROVE  Both(Spread(h, Put(texts, k - 1, b)), h[Anchor(b)]) = Both(Put(texts, k, b), <<Anchor(b)>>)
<1> DEFINE c == PutList(texts, k, b)
           seqs == PutList(texts, k - 1, b)
           kept == [j \in 1..(k - 1) |-> c[j]]
           turned == [j \in DOMAIN seqs |-> Spread(h, seqs[j])]
           A == <<Anchor(b)>>
<1>1. /\ Len(patch) \in Nat /\ k - 1 \in 0..Len(patch) /\ k \in 0..Len(patch) /\ k \in Nat \ {0}
      /\ \A j \in 1..(k - 1) : j \in 1..k /\ j \in 1..Len(patch)
  BY InstructionFacts
<1>2. Maps(h, Item, Item)
  BY DEF Turns
<1>3. c \in [1..k -> Seq(Item)] /\ Put(texts, k, b) = FlattenSeq(c) /\ c[k] = PutBy(texts, k, k, b)
  <2>1. \A j \in 1..k : PutBy(texts, k, j, b) \in Seq(Item)
    BY <1>1, PutTyped
  <2> QED  BY <2>1, <1>1 DEF PutList, Put
<1>4. /\ Lists(seqs, Item) /\ Put(texts, k - 1, b) = FlattenSeq(seqs)
      /\ DOMAIN seqs = 1..(k - 1) /\ \A j \in 1..(k - 1) : seqs[j] = PutBy(texts, k - 1, j, b)
  <2>1. Lists(seqs, Item)
    BY <1>1, PutTyped
  <2> QED  BY <2>1 DEF Put, PutList
<1>5. \A j \in 1..(k - 1) : c[j] = PutBy(texts, k, j, b)
  BY <1>1 DEF PutList
<1> HIDE DEF c, seqs
<1>6. ASSUME NEW j \in 1..(k - 1) PROVE Spread(h, seqs[j]) = c[j]
  <2>1. CASE PutsAt(j, b, Len(texts))
    <3>1. patch[j].op \in {"move", "append"}
      BY <2>1 DEF PutsAt
    <3>2. Spread(h, Block(texts, k - 1, j)) = Block(texts, k, j)
      BY <3>1, BlockTurns
    <3> QED  BY <1>4, <1>5, <2>1, <3>2 DEF PutBy
  <2>2. CASE ~PutsAt(j, b, Len(texts))
    <3>1. seqs[j] = <<>> /\ c[j] = <<>>
      BY <1>4, <1>5, <2>2 DEF PutBy
    <3>2. Spread(h, <<>>) = <<>>
      BY <1>2, SpreadBoth
    <3> QED  BY <3>1, <3>2
  <2> QED  BY <2>1, <2>2
<1>7. turned = kept
  BY <1>4, <1>6
<1>8. Spread(h, Put(texts, k - 1, b)) = FlattenSeq(kept)
  <2> HIDE DEF kept, A
  <2>1. Spread(h, FlattenSeq(seqs)) = FlattenSeq(turned)
    <3>1. Lists(seqs, Item)
      BY <1>4
    <3> QED  BY <1>2, <3>1, SpreadFlatten
  <2> HIDE DEF turned
  <2> QED  BY <1>4, <1>7, <2>1
<1>9. Put(texts, k, b) = Both(FlattenSeq(kept), c[k])
  BY <1>1, <1>3, FlattenLast
<1> DEFINE P == FlattenSeq(kept)
<1>10. P \in Seq(Item)
  <2>1. kept \in Seq(Seq(Item))
    BY <1>1, <1>3
  <2> HIDE DEF kept
  <2> QED  BY <2>1, FlattenTyped
<1>11. h[Anchor(b)] = IF PutsAt(k, b, Len(texts)) THEN Both(block, A) ELSE A
  BY DEF Turns
<1>12. A \in Seq(Item)
  <2>1. Anchor(b) \in Item
    BY ItemFacts
  <2> QED  BY <2>1
<1> HIDE DEF P, A, kept, turned
<1>13. CASE PutsAt(k, b, Len(texts))
  <2>1. c[k] = block
    BY <1>3, <1>13 DEF PutBy
  <2>2. Both(P, Both(block, A)) = Both(Both(P, block), A)
    BY <1>10, <1>12, BothGroups
  <2> QED  BY <1>8, <1>9, <1>11, <1>13, <2>1, <2>2 DEF P, A
<1>14. CASE ~PutsAt(k, b, Len(texts))
  <2>1. c[k] = <<>>
    BY <1>3, <1>14 DEF PutBy
  <2>2. Both(P, <<>>) = P
    BY <1>10, BothGroups
  <2> QED  BY <1>8, <1>9, <1>11, <1>14, <2>1, <2>2 DEF P, A
<1> QED  BY <1>13, <1>14

\* What stands for a line in its place.
Stay(texts, k, l) == IF GoneAt(k, l) THEN <<>> ELSE <<LineItem(l, TextAt(texts, k, l))>>

\* An instruction keeps a line, replaces its text or takes it from its place.
LEMMA StayTurns ==
  ASSUME NEW texts \in Seq(Text), Accepted(Len(texts)), NEW k \in 1..Len(patch), NEW l \in 1..Len(texts),
         NEW h, NEW block, Turns(h, texts, k, block)
  PROVE  Spread(h, Stay(texts, k - 1, l)) = Stay(texts, k, l)
<1>1. GoneAt(k, l) <=> GoneAt(k - 1, l) \/ Takes(k, l)
  BY GoneSteps
<1>2. Maps(h, Item, Item)
  BY DEF Turns
<1>3. CASE GoneAt(k - 1, l)
  <2>1. Spread(h, <<>>) = <<>>
    BY <1>2, SpreadBoth
  <2> QED  BY <1>1, <1>3, <2>1 DEF Stay
<1>4. CASE ~GoneAt(k - 1, l)
  <2> DEFINE x == LineItem(l, TextAt(texts, k - 1, l))
  <2>1. x \in Item
    <3>1. k - 1 \in 0..Len(patch)
      BY InstructionFacts
    <3>2. TextAt(texts, k - 1, l) \in Text /\ l \in Nat
      BY <3>1, TextSteps
    <3> QED  BY <3>2, ItemFacts
  <2>2. h[x] = IF Takes(k, l) THEN <<>> ELSE <<LineItem(l, TextAt(texts, k, l))>>
    BY DEF Turns
  <2>3. Stay(texts, k - 1, l) = <<x>>
    BY <1>4 DEF Stay
  <2> HIDE DEF x
  <2>4. Spread(h, <<x>>) = h[x]
    BY <1>2, <2>1, SpreadBoth
  <2> QED  BY <1>1, <1>4, <2>2, <2>3, <2>4 DEF Stay
<1> QED  BY <1>3, <1>4

\* The document after k instructions: at each boundary what was put there and the
\* anchor, and before it the line.
RowAt(texts, k, l) == Both(Stay(texts, k, l), Both(Put(texts, k, l), <<Anchor(l)>>))
RowList(texts, k) == [l \in 1..Len(texts) |-> RowAt(texts, k, l)]
Opening(texts, k) == Both(Put(texts, k, 0), <<Anchor(0)>>)
DocAt(texts, k) == Both(Opening(texts, k), FlattenSeq(RowList(texts, k)))

\* The document is a sequence of items.
LEMMA DocTyped ==
  ASSUME NEW texts \in Seq(Text), Accepted(Len(texts)), NEW k \in 0..Len(patch)
  PROVE  /\ \A b \in 0..Len(texts) : <<Anchor(b)>> \in Seq(Item) /\ Put(texts, k, b) \in Seq(Item)
         /\ \A l \in 1..Len(texts) : Stay(texts, k, l) \in Seq(Item) /\ RowAt(texts, k, l) \in Seq(Item)
         /\ Opening(texts, k) \in Seq(Item)
         /\ Lists(RowList(texts, k), Item)
         /\ FlattenSeq(RowList(texts, k)) \in Seq(Item)
         /\ DocAt(texts, k) \in Seq(Item)
<1>0. Len(texts) \in Nat /\ \A b \in 0..Len(texts) : b \in Nat
  OBVIOUS
<1>1. \A b \in 0..Len(texts) : <<Anchor(b)>> \in Seq(Item) /\ Put(texts, k, b) \in Seq(Item)
  <2>1. \A b \in 0..Len(texts) : Anchor(b) \in Item
    BY <1>0, ItemFacts
  <2>2. \A b : Put(texts, k, b) \in Seq(Item)
    BY PutTyped
  <2> QED  BY <2>1, <2>2
<1>2. ASSUME NEW l \in 1..Len(texts) PROVE Stay(texts, k, l) \in Seq(Item)
  <2>1. LineItem(l, TextAt(texts, k, l)) \in Item
    BY TextSteps, ItemFacts
  <2> QED  BY <2>1 DEF Stay
<1>3. \A r, s \in Seq(Item) : Both(r, s) \in Seq(Item)
  BY BothGroups
<1>4. ASSUME NEW l \in 1..Len(texts) PROVE RowAt(texts, k, l) \in Seq(Item)
  <2>1. l \in 0..Len(texts)
    OBVIOUS
  <2> QED  BY <1>1, <1>2, <1>3, <2>1 DEF RowAt
<1>5. Opening(texts, k) \in Seq(Item)
  <2>1. 0 \in 0..Len(texts)
    BY <1>0
  <2> QED  BY <1>1, <1>3, <2>1 DEF Opening
<1>6. RowList(texts, k) \in Seq(Seq(Item))
  BY <1>0, <1>4 DEF RowList
<1>7. FlattenSeq(RowList(texts, k)) \in Seq(Item) /\ Lists(RowList(texts, k), Item)
  BY <1>6, FlattenTyped DEF Lists
<1>8. DocAt(texts, k) \in Seq(Item)
  BY <1>3, <1>5, <1>7 DEF DocAt
<1> QED  BY <1>1, <1>2, <1>4, <1>5, <1>7, <1>8

\* The block of instruction k.
Carries(texts, k, block) ==
  /\ block \in Seq(Item)
  /\ \A b \in 0..Len(texts) : PutsAt(k, b, Len(texts)) => block = Block(texts, k, k)

\* One instruction acts on the whole document.
LEMMA DocTurns ==
  ASSUME NEW texts \in Seq(Text), Accepted(Len(texts)), NEW k \in 1..Len(patch),
         NEW h, NEW block, Carries(texts, k, block), Turns(h, texts, k, block)
  PROVE  Spread(h, DocAt(texts, k - 1)) = DocAt(texts, k)
<1> DEFINE n == Len(texts)
           rows == RowList(texts, k - 1)
           turned == [l \in DOMAIN rows |-> Spread(h, rows[l])]
<1>1. n \in Nat /\ k - 1 \in 0..Len(patch) /\ 0 \in 0..n /\ \A l \in 1..n : l \in 0..n
  BY InstructionFacts
<1>2. /\ \A r, s \in Seq(Item) : Spread(h, Both(r, s)) = Both(Spread(h, r), Spread(h, s))
      /\ \A s \in Seq(Item) : Spread(h, s) \in Seq(Item)
      /\ \A x \in Item : Spread(h, <<x>>) = h[x]
  <2>1. Maps(h, Item, Item)
    BY DEF Turns
  <2> QED  BY <2>1, SpreadBoth
<1>3. \A b \in 0..n : <<Anchor(b)>> \in Seq(Item) /\ Put(texts, k - 1, b) \in Seq(Item) /\ Anchor(b) \in Item
  <2>1. \A b \in 0..n : b \in Nat
    BY <1>1
  <2> QED  BY <1>1, <2>1, DocTyped, ItemFacts
<1>4. ASSUME NEW b \in 0..n
      PROVE  Spread(h, Both(Put(texts, k - 1, b), <<Anchor(b)>>)) = Both(Put(texts, k, b), <<Anchor(b)>>)
  <2>1. Spread(h, Both(Put(texts, k - 1, b), <<Anchor(b)>>)) = Both(Spread(h, Put(texts, k - 1, b)), h[Anchor(b)])
    BY <1>2, <1>3
  <2>2. block \in Seq(Item) /\ (PutsAt(k, b, Len(texts)) => block = Block(texts, k, k))
    BY DEF Carries
  <2>3. Both(Spread(h, Put(texts, k - 1, b)), h[Anchor(b)]) = Both(Put(texts, k, b), <<Anchor(b)>>)
    BY <2>2, PutTurns
  <2> QED  BY <2>1, <2>3
<1>5. Spread(h, Opening(texts, k - 1)) = Opening(texts, k)
  BY <1>1, <1>4 DEF Opening
<1>6. ASSUME NEW l \in 1..n PROVE Spread(h, RowAt(texts, k - 1, l)) = RowAt(texts, k, l)
  <2> DEFINE end == Both(Put(texts, k - 1, l), <<Anchor(l)>>)
             stay == Stay(texts, k - 1, l)
  <2>1. end \in Seq(Item) /\ stay \in Seq(Item)
    BY <1>1, <1>3, BothGroups, DocTyped
  <2>2. Spread(h, stay) = Stay(texts, k, l)
    BY StayTurns
  <2>3. Spread(h, end) = Both(Put(texts, k, l), <<Anchor(l)>>)
    BY <1>1, <1>4
  <2>4. RowAt(texts, k - 1, l) = Both(stay, end)
    BY DEF RowAt
  <2> HIDE DEF stay, end
  <2> QED  BY <1>2, <2>1, <2>2, <2>3, <2>4 DEF RowAt
<1>7. DOMAIN rows = 1..n /\ \A l \in 1..n : rows[l] = RowAt(texts, k - 1, l)
  BY DEF RowList
<1>8. Lists(rows, Item) /\ FlattenSeq(rows) \in Seq(Item) /\ Opening(texts, k - 1) \in Seq(Item)
  BY <1>1, DocTyped
<1> HIDE DEF rows, n
<1>9. turned = RowList(texts, k)
  BY <1>6, <1>7 DEF RowList, n
<1>10. Spread(h, FlattenSeq(rows)) = FlattenSeq(turned)
  <2>1. Maps(h, Item, Item)
    BY DEF Turns
  <2> QED  BY <1>8, <2>1, SpreadFlatten
<1> HIDE DEF turned
<1>11. Spread(h, DocAt(texts, k - 1)) = Both(Spread(h, Opening(texts, k - 1)), Spread(h, FlattenSeq(rows)))
  BY <1>2, <1>8 DEF DocAt, rows
<1> QED  BY <1>5, <1>9, <1>10, <1>11 DEF DocAt

\* Two elements.
LEMMA PairIsBoth == \A x, y : Both(<<x>>, <<y>>) = <<x, y>>
<1> SUFFICES ASSUME NEW x, NEW y PROVE Both(<<x>>, <<y>>) = <<x, y>>
  OBVIOUS
<1> DEFINE S == {x, y}
           r == <<x>> \o <<y>>
           t == <<x, y>>
           a == <<x>>
           b == <<y>>
<1>1. a \in Seq(S) /\ Len(a) = 1 /\ a[1] = x /\ b \in Seq(S) /\ Len(b) = 1 /\ b[1] = y
  OBVIOUS
<1>2. t \in Seq(S) /\ Len(t) = 2 /\ t[1] = x /\ t[2] = y
  OBVIOUS
<1>3. r = a \o b
  OBVIOUS
<1> HIDE DEF a, b, r, t, S
<1>4. r \in Seq(S) /\ Len(r) = 2 /\ r[1] = x /\ r[2] = y
  BY <1>1, <1>3, ConcatProperties
<1>5. \A i \in 1..2 : i = 1 \/ i = 2
  OBVIOUS
<1>6. r = t
  BY <1>2, <1>4, <1>5, SeqEqual
<1> QED  BY <1>6 DEF Both, r, t

\* Before the first instruction.
LEMMA DocStarts ==
  ASSUME NEW texts \in Seq(Text), Accepted(Len(texts))
  PROVE  DocAt(texts, 0) = Document(texts)
<1> DEFINE n == Len(texts)
<1>0. n \in Nat /\ DOMAIN texts = 1..n /\ 0 \in 0..Len(patch)
  BY InstructionFacts
<1>1. \A b : Put(texts, 0, b) = <<>>
  <2> SUFFICES ASSUME NEW b PROVE Put(texts, 0, b) = <<>>
    OBVIOUS
  <2>1. PutList(texts, 0, b) = [i \in 1..0 |-> <<>>]
    BY DEF PutList
  <2> QED  BY <2>1, FlattenNothing DEF Put
<1>2. \A b \in 0..n : <<Anchor(b)>> \in Seq(Item)
  BY <1>0, DocTyped
<1>3. \A r \in Seq(Item) : Both(<<>>, r) = r
  BY BothGroups
<1>4. \A b \in 0..n : Both(Put(texts, 0, b), <<Anchor(b)>>) = <<Anchor(b)>>
  <2> SUFFICES ASSUME NEW b \in 0..n PROVE Both(Put(texts, 0, b), <<Anchor(b)>>) = <<Anchor(b)>>
    OBVIOUS
  <2> DEFINE a == <<Anchor(b)>>
             p == Put(texts, 0, b)
  <2>1. a \in Seq(Item)
    BY <1>2
  <2>2. p = <<>>
    BY <1>1
  <2> HIDE DEF a, p
  <2>3. Both(p, a) = a
    BY <1>3, <2>1, <2>2
  <2> QED  BY <2>3 DEF a, p
<1>41. Opening(texts, 0) = <<Anchor(0)>>
  BY <1>0, <1>4 DEF Opening
<1>5. ASSUME NEW l \in 1..n
      PROVE  RowAt(texts, 0, l) = <<[line |-> l, text |-> texts[l]], Anchor(l)>>
  <2>1. Stay(texts, 0, l) = <<LineItem(l, texts[l])>>
    BY GoneSteps, TextSteps DEF Stay
  <2>2. Both(Put(texts, 0, l), <<Anchor(l)>>) = <<Anchor(l)>>
    BY <1>0, <1>4
  <2>3. \A x, y : Both(<<x>>, <<y>>) = <<x, y>>
    BY PairIsBoth
  <2> QED  BY <2>1, <2>2, <2>3 DEF RowAt, LineItem
<1>6. RowList(texts, 0) = [i \in DOMAIN texts |-> <<[line |-> i, text |-> texts[i]], Anchor(i)>>]
  BY <1>0, <1>5 DEF RowList
<1> QED  BY <1>41, <1>6 DEF DocAt, Document, Both

\* Instruction k finds no line it names among those put at a boundary before.
LEMMA PickNoBlock ==
  ASSUME NEW texts \in Seq(Text), Accepted(Len(texts)), NEW k \in 1..Len(patch), patch[k].op = "move",
         NEW j \in 1..(k - 1), patch[j].op \in {"move", "append"}
  PROVE  Spread(Pick(patch[k]), Block(texts, k - 1, j)) = <<>>
<1> DEFINE h == Pick(patch[k])
           s == Block(texts, k - 1, j)
           from == patch[j].from
           m == patch[j].to - from + 1
           body == patch[j].body
<1>1. Len(patch) \in Nat /\ k - 1 \in 0..Len(patch) /\ j \in 1..Len(patch) /\ j # k
  BY InstructionFacts
<1>2. s \in Seq(Item)
  BY <1>1, BlockTyped
<1>3. \A x \in Item : h[x] = IF Names(patch[k], x) THEN <<x>> ELSE <<>>
  BY DEF Pick
<1>4. \A l : Takes(k, l) <=> l \in patch[k].from..patch[k].to
  BY DEF Takes
<1>5. patch[k].from \in Nat /\ patch[k].to \in Nat /\ 1 <= patch[k].from
  BY InstructionFacts
<1>6. \A l \in Nat, t \in Text : ~(l \in patch[k].from..patch[k].to) => h[LineItem(l, t)] = <<>>
  <2> SUFFICES ASSUME NEW l \in Nat, NEW t \in Text, ~(l \in patch[k].from..patch[k].to)
               PROVE  h[LineItem(l, t)] = <<>>
    OBVIOUS
  <2>1. LineItem(l, t) \in Item /\ LineItem(l, t).line = l
    BY ItemFacts
  <2>2. ~Names(patch[k], LineItem(l, t))
    BY <2>1 DEF Names
  <2> HIDE DEF h
  <2> QED  BY <1>3, <2>1, <2>2
<1> HIDE DEF h
<1>7. CASE patch[j].op = "append"
  <2>1. body \in Seq(Text) /\ Len(body) \in Nat
    BY <1>1, InstructionFacts
  <2>2. \A i \in 1..Len(body) : h[LineItem(0, body[i])] = <<>>
    <3>1. ~(0 \in patch[k].from..patch[k].to)
      BY <1>5
    <3>2. \A i \in 1..Len(body) : body[i] \in Text
      BY <2>1, ElementOfSeq
    <3> HIDE DEF body
    <3> QED  BY <1>6, <3>1, <3>2
  <2>3. s = [i \in 1..Len(body) |-> LineItem(0, body[i])]
    BY <1>7 DEF Block
  <2> HIDE DEF s, body
  <2>4. Len(s) = Len(body) /\ \A i \in 1..Len(body) : s[i] = LineItem(0, body[i])
    BY <2>1, <2>3
  <2>5. Away(h, s)
    BY <2>2, <2>4 DEF Away
  <2>6. Spread(h, s) = <<>>
    BY <1>2, <2>5, SpreadAway
  <2> QED  BY <2>6 DEF s, h
<1>8. CASE patch[j].op = "move"
  <2>1. m \in Nat /\ \A i \in 1..m : from + i - 1 \in 1..Len(texts) /\ from + i - 1 \in from..patch[j].to
    <3>1. from \in Nat /\ patch[j].to \in Nat /\ 1 <= from /\ from <= patch[j].to /\ patch[j].to <= Len(texts)
      BY <1>1, <1>8, InstructionFacts
    <3>2. Len(texts) \in Nat
      OBVIOUS
    <3> QED  BY <3>1, <3>2
  <2>2. \A l \in from..patch[j].to : Takes(j, l)
    BY <1>8 DEF Takes
  <2>3. \A l \in from..patch[j].to : ~(l \in patch[k].from..patch[k].to)
    BY <1>1, <1>4, <2>2, OneTaker
  <2>4. s = [i \in 1..m |-> LineItem(from + i - 1, TextAt(texts, k - 1, from + i - 1))]
    BY <1>8 DEF Block
  <2>5. \A l \in 1..Len(texts) : TextAt(texts, k - 1, l) \in Text /\ l \in Nat
    BY <1>1, TextSteps
  <2> HIDE DEF s, from, m
  <2>6. \A i \in 1..m : h[LineItem(from + i - 1, TextAt(texts, k - 1, from + i - 1))] = <<>>
    BY <1>6, <2>1, <2>3, <2>5
  <2>7. Len(s) = m
    BY <2>1, <2>4
  <2>8. Away(h, s)
    BY <2>4, <2>6, <2>7 DEF Away
  <2>9. Spread(h, s) = <<>>
    BY <1>2, <2>8, SpreadAway
  <2> QED  BY <2>9 DEF s, h
<1> QED  BY <1>7, <1>8

\* Nor among all that was put at a boundary.
LEMMA PickNoPut ==
  ASSUME NEW texts \in Seq(Text), Accepted(Len(texts)), NEW k \in 1..Len(patch), patch[k].op = "move", NEW b,
         Maps(Pick(patch[k]), Item, Item)
  PROVE  Spread(Pick(patch[k]), Put(texts, k - 1, b)) = <<>>
<1> DEFINE h == Pick(patch[k])
           seqs == PutList(texts, k - 1, b)
           turned == [j \in DOMAIN seqs |-> Spread(h, seqs[j])]
<1>1. k - 1 \in 0..Len(patch) /\ k - 1 \in Nat
  BY InstructionFacts
<1>2. /\ Lists(seqs, Item) /\ Put(texts, k - 1, b) = FlattenSeq(seqs)
      /\ DOMAIN seqs = 1..(k - 1) /\ \A j \in 1..(k - 1) : seqs[j] = PutBy(texts, k - 1, j, b)
  <2>1. Lists(seqs, Item)
    BY <1>1, PutTyped
  <2> QED  BY <2>1 DEF Put, PutList
<1>3. Spread(h, <<>>) = <<>>
  BY SpreadBoth
<1> HIDE DEF seqs
<1>4. ASSUME NEW j \in 1..(k - 1) PROVE Spread(h, seqs[j]) = <<>>
  <2>1. CASE PutsAt(j, b, Len(texts))
    <3>1. patch[j].op \in {"move", "append"}
      BY <2>1 DEF PutsAt
    <3>2. Spread(h, Block(texts, k - 1, j)) = <<>>
      BY <3>1, PickNoBlock
    <3> HIDE DEF h
    <3> QED  BY <1>2, <2>1, <3>2 DEF PutBy
  <2>2. CASE ~PutsAt(j, b, Len(texts))
    <3>1. seqs[j] = <<>>
      BY <1>2, <2>2 DEF PutBy
    <3> HIDE DEF h
    <3> QED  BY <1>3, <3>1
  <2> QED  BY <2>1, <2>2
<1>5. turned = [i \in 1..(k - 1) |-> <<>>]
  BY <1>2, <1>4
<1>6. Spread(h, FlattenSeq(seqs)) = FlattenSeq(turned)
  BY <1>2, SpreadFlatten
<1> HIDE DEF turned, h
<1>7. FlattenSeq(turned) = <<>>
  BY <1>1, <1>5, FlattenNothing
<1> QED  BY <1>2, <1>6, <1>7 DEF h

\* It finds the line it names in its place.
LEMMA PickRow ==
  ASSUME NEW texts \in Seq(Text), Accepted(Len(texts)), NEW k \in 1..Len(patch), patch[k].op = "move",
         NEW l \in 1..Len(texts), Maps(Pick(patch[k]), Item, Item)
  PROVE  Spread(Pick(patch[k]), RowAt(texts, k - 1, l))
           = IF patch[k].from <= l /\ l <= patch[k].to THEN <<LineItem(l, TextAt(texts, k, l))>> ELSE <<>>
<1> DEFINE h == Pick(patch[k])
           stay == Stay(texts, k - 1, l)
           put == Put(texts, k - 1, l)
           a == <<Anchor(l)>>
           x == LineItem(l, TextAt(texts, k - 1, l))
<1>1. k - 1 \in 0..Len(patch) /\ l \in 0..Len(texts) /\ l \in Nat
  BY InstructionFacts
<1>2. stay \in Seq(Item) /\ put \in Seq(Item) /\ a \in Seq(Item)
  BY <1>1, DocTyped
<1>3. /\ \A r, s \in Seq(Item) : Spread(h, Both(r, s)) = Both(Spread(h, r), Spread(h, s))
      /\ \A s \in Seq(Item) : Spread(h, s) \in Seq(Item)
      /\ Spread(h, <<>>) = <<>>
      /\ \A y \in Item : Spread(h, <<y>>) = h[y]
  BY SpreadBoth
<1>4. \A y \in Item : h[y] = IF Names(patch[k], y) THEN <<y>> ELSE <<>>
  BY DEF Pick
<1>5. Spread(h, put) = <<>>
  BY PickNoPut
<1>6. Spread(h, a) = <<>>
  <2>1. Anchor(l) \in Item /\ ~Names(patch[k], Anchor(l))
    BY <1>1, ItemFacts DEF Names
  <2> HIDE DEF h
  <2> QED  BY <1>3, <1>4, <2>1
<1>7. x \in Item /\ (Names(patch[k], x) <=> l \in patch[k].from..patch[k].to)
  <2>1. TextAt(texts, k - 1, l) \in Text
    BY <1>1, TextSteps
  <2> QED  BY <1>1, <2>1, ItemFacts DEF Names
<1>8. TextAt(texts, k, l) = TextAt(texts, k - 1, l)
  BY TextSteps DEF Replaces
<1>9. patch[k].from \in Nat /\ patch[k].to \in Nat
  BY InstructionFacts
<1>10. l \in patch[k].from..patch[k].to => ~GoneAt(k - 1, l)
  BY GoneSteps DEF Takes
<1>11. stay = IF GoneAt(k - 1, l) THEN <<>> ELSE <<x>>
  BY DEF Stay
<1>12. RowAt(texts, k - 1, l) = Both(stay, Both(put, a))
  BY DEF RowAt
<1>13. x = LineItem(l, TextAt(texts, k, l))
  BY <1>8
<1> HIDE DEF h, stay, put, a, x
<1>14. Spread(h, stay) = IF l \in patch[k].from..patch[k].to THEN <<x>> ELSE <<>>
  BY <1>3, <1>4, <1>7, <1>10, <1>11
<1>15. l \in patch[k].from..patch[k].to <=> patch[k].from <= l /\ l <= patch[k].to
  BY <1>1, <1>9
<1>16. Spread(h, Both(put, a)) = <<>>
  <2>1. Both(<<>>, <<>>) = <<>>
    BY DEF Both
  <2> QED  BY <1>2, <1>3, <1>5, <1>6, <2>1
<1>17. Both(put, a) \in Seq(Item)
  BY <1>2, BothGroups
<1>18. Spread(h, Both(stay, Both(put, a))) = Both(Spread(h, stay), <<>>)
  BY <1>2, <1>3, <1>16, <1>17
<1>19. Both(Spread(h, stay), <<>>) = Spread(h, stay)
  BY <1>2, <1>3, BothGroups
<1> QED  BY <1>12, <1>13, <1>14, <1>15, <1>18, <1>19 DEF h

\* What instruction k carries is its block.
LEMMA CarriedIs ==
  ASSUME NEW texts \in Seq(Text), Accepted(Len(texts)), NEW k \in 1..Len(patch)
  PROVE  Carries(texts, k, Carried(patch[k], DocAt(texts, k - 1)))
<1> DEFINE h == Pick(patch[k])
           doc == DocAt(texts, k - 1)
           n == Len(texts)
           from == patch[k].from
           to == patch[k].to
           c == [l \in 1..n |-> LineItem(l, TextAt(texts, k, l))]
           rows == RowList(texts, k - 1)
           turned == [l \in DOMAIN rows |-> Spread(h, rows[l])]
<1>1. k - 1 \in 0..Len(patch) /\ k \in 0..Len(patch) /\ n \in Nat /\ 0 \in 0..n
  BY InstructionFacts
<1>2. doc \in Seq(Item)
  BY <1>1, DocTyped
<1>3. Maps(h, Item, Item)
  <2>1. \A x \in Item : (IF Names(patch[k], x) THEN <<x>> ELSE <<>>) \in Seq(Item)
    OBVIOUS
  <2> QED  BY <2>1 DEF Pick, Maps
<1>4. CASE patch[k].op = "append"
  <2>1. patch[k].body \in Seq(Text)
    BY InstructionFacts
  <2>2. DOMAIN patch[k].body = 1..Len(patch[k].body)
    BY <2>1
  <2>3. Carried(patch[k], doc) = Block(texts, k, k)
    BY <1>4, <2>2 DEF Carried, Block
  <2>4. Block(texts, k, k) \in Seq(Item)
    BY <1>1, BlockTyped
  <2> QED  BY <2>3, <2>4 DEF Carries
<1>5. CASE patch[k].op \in {"delete", "replace"}
  <2>1. Carried(patch[k], doc) = Spread(h, doc)
    BY <1>5 DEF Carried
  <2>2. Spread(h, doc) \in Seq(Item)
    <3> HIDE DEF h, doc
    <3> QED  BY <1>2, <1>3, SpreadBoth
  <2>3. \A b : ~PutsAt(k, b, n)
    BY <1>5 DEF PutsAt
  <2> QED  BY <2>1, <2>2, <2>3 DEF Carries
<1>6. CASE patch[k].op = "move"
  <2>1. /\ \A r, s \in Seq(Item) : Spread(h, Both(r, s)) = Both(Spread(h, r), Spread(h, s))
        /\ \A s \in Seq(Item) : Spread(h, s) \in Seq(Item)
        /\ \A x \in Item : Spread(h, <<x>>) = h[x]
    BY <1>3, SpreadBoth
  <2>2. Spread(h, Opening(texts, k - 1)) = <<>>
    <3> DEFINE put == Put(texts, k - 1, 0)
               a == <<Anchor(0)>>
    <3>1. Spread(h, put) = <<>>
      BY <1>3, <1>6, PickNoPut
    <3>2. Spread(h, a) = <<>>
      <4>1. Anchor(0) \in Item /\ ~Names(patch[k], Anchor(0))
        BY ItemFacts DEF Names
      <4>2. h[Anchor(0)] = <<>>
        BY <4>1 DEF Pick
      <4> HIDE DEF h
      <4> QED  BY <2>1, <4>1, <4>2
    <3>3. put \in Seq(Item) /\ a \in Seq(Item)
      BY <1>1, DocTyped
    <3>4. Both(<<>>, <<>>) = <<>>
      BY DEF Both
    <3>5. Opening(texts, k - 1) = Both(put, a)
      BY DEF Opening
    <3> HIDE DEF put, a, h
    <3> QED  BY <2>1, <3>1, <3>2, <3>3, <3>4, <3>5
  <2>3. \A l \in 1..n : Spread(h, RowAt(texts, k - 1, l)) = IF from <= l /\ l <= to THEN <<c[l]>> ELSE <<>>
    BY <1>3, <1>6, PickRow
  <2>4. DOMAIN rows = 1..n /\ \A l \in 1..n : rows[l] = RowAt(texts, k - 1, l)
    BY DEF RowList
  <2>5. Lists(rows, Item) /\ FlattenSeq(rows) \in Seq(Item) /\ Opening(texts, k - 1) \in Seq(Item)
    BY <1>1, DocTyped
  <2>6. \A l \in 1..n : TextAt(texts, k, l) \in Text /\ l \in Nat
    BY <1>1, TextSteps
  <2>7. c \in [1..n -> Item]
    BY <2>6, ItemFacts
  <2>8. from \in 1..(n + 1) /\ to \in 0..n /\ from <= to + 1 /\ from \in Nat /\ to \in Nat /\ to <= n /\ 1 <= from /\ from <= to
    <3>1. from \in Nat /\ to \in Nat /\ 1 <= from /\ from <= to /\ to <= n
      BY <1>6, InstructionFacts
    <3> HIDE DEF from, to, n
    <3> QED  BY <1>1, <3>1
  <2>9. Block(texts, k, k) = Cut(c, from, to)
    <3>1. \A i \in 1..(to - from + 1) : from + i - 1 \in 1..n
      <4> HIDE DEF from, to, n
      <4> QED  BY <1>1, <2>8
    <3>2. \A i \in 1..(to - from + 1) : c[from + i - 1] = LineItem(from + i - 1, TextAt(texts, k, from + i - 1))
      <4> HIDE DEF from, to, n
      <4> QED  BY <3>1
    <3>3. Block(texts, k, k) = [i \in 1..(to - from + 1) |-> LineItem(from + i - 1, TextAt(texts, k, from + i - 1))]
      BY <1>6 DEF Block
    <3> HIDE DEF c, from, to
    <3> QED  BY <3>2, <3>3 DEF Cut
  <2>10. Carried(patch[k], doc) = Spread(h, doc)
    BY <1>6 DEF Carried
  <2>11. doc = Both(Opening(texts, k - 1), FlattenSeq(rows))
    BY DEF DocAt
  <2> HIDE DEF n, from, to, c, rows, h, doc
  <2>12. turned = Piece(c, n, from, to)
    BY <2>3, <2>4 DEF Piece
  <2>13. Spread(h, FlattenSeq(rows)) = FlattenSeq(turned)
    BY <1>3, <2>5, SpreadFlatten
  <2> HIDE DEF turned
  <2>14. FlattenSeq(Piece(c, n, from, to)) = Cut(c, from, to)
    BY <1>1, <2>7, <2>8, FlattenRange
  <2>15. Spread(h, doc) = Both(<<>>, Spread(h, FlattenSeq(rows)))
    BY <2>1, <2>2, <2>5, <2>11
  <2>16. Spread(h, doc) = Spread(h, FlattenSeq(rows))
    BY <2>1, <2>5, <2>15, BothGroups
  <2>17. Block(texts, k, k) \in Seq(Item)
    BY <1>1, BlockTyped
  <2>18. Carried(patch[k], doc) = Block(texts, k, k)
    BY <2>9, <2>10, <2>12, <2>13, <2>14, <2>16
  <2> QED  BY <2>17, <2>18 DEF Carries, doc
<1>7. patch[k].op \in {"delete", "move", "append", "replace"}
  BY InstructionFacts
<1> QED  BY <1>4, <1>5, <1>6, <1>7

\* One instruction of the reference.
LEMMA FollowStep ==
  ASSUME NEW texts \in Seq(Text), Accepted(Len(texts)), NEW k \in 1..Len(patch)
  PROVE  Follow(DocAt(texts, k - 1), patch[k], Len(texts)) = DocAt(texts, k)
<1> DEFINE doc == DocAt(texts, k - 1)
           block == Carried(patch[k], doc)
           h == Turn(patch[k], Len(texts), block)
<1>1. doc \in Seq(Item)
  <2>1. k - 1 \in 0..Len(patch)
    BY InstructionFacts
  <2> QED  BY <2>1, DocTyped
<1>2. Follow(doc, patch[k], Len(texts)) = Spread(h, doc)
  BY <1>1, FollowIs
<1>3. Carries(texts, k, block)
  BY CarriedIs
<1> HIDE DEF block
<1>4. Turns(h, texts, k, block)
  <2>1. block \in Seq(Item)
    BY <1>3 DEF Carries
  <2> QED  BY <2>1, TurnFacts
<1> HIDE DEF h
<1>5. Spread(h, DocAt(texts, k - 1)) = DocAt(texts, k)
  BY <1>3, <1>4, DocTurns
<1> QED  BY <1>2, <1>5

\* The text of a document: its lines, without the anchors.
Lines == [x \in Item |-> IF IsLine(x) THEN <<x.text>> ELSE <<>>]

\* A line leaves its text, an anchor nothing.
LEMMA LinesFacts ==
  /\ Maps(Lines, Item, Text)
  /\ \A b \in Nat : Lines[Anchor(b)] = <<>>
  /\ \A l \in Nat, t \in Text : Lines[LineItem(l, t)] = <<t>>
<1>1. \A x \in Item : (IF IsLine(x) THEN <<x.text>> ELSE <<>>) \in Seq(Text)
  <2>1. \A x \in Item : IsLine(x) => x.text \in Text
    BY DEF Item, IsLine
  <2> QED  BY <2>1
<1>2. Maps(Lines, Item, Text)
  BY <1>1 DEF Lines, Maps
<1>3. \A x \in Item : Lines[x] = IF IsLine(x) THEN <<x.text>> ELSE <<>>
  BY DEF Lines
<1>4. \A b \in Nat : Lines[Anchor(b)] = <<>>
  BY <1>3, ItemFacts
<1>5. ASSUME NEW l \in Nat, NEW t \in Text PROVE Lines[LineItem(l, t)] = <<t>>
  <2> DEFINE x == LineItem(l, t)
  <2>1. x \in Item /\ IsLine(x) /\ x.text = t
    BY ItemFacts
  <2> HIDE DEF x
  <2>2. Lines[x] = <<t>>
    BY <1>3, <2>1
  <2> QED  BY <2>2 DEF x
<1> QED  BY <1>2, <1>4, <1>5

\* In the end the block of an instruction is what the code inserts for it.
LEMMA BlockEnds ==
  ASSUME NEW texts \in Seq(Text), Accepted(Len(texts)), NEW j \in 1..Len(patch), patch[j].op \in {"move", "append"}
  PROVE  Spread(Lines, Block(texts, Len(patch), j)) = Inserted(texts, j) /\ Inserted(texts, j) \in Seq(Text)
<1> DEFINE N == Len(patch)
           from == patch[j].from
           m == patch[j].to - from + 1
           body == patch[j].body
           s == Block(texts, N, j)
           r == Inserted(texts, j)
<1>1. N \in 0..N
  BY InstructionFacts
<1>2. s \in Seq(Item)
  BY <1>1, BlockTyped
<1>3. CASE patch[j].op = "append"
  <2>1. body \in Seq(Text) /\ Len(body) \in Nat
    BY InstructionFacts
  <2>2. \A i \in 1..Len(body) : Lines[LineItem(0, body[i])] = <<body[i]>>
    <3>1. \A i \in 1..Len(body) : body[i] \in Text
      BY <2>1, ElementOfSeq
    <3> HIDE DEF body
    <3> QED  BY <3>1, LinesFacts
  <2>3. s = [i \in 1..Len(body) |-> LineItem(0, body[i])] /\ r = body
    BY <1>3 DEF Block, Inserted
  <2> HIDE DEF s, r, body
  <2>4. Len(s) = Len(body) /\ \A i \in 1..Len(body) : s[i] = LineItem(0, body[i])
    BY <2>1, <2>3
  <2>5. Singles(Lines, s, r)
    BY <2>2, <2>3, <2>4 DEF Singles
  <2>6. r \in Seq(Text)
    BY <2>1, <2>3
  <2>7. Spread(Lines, s) = r
    BY <1>2, <2>5, <2>6, SpreadSingles
  <2> QED  BY <2>6, <2>7 DEF s, r, N
<1>4. CASE patch[j].op = "move"
  <2>1. m \in Nat /\ \A i \in 1..m : from + i - 1 \in 1..Len(texts)
    <3>1. from \in Nat /\ patch[j].to \in Nat /\ 1 <= from /\ from <= patch[j].to /\ patch[j].to <= Len(texts)
      BY <1>4, InstructionFacts
    <3>2. Len(texts) \in Nat
      OBVIOUS
    <3> QED  BY <3>1, <3>2
  <2>2. \A l \in 1..Len(texts) : TextAt(texts, N, l) \in Text /\ l \in Nat /\ TextAt(texts, N, l) = LineText(texts, l)
    BY <1>1, TextSteps
  <2>3. /\ s = [i \in 1..m |-> LineItem(from + i - 1, TextAt(texts, N, from + i - 1))]
        /\ r = [i \in 1..m |-> LineText(texts, from + i - 1)]
    BY <1>4 DEF Block, Inserted
  <2> HIDE DEF s, r, from, m, N
  <2>4. \A l \in 1..Len(texts) : Lines[LineItem(l, TextAt(texts, N, l))] = <<LineText(texts, l)>>
    BY <2>2, LinesFacts
  <2>5. r \in Seq(Text) /\ Len(r) = m /\ Len(s) = m
    BY <2>1, <2>2, <2>3
  <2>6. \A i \in 1..m : Lines[s[i]] = <<r[i]>>
    BY <2>1, <2>3, <2>4
  <2>7. Singles(Lines, s, r)
    BY <2>5, <2>6 DEF Singles
  <2>8. Spread(Lines, s) = r
    BY <1>2, <2>5, <2>7, SpreadSingles
  <2> QED  BY <2>5, <2>8 DEF s, r, N
<1> QED  BY <1>3, <1>4

\* What stands at a boundary is what the code inserts there.
LEMMA PutEnds ==
  ASSUME NEW texts \in Seq(Text), Accepted(Len(texts)), NEW b
  PROVE  /\ Spread(Lines, Put(texts, Len(patch), b)) = Insertions(texts, b)
         /\ Insertions(texts, b) \in Seq(Text)
<1> DEFINE N == Len(patch)
           seqs == PutList(texts, N, b)
           turned == [j \in DOMAIN seqs |-> Spread(Lines, seqs[j])]
           puts == [k \in DOMAIN patch |->
                     IF k \in Places({"move", "append"}) /\ Boundary(patch[k], Len(texts)) = b
                     THEN Inserted(texts, k) ELSE <<>>]
<1>1. N \in 0..N /\ DOMAIN patch = 1..N
  BY InstructionFacts
<1>2. /\ Lists(seqs, Item) /\ Put(texts, N, b) = FlattenSeq(seqs)
      /\ DOMAIN seqs = 1..N /\ \A j \in 1..N : seqs[j] = PutBy(texts, N, j, b)
  <2>1. Lists(seqs, Item)
    BY <1>1, PutTyped
  <2> QED  BY <2>1 DEF Put, PutList
<1>3. Maps(Lines, Item, Text) /\ Spread(Lines, <<>>) = <<>>
  BY LinesFacts, SpreadBoth
<1>4. Insertions(texts, b) = FlattenSeq(puts)
  BY DEF Insertions
<1>5. \A j \in 1..N : PutsAt(j, b, Len(texts)) <=>
        j \in Places({"move", "append"}) /\ Boundary(patch[j], Len(texts)) = b
  BY <1>1 DEF PutsAt, Places
<1>6. DOMAIN puts = 1..N /\ \A j \in 1..N : puts[j] = IF PutsAt(j, b, Len(texts)) THEN Inserted(texts, j) ELSE <<>>
  BY <1>1, <1>5
<1> HIDE DEF seqs
<1>7. ASSUME NEW j \in 1..N PROVE Spread(Lines, seqs[j]) = puts[j] /\ puts[j] \in Seq(Text)
  <2> HIDE DEF puts
  <2>1. CASE PutsAt(j, b, Len(texts))
    <3>1. patch[j].op \in {"move", "append"}
      BY <2>1 DEF PutsAt
    <3>2. Spread(Lines, Block(texts, N, j)) = Inserted(texts, j) /\ Inserted(texts, j) \in Seq(Text)
      BY <3>1, BlockEnds
    <3> QED  BY <1>2, <1>6, <2>1, <3>2 DEF PutBy
  <2>2. CASE ~PutsAt(j, b, Len(texts))
    <3>1. seqs[j] = <<>> /\ puts[j] = <<>>
      BY <1>2, <1>6, <2>2 DEF PutBy
    <3>2. <<>> \in Seq(Text)
      OBVIOUS
    <3> QED  BY <1>3, <3>1, <3>2
  <2> QED  BY <2>1, <2>2
<1>8. puts = [j \in 1..N |-> puts[j]]
  BY <1>6
<1> HIDE DEF puts
<1>9. turned = puts
  BY <1>2, <1>7, <1>8
<1>10. puts \in Seq(Seq(Text))
  BY <1>1, <1>7, <1>8
<1>11. Spread(Lines, FlattenSeq(seqs)) = FlattenSeq(turned)
  BY <1>2, <1>3, SpreadFlatten
<1> HIDE DEF turned
<1>12. FlattenSeq(puts) \in Seq(Text)
  BY <1>10, FlattenTyped
<1> QED  BY <1>2, <1>4, <1>9, <1>11, <1>12 DEF N

\* The text of the last document is what the code writes.
LEMMA DocEnds ==
  ASSUME NEW texts \in Seq(Text), Accepted(Len(texts))
  PROVE  /\ Spread(Lines, DocAt(texts, Len(patch))) = ApplyLinePatch(texts)
         /\ ApplyLinePatch(texts) \in Seq(Text)
<1> DEFINE n == Len(texts)
           N == Len(patch)
           rows == RowList(texts, N)
           turned == [l \in DOMAIN rows |-> Spread(Lines, rows[l])]
           piece(l) == (IF Removed(l) THEN <<>> ELSE <<LineText(texts, l)>>) \o Insertions(texts, l)
           pieces == [l \in DOMAIN texts |-> piece(l)]
<1>1. n \in Nat /\ N \in 0..N /\ DOMAIN texts = 1..n /\ \A b \in 0..n : b \in Nat
  BY InstructionFacts
<1>2. /\ \A r, s \in Seq(Item) : Spread(Lines, Both(r, s)) = Both(Spread(Lines, r), Spread(Lines, s))
      /\ Spread(Lines, <<>>) = <<>>
      /\ \A x \in Item : Spread(Lines, <<x>>) = Lines[x]
      /\ \A s \in Seq(Item) : Spread(Lines, s) \in Seq(Text)
  BY LinesFacts, SpreadBoth
<1>3. ASSUME NEW b \in 0..n
      PROVE  /\ Spread(Lines, Both(Put(texts, N, b), <<Anchor(b)>>)) = Insertions(texts, b)
             /\ Both(Put(texts, N, b), <<Anchor(b)>>) \in Seq(Item)
             /\ Insertions(texts, b) \in Seq(Text)
  <2> DEFINE put == Put(texts, N, b)
             a == <<Anchor(b)>>
             ins == Insertions(texts, b)
  <2>1. put \in Seq(Item) /\ a \in Seq(Item)
    BY <1>1, DocTyped
  <2>2. Spread(Lines, put) = ins /\ ins \in Seq(Text)
    BY PutEnds
  <2>3. Spread(Lines, a) = <<>>
    BY <1>1, <1>2, LinesFacts, ItemFacts
  <2> HIDE DEF put, a, ins
  <2>4. Both(ins, <<>>) = ins
    BY <2>2, BothGroups
  <2>5. Both(put, a) \in Seq(Item)
    BY <2>1, BothGroups
  <2> QED  BY <1>2, <2>1, <2>2, <2>3, <2>4, <2>5 DEF put, a, ins
<1>4. ASSUME NEW l \in 1..n PROVE Spread(Lines, RowAt(texts, N, l)) = piece(l)
  <2> DEFINE stay == Stay(texts, N, l)
             end == Both(Put(texts, N, l), <<Anchor(l)>>)
             x == LineItem(l, TextAt(texts, N, l))
             line == IF Removed(l) THEN <<>> ELSE <<LineText(texts, l)>>
  <2>1. l \in 0..n /\ l \in Nat
    BY <1>1
  <2>2. stay \in Seq(Item)
    BY <1>1, DocTyped
  <2>3. end \in Seq(Item) /\ Spread(Lines, end) = Insertions(texts, l)
    BY <1>3, <2>1
  <2>4. TextAt(texts, N, l) = LineText(texts, l) /\ TextAt(texts, N, l) \in Text
    BY <1>1, TextSteps
  <2>5. GoneAt(N, l) <=> Removed(l)
    BY GoneSteps
  <2>6. x \in Item /\ Lines[x] = <<LineText(texts, l)>>
    BY <2>1, <2>4, LinesFacts, ItemFacts
  <2>7. stay = IF Removed(l) THEN <<>> ELSE <<x>>
    BY <2>5 DEF Stay
  <2>8. RowAt(texts, N, l) = Both(stay, end) /\ piece(l) = Both(line, Insertions(texts, l))
    BY DEF RowAt, Both
  <2> HIDE DEF stay, end, x, piece
  <2>9. Spread(Lines, stay) = line
    BY <1>2, <2>6, <2>7
  <2> HIDE DEF line
  <2> QED  BY <1>2, <2>2, <2>3, <2>8, <2>9
<1>5. DOMAIN rows = 1..n /\ \A l \in 1..n : rows[l] = RowAt(texts, N, l)
  BY DEF RowList
<1>6. Lists(rows, Item) /\ FlattenSeq(rows) \in Seq(Item)
  BY <1>1, DocTyped
<1>7. Spread(Lines, Opening(texts, N)) = Insertions(texts, 0) /\ Opening(texts, N) \in Seq(Item)
  BY <1>1, <1>3 DEF Opening
<1>8. DocAt(texts, N) = Both(Opening(texts, N), FlattenSeq(rows))
  BY DEF DocAt
<1>9. ApplyLinePatch(texts) = Both(Insertions(texts, 0), FlattenSeq(pieces))
  BY DEF ApplyLinePatch, Both
<1>10. Maps(Lines, Item, Text)
  BY LinesFacts
<1> HIDE DEF rows, piece
<1>11. turned = pieces
  BY <1>1, <1>4, <1>5
<1>12. Spread(Lines, FlattenSeq(rows)) = FlattenSeq(turned)
  BY <1>6, <1>10, SpreadFlatten
<1> HIDE DEF turned, pieces
<1>13. Spread(Lines, DocAt(texts, N)) = ApplyLinePatch(texts)
  BY <1>2, <1>6, <1>7, <1>8, <1>9, <1>11, <1>12
<1>14. DocAt(texts, N) \in Seq(Item)
  BY <1>1, DocTyped
<1> QED  BY <1>2, <1>13, <1>14 DEF N

\* The instructions one after the other give what the code gives at once.
LEMMA AsReadIs ==
  ASSUME NEW texts \in Seq(Text), Accepted(Len(texts))
  PROVE  AsRead(texts) = ApplyLinePatch(texts) /\ ApplyLinePatch(texts) \in Seq(Text)
<1> DEFINE N == Len(patch)
           rec(g) == g = [k \in 0..N |-> IF k = 0 THEN Document(texts)
                                         ELSE Follow(g[k - 1], patch[k], Len(texts))]
           up == CHOOSE g : rec(g)
           F == [k \in 0..N |-> DocAt(texts, k)]
           text(doc) == FlattenSeq([p \in DOMAIN doc |-> IF IsLine(doc[p]) THEN <<doc[p].text>> ELSE <<>>])
<1>1. N \in Nat
  BY InstructionFacts
<1>2. AsRead(texts) = text(up[N])
  BY DEF AsRead
<1>3. F[0] = Document(texts) /\ \A k \in 1..N : F[k] = Follow(F[k - 1], patch[k], Len(texts))
  <2>1. F[0] = Document(texts)
    BY <1>1, DocStarts
  <2>2. ASSUME NEW k \in 1..N PROVE F[k] = Follow(F[k - 1], patch[k], Len(texts))
    <3>1. F[k] = DocAt(texts, k) /\ F[k - 1] = DocAt(texts, k - 1)
      BY <1>1
    <3> HIDE DEF F
    <3> QED  BY <3>1, FollowStep
  <2> QED  BY <2>1, <2>2
<1>4. F = [k \in 0..N |-> F[k]]
  OBVIOUS
<1>5. F[N] = DocAt(texts, N)
  BY <1>1
<1> HIDE DEF N, F
<1>6. rec(F)
  <2>1. \A k \in 0..N : F[k] = IF k = 0 THEN Document(texts) ELSE Follow(F[k - 1], patch[k], Len(texts))
    <3>1. \A k \in 0..N : k = 0 \/ k \in 1..N
      BY <1>1
    <3>2. \A k \in 1..N : k # 0
      BY <1>1
    <3> QED  BY <1>3, <3>1, <3>2
  <2> QED  BY <1>4, <2>1
<1>7. rec(up)
  <2> HIDE DEF rec
  <2> QED  BY <1>6
<1>8. up[0] = Document(texts) /\ \A k \in 1..N : up[k] = Follow(up[k - 1], patch[k], Len(texts))
  <2> HIDE DEF up
  <2>1. 0 \in 0..N /\ \A k \in 1..N : k \in 0..N /\ k # 0
    BY <1>1
  <2>2. \A k \in 0..N : up[k] = IF k = 0 THEN Document(texts) ELSE Follow(up[k - 1], patch[k], Len(texts))
    BY <1>7
  <2> QED  BY <2>1, <2>2
<1> HIDE DEF rec, up
<1> DEFINE A == {k \in 0..N : up[k] = F[k]}
<1>9. 0 \in A /\ \A k \in 1..N : k - 1 \in A => k \in A
  <2>1. 0 \in A
    BY <1>1, <1>3, <1>8
  <2>2. ASSUME NEW k \in 1..N, k - 1 \in A PROVE k \in A
    <3>1. k \in 0..N
      BY <1>1
    <3>2. up[k] = F[k]
      BY <1>3, <1>8, <2>2
    <3> QED  BY <3>1, <3>2
  <2> QED  BY <2>1, <2>2
<1>10. N \in A
  <2>1. 0..N \subseteq A
    <3> HIDE DEF A
    <3> QED  BY <1>1, <1>9, UpTo
  <2> QED  BY <1>1, <2>1
<1>11. up[N] = DocAt(texts, N)
  BY <1>5, <1>10
<1>12. DocAt(texts, N) \in Seq(Item)
  BY <1>1, DocTyped DEF N
<1>13. \A doc \in Seq(Item) : text(doc) = Spread(Lines, doc)
  <2> SUFFICES ASSUME NEW doc \in Seq(Item) PROVE text(doc) = Spread(Lines, doc)
    OBVIOUS
  <2>1. \A p \in DOMAIN doc : doc[p] \in Item
    OBVIOUS
  <2>2. [p \in DOMAIN doc |-> IF IsLine(doc[p]) THEN <<doc[p].text>> ELSE <<>>] = [p \in DOMAIN doc |-> Lines[doc[p]]]
    BY <2>1 DEF Lines
  <2> QED  BY <2>2 DEF Spread
<1> HIDE DEF text
<1>14. AsRead(texts) = Spread(Lines, DocAt(texts, N))
  BY <1>2, <1>11, <1>12, <1>13
<1> QED  BY <1>14, DocEnds DEF N

\* Claims are disjoint when no line is named by both with the same want.
LEMMA ClaimsAre ==
  ASSUME NEW op, NEW q
  PROVE  (Claims(op) \cap Claims(q) = {}) <=>
           ~\E i \in op.from..op.to, what \in Wants(op) : i \in q.from..q.to /\ what \in Wants(q)
<1>1. ASSUME NEW p PROVE \A c : c \in Claims(p) <=> \E i \in p.from..p.to, what \in Wants(p) : c = <<what, i>>
  <2>1. Claims(p) = {<<what, i>> : i \in p.from..p.to, what \in Wants(p)}
    BY DEF Claims
  <2> QED  BY <2>1
<1>2. ASSUME NEW i \in op.from..op.to, NEW what \in Wants(op), i \in q.from..q.to, what \in Wants(q)
      PROVE  Claims(op) \cap Claims(q) # {}
  <2>1. <<what, i>> \in Claims(op) /\ <<what, i>> \in Claims(q)
    BY <1>1, <1>2
  <2> QED  BY <2>1
<1>3. ASSUME NEW c, c \in Claims(op), c \in Claims(q)
      PROVE  \E i \in op.from..op.to, what \in Wants(op) : i \in q.from..q.to /\ what \in Wants(q)
  <2>1. PICK i \in op.from..op.to, what \in Wants(op) : c = <<what, i>>
    BY <1>1, <1>3
  <2>2. PICK j \in q.from..q.to, that \in Wants(q) : c = <<that, j>>
    BY <1>1, <1>3
  <2>3. i = j /\ what = that
    BY <2>1, <2>2
  <2> QED  BY <2>1, <2>2, <2>3
<1> QED  BY <1>2, <1>3

\* Ranges that are apart have no line in common.
LEMMA ApartIs ==
  ASSUME NEW p, NEW q, p.from \in Nat, p.to \in Nat, q.from \in Nat, q.to \in Nat,
         p.from <= p.to, q.from <= q.to
  PROVE  Apart(p, q) <=> ~\E i \in p.from..p.to : i \in q.from..q.to
<1> DEFINE a == p.from
           b == p.to
           c == q.from
           d == q.to
<1>1. a \in Nat /\ b \in Nat /\ c \in Nat /\ d \in Nat /\ a <= b /\ c <= d
  OBVIOUS
<1>2. Apart(p, q) <=> b < c \/ d < a
  BY DEF Apart
<1> HIDE DEF a, b, c, d
<1>3. (b < c \/ d < a) => ~\E i \in a..b : i \in c..d
  BY <1>1
<1>4. ASSUME ~(b < c \/ d < a) PROVE \E i \in a..b : i \in c..d
  <2>1. CASE a <= c
    <3>1. c \in a..b /\ c \in c..d
      BY <1>1, <1>4, <2>1
    <3> QED  BY <3>1
  <2>2. CASE ~(a <= c)
    <3>1. a \in a..b /\ a \in c..d
      BY <1>1, <1>4, <2>2
    <3> QED  BY <3>1
  <2> QED  BY <2>1, <2>2
<1> QED  BY <1>2, <1>3, <1>4 DEF a, b, c, d

\* Two instructions conflict.
Conflict(p, q) ==
  \/ p.op \in {"delete", "move"} /\ q.op \in {"delete", "move"}
  \/ p.op = "replace" /\ q.op = "replace"
  \/ p.op = "replace" /\ q.op = "delete"
  \/ p.op = "delete" /\ q.op = "replace"

\* What the code accepts is what is not ambiguous.
LEMMA AcceptedIsUnambiguous ==
  ASSUME patch \in Seq(LineOp), NEW n \in Nat
  PROVE  LinesAccepted(n) <=> Unambiguous(n)
<1> DEFINE op(k) == patch[k]
           Good(k) ==
             /\ op(k).op # "append" => InLines(op(k), n)
             /\ op(k).op \in {"move", "append"} => Boundary(op(k), n) <= n
             /\ op(k).op = "move" => op(k).after \notin op(k).from..op(k).to
           Clear(k) ==
             /\ op(k).op # "append" => op(k).from..op(k).to # {} /\ op(k).from..op(k).to \subseteq 1..n
             /\ op(k).op \in {"move", "append"} => op(k).after \in -1..n
             /\ op(k).op = "move" => op(k).after \notin op(k).from..op(k).to
<1>1. \A k \in DOMAIN patch : /\ op(k).op \in {"delete", "move", "append", "replace"}
                              /\ op(k).from \in Nat /\ op(k).to \in Nat /\ op(k).after \in Nat \cup {-1}
  <2> SUFFICES ASSUME NEW k \in DOMAIN patch
               PROVE  /\ op(k).op \in {"delete", "move", "append", "replace"}
                      /\ op(k).from \in Nat /\ op(k).to \in Nat /\ op(k).after \in Nat \cup {-1}
    OBVIOUS
  <2>1. patch[k] \in LineOp
    OBVIOUS
  <2> QED  BY <2>1 DEF LineOp
<1>2. \A k \in DOMAIN patch : Good(k) <=> Clear(k)
  <2> SUFFICES ASSUME NEW k \in DOMAIN patch PROVE Good(k) <=> Clear(k)
    OBVIOUS
  <2> DEFINE a == op(k).from
             b == op(k).to
             t == op(k).after
  <2>1. a \in Nat /\ b \in Nat /\ t \in Nat \cup {-1}
    BY <1>1
  <2>2. InLines(op(k), n) <=> 1 <= a /\ a <= b /\ b <= n
    BY DEF InLines
  <2>3. Boundary(op(k), n) <= n <=> t \in -1..n
    BY <2>1 DEF Boundary
  <2> HIDE DEF a, b, t
  <2>4. (1 <= a /\ a <= b /\ b <= n) <=> (a..b # {} /\ a..b \subseteq 1..n)
    <3>1. ASSUME 1 <= a, a <= b, b <= n PROVE a..b # {} /\ a..b \subseteq 1..n
      <4>1. a \in a..b /\ a..b \subseteq 1..n
        BY <2>1, <3>1
      <4> QED  BY <4>1
    <3>2. ASSUME a..b # {}, a..b \subseteq 1..n PROVE 1 <= a /\ a <= b /\ b <= n
      <4>1. a <= b
        BY <2>1, <3>2
      <4>2. a \in a..b /\ b \in a..b
        BY <2>1, <4>1
      <4>3. a \in 1..n /\ b \in 1..n
        BY <3>2, <4>2
      <4> QED  BY <4>1, <4>3
    <3> QED  BY <3>1, <3>2
  <2> QED  BY <2>2, <2>3, <2>4 DEF a, b, t
<1>3. ASSUME NEW j \in DOMAIN patch, NEW k \in DOMAIN patch, Good(j), Good(k)
      PROVE  (Conflict(op(j), op(k)) => Apart(op(j), op(k))) <=> Claims(op(j)) \cap Claims(op(k)) = {}
  <2>1. Conflict(op(j), op(k)) <=> \E what \in Wants(op(j)) : what \in Wants(op(k))
    BY <1>1 DEF Conflict, Wants
  <2>2. Conflict(op(j), op(k)) =>
          (Apart(op(j), op(k)) <=> ~\E i \in op(j).from..op(j).to : i \in op(k).from..op(k).to)
    <3>1. Conflict(op(j), op(k)) => op(j).from <= op(j).to /\ op(k).from <= op(k).to
      BY <1>3 DEF Conflict, InLines
    <3> QED  BY <1>1, <3>1, ApartIs
  <2>3. (Claims(op(j)) \cap Claims(op(k)) = {}) <=>
           ~\E i \in op(j).from..op(j).to, what \in Wants(op(j)) : i \in op(k).from..op(k).to /\ what \in Wants(op(k))
    BY ClaimsAre
  <2> QED  BY <2>1, <2>2, <2>3
<1> DEFINE pairs == \A j, k \in DOMAIN patch : j # k => (Conflict(op(j), op(k)) => Apart(op(j), op(k)))
<1>4. Unambiguous(n) <=> patch # <<>> /\ (\A k \in DOMAIN patch : Clear(k))
                          /\ \A j, k \in DOMAIN patch : j # k => Claims(op(j)) \cap Claims(op(k)) = {}
  BY DEF Unambiguous
<1>5. LinesAccepted(n) <=> patch # <<>> /\ (\A k \in DOMAIN patch : Good(k)) /\ pairs
  <2> DEFINE P(S) == Places(S)
  <2>1. \A S, k : k \in Places(S) <=> k \in DOMAIN patch /\ op(k).op \in S
    BY DEF Places
  <2>2. ASSUME LinesAccepted(n) PROVE patch # <<>> /\ (\A k \in DOMAIN patch : Good(k)) /\ pairs
    <3>1. ASSUME NEW k \in DOMAIN patch PROVE Good(k)
      <4>1. /\ op(k).op # "append" => k \in Places({"delete", "move", "replace"})
            /\ op(k).op \in {"move", "append"} => k \in Places({"move", "append"})
            /\ op(k).op = "move" => k \in Places({"move"})
        BY <1>1, <2>1
      <4> QED  BY <2>2, <4>1 DEF LinesAccepted
    <3>2. ASSUME NEW j \in DOMAIN patch, NEW k \in DOMAIN patch, j # k, Conflict(op(j), op(k))
          PROVE  Apart(op(j), op(k))
      <4>1. CASE op(j).op \in {"delete", "move"} /\ op(k).op \in {"delete", "move"}
        <5>1. j \in Places({"delete", "move"}) /\ k \in Places({"delete", "move"})
          BY <2>1, <4>1
        <5> QED  BY <2>2, <3>2, <5>1 DEF LinesAccepted
      <4>2. CASE op(j).op = "replace" /\ op(k).op = "replace"
        <5>1. j \in Places({"replace"}) /\ k \in Places({"replace"})
          BY <2>1, <4>2
        <5> QED  BY <2>2, <3>2, <5>1 DEF LinesAccepted
      <4>3. CASE op(j).op = "replace" /\ op(k).op = "delete"
        <5>1. j \in Places({"replace"}) /\ k \in Places({"delete"})
          BY <2>1, <4>3
        <5> QED  BY <2>2, <5>1 DEF LinesAccepted
      <4>4. CASE op(j).op = "delete" /\ op(k).op = "replace"
        <5>1. k \in Places({"replace"}) /\ j \in Places({"delete"})
          BY <2>1, <4>4
        <5>2. Apart(op(k), op(j))
          BY <2>2, <5>1 DEF LinesAccepted
        <5> QED  BY <5>2 DEF Apart
      <4> QED  BY <3>2, <4>1, <4>2, <4>3, <4>4 DEF Conflict
    <3>3. patch # <<>>
      BY <2>2 DEF LinesAccepted
    <3> HIDE DEF Good, op
    <3> QED  BY <3>1, <3>2, <3>3
  <2>3. ASSUME patch # <<>>, \A k \in DOMAIN patch : Good(k), pairs PROVE LinesAccepted(n)
    <3>1. \A k \in Places({"delete", "move", "replace"}) : InLines(patch[k], n)
      <4>1. \A k \in Places({"delete", "move", "replace"}) : k \in DOMAIN patch /\ op(k).op # "append"
        BY <2>1
      <4> QED  BY <2>3, <4>1
    <3>2. \A k \in Places({"move", "append"}) : Boundary(patch[k], n) <= n
      BY <2>1, <2>3
    <3>3. \A k \in Places({"move"}) : patch[k].after \notin patch[k].from..patch[k].to
      BY <2>1, <2>3
    <3>4. \A j, k \in Places({"delete", "move"}) : j # k => Apart(patch[j], patch[k])
      BY <2>1, <2>3 DEF Conflict
    <3>5. \A j, k \in Places({"replace"}) : j # k => Apart(patch[j], patch[k])
      BY <2>1, <2>3 DEF Conflict
    <3>6. \A j \in Places({"replace"}), k \in Places({"delete"}) : Apart(patch[j], patch[k])
      <4>1. \A j \in Places({"replace"}), k \in Places({"delete"}) :
              j \in DOMAIN patch /\ k \in DOMAIN patch /\ op(j).op = "replace" /\ op(k).op = "delete"
        BY <2>1
      <4>2. \A j \in Places({"replace"}), k \in Places({"delete"}) : j # k /\ Conflict(op(j), op(k))
        BY <4>1 DEF Conflict
      <4> QED  BY <2>3, <4>1, <4>2
    <3> QED  BY <2>3, <3>1, <3>2, <3>3, <3>4, <3>5, <3>6 DEF LinesAccepted
  <2> HIDE DEF Good, op, pairs
  <2> QED  BY <2>2, <2>3
<1> HIDE DEF op, Good, Clear
<1> QED  BY <1>2, <1>3, <1>4, <1>5

\* The texts of what Encode writes.
LEMMA TextsEncoded ==
  ASSUME NEW lines \in Seq(Line), NEW out \in Seq(Text)
  PROVE  \/ Texts(Encode(lines, out)) = out
         \/ /\ out = <<>> /\ Texts(Encode(lines, out)) = <<Blank>>
            /\ lines # <<>> /\ Last(lines).eol # "none"
<1> DEFINE rows == IF out = <<>> /\ lines # <<>> /\ Last(lines).eol # "none" THEN <<Blank>> ELSE out
           e == DetectLineEnding(lines)
           new == [i \in DOMAIN rows |-> [text |-> rows[i], eol |-> e]]
<1>1. rows \in Seq(Text)
  <2>1. Blank \in Text
    BY DEF Blank, Text
  <2>2. <<Blank>> \in Seq(Text)
    BY <2>1
  <2> QED  BY <2>2
<1>2. Encode(lines, out) = new
  BY DEF Encode
<1>3. rows = out \/ (out = <<>> /\ rows = <<Blank>> /\ lines # <<>> /\ Last(lines).eol # "none")
  OBVIOUS
<1> HIDE DEF rows, e
<1>4. rows = [i \in DOMAIN rows |-> rows[i]]
  BY <1>1
<1>5. Texts(new) = [i \in DOMAIN rows |-> rows[i]]
  BY DEF Texts
<1> HIDE DEF new
<1> QED  BY <1>2, <1>3, <1>4, <1>5

\* What apply_text_patch leaves is what the instructions mean.
LEMMA TextIsRead ==
  ASSUME Patchable, ApplyTextPatch, file.kind = "text"
  PROVE  LET texts == Texts(file.lines) IN
         /\ UNCHANGED patch /\ file'.kind = "text"
         /\ \/ /\ answer' = [mode |-> "text", ok |-> FALSE] /\ UNCHANGED file
               /\ ~Unambiguous(Len(texts))
            \/ /\ answer' = [mode |-> "text", ok |-> TRUE, before |-> file]
               /\ Unambiguous(Len(texts))
               /\ \/ Texts(file'.lines) = AsRead(texts)
                  \/ /\ AsRead(texts) = <<>> /\ Texts(file'.lines) = <<Blank>>
                     /\ texts # <<>> /\ Last(file.lines).eol # "none"
<1> DEFINE texts == Texts(file.lines)
           n == Len(texts)
<1>1. /\ file \in Files /\ file.lines \in Seq(Line) /\ patch \in Seq(LineOp)
      /\ file = [kind |-> "text", bom |-> file.bom, lines |-> file.lines]
  BY DEF ApplyTextPatch, Patchable, Instructions, Files
<1>2. texts \in Seq(Text) /\ n = Len(file.lines) /\ n \in Nat
  <2>1. DOMAIN file.lines = 1..Len(file.lines) /\ Len(file.lines) \in Nat
    BY <1>1
  <2>2. \A i \in DOMAIN file.lines : file.lines[i].text \in Text
    <3>1. \A i \in DOMAIN file.lines : file.lines[i] \in Line
      BY <1>1
    <3> QED  BY <3>1 DEF Line, Text
  <2> QED  BY <2>1, <2>2 DEF Texts
<1>3. LinesAccepted(n) <=> Unambiguous(n)
  BY <1>1, <1>2, AcceptedIsUnambiguous
<1>4. texts # <<>> <=> file.lines # <<>>
  <2>1. \A s \in Seq(Text) : s = <<>> <=> Len(s) = 0
    OBVIOUS
  <2>2. \A s \in Seq(Line) : s = <<>> <=> Len(s) = 0
    OBVIOUS
  <2> HIDE DEF texts
  <2> QED  BY <1>1, <1>2, <2>1, <2>2
<1>5. CASE ~LinesAccepted(Len(file.lines)) /\ Refused("text")
  BY <1>2, <1>3, <1>5 DEF Refused
<1>6. CASE /\ LinesAccepted(Len(file.lines))
           /\ file' = [file EXCEPT !.lines = Encode(@, ApplyLinePatch(Texts(@)))]
           /\ answer' = [mode |-> "text", ok |-> TRUE, before |-> file]
           /\ UNCHANGED patch
  <2> DEFINE out == Encode(file.lines, ApplyLinePatch(texts))
  <2>1. Accepted(n)
    BY <1>1, <1>2, <1>6 DEF Accepted, Patchable
  <2>2. AsRead(texts) = ApplyLinePatch(texts) /\ ApplyLinePatch(texts) \in Seq(Text)
    <3> HIDE DEF texts
    <3> QED  BY <1>2, <2>1, AsReadIs
  <2>3. file' = [file EXCEPT !.lines = out]
    BY <1>6
  <2>4. file'.lines = out /\ file'.kind = "text"
    <3> HIDE DEF out
    <3> QED  BY <1>1, <2>3
  <2>5. \/ Texts(out) = AsRead(texts)
        \/ /\ AsRead(texts) = <<>> /\ Texts(out) = <<Blank>>
           /\ file.lines # <<>> /\ Last(file.lines).eol # "none"
    <3> HIDE DEF texts
    <3> QED  BY <1>1, <2>2, TextsEncoded
  <2> HIDE DEF out, texts
  <2> QED  BY <1>2, <1>3, <1>4, <1>6, <2>4, <2>5 DEF texts
<1> QED  BY <1>5, <1>6 DEF ApplyTextPatch

\* The reading of a text patch depends on the patch alone.
LEMMA SameText ==
  ASSUME UNCHANGED patch
  PROVE  /\ \A n : Unambiguous(n)' <=> Unambiguous(n)
         /\ \A texts : AsRead(texts)' = AsRead(texts)
<1>1. ASSUME NEW n PROVE Unambiguous(n)' <=> Unambiguous(n)
  <2> DEFINE Clear(p) ==
        /\ p # <<>>
        /\ \A k \in DOMAIN p :
             LET op == p[k]
                 named == op.from..op.to
             IN  /\ op.op # "append" => named # {} /\ named \subseteq 1..n
                 /\ op.op \in {"move", "append"} => op.after \in -1..n
                 /\ op.op = "move" => op.after \notin named
        /\ \A j, k \in DOMAIN p : j # k => Claims(p[j]) \cap Claims(p[k]) = {}
  <2>1. Unambiguous(n) <=> Clear(patch)
    BY DEF Unambiguous
  <2>2. Unambiguous(n)' <=> Clear(patch')
    BY DEF Unambiguous
  <2> HIDE DEF Clear
  <2> QED  BY <2>1, <2>2
<1>2. ASSUME NEW texts PROVE AsRead(texts)' = AsRead(texts)
  <2> DEFINE As(p) ==
        LET doc[k \in 0..Len(p)] ==
              IF k = 0 THEN Document(texts) ELSE Follow(doc[k - 1], p[k], Len(texts))
            end == doc[Len(p)]
        IN  FlattenSeq([i \in DOMAIN end |-> IF IsLine(end[i]) THEN <<end[i].text>> ELSE <<>>])
  <2>1. AsRead(texts) = As(patch)
    BY DEF AsRead
  <2>2. AsRead(texts)' = As(patch')
    BY DEF AsRead
  <2> HIDE DEF As
  <2> QED  BY <2>1, <2>2
<1> QED  BY <1>1, <1>2

\* A step that writes a text writes what its instructions mean.
LEMMA PatchStep ==
  ASSUME Patchable, PatchReadsSnapshot, [Work]_<<vars, toolVars>>
  PROVE  PatchReadsSnapshot'
<1> DEFINE Meant(a, f, b, clear, out) ==
      a # None /\ f.kind = "text" =>
        /\ a.ok <=> clear
        /\ a.ok =>
             \/ Texts(f.lines) = out
             \/ /\ out = <<>> /\ Texts(f.lines) = <<Blank>>
                /\ Texts(b.lines) # <<>> /\ Last(b.lines).eol # "none"
           clear(b) == Unambiguous(Len(Texts(b.lines)))
           out(b) == AsRead(Texts(b.lines))
<1>1. PatchReadsSnapshot <=> Meant(answer, file, Before, clear(Before), out(Before))
  BY DEF PatchReadsSnapshot
<1>2. ASSUME NEW b, Before' = b, UNCHANGED patch
      PROVE  PatchReadsSnapshot' <=> Meant(answer', file', b, clear(b), out(b))
  <2>1. PatchReadsSnapshot' <=>
          Meant(answer', file', b, Unambiguous(Len(Texts(b.lines)))', AsRead(Texts(b.lines))')
    BY <1>2 DEF PatchReadsSnapshot
  <2>2. /\ Unambiguous(Len(Texts(b.lines)))' <=> Unambiguous(Len(Texts(b.lines)))
        /\ AsRead(Texts(b.lines))' = AsRead(Texts(b.lines))
    BY <1>2, SameText
  <2> QED  BY <2>1, <2>2
<1>3. CASE answer # None
  <2>1. UNCHANGED <<file, patch, answer>>
    BY <1>3, AnswerStays
  <2>2. UNCHANGED Before
    BY <2>1 DEF Before
  <2>3. PatchReadsSnapshot' <=> Meant(answer', file', Before, clear(Before), out(Before))
    BY <1>2, <2>1, <2>2
  <2> HIDE DEF Meant, clear, out
  <2> QED  BY <1>1, <2>1, <2>3
<1>4. CASE answer = None /\ answer' = None
  BY <1>4 DEF PatchReadsSnapshot
<1>5. CASE answer = None /\ ApplyBinaryPatch
  <2>1. file'.kind = "binary"
    BY <1>5 DEF ApplyBinaryPatch, Refused, Patchable, Files
  <2> QED  BY <2>1 DEF PatchReadsSnapshot
<1>6. CASE answer = None /\ ApplyTextPatch /\ file.kind = "binary"
  <2>1. file'.kind = "binary"
    BY <1>6 DEF ApplyTextPatch, Refused
  <2> QED  BY <2>1 DEF PatchReadsSnapshot
<1>7. CASE answer = None /\ ApplyTextPatch /\ file.kind = "text"
  <2>1. UNCHANGED patch /\ Before' = file
    BY <1>7, TextIsRead DEF Before
  <2>2. PatchReadsSnapshot' <=> Meant(answer', file', file, clear(file), out(file))
    BY <1>2, <2>1
  <2>3. Meant(answer', file', file, clear(file), out(file))
    BY <1>7, TextIsRead
  <2> QED  BY <2>2, <2>3
<1> QED  BY <1>3, <1>4, <1>5, <1>6, <1>7, AnswerComes DEF ApplyTextPatch

-----------------------------------------------------------------------------
(* Pages of a read: what a client has been shown.                          *)

\* Where the rows of a text begin.
RowStarts(lines) == {i \in DOMAIN lines : i = 1 \/ lines[i - 1].eol # "cr"}

\* The rows of a text begin at lines that can be counted off in order.
LEMMA StartsAreOrdered ==
  ASSUME NEW lines \in Seq(Line)
  PROVE  LET S == RowStarts(lines) IN
         /\ S \subseteq 1..Len(lines) /\ IsFiniteSet(S) /\ Cardinality(S) \in Nat
         /\ \A m \in 1..Cardinality(S) :
              \E i \in S : Cardinality({j \in S : j < i}) = m - 1
<1> DEFINE S == RowStarts(lines)
           R == {p \in S \X S : p[1] < p[2]}
<1>1. S \subseteq 1..Len(lines)
  BY DOMAIN lines = 1..Len(lines) DEF RowStarts
<1>2. IsFiniteSet(S) /\ Cardinality(S) \in Nat
  <2>1. IsFiniteSet(1..Len(lines))
    BY FS_Interval, Len(lines) \in Int
  <2> HIDE DEF S
  <2>2. IsFiniteSet(S)
    BY <1>1, <2>1, FS_Subset
  <2> QED  BY <2>2, FS_CardinalityType
<1> HIDE DEF S
<1>3. Orders(R, S)
  BY <1>1 DEF Orders
<1>4. \A i \in S : Rank(i, R, S) = Cardinality({j \in S : j < i})
  <2> SUFFICES ASSUME NEW i \in S PROVE Rank(i, R, S) = Cardinality({j \in S : j < i})
    OBVIOUS
  <2>1. SetLessThan(i, R, S) = {j \in S : j < i}
    BY DEF SetLessThan
  <2> QED  BY <2>1 DEF Rank
<1> HIDE DEF R
<1>5. ASSUME NEW m \in 1..Cardinality(S)
      PROVE  \E i \in S : Cardinality({j \in S : j < i}) = m - 1
  <2>1. \E i \in S : Rank(i, R, S) = m - 1
    BY <1>2, <1>3, Ranking
  <2> QED  BY <1>4, <2>1
<1> QED  BY <1>1, <1>2, <1>5 DEF S

\* The rows as read numbers them are those lines, in order.
LEMMA RowsAreStarts ==
  ASSUME NEW lines \in Seq(Line)
  PROVE  LET rows == Tools!Rows(lines)
             S == RowStarts(lines)
         IN  /\ Len(rows) \in Nat /\ rows \in [1..Len(rows) -> 1..Len(lines)]
             /\ rows \in Seq(Nat)
             /\ \A m \in 1..Len(rows) : rows[m] \in S /\ Cardinality({j \in S : j < rows[m]}) = m - 1
<1> DEFINE S == RowStarts(lines)
           c == Cardinality(S)
           nth(m) == CHOOSE i \in S : Cardinality({j \in S : j < i}) = m - 1
           rows == [m \in 1..c |-> nth(m)]
<1>1. /\ S \subseteq 1..Len(lines) /\ c \in Nat
      /\ \A m \in 1..c : \E i \in S : Cardinality({j \in S : j < i}) = m - 1
  BY StartsAreOrdered
<1>2. Tools!Rows(lines) = rows
  <2>1. /\ Tools!Cardinality(S) = c
        /\ \A i : Tools!Cardinality({j \in S : j < i}) = Cardinality({j \in S : j < i})
    BY SameCardinality
  <2>2. Tools!Rows(lines) = [n \in 1..Tools!Cardinality(S) |->
            CHOOSE i \in S : Tools!Cardinality({j \in S : j < i}) = n - 1]
    BY DEF Tools!Rows, RowStarts
  <2> QED  BY <2>1, <2>2
<1>3. \A m \in 1..c : nth(m) \in S /\ Cardinality({j \in S : j < nth(m)}) = m - 1
  <2> HIDE DEF S
  <2> QED  BY <1>1
<1> HIDE DEF nth, S, c
<1>4. Len(rows) = c
  BY <1>1
<1>5. \A m \in 1..c : rows[m] = nth(m)
  OBVIOUS
<1>6. rows \in [1..c -> 1..Len(lines)]
  BY <1>1, <1>3
<1>7. rows \in Seq(Nat)
  <2>0. 1..Len(lines) \subseteq Nat
    OBVIOUS
  <2>1. c \in Nat /\ \A m \in 1..c : nth(m) \in Nat
    BY <1>1, <1>3, <2>0
  <2>2. rows \in [1..c -> Nat]
    BY <2>1
  <2> HIDE DEF rows
  <2> QED  BY <2>1, <2>2
<1> HIDE DEF rows
<1> QED  BY <1>1, <1>2, <1>3, <1>4, <1>5, <1>6, <1>7 DEF S

\* What is read is a sequence, and of a text its rows.
LEMMA ItemsTyped ==
  ASSUME file \in Files, NEW mode \in {"text", "binary", "dir"}, mode = "dir" \/ mode = file.kind
  PROVE  /\ Tools!Items(mode) \in Seq(Nat)
         /\ mode = "text" => file.lines \in Seq(Line) /\ Tools!Items(mode) = Tools!Rows(file.lines)
<1>1. CASE mode = "text"
  <2>1. file.lines \in Seq(Line)
    BY <1>1 DEF Files
  <2>2. Tools!Items(mode) = Tools!Rows(file.lines)
    BY <1>1 DEF Tools!Items
  <2> QED  BY <2>1, <2>2, RowsAreStarts
<1>2. CASE mode = "binary"
  <2>1. file.bytes \in Seq(Nat \X Nat)
    BY <1>2 DEF Files
  <2>2. Tools!Items(mode) = [i \in DOMAIN file.bytes |-> i]
    BY <1>2 DEF Tools!Items
  <2>3. DOMAIN file.bytes = 1..Len(file.bytes) /\ Len(file.bytes) \in Nat
    BY <2>1
  <2> QED  BY <1>2, <2>2, <2>3
<1>3. CASE mode = "dir"
  <2>1. Listing \in Nat
    BY WorkAssumption DEF Tools!ReadParameters
  <2>2. Tools!Items(mode) = [i \in 1..Listing |-> i]
    BY <1>3 DEF Tools!Items
  <2> QED  BY <1>3, <2>1, <2>2
<1> QED  BY <1>1, <1>2, <1>3

\* The smallest of three numbers.
LEMMA MinOfThree ==
  ASSUME NEW a \in Int, NEW b \in Int, NEW c \in Int
  PROVE  Tools!Min({a, b, c}) = IF a <= b /\ a <= c THEN a ELSE IF b <= c THEN b ELSE c
<1> DEFINE m == IF a <= b /\ a <= c THEN a ELSE IF b <= c THEN b ELSE c
           Least(x) == x \in {a, b, c} /\ \A y \in {a, b, c} : x <= y
<1>1. Least(m) /\ \A x : Least(x) => x = m
  OBVIOUS
<1>2. Tools!Min({a, b, c}) = CHOOSE x \in {a, b, c} : \A y \in {a, b, c} : x <= y
  BY DEF Tools!Min
<1> QED  BY <1>1, <1>2

\* A page shows something when there is something left, and no more than that.
LEMMA CountFits ==
  ASSUME NEW mode, NEW limit \in Limits, NEW rest \in Int
  PROVE  LET count == Tools!Count(mode, limit, rest) IN
         /\ count \in Nat
         /\ rest > 0 => count \in 1..rest
         /\ rest <= 0 => count = 0
<1> DEFINE asked == Tools!Max({limit, 1})
<1>1. limit \in Nat /\ BinaryLimit \in Nat \ {0}
  BY WorkAssumption DEF Tools!ReadParameters
<1>2. asked \in Nat /\ asked >= 1
  BY <1>1, MaxOfTwo
<1> HIDE DEF asked
<1> DEFINE S == {rest, asked} \cup (IF mode = "binary" THEN {BinaryLimit} ELSE {})
           least == Tools!Min(S)
<1>3. least \in Int /\ least <= rest /\ (rest > 0 => least >= 1)
  <2>1. CASE mode = "binary"
    <3>1. S = {rest, asked, BinaryLimit}
      BY <2>1
    <3>2. least = IF rest <= asked /\ rest <= BinaryLimit THEN rest
                  ELSE IF asked <= BinaryLimit THEN asked ELSE BinaryLimit
      BY <1>1, <1>2, <3>1, MinOfThree
    <3> HIDE DEF least
    <3> QED  BY <1>1, <1>2, <3>2
  <2>2. CASE mode # "binary"
    <3>1. S = {rest, asked}
      BY <2>2
    <3>2. least = IF rest <= asked THEN rest ELSE asked
      BY <1>2, <3>1, MinOfTwo
    <3> HIDE DEF least
    <3> QED  BY <1>2, <3>2
  <2> QED  BY <2>1, <2>2
<1>4. Tools!Count(mode, limit, rest) = Tools!Max({0, least})
  BY DEF Tools!Count, asked
<1> HIDE DEF least
<1>5. Tools!Max({0, least}) = IF 0 >= least THEN 0 ELSE least
  BY <1>3, MaxOfTwo
<1> QED  BY <1>3, <1>4, <1>5

\* A row as it is shown, and what a client is shown of the items from some place on.
Row == [number : Int, item : Nat]
ShownFrom(items, first, from, n) ==
  [k \in 1..n |-> [number |-> first + k - 1, item |-> items[from + k]]]

ReadRecords == [step : {"asking", "refused", "lost", "done"}, mode : {"text", "binary", "dir"},
           first : Nat, offset : Nat, limit : Limits, shown : Seq(Row), changed : BOOLEAN]

ReadTyped ==
  /\ split \in 0..MaxRows
  /\ read # Tools!Idle =>
       /\ patch = <<>> /\ answer = None
       /\ read \in ReadRecords
       /\ read.mode = "dir" \/ read.mode = file.kind

\* As long as nobody writes the file, what the client has been shown is what there
\* is from its first offset on, and the offset it goes on with is there.
Shown(n) ==
  LET items == Tools!Items(read.mode)
      from  == Tools!Start(read.mode, read.first)
  IN  /\ read.shown = ShownFrom(items, read.first, from, n)
      /\ n > 0 => from >= 0 /\ from + n <= Len(items)
      /\ read.step = "asking" => /\ read.offset = read.first + n
                                 /\ n > 0 => from + n < Len(items)
      /\ read.step = "done" => n = IF Len(items) > from THEN Len(items) - from ELSE 0
      /\ read.step = "refused" => n = 0
      /\ read.step = "lost" => n = 0 \/ (read.mode = "text" /\ split >= read.offset)

ShownHolds == read # Tools!Idle /\ ~read.changed => \E n \in Nat : Shown(n)

\* Nothing is being read at first.
LEMMA ReadInit == WorkInit => ReadTyped /\ ShownHolds
  BY WorkAssumption DEF WorkInit, Tools!Init, Tools!ReadParameters, ReadTyped, ShownHolds

\* What one page does.
LEMMA Pages ==
  ASSUME Patchable, ReadTyped, Tools!ReadPage
  PROVE  LET items == Tools!Items(read.mode)
             start == Tools!Start(read.mode, read.offset)
             rest  == Len(items) - start
             c     == Tools!Count(read.mode, read.limit, rest)
             rows  == [k \in 1..c |-> [number |-> read.offset + k - 1, item |-> items[start + k]]]
         IN  /\ read \in ReadRecords /\ read' \in ReadRecords /\ read.step = "asking"
             /\ items \in Seq(Nat) /\ UNCHANGED <<file, split>>
             /\ c \in Nat /\ start \in Int /\ (rest > 0 => c \in 1..rest) /\ (rest <= 0 => c = 0)
             /\ UNCHANGED <<read.mode, read.first, read.limit, read.changed>>
             /\ \/ /\ Tools!Refused(read.mode, read.offset, Len(items))
                   /\ read'.step = "refused" /\ UNCHANGED <<read.offset, read.shown>>
                \/ /\ read.mode = "text" /\ \E k \in 1..c : rows[k].number = split
                   /\ ~Tools!Refused(read.mode, read.offset, Len(items))
                   /\ read'.step = "lost" /\ UNCHANGED <<read.offset, read.shown>>
                \/ /\ ~Tools!Refused(read.mode, read.offset, Len(items))
                   /\ rows \in Seq(Row) /\ Len(rows) = c
                   /\ read'.shown = read.shown \o rows
                   /\ \/ /\ start + c < Len(items) /\ read'.step = "asking"
                         /\ read'.offset = read.offset + c
                      \/ /\ start + c >= Len(items) /\ read'.step = "done"
                         /\ UNCHANGED read.offset
<1> DEFINE items == Tools!Items(read.mode)
           start == Tools!Start(read.mode, read.offset)
           rest  == Len(items) - start
           c     == Tools!Count(read.mode, read.limit, rest)
           rows  == [k \in 1..c |-> [number |-> read.offset + k - 1, item |-> items[start + k]]]
           page  == Tools!Page(read.mode, read.offset, read.limit)
           no    == Tools!Refused(read.mode, read.offset, Len(items))
<1>1. /\ read.step = "asking" /\ read \in ReadRecords /\ file \in Files
      /\ read.mode = "dir" \/ read.mode = file.kind
  BY DEF Tools!ReadPage, ReadTyped, Patchable, Tools!Idle
<1>2. items \in Seq(Nat)
  BY <1>1, ItemsTyped DEF ReadRecords
<1>3. start \in Int /\ start >= read.offset - 1 /\ start <= read.offset /\ rest \in Int
  BY <1>1, <1>2 DEF ReadRecords, Tools!Start
<1>4. c \in Nat /\ (rest > 0 => c \in 1..rest) /\ (rest <= 0 => c = 0)
  <2> HIDE DEF rest
  <2> QED  BY <1>1, <1>3, CountFits DEF ReadRecords
<1>5. /\ page.rows = rows
      /\ page.more <=> start + c < Len(items)
      /\ page.hint = read.offset + c
  BY DEF Tools!Page, Tools!Hint
<1>6. UNCHANGED <<file, split>>
  BY DEF Tools!ReadPage
<1>7. \/ no /\ read' = [read EXCEPT !.step = "refused"]
      \/ ~no /\ Tools!Panics(read.mode, page) /\ read' = [read EXCEPT !.step = "lost"]
      \/ /\ ~no
         /\ read' = [read EXCEPT !.step = IF page.more THEN "asking" ELSE "done",
                                 !.offset = IF page.more THEN page.hint ELSE @,
                                 !.shown = @ \o page.rows]
  BY DEF Tools!ReadPage
<1>8. ~no => start >= 0
  <2>1. read.mode \in {"text", "binary", "dir"} /\ read.offset \in Nat
    BY <1>1 DEF ReadRecords
  <2>2. CASE read.mode = "binary"
    BY <2>1, <2>2 DEF Tools!Start
  <2>3. CASE read.mode # "binary"
    <3>1. start = read.offset - 1
      BY <2>3 DEF Tools!Start
    <3>2. ~no => ~ (read.offset < 1)
      BY <2>1, <2>3 DEF Tools!Refused
    <3> QED  BY <2>1, <3>1, <3>2
  <2> QED  BY <2>2, <2>3
<1>9. ~no => rows \in Seq(Row) /\ Len(rows) = c
  <2> SUFFICES ASSUME ~no PROVE rows \in Seq(Row) /\ Len(rows) = c
    OBVIOUS
  <2>1. \A k \in 1..c : read.offset + k - 1 \in Int /\ items[start + k] \in Nat
    <3>1. read.offset \in Nat /\ start >= 0
      BY <1>1, <1>8 DEF ReadRecords
    <3> HIDE DEF items, start, c, no
    <3> SUFFICES ASSUME NEW k \in 1..c PROVE read.offset + k - 1 \in Int /\ items[start + k] \in Nat
      OBVIOUS
    <3>2. start + k \in 1..Len(items)
      BY <1>2, <1>3, <1>4, <3>1
    <3> QED  BY <1>2, <1>4, <3>1, <3>2
  <2> HIDE DEF items, start, c
  <2>2. \A k \in 1..c : [number |-> read.offset + k - 1, item |-> items[start + k]] \in Row
    BY <2>1 DEF Row
  <2> QED  BY <1>4, <2>2
<1> HIDE DEF items, start, rest, c, rows, page, no
<1>10. CASE no /\ read' = [read EXCEPT !.step = "refused"]
  <2>1. /\ read' \in ReadRecords /\ read'.step = "refused" /\ UNCHANGED <<read.offset, read.shown>>
        /\ UNCHANGED <<read.mode, read.first, read.limit, read.changed>>
    BY <1>1, <1>10 DEF ReadRecords
  <2> QED  BY <1>1, <1>2, <1>3, <1>4, <1>6, <1>10, <2>1 DEF items, start, rest, c, rows, no
<1>11. CASE ~no /\ Tools!Panics(read.mode, page) /\ read' = [read EXCEPT !.step = "lost"]
  <2>1. /\ read' \in ReadRecords /\ read'.step = "lost" /\ UNCHANGED <<read.offset, read.shown>>
        /\ UNCHANGED <<read.mode, read.first, read.limit, read.changed>>
    BY <1>1, <1>11 DEF ReadRecords
  <2>2. read.mode = "text" /\ \E k \in 1..c : rows[k].number = split
    <3>1. read.mode = "text" /\ \E k \in DOMAIN rows : rows[k].number = split
      BY <1>5, <1>11 DEF Tools!Panics
    <3>2. DOMAIN rows = 1..c
      BY DEF rows
    <3> QED  BY <3>1, <3>2
  <2> QED  BY <1>1, <1>2, <1>3, <1>4, <1>6, <1>11, <2>1, <2>2 DEF items, start, rest, c, rows, no
<1>12. CASE /\ ~no
            /\ read' = [read EXCEPT !.step = IF page.more THEN "asking" ELSE "done",
                                    !.offset = IF page.more THEN page.hint ELSE @,
                                    !.shown = @ \o page.rows]
  <2> DEFINE s == IF page.more THEN "asking" ELSE "done"
             o == IF page.more THEN page.hint ELSE read.offset
             all == read.shown \o rows
  <2>1. read' = [read EXCEPT !.step = s, !.offset = o, !.shown = all]
    BY <1>5, <1>12
  <2>2. all \in Seq(Row) /\ o \in Nat /\ s \in {"asking", "done"}
    <3>1. read.shown \in Seq(Row) /\ read.offset \in Nat
      BY <1>1 DEF ReadRecords
    <3>2. rows \in Seq(Row)
      BY <1>9, <1>12
    <3>3. all \in Seq(Row)
      BY <3>1, <3>2
    <3>4. o \in Nat
      BY <1>4, <1>5, <3>1
    <3> QED  BY <3>3, <3>4
  <2> HIDE DEF s, o, all
  <2>3. /\ read' \in ReadRecords /\ read'.step = s /\ read'.offset = o /\ read'.shown = all
        /\ UNCHANGED <<read.mode, read.first, read.limit, read.changed>>
    BY <1>1, <2>1, <2>2 DEF ReadRecords
  <2>4. \/ start + c < Len(items) /\ s = "asking" /\ o = read.offset + c
        \/ start + c >= Len(items) /\ s = "done" /\ o = read.offset
    BY <1>2, <1>3, <1>4, <1>5 DEF s, o
  <2> QED  BY <1>1, <1>2, <1>3, <1>4, <1>6, <1>9, <1>12, <2>3, <2>4 DEF items, start, rest, c, rows, no, all
<1> QED  BY <1>7, <1>10, <1>11, <1>12

\* A step that is not of a read leaves it alone, and the file until it is over.
LEMMA NotReading ==
  ASSUME ReadTyped, Patchable, [Work]_<<vars, toolVars>>
  PROVE  \/ Tools!Reading /\ patch = <<>> /\ answer = None /\ UNCHANGED <<patch, answer>>
         \/ UNCHANGED <<read, split>> /\ (read = Tools!Idle \/ UNCHANGED <<file, patch, answer>>)
<1>1. CASE Next /\ read = Tools!Idle /\ UNCHANGED toolVars
  BY <1>1 DEF toolVars
<1>2. CASE Tools!Searching /\ UNCHANGED <<patch, answer>>
  <2>1. UNCHANGED <<file, Tools!readVars>>
    BY <1>2 DEF Tools!Searching, Tools!BeginSearch, Tools!StartWalk, Tools!WalkExpires, Tools!WalkEnds,
         Tools!Visit, Tools!ReadMatch, Tools!Tick, Tools!Deliver, Tools!GiveUp, Tools!EndSearch
  <2> QED  BY <1>2, <2>1 DEF Tools!readVars
<1> QED  BY <1>1, <1>2 DEF Work, Tools!Next, vars, toolVars

\* Steps keep the type of a read.
LEMMA ReadTypedStep ==
  ASSUME Patchable, ReadTyped, [Work]_<<vars, toolVars>>
  PROVE  ReadTyped'
<1>1. CASE UNCHANGED <<read, split>> /\ (read = Tools!Idle \/ UNCHANGED <<file, patch, answer>>)
  BY <1>1 DEF ReadTyped, Tools!Idle
<1>2. CASE Tools!Reading /\ patch = <<>> /\ answer = None /\ UNCHANGED <<patch, answer>>
  <2>0. MaxRows \in Nat /\ Offsets \subseteq Nat
    BY WorkAssumption DEF Tools!ReadParameters
  <2>1. CASE \E m \in {"text", "binary", "dir"}, o \in Offsets, l \in Limits : Tools!BeginRead(m, o, l)
    <3>1. PICK m \in {"text", "binary", "dir"}, o \in Offsets, l \in Limits : Tools!BeginRead(m, o, l)
      BY <2>1
    <3>2. <<>> \in Seq(Row)
      OBVIOUS
    <3>3. split' \in 0..MaxRows
      BY <2>0, <3>1 DEF Tools!BeginRead
    <3>4. read' \in ReadRecords /\ (read'.mode = "dir" \/ read'.mode = file'.kind)
      BY <2>0, <3>1, <3>2 DEF Tools!BeginRead, ReadRecords
    <3> QED  BY <1>2, <3>3, <3>4 DEF ReadTyped
  <2>2. CASE Tools!ReadPage
    <3>1. /\ read \in ReadRecords /\ read' \in ReadRecords /\ UNCHANGED <<file, split>>
          /\ read'.mode = read.mode
      BY <2>2, Pages
    <3>2. read # Tools!Idle
      BY <3>1 DEF ReadRecords, Tools!Idle
    <3> QED  BY <1>2, <3>1, <3>2 DEF ReadTyped
  <2>3. CASE Tools!Rewrite
    <3>1. /\ read \in ReadRecords /\ file'.kind = file.kind /\ read.mode = file.kind
          /\ read' = [read EXCEPT !.changed = TRUE]
      BY <2>3 DEF Tools!Rewrite, ReadTyped, Tools!Idle
    <3>2. read' \in ReadRecords /\ read'.mode = file'.kind
      BY <3>1 DEF ReadRecords
    <3>3. split' \in 0..MaxRows
      BY <2>0, <2>3 DEF Tools!Rewrite
    <3> QED  BY <1>2, <3>2, <3>3 DEF ReadTyped
  <2>4. CASE Tools!EndRead
    BY <2>0, <2>4 DEF Tools!EndRead, ReadTyped
  <2> QED  BY <1>2, <2>1, <2>2, <2>3, <2>4 DEF Tools!Reading
<1> QED  BY <1>1, <1>2, NotReading

\* Concatenation as a function.
LEMMA ConcatIs ==
  ASSUME NEW S, NEW s \in Seq(S), NEW t \in Seq(S)
  PROVE  s \o t = [k \in 1..(Len(s) + Len(t)) |-> IF k <= Len(s) THEN s[k] ELSE t[k - Len(s)]]
<1>1. s \o t \in Seq(S) /\ Len(s \o t) = Len(s) + Len(t)
  BY ConcatProperties
<1>2. s \o t = [k \in 1..(Len(s) + Len(t)) |-> (s \o t)[k]]
  <2> DEFINE u == s \o t
  <2>1. u \in [1..Len(u) -> S]
    BY <1>1, LenProperties
  <2> HIDE DEF u
  <2>2. u = [k \in 1..Len(u) |-> u[k]]
    BY <2>1
  <2> QED  BY <1>1, <2>2 DEF u
<1>3. \A k \in 1..(Len(s) + Len(t)) : (s \o t)[k] = IF k <= Len(s) THEN s[k] ELSE t[k - Len(s)]
  BY ConcatProperties
<1> QED  BY <1>2, <1>3, Zenon

\* What a page adds to what was shown before.
LEMMA ShownGrows ==
  ASSUME NEW items, NEW first \in Int, NEW from \in Int, NEW n \in Nat, NEW c \in Nat,
         ShownFrom(items, first, from, n) \in Seq(Row),
         ShownFrom(items, first + n, from + n, c) \in Seq(Row)
  PROVE  ShownFrom(items, first, from, n) \o ShownFrom(items, first + n, from + n, c)
           = ShownFrom(items, first, from, n + c)
<1> DEFINE shown == ShownFrom(items, first, from, n)
           rows  == ShownFrom(items, first + n, from + n, c)
<1>0. shown \in Seq(Row) /\ rows \in Seq(Row)
  OBVIOUS
<1>1. Len(shown) = n /\ Len(rows) = c
  BY DEF ShownFrom
<1>a. \A k \in 1..n : shown[k] = [number |-> first + k - 1, item |-> items[from + k]]
  BY DEF ShownFrom
<1>b. \A k \in 1..c : rows[k] = [number |-> first + n + k - 1, item |-> items[from + n + k]]
  BY DEF ShownFrom
<1>c. SUFFICES shown \o rows = ShownFrom(items, first, from, n + c)
  OBVIOUS
<1> HIDE DEF shown, rows
<1>2. shown \o rows = [k \in 1..(n + c) |-> IF k <= n THEN shown[k] ELSE rows[k - n]]
  <2>1. shown \o rows = [k \in 1..(Len(shown) + Len(rows)) |->
                           IF k <= Len(shown) THEN shown[k] ELSE rows[k - Len(shown)]]
    BY <1>0, ConcatIs
  <2> QED  BY <1>1, <2>1, Zenon
<1>5. ASSUME NEW k \in 1..(n + c)
      PROVE  (IF k <= n THEN shown[k] ELSE rows[k - n]) = [number |-> first + k - 1, item |-> items[from + k]]
  <2>1. CASE k <= n
    <3>1. k \in 1..n
      BY <2>1
    <3> QED  BY <1>a, <2>1, <3>1, Zenon
  <2>2. CASE k > n
    <3> DEFINE j == k - n
    <3>1. j \in 1..c /\ first + n + j - 1 = first + k - 1 /\ from + n + j = from + k /\ ~(k <= n)
      BY <2>2
    <3> HIDE DEF j
    <3>2. rows[j] = [number |-> first + k - 1, item |-> items[from + k]]
      BY <1>b, <3>1, Zenon
    <3> QED  BY <3>1, <3>2, Zenon DEF j
  <2> QED  BY <2>1, <2>2
<1>6. ShownFrom(items, first, from, n + c) =
        [k \in 1..(n + c) |-> [number |-> first + k - 1, item |-> items[from + k]]]
  BY Zenon DEF ShownFrom
<1> QED  BY <1>2, <1>5, <1>6, Zenon

\* Where a page starts moves with the offset.
LEMMA StartMoves ==
  ASSUME NEW mode \in {"text", "binary", "dir"}, NEW first \in Nat, NEW n \in Nat
  PROVE  /\ Tools!Start(mode, first) \in Int
         /\ Tools!Start(mode, first + n) = Tools!Start(mode, first) + n
         /\ Tools!Start(mode, first) \in {first - 1, first}
  BY DEF Tools!Start

\* An offset within the file is not refused.
LEMMA NotRefused ==
  ASSUME NEW mode \in {"text", "binary", "dir"}, NEW offset \in Nat, NEW total \in Nat,
         offset >= 1, Tools!Start(mode, offset) < total
  PROVE  ~ Tools!Refused(mode, offset, total)
<1>1. CASE mode = "text"
  BY <1>1 DEF Tools!Start, Tools!Refused
<1>2. CASE mode = "binary"
  BY <1>2 DEF Tools!Start, Tools!Refused
<1>3. CASE mode = "dir"
  BY <1>3 DEF Tools!Start, Tools!Refused
<1> QED  BY <1>1, <1>2, <1>3

\* An empty page shows nothing.
LEMMA NothingShown ==
  ASSUME NEW items, NEW first \in Int, NEW from
  PROVE  ShownFrom(items, first, from, 0) = <<>>
  BY DEF ShownFrom

\* A page continues what the client has been shown.
LEMMA PageShown ==
  ASSUME Patchable, ReadTyped, ShownHolds, Tools!ReadPage, ~read.changed
  PROVE  \E n \in Nat : Shown(n)'
<1> DEFINE items == Tools!Items(read.mode)
           total == Len(items)
           from  == Tools!Start(read.mode, read.first)
           start == Tools!Start(read.mode, read.offset)
           c     == Tools!Count(read.mode, read.limit, total - start)
           rows  == [k \in 1..c |-> [number |-> read.offset + k - 1, item |-> items[start + k]]]
<1>1. /\ read \in ReadRecords /\ read' \in ReadRecords /\ read.step = "asking"
      /\ items \in Seq(Nat) /\ UNCHANGED <<file, split>>
      /\ UNCHANGED <<read.mode, read.first, read.limit, read.changed>>
  BY Pages
<1>2. read # Tools!Idle
  BY <1>1 DEF ReadRecords, Tools!Idle
<1>3. PICK n \in Nat : Shown(n)
  BY <1>2 DEF ShownHolds
<1>4. /\ read.shown = ShownFrom(items, read.first, from, n)
      /\ n > 0 => from >= 0 /\ from + n <= total /\ from + n < total
      /\ read.offset = read.first + n
  BY <1>1, <1>3 DEF Shown
<1>5. /\ read.mode \in {"text", "binary", "dir"} /\ read.first \in Nat /\ total \in Nat /\ read.offset \in Nat
  BY <1>1 DEF ReadRecords
<1>6. from \in Int /\ from \in {read.first - 1, read.first} /\ start = from + n
  <2>1. start = Tools!Start(read.mode, read.first + n)
    BY <1>4
  <2> QED  BY <1>5, <2>1, StartMoves
<1>7. c \in Nat /\ (total > start => c \in 1..(total - start)) /\ (total <= start => c = 0)
  <2>1. c \in Nat /\ (total - start > 0 => c \in 1..(total - start)) /\ (total - start <= 0 => c = 0)
    BY Pages
  <2> HIDE DEF c
  <2> QED  BY <1>5, <1>6, <2>1
<1>8. Tools!Items(read.mode)' = items /\ Tools!Start(read.mode, read.first)' = from
  BY <1>1 DEF Tools!Items, Tools!Start
<1>a. \/ read.mode = "binary" /\ from = read.first
      \/ read.mode # "binary" /\ from = read.first - 1
  BY DEF Tools!Start
<1>b. \/ Tools!Refused(read.mode, read.offset, total) /\ read'.step = "refused" /\ UNCHANGED read.shown
      \/ /\ read.mode = "text" /\ \E k \in 1..c : rows[k].number = split
         /\ read'.step = "lost" /\ UNCHANGED <<read.offset, read.shown>>
      \/ /\ ~Tools!Refused(read.mode, read.offset, total)
         /\ rows \in Seq(Row) /\ read'.shown = read.shown \o rows
         /\ \/ start + c < total /\ read'.step = "asking" /\ read'.offset = read.offset + c
            \/ start + c >= total /\ read'.step = "done" /\ UNCHANGED read.offset
  BY Pages
<1>c. read.offset >= 1 /\ start < total => ~Tools!Refused(read.mode, read.offset, total)
  <2> HIDE DEF total
  <2> QED  BY <1>5, NotRefused
<1>d. read.mode # "binary" /\ ~Tools!Refused(read.mode, read.offset, total) => ~(read.offset < 1)
  BY <1>5 DEF Tools!Refused
<1>e. rows = ShownFrom(items, read.first + n, from + n, c)
  BY <1>4, <1>6 DEF ShownFrom
<1>f. \A k \in 1..c : rows[k].number = read.offset + k - 1
  OBVIOUS
<1>g. PICK m \in Nat : m = n + c
  BY <1>7
<1> HIDE DEF items, total, from, start, c, rows
<1>9. CASE Tools!Refused(read.mode, read.offset, total) /\ read'.step = "refused" /\ UNCHANGED read.shown
  <2>1. n > 0 => read.offset >= 1 /\ start < total
    BY <1>4, <1>5, <1>6
  <2>2. n = 0
    BY <1>9, <1>c, <2>1
  <2> QED  BY <1>1, <1>4, <1>8, <1>9, <2>2 DEF Shown
<1>10. CASE /\ read.mode = "text" /\ \E k \in 1..c : rows[k].number = split
            /\ read'.step = "lost" /\ UNCHANGED <<read.offset, read.shown>>
  <2>1. split >= read.offset
    <3>1. PICK k \in 1..c : rows[k].number = split
      BY <1>10
    <3>2. split = read.offset + k - 1
      BY <1>f, <3>1
    <3> QED  BY <1>5, <1>7, <3>2
  <2> QED  BY <1>1, <1>4, <1>8, <1>10, <2>1 DEF Shown, total
<1>11. CASE /\ ~Tools!Refused(read.mode, read.offset, total)
            /\ rows \in Seq(Row) /\ read'.shown = read.shown \o rows
            /\ \/ start + c < total /\ read'.step = "asking" /\ read'.offset = read.offset + c
               \/ start + c >= total /\ read'.step = "done" /\ UNCHANGED read.offset
  <2>1. read'.shown = ShownFrom(items, read.first, from, m)
    <3>1. read.shown \in Seq(Row)
      BY <1>1 DEF ReadRecords
    <3>2. rows \in Seq(Row)
      BY <1>11
    <3>3. read.shown \o rows = ShownFrom(items, read.first, from, n + c)
      <4>1. items \in Seq(Nat) /\ read.first \in Int
        BY <1>1, <1>5
      <4>2. /\ ShownFrom(items, read.first, from, n) \in Seq(Row)
            /\ ShownFrom(items, read.first + n, from + n, c) \in Seq(Row)
        BY <1>4, <1>e, <3>1, <3>2
      <4>3. ShownFrom(items, read.first, from, n) \o ShownFrom(items, read.first + n, from + n, c)
              = ShownFrom(items, read.first, from, n + c)
        BY <1>6, <1>7, <4>1, <4>2, ShownGrows
      <4> QED  BY <1>4, <1>e, <4>3
    <3> QED  BY <1>11, <1>g, <3>3, Zenon
  <2>2. c > 0 => from >= 0
    <3>1. CASE read.mode = "binary"
      BY <1>5, <1>a, <3>1
    <3>2. CASE read.mode # "binary"
      <4>1. from = read.first - 1 /\ ~(read.offset < 1)
        BY <1>11, <1>a, <1>d, <3>2
      <4> QED  BY <1>4, <1>5, <4>1
    <3> QED  BY <3>1, <3>2
  <2>3. /\ m \in Nat /\ (m > 0 => from >= 0 /\ from + m <= total)
        /\ start + c < total => from + m < total
        /\ start + c >= total => m = IF total > from THEN total - from ELSE 0
    BY <1>4, <1>5, <1>6, <1>7, <2>2, <1>g
  <2>4. read'.step = "asking" => read'.offset = read'.first + m /\ from + m < total
    <3>1. read.offset + c = read.first + m
      BY <1>4, <1>5, <1>7, <1>g
    <3> QED  BY <1>1, <1>11, <2>3, <3>1
  <2>5. read'.step = "done" => m = IF total > from THEN total - from ELSE 0
    BY <1>11, <2>3
  <2>6. read'.step \in {"asking", "done"}
    BY <1>11
  <2>7. Shown(m)'
    <3>1. UNCHANGED <<read.mode, read.first>> /\ Len(items) = total
      BY <1>1 DEF total
    <3>2. read'.step # "refused" /\ read'.step # "lost"
      BY <2>6
    <3> QED  BY <1>8, <2>1, <2>3, <2>4, <2>5, <3>1, <3>2 DEF Shown
  <2> QED  BY <2>3, <2>7
<1> QED  BY <1>b, <1>9, <1>10, <1>11

\* Steps keep what the client has been shown a run of the items.
LEMMA ShownStep ==
  ASSUME Patchable, ReadTyped, ShownHolds, [Work]_<<vars, toolVars>>
  PROVE  ShownHolds'
<1>0. ReadTyped'
  BY ReadTypedStep
<1>1. CASE UNCHANGED <<read, split>> /\ (read = Tools!Idle \/ UNCHANGED <<file, patch, answer>>)
  <2>1. CASE read = Tools!Idle
    BY <1>1, <2>1 DEF ShownHolds, Tools!Idle
  <2>2. CASE UNCHANGED file /\ read # Tools!Idle
    <3>1. Tools!Items(read.mode)' = Tools!Items(read.mode)
      BY <1>1, <2>2 DEF Tools!Items
    <3>2. Tools!Start(read.mode, read.first)' = Tools!Start(read.mode, read.first)
      BY <1>1 DEF Tools!Start
    <3>3. \A n \in Nat : Shown(n) => Shown(n)'
      BY <1>1, <3>1, <3>2 DEF Shown
    <3>4. UNCHANGED read /\ Tools!Idle' = Tools!Idle
      BY <1>1 DEF Tools!Idle
    <3> QED  BY <3>3, <3>4 DEF ShownHolds
  <2> QED  BY <1>1, <2>1, <2>2
<1>2. CASE Tools!Reading
  <2>1. CASE \E m \in {"text", "binary", "dir"}, o \in Offsets, l \in Limits : Tools!BeginRead(m, o, l)
    <3>1. read'.shown = <<>> /\ read'.step = "asking" /\ read'.offset = read'.first
      BY <2>1 DEF Tools!BeginRead
    <3>2. (read # Tools!Idle)' => Shown(0)'
      <4>1. SUFFICES ASSUME (read # Tools!Idle)' PROVE Shown(0)'
        OBVIOUS
      <4>2. read'.first \in Nat
        BY <1>0, <4>1 DEF ReadTyped, ReadRecords
      <4>3. \A items, from : ShownFrom(items, read'.first, from, 0) = <<>>
        BY <4>2, NothingShown
      <4> QED  BY <3>1, <4>2, <4>3 DEF Shown
    <3>3. 0 \in Nat
      OBVIOUS
    <3> QED  BY <3>2, <3>3 DEF ShownHolds
  <2>2. CASE Tools!ReadPage
    <3>1. ~read.changed => \E n \in Nat : Shown(n)'
      BY <2>2, PageShown
    <3>2. UNCHANGED read.changed
      BY <2>2, Pages
    <3> QED  BY <3>1, <3>2 DEF ShownHolds
  <2>3. CASE Tools!Rewrite
    <3>1. read \in ReadRecords /\ read' = [read EXCEPT !.changed = TRUE]
      BY <2>3 DEF Tools!Rewrite, ReadTyped, Tools!Idle
    <3>2. read'.changed
      BY <3>1 DEF ReadRecords
    <3> QED  BY <3>2 DEF ShownHolds
  <2>4. CASE Tools!EndRead
    BY <2>4 DEF Tools!EndRead, ShownHolds, Tools!Idle
  <2> QED  BY <1>2, <2>1, <2>2, <2>3, <2>4 DEF Tools!Reading
<1> QED  BY <1>1, <1>2, NotReading

\* A read that ended has shown the items to the end, and its hints held.
LEMMA CoverIsShown ==
  ASSUME Patchable, ReadTyped, ShownHolds
  PROVE  PagesCover /\ HintsHold
<1>1. CASE read = Tools!Idle \/ read.changed
  BY <1>1 DEF PagesCover, Tools!PagesCover, HintsHold, Tools!HintsHold
<1>2. CASE read # Tools!Idle /\ ~read.changed
  <2> DEFINE items == Tools!Items(read.mode)
             from  == Tools!Start(read.mode, read.first)
  <2>1. PICK n \in Nat : Shown(n)
    BY <1>2 DEF ShownHolds
  <2>2. /\ read \in ReadRecords /\ read.mode \in {"text", "binary", "dir"} /\ read.first \in Nat
        /\ file \in Files /\ (read.mode = "dir" \/ read.mode = file.kind)
    BY <1>2 DEF ReadTyped, Patchable, ReadRecords
  <2>3. items \in Seq(Nat)
    BY <2>2, ItemsTyped
  <2>4. from \in Int /\ Len(items) \in Nat
    BY <2>2, <2>3 DEF Tools!Start
  <2>5. HintsHold
    <3>1. read.step = "refused" => read.shown = <<>>
      BY <2>1 DEF Shown, ShownFrom
    <3>2. read.step = "lost" => read.shown = <<>> \/ (read.mode = "text" /\ split >= read.offset)
      BY <2>1 DEF Shown, ShownFrom
    <3> QED  BY <3>1, <3>2 DEF HintsHold, Tools!HintsHold
  <2>6. PagesCover
    <3>1. SUFFICES ASSUME read.step = "done"
                   PROVE  read.shown = [k \in 1..Tools!Max({0, Len(items) - from}) |->
                            [number |-> read.first + k - 1, item |-> items[from + k]]]
      BY DEF PagesCover, Tools!PagesCover
    <3>2. /\ read.shown = ShownFrom(items, read.first, from, n)
          /\ n = IF Len(items) > from THEN Len(items) - from ELSE 0
      BY <2>1, <3>1 DEF Shown
    <3> HIDE DEF items, from
    <3>3. Tools!Max({0, Len(items) - from}) = n
      <4> DEFINE d == Len(items) - from
      <4>1. d \in Int
        BY <2>4
      <4>2. n = IF 0 >= d THEN 0 ELSE d
        BY <2>4, <3>2
      <4> HIDE DEF d
      <4>3. Tools!Max({0, d}) = IF 0 >= d THEN 0 ELSE d
        BY <4>1, MaxOfTwo
      <4> QED  BY <4>2, <4>3 DEF d
    <3> QED  BY <3>2, <3>3 DEF ShownFrom
  <2> QED  BY <2>5, <2>6
<1> QED  BY <1>1, <1>2

\* The row that begins at line i is the i-th exactly when no line before it ends in
\* a lone carriage return.
LEMMA RowNumbers ==
  ASSUME NEW lines \in Seq(Line), NEW m \in 1..Len(Tools!Rows(lines))
  PROVE  m = Tools!Rows(lines)[m] <=>
           \A j \in 1..(Tools!Rows(lines)[m] - 1) : lines[j].eol # "cr"
<1> DEFINE S == RowStarts(lines)
           i == Tools!Rows(lines)[m]
           B == {j \in S : j < i}
<1>1. i \in S /\ Cardinality(B) = m - 1
  BY RowsAreStarts
<1>2. i \in 1..Len(lines) /\ i \in Nat /\ m \in Int
  BY RowsAreStarts
<1>3. B \in SUBSET (1..(i - 1))
  BY <1>2, DOMAIN lines = 1..Len(lines) DEF RowStarts
<1>4. IsFiniteSet(1..(i - 1)) /\ Cardinality(1..(i - 1)) = i - 1
  <2> HIDE DEF i
  <2>1. i - 1 \in Int /\ 1 \in Int /\ i >= 1
    BY <1>2
  <2> DEFINE b == i - 1
  <2>2. b \in Int /\ b >= 0
    BY <1>2
  <2> HIDE DEF b
  <2>3. IsFiniteSet(1..b) /\ Cardinality(1..b) = IF 1 > b THEN 0 ELSE b - 1 + 1
    BY <2>2, FS_Interval
  <2>4. Cardinality(1..b) = b
    BY <2>2, <2>3
  <2> QED  BY <2>3, <2>4 DEF b
<1>5. B = 1..(i - 1) <=> \A j \in 1..(i - 1) : lines[j].eol # "cr"
  <2>1. \A j \in 1..Len(lines) : j \in S <=> j = 1 \/ lines[j - 1].eol # "cr"
    BY DOMAIN lines = 1..Len(lines) DEF RowStarts
  <2>2. ASSUME B = 1..(i - 1), NEW j \in 1..(i - 1) PROVE lines[j].eol # "cr"
    <3>1. j + 1 \in S
      <4> HIDE DEF S, i
      <4>1. CASE j + 1 = i
        BY <1>1, <4>1
      <4>2. CASE j + 1 # i
        <5>1. j + 1 \in 1..(i - 1)
          BY <1>2, <4>2
        <5> QED  BY <2>2, <5>1
      <4> QED  BY <4>1, <4>2
    <3>2. j + 1 \in 1..Len(lines) /\ j + 1 # 1 /\ (j + 1) - 1 = j
      BY <1>2
    <3> QED  BY <2>1, <3>1, <3>2
  <2>3. ASSUME \A j \in 1..(i - 1) : lines[j].eol # "cr", NEW k \in 1..(i - 1) PROVE k \in B
    <3>1. k \in 1..Len(lines) /\ (k = 1 \/ k - 1 \in 1..(i - 1)) /\ k < i
      BY <1>2
    <3>2. k \in S
      BY <2>1, <2>3, <3>1
    <3> QED  BY <3>1, <3>2
  <2> HIDE DEF B
  <2> QED  BY <1>3, <2>2, <2>3
<1> HIDE DEF B, i
<1>6. Cardinality(B) = i - 1 <=> B = 1..(i - 1)
  BY <1>3, <1>4, FS_Subset
<1>7. m = i <=> m - 1 = i - 1
  BY <1>2
<1> QED  BY <1>1, <1>5, <1>6, <1>7 DEF i

\* The rows shown have the numbers of their lines up to a lone carriage return.
LEMMA NumbersAreShown ==
  ASSUME Patchable, ReadTyped, ShownHolds
  PROVE  NumbersAgree
<1>1. SUFFICES ASSUME read # Tools!Idle, read.mode = "text", ~read.changed, NEW k \in DOMAIN read.shown
               PROVE  read.shown[k].number = read.shown[k].item <=>
                        \A j \in 1..(read.shown[k].item - 1) : file.lines[j].eol # "cr"
  BY DEF NumbersAgree, Tools!NumbersAgree
<1> DEFINE items == Tools!Items(read.mode)
           from  == Tools!Start(read.mode, read.first)
<1>2. PICK n \in Nat : Shown(n)
  BY <1>1 DEF ShownHolds
<1>3. /\ file \in Files /\ read.mode = file.kind /\ read.mode \in {"text", "binary", "dir"} /\ read.first \in Nat
  BY <1>1 DEF ReadTyped, Patchable, ReadRecords
<1>4. file.lines \in Seq(Line) /\ items = Tools!Rows(file.lines)
  BY <1>1, <1>3, ItemsTyped
<1>5. k \in 1..n /\ read.shown[k] = [number |-> read.first + k - 1, item |-> items[from + k]]
  BY <1>2 DEF Shown, ShownFrom
<1>6. from = read.first - 1 /\ from >= 0 /\ from + n <= Len(items)
  BY <1>1, <1>2, <1>5 DEF Shown, Tools!Start
<1> HIDE DEF items, from
<1> DEFINE m == read.first + k - 1
<1>7. from + k = m /\ m \in 1..Len(items)
  <2>1. Len(items) \in Nat
    BY <1>4, RowsAreStarts
  <2> QED  BY <1>3, <1>5, <1>6, <2>1
<1>8. m = items[m] <=> \A j \in 1..(items[m] - 1) : file.lines[j].eol # "cr"
  <2> HIDE DEF m
  <2> QED  BY <1>4, <1>7, RowNumbers
<1> QED  BY <1>5, <1>7, <1>8

-----------------------------------------------------------------------------
(* Binary patches: the operations in order, and what is accepted.          *)

\* The hunks lie in the file one by one.
HunksAccepted(total) == \A k \in DOMAIN patch : HunkAccepted(patch[k], total)

Op(total) == {o \in [start : 0..total, end : 0..total, body : Seq(Text), order : DOMAIN patch] :
                o.start <= o.end}

\* What a hunk becomes: an operation on a range, or at a boundary.
LEMMA OperationTyped ==
  ASSUME patch \in Seq(Hunk), NEW total \in Nat, HunksAccepted(total), NEW k \in DOMAIN patch
  PROVE  /\ Operation(k, total) \in Op(total) /\ Operation(k, total).order = k
         /\ Operation(k, total).body = patch[k].body
         /\ patch[k].op = "append" => /\ Operation(k, total).start = Boundary(patch[k], total)
                                      /\ Operation(k, total).end = Boundary(patch[k], total)
         /\ patch[k].op # "append" => /\ Operation(k, total).start = patch[k].from
                                      /\ Operation(k, total).end = patch[k].from + patch[k].len
                                      /\ Operation(k, total).start < Operation(k, total).end
<1>1. /\ patch[k] \in Hunk /\ HunkAccepted(patch[k], total)
  BY DEF HunksAccepted
<1>2. /\ patch[k].from \in Nat /\ patch[k].len \in Nat /\ patch[k].len > 0
      /\ patch[k].body \in Seq(Text) /\ patch[k].after \in Nat \cup {-1}
      /\ patch[k].op \in {"delete", "append", "replace"}
  BY <1>1, PatchAssumption DEF Hunk, HunkAccepted, Text
<1>3. CASE patch[k].op = "append"
  <2>1. Boundary(patch[k], total) \in 0..total
    BY <1>1, <1>2, <1>3 DEF Boundary, HunkAccepted
  <2>2. Operation(k, total) = [start |-> Boundary(patch[k], total), end |-> Boundary(patch[k], total),
                               body |-> patch[k].body, order |-> k]
    BY <1>3 DEF Operation
  <2> HIDE DEF Boundary
  <2> QED  BY <1>2, <1>3, <2>1, <2>2 DEF Op
<1>4. CASE patch[k].op # "append"
  <2>1. ByteRangeEnd(patch[k], total) # {}
    BY <1>1, <1>4 DEF HunkAccepted
  <2>2. patch[k].from + patch[k].len <= total
    BY <2>1 DEF ByteRangeEnd, CheckedAdd
  <2>3. Operation(k, total) = [start |-> patch[k].from, end |-> patch[k].from + patch[k].len,
                               body |-> patch[k].body, order |-> k]
    BY <1>4 DEF Operation
  <2>4. /\ patch[k].from \in 0..total /\ patch[k].from + patch[k].len \in 0..total
        /\ patch[k].from < patch[k].from + patch[k].len
    BY <1>2, <2>2
  <2> DEFINE a == patch[k].from
             b == patch[k].from + patch[k].len
  <2> HIDE DEF a, b
  <2>5. a \in 0..total /\ b \in 0..total /\ a < b /\ a <= b
    <3>1. a < b => a <= b
      BY <2>4 DEF a, b
    <3> QED  BY <2>4, <3>1 DEF a, b
  <2>6. Operation(k, total) = [start |-> a, end |-> b, body |-> patch[k].body, order |-> k]
    BY <2>3 DEF a, b
  <2>7. Operation(k, total) \in Op(total)
    BY <1>2, <2>5, <2>6 DEF Op
  <2> QED  BY <1>4, <2>5, <2>6, <2>7 DEF a, b
<1> QED  BY <1>3, <1>4

\* The comparison apply_binary_hunks sorts with is a strict total order.
LEMMA PrecedesOrders ==
  ASSUME NEW total \in Nat, DOMAIN patch \subseteq Nat, NEW all \in SUBSET Op(total),
         \A p, q \in all : p.order = q.order => p = q
  PROVE  LET R == {x \in all \X all : Precedes(x[1], x[2])} IN
         /\ Orders(R, all)
         /\ \A p, q \in all : <<p, q>> \in R <=> Precedes(p, q)
<1> DEFINE R == {x \in all \X all : Precedes(x[1], x[2])}
<1>1. \A p, q \in all : <<p, q>> \in R <=> Precedes(p, q)
  OBVIOUS
<1>2. \A p \in all : p.start \in Nat /\ p.end \in Nat /\ p.order \in Nat /\ p.start <= p.end
  BY DEF Op
<1> HIDE DEF R
<1>3. \A p \in all : ~ Precedes(p, p)
  BY <1>2 DEF Precedes
<1>4. ASSUME NEW p \in all, NEW q \in all PROVE p = q \/ Precedes(p, q) \/ Precedes(q, p)
  <2>1. p.order = q.order \/ p.order < q.order \/ q.order < p.order
    BY <1>2
  <2>2. p.order = q.order => p = q
    OBVIOUS
  <2> QED  BY <1>2, <2>1, <2>2 DEF Precedes
<1>5. ASSUME NEW p \in all, NEW q \in all, NEW r \in all, Precedes(p, q), Precedes(q, r)
      PROVE  Precedes(p, r)
  BY <1>2, <1>5 DEF Precedes
<1> QED  BY <1>1, <1>3, <1>4, <1>5 DEF Orders, R

\* The sorted operations are those of the hunks, each once, in that order.
LEMMA OperationsSorted ==
  ASSUME patch \in Seq(Hunk), NEW total \in Nat, HunksAccepted(total)
  PROVE  LET ops == Operations(total)
             n   == Len(patch)
         IN  /\ ops \in [1..n -> Op(total)]
             /\ \A i \in 1..n : ops[i] = Operation(ops[i].order, total)
             /\ \A k \in 1..n : \E i \in 1..n : ops[i] = Operation(k, total)
             /\ \A i, j \in 1..n : i < j => Precedes(ops[i], ops[j]) /\ ~Precedes(ops[j], ops[i])
<1> DEFINE n == Len(patch)
           all == {Operation(k, total) : k \in DOMAIN patch}
           R == {x \in all \X all : Precedes(x[1], x[2])}
           first(m) == CHOOSE p \in all : Cardinality({q \in all : Precedes(q, p)}) = m - 1
           ops == Operations(total)
<1>1. DOMAIN patch = 1..n /\ n \in Nat
  OBVIOUS
<1>2. /\ \A k \in 1..n : Operation(k, total) \in Op(total) /\ Operation(k, total).order = k
      /\ all \in SUBSET Op(total) /\ \A p \in all : p = Operation(p.order, total) /\ p.order \in 1..n
      /\ \A p, q \in all : p.order = q.order => p = q
  <2>1. \A k \in 1..n : Operation(k, total) \in Op(total) /\ Operation(k, total).order = k
    BY <1>1, OperationTyped
  <2> HIDE DEF n
  <2> QED  BY <1>1, <2>1
<1>3. IsFiniteSet(all) /\ Cardinality(all) = n
  <2> DEFINE f == [k \in 1..n |-> Operation(k, total)]
  <2>1. f \in [1..n -> all] /\ \A p \in all : \E k \in 1..n : f[k] = p
    BY <1>1
  <2>2. \A j, k \in 1..n : f[j] = f[k] => j = k
    BY <1>2
  <2>3. f \in Bijection(1..n, all)
    <3> HIDE DEF f, all, n
    <3> QED  BY <2>1, <2>2 DEF Bijection, Injection, IsInjective, Surjection
  <2>4. ExistsBijection(1..n, all)
    <3> HIDE DEF f, all, n
    <3> QED  BY <2>3 DEF ExistsBijection
  <2>5. IsFiniteSet(1..n) /\ Cardinality(1..n) = n
    <3> HIDE DEF n
    <3>1. IsFiniteSet(1..n) /\ Cardinality(1..n) = IF 1 > n THEN 0 ELSE n - 1 + 1
      BY <1>1, FS_Interval
    <3> QED  BY <1>1, <3>1
  <2> HIDE DEF all, n
  <2> QED  BY <2>4, <2>5, FS_Bijection
<1>4. /\ Orders(R, all)
      /\ \A p, q \in all : <<p, q>> \in R <=> Precedes(p, q)
  <2>1. DOMAIN patch \subseteq Nat
    BY <1>1
  <2> HIDE DEF all
  <2> QED  BY <1>2, <2>1, PrecedesOrders
<1> HIDE DEF R
<1>5. \A p \in all : Rank(p, R, all) = Cardinality({q \in all : Precedes(q, p)})
  <2> SUFFICES ASSUME NEW p \in all PROVE Rank(p, R, all) = Cardinality({q \in all : Precedes(q, p)})
    OBVIOUS
  <2> HIDE DEF all
  <2>1. SetLessThan(p, R, all) = {q \in all : Precedes(q, p)}
    BY <1>4 DEF SetLessThan
  <2> QED  BY <2>1 DEF Rank
<1>6. ops = [m \in 1..n |-> first(m)]
  BY <1>1 DEF Operations
<1> HIDE DEF all, n, ops
<1>7. ASSUME NEW m \in 1..n PROVE ops[m] \in all /\ Rank(ops[m], R, all) = m - 1
  <2>1. \E p \in all : Rank(p, R, all) = m - 1
    BY <1>3, <1>4, Ranking
  <2>2. \E p \in all : Cardinality({q \in all : Precedes(q, p)}) = m - 1
    BY <1>5, <2>1
  <2>3. first(m) \in all /\ Cardinality({q \in all : Precedes(q, first(m))}) = m - 1
    BY <2>2
  <2> HIDE DEF first
  <2> QED  BY <1>5, <1>6, <2>3
<1> HIDE DEF first
<1>8. /\ \A p \in all : Rank(p, R, all) \in 0..(n - 1)
      /\ \A p, q \in all : Precedes(p, q) => Rank(p, R, all) < Rank(q, R, all)
  BY <1>3, <1>4, RankIsMonotone
<1>9. \A p, q \in all : Rank(p, R, all) = Rank(q, R, all) => p = q
  <2> SUFFICES ASSUME NEW p \in all, NEW q \in all, p # q PROVE Rank(p, R, all) # Rank(q, R, all)
    OBVIOUS
  <2>1. Precedes(p, q) \/ Precedes(q, p)
    BY <1>4 DEF Orders
  <2> QED  BY <1>1, <1>8, <2>1
<1>10. ASSUME NEW i \in 1..n, NEW j \in 1..n, i < j
       PROVE  Precedes(ops[i], ops[j]) /\ ~Precedes(ops[j], ops[i])
  <2>1. /\ ops[i] \in all /\ ops[j] \in all
        /\ Rank(ops[i], R, all) = i - 1 /\ Rank(ops[j], R, all) = j - 1
    BY <1>7
  <2>2. ~Precedes(ops[j], ops[i])
    BY <1>1, <1>8, <1>10, <2>1
  <2>3. ops[i] # ops[j]
    BY <1>1, <1>10, <2>1
  <2> QED  BY <1>4, <2>1, <2>2, <2>3 DEF Orders
<1>11. ASSUME NEW k \in 1..n PROVE \E i \in 1..n : ops[i] = Operation(k, total)
  <2> DEFINE p == Operation(k, total)
             i == Rank(p, R, all) + 1
  <2>1. p \in all
    BY <1>1 DEF all, n
  <2> HIDE DEF p
  <2>2. i \in 1..n /\ i - 1 = Rank(p, R, all)
    BY <1>1, <1>8, <2>1
  <2> HIDE DEF i
  <2>3. ops[i] = p
    BY <1>7, <1>9, <2>1, <2>2
  <2> QED  BY <2>2, <2>3 DEF p
<1>12. ops \in [1..n -> Op(total)] /\ \A i \in 1..n : ops[i] = Operation(ops[i].order, total)
  BY <1>2, <1>6, <1>7
<1> QED  BY <1>10, <1>11, <1>12 DEF n, ops

\* Sorted operations, each beginning where the ones before it have ended.
Sequential(ops, n) == \A i, j \in 1..n : i < j => ops[i].end <= ops[j].start

\* That no operation starts before the cursor says they follow one another.
LEMMA CursorsGiveSequence ==
  ASSUME patch \in Seq(Hunk), NEW total \in Nat, HunksAccepted(total)
  PROVE  LET ops == Operations(total) IN
         (\A k \in DOMAIN ops : ops[k].start >= Cursor(ops, k)) <=> Sequential(ops, Len(patch))
<1> DEFINE ops == Operations(total)
           n == Len(patch)
<1>1. /\ ops \in [1..n -> Op(total)] /\ n \in Nat
      /\ \A i, j \in 1..n : i < j => Precedes(ops[i], ops[j])
  BY OperationsSorted
<1> HIDE DEF ops, n
<1>2. \A i \in 1..n : ops[i].start \in Nat /\ ops[i].end \in Nat /\ ops[i].start <= ops[i].end
  <2>1. \A i \in 1..n : ops[i] \in Op(total)
    BY <1>1
  <2> QED  BY <2>1 DEF Op
<1>3. ASSUME \A k \in 1..n : ops[k].start >= Cursor(ops, k), NEW i \in 1..n, NEW j \in 1..n, i < j
      PROVE  ops[i].end <= ops[j].start
  <2>1. i + 1 \in 1..n /\ i + 1 # 1 /\ (i + 1) - 1 = i
    BY <1>1, <1>3
  <2>2. ops[i].end <= ops[i + 1].start
    BY <1>2, <1>3, <2>1 DEF Cursor
  <2>3. i + 1 = j \/ ops[i + 1].start <= ops[j].start
    <3>1. i + 1 = j \/ Precedes(ops[i + 1], ops[j])
      BY <1>1, <1>3, <2>1
    <3> QED  BY <1>2, <2>1, <3>1 DEF Precedes
  <2> DEFINE a == ops[i + 1].start
  <2>4. a \in Nat /\ ops[i].end \in Nat /\ ops[j].start \in Nat
    BY <1>2, <2>1
  <2> HIDE DEF a
  <2>5. ops[i].end <= a /\ (i + 1 = j => a = ops[j].start) /\ (i + 1 # j => a <= ops[j].start)
    BY <2>2, <2>3 DEF a
  <2> QED  BY <2>4, <2>5
<1>4. ASSUME Sequential(ops, n), NEW k \in 1..n PROVE ops[k].start >= Cursor(ops, k)
  <2>1. CASE k = 1
    BY <1>2, <2>1 DEF Cursor
  <2>2. CASE k # 1
    <3>1. k - 1 \in 1..n /\ k - 1 < k
      BY <1>1, <2>2
    <3> QED  BY <1>2, <1>4, <2>2, <3>1 DEF Cursor, Sequential
  <2> QED  BY <2>1, <2>2
<1>5. DOMAIN ops = 1..n
  BY <1>1
<1> QED  BY <1>3, <1>4, <1>5 DEF Sequential, ops, n

\* What an instruction is in the order of the operations.
LEMMA Positions ==
  ASSUME patch \in Seq(Hunk), NEW total \in Nat, HunksAccepted(total), NEW k \in DOMAIN patch
  PROVE  \E i \in 1..Len(patch) :
           LET o == Operations(total)[i] IN
           /\ o \in Op(total) /\ o.order = k /\ o.body = patch[k].body
           /\ k \in Inserts => o.start = Boundary(patch[k], total) /\ o.end = o.start
           /\ k \in Ranges => /\ o.start = patch[k].from /\ o.start < o.end
                              /\ o.end = patch[k].from + patch[k].len
<1>1. k \in 1..Len(patch)
  OBVIOUS
<1>2. PICK i \in 1..Len(patch) : Operations(total)[i] = Operation(k, total)
  BY <1>1, OperationsSorted
<1> QED  BY <1>2, OperationTyped DEF Inserts, Ranges, Places

\* The offsets a hunk covers are an interval.
LEMMA AtIs ==
  ASSUME NEW hunk \in Hunk
  PROVE  /\ \A x : x \in At(hunk) <=> x \in Int /\ hunk.from <= x /\ x < hunk.from + hunk.len
         /\ hunk.from \in Nat /\ hunk.len \in Nat
<1>1. hunk.from \in Nat /\ hunk.len \in Nat
  BY PatchAssumption DEF Hunk
<1> QED  BY <1>1 DEF At

\* What apply_binary_hunks accepts is what the reference calls apart.
LEMMA AcceptedIsApart ==
  ASSUME patch \in Seq(Hunk), NEW total \in Nat, total < UsizeMax
  PROVE  BytesAccepted(total) <=> RangesApart(total)
<1> DEFINE ops == Operations(total)
           n == Len(patch)
           Inside ==
             /\ \A k \in DOMAIN patch : patch[k].op = "delete" \/ Len(patch[k].body) = patch[k].len
             /\ \A k \in Ranges : At(patch[k]) # {} /\ At(patch[k]) \subseteq 0..(total - 1)
             /\ \A k \in Inserts : patch[k].body # <<>> /\ Boundary(patch[k], total) <= total
           Apart2 ==
             /\ \A j, k \in Ranges : j # k => At(patch[j]) \cap At(patch[k]) = {}
             /\ \A k \in Inserts, j \in Ranges :
                  Boundary(patch[k], total) \notin At(patch[j]) \ {patch[j].from}
<1>1. RangesApart(total) <=> patch # <<>> /\ Inside /\ Apart2
  BY DEF RangesApart
<1>2. BytesAccepted(total) <=>
        patch # <<>> /\ HunksAccepted(total) /\ (\A k \in DOMAIN ops : ops[k].start >= Cursor(ops, k))
  BY DEF BytesAccepted, HunksAccepted
<1>3. \A k \in DOMAIN patch : /\ patch[k] \in Hunk /\ patch[k].op \in {"delete", "append", "replace"}
                              /\ patch[k].body \in Seq(Text) /\ Len(patch[k].body) \in Nat
                              /\ patch[k].from \in Nat /\ patch[k].len \in Nat
  <2> SUFFICES ASSUME NEW k \in DOMAIN patch
               PROVE  /\ patch[k] \in Hunk /\ patch[k].op \in {"delete", "append", "replace"}
                      /\ patch[k].body \in Seq(Text) /\ Len(patch[k].body) \in Nat
                      /\ patch[k].from \in Nat /\ patch[k].len \in Nat
    OBVIOUS
  <2>1. patch[k] \in Hunk
    OBVIOUS
  <2>2. patch[k].op \in {"delete", "append", "replace"} /\ patch[k].body \in Seq(Text)
    BY <2>1 DEF Hunk, Text
  <2> QED  BY <2>1, <2>2, AtIs
<1>4. ASSUME NEW k \in DOMAIN patch
      PROVE  HunkAccepted(patch[k], total) <=>
               /\ patch[k].op = "delete" \/ Len(patch[k].body) = patch[k].len
               /\ k \in Ranges => At(patch[k]) # {} /\ At(patch[k]) \subseteq 0..(total - 1)
               /\ k \in Inserts => patch[k].body # <<>> /\ Boundary(patch[k], total) <= total
  <2> DEFINE h == patch[k]
             b == Boundary(h, total)
  <2>1. /\ h.op \in {"delete", "append", "replace"} /\ h.from \in Nat /\ h.len \in Nat
        /\ Len(h.body) \in Nat /\ h.body \in Seq(Text)
    BY <1>3
  <2>2. ByteRangeEnd(h, total) # {} <=> h.from + h.len <= total
    <3>1. UsizeMax \in Nat
      BY PatchAssumption
    <3> HIDE DEF h
    <3> QED  BY <2>1, <3>1 DEF ByteRangeEnd, CheckedAdd
  <2>3. HunkAccepted(h, total) <=>
          /\ h.len > 0
          /\ h.op # "delete" => Len(h.body) = h.len
          /\ h.op # "append" => h.from + h.len <= total
          /\ h.op = "append" => b <= total
    BY <2>2 DEF HunkAccepted
  <2>4. h.body = <<>> <=> Len(h.body) = 0
    <3> HIDE DEF h
    <3> QED  BY <2>1
  <2>5. (At(h) # {} <=> h.len > 0) /\ (h.len > 0 => (At(h) \subseteq 0..(total - 1) <=> h.from + h.len <= total))
    <3>1. \A x : x \in At(h) <=> x \in Int /\ h.from <= x /\ x < h.from + h.len
      BY <1>3, AtIs
    <3> HIDE DEF h
    <3>2. h.len > 0 => h.from \in At(h) /\ h.from + h.len - 1 \in At(h)
      BY <2>1, <3>1
    <3>3. h.len = 0 => At(h) = {}
      BY <2>1, <3>1
    <3>4. h.from + h.len <= total => At(h) \subseteq 0..(total - 1)
      BY <2>1, <3>1
    <3>5. h.len > 0 /\ At(h) \subseteq 0..(total - 1) => h.from + h.len <= total
      <4>1. ASSUME h.len > 0, At(h) \subseteq 0..(total - 1) PROVE h.from + h.len <= total
        <5>1. h.from + h.len - 1 \in 0..(total - 1)
          BY <3>2, <4>1
        <5> QED  BY <2>1, <5>1
      <4> QED  BY <4>1
    <3> QED  BY <2>1, <3>2, <3>3, <3>4, <3>5
  <2>6. (k \in Ranges <=> h.op \in {"replace", "delete"}) /\ (k \in Inserts <=> h.op = "append")
    BY DEF Ranges, Inserts, Places
  <2> HIDE DEF h, b
  <2>7. CASE h.op = "append"
    BY <2>1, <2>3, <2>4, <2>6, <2>7 DEF h, b
  <2>8. CASE h.op = "delete"
    BY <2>1, <2>3, <2>5, <2>6, <2>8 DEF h, b
  <2>9. CASE h.op = "replace"
    BY <2>1, <2>3, <2>5, <2>6, <2>9 DEF h, b
  <2> QED  BY <2>1, <2>7, <2>8, <2>9
<1>5. HunksAccepted(total) <=> Inside
  <2>1. Ranges \subseteq DOMAIN patch /\ Inserts \subseteq DOMAIN patch
    BY DEF Ranges, Inserts, Places
  <2> QED  BY <1>4, <2>1 DEF HunksAccepted
<1>6. ASSUME HunksAccepted(total) PROVE Sequential(ops, n) <=> Apart2
  <2>1. /\ n \in Nat /\ ops \in [1..n -> Op(total)]
        /\ \A i, j \in 1..n : i < j => Precedes(ops[i], ops[j]) /\ ~Precedes(ops[j], ops[i])
        /\ \A i \in 1..n : ops[i].order \in DOMAIN patch /\ ops[i] = Operation(ops[i].order, total)
    <3>1. ops \in [1..n -> Op(total)] /\ n \in Nat
      BY <1>6, OperationsSorted
    <3>2. \A i \in 1..n : ops[i].order \in DOMAIN patch
      BY <3>1 DEF Op
    <3> QED  BY <1>6, <3>1, <3>2, OperationsSorted
  <2>2. \A i \in 1..n : LET o == ops[i] IN
          /\ o.start \in Nat /\ o.end \in Nat /\ o.start <= o.end
    <3>1. \A i \in 1..n : ops[i] \in Op(total)
      BY <2>1
    <3> HIDE DEF ops, n
    <3> QED  BY <3>1 DEF Op
  <2>3. \A i \in 1..n : LET o == ops[i]
                            k == ops[i].order IN
          \/ k \in Inserts /\ o.start = Boundary(patch[k], total) /\ o.end = o.start
          \/ /\ k \in Ranges /\ o.start = patch[k].from /\ o.start < o.end
             /\ o.end = patch[k].from + patch[k].len
    <3> SUFFICES ASSUME NEW i \in 1..n
                 PROVE  LET o == ops[i]
                            k == ops[i].order IN
                        \/ k \in Inserts /\ o.start = Boundary(patch[k], total) /\ o.end = o.start
                        \/ /\ k \in Ranges /\ o.start = patch[k].from /\ o.start < o.end
                           /\ o.end = patch[k].from + patch[k].len
      OBVIOUS
    <3> DEFINE k == ops[i].order
    <3>1. k \in DOMAIN patch /\ ops[i] = Operation(k, total)
      BY <2>1
    <3> HIDE DEF k, ops
    <3>2. patch[k].op \in {"delete", "append", "replace"}
      BY <1>3, <3>1
    <3>3. k \in Inserts \/ (k \in Ranges /\ patch[k].op # "append")
      BY <3>1, <3>2 DEF Inserts, Ranges, Places
    <3> QED  BY <1>6, <3>1, <3>3, OperationTyped DEF k, Inserts, Places
  <2>4. \A k \in DOMAIN patch : \E i \in 1..n : ops[i].order = k
    BY <1>6, Positions
  <2>5. \A k \in Ranges : \A x : x \in At(patch[k]) <=>
          x \in Int /\ patch[k].from <= x /\ x < patch[k].from + patch[k].len
    BY <1>3, AtIs DEF Ranges, Places
  <2>6. /\ Ranges \subseteq DOMAIN patch /\ Inserts \subseteq DOMAIN patch
        /\ \A k : ~(k \in Ranges /\ k \in Inserts)
    BY DEF Ranges, Inserts, Places
  <2> HIDE DEF ops, n
  <2>7. ASSUME Sequential(ops, n) PROVE Apart2
    <3>1. ASSUME NEW j \in Ranges, NEW k \in Ranges, j # k PROVE At(patch[j]) \cap At(patch[k]) = {}
      <4>1. PICK a \in 1..n : ops[a].order = j
        BY <2>4, <2>6
      <4>2. PICK b \in 1..n : ops[b].order = k
        BY <2>4, <2>6
      <4>3. a < b \/ b < a
        BY <2>1, <3>1, <4>1, <4>2
      <4>4. ops[a].end <= ops[b].start \/ ops[b].end <= ops[a].start
        BY <2>7, <4>3 DEF Sequential
      <4>5. /\ ops[a].start = patch[j].from /\ ops[a].end = patch[j].from + patch[j].len
            /\ ops[b].start = patch[k].from /\ ops[b].end = patch[k].from + patch[k].len
        BY <2>3, <2>6, <4>1, <4>2
      <4>6. \/ patch[j].from + patch[j].len <= patch[k].from
            \/ patch[k].from + patch[k].len <= patch[j].from
        BY <4>4, <4>5
      <4>7. /\ patch[j].from \in Nat /\ patch[j].len \in Nat
            /\ patch[k].from \in Nat /\ patch[k].len \in Nat
        BY <1>3, <2>6
      <4>8. SUFFICES ASSUME NEW x, x \in At(patch[j]), x \in At(patch[k]) PROVE FALSE
        OBVIOUS
      <4>9. /\ x \in Int /\ patch[j].from <= x /\ x < patch[j].from + patch[j].len
            /\ patch[k].from <= x /\ x < patch[k].from + patch[k].len
        BY <2>5, <4>8
      <4> DEFINE f == patch[j].from
                 l == patch[j].len
                 g == patch[k].from
                 m == patch[k].len
      <4>10. /\ f \in Nat /\ l \in Nat /\ g \in Nat /\ m \in Nat /\ x \in Int
             /\ f + l <= g \/ g + m <= f
             /\ f <= x /\ x < f + l /\ g <= x /\ x < g + m
        BY <4>6, <4>7, <4>9
      <4> HIDE DEF f, l, g, m
      <4> QED  BY <4>10
    <3>2. ASSUME NEW k \in Inserts, NEW j \in Ranges
          PROVE  Boundary(patch[k], total) \notin At(patch[j]) \ {patch[j].from}
      <4>1. PICK a \in 1..n : ops[a].order = j
        BY <2>4, <2>6
      <4>2. PICK b \in 1..n : ops[b].order = k
        BY <2>4, <2>6
      <4>3. a < b \/ b < a
        BY <2>1, <2>6, <4>1, <4>2
      <4>4. ops[a].end <= ops[b].start \/ ops[b].end <= ops[a].start
        BY <2>7, <4>3 DEF Sequential
      <4>5. /\ ops[a].start = patch[j].from /\ ops[a].end = patch[j].from + patch[j].len
            /\ ops[b].start = Boundary(patch[k], total) /\ ops[b].end = Boundary(patch[k], total)
        BY <2>3, <2>6, <4>1, <4>2
      <4> DEFINE g == Boundary(patch[k], total)
      <4>6. g \in Nat /\ (patch[j].from + patch[j].len <= g \/ g <= patch[j].from)
        BY <2>2, <4>4, <4>5
      <4>7. patch[j].from \in Nat /\ patch[j].len \in Nat
        BY <1>3, <2>6
      <4>8. g \in At(patch[j]) <=> g \in Int /\ patch[j].from <= g /\ g < patch[j].from + patch[j].len
        BY <2>5
      <4> HIDE DEF g
      <4>9. g \in At(patch[j]) => g = patch[j].from
        BY <4>6, <4>7, <4>8
      <4> QED  BY <4>9 DEF g
    <3> QED  BY <3>1, <3>2
  <2>8. ASSUME Apart2, NEW a \in 1..n, NEW b \in 1..n, a < b PROVE ops[a].end <= ops[b].start
    <3> DEFINE j == ops[a].order
               k == ops[b].order
    <3>1. /\ Precedes(ops[a], ops[b]) /\ ~Precedes(ops[b], ops[a]) /\ j \in DOMAIN patch /\ k \in DOMAIN patch
          /\ j # k
      <4>1. /\ Precedes(ops[a], ops[b]) /\ ~Precedes(ops[b], ops[a]) /\ j \in DOMAIN patch /\ k \in DOMAIN patch
            /\ ops[a] = Operation(j, total) /\ ops[b] = Operation(k, total)
        BY <2>1, <2>8
      <4> HIDE DEF j, k
      <4>2. SUFFICES ASSUME j = k PROVE FALSE
        BY <4>1
      <4>3. ops[a] = ops[b]
        BY <4>1, <4>2
      <4> QED  BY <4>1, <4>3
    <3>2. /\ ops[a].start \in Nat /\ ops[a].end \in Nat /\ ops[b].start \in Nat /\ ops[b].end \in Nat
          /\ ops[a].start <= ops[b].start
      BY <2>2, <3>1 DEF Precedes
    <3>3. CASE j \in Inserts
      <4>1. ops[a].end = ops[a].start
        BY <2>3, <2>6, <3>3
      <4> QED  BY <3>2, <4>1
    <3>4. CASE j \in Ranges /\ k \in Ranges
      <4>1. /\ ops[a].start = patch[j].from /\ ops[a].end = patch[j].from + patch[j].len
            /\ ops[b].start = patch[k].from /\ ops[b].end = patch[k].from + patch[k].len
            /\ ops[b].start < ops[b].end
        BY <2>3, <2>6, <3>4
      <4>2. ops[b].start \in At(patch[k])
        BY <2>5, <3>2, <3>4, <4>1
      <4>3. ops[b].start \notin At(patch[j])
        BY <2>8, <3>1, <3>4, <4>2
      <4> QED  BY <2>5, <3>2, <3>4, <4>1, <4>3
    <3>5. CASE j \in Ranges /\ k \in Inserts
      <4>1. /\ ops[a].start = patch[j].from /\ ops[a].end = patch[j].from + patch[j].len
            /\ ops[a].start < ops[a].end
            /\ ops[b].start = Boundary(patch[k], total) /\ ops[b].end = ops[b].start
        BY <2>3, <2>6, <3>5
      <4>2. ops[b].start \notin At(patch[j]) \ {patch[j].from}
        BY <2>8, <3>5, <4>1
      <4>3. ops[b].start # ops[a].start
        BY <3>1, <3>2, <4>1 DEF Precedes
      <4> QED  BY <2>5, <3>2, <3>5, <4>1, <4>2, <4>3
    <3>6. j \in Inserts \/ (j \in Ranges /\ k \in Ranges) \/ (j \in Ranges /\ k \in Inserts)
      BY <2>3
    <3> QED  BY <3>3, <3>4, <3>5, <3>6
  <2> HIDE DEF Apart2
  <2> QED  BY <2>7, <2>8 DEF Sequential
<1>7. HunksAccepted(total) =>
        ((\A k \in DOMAIN ops : ops[k].start >= Cursor(ops, k)) <=> Sequential(ops, n))
  BY CursorsGiveSequence
<1> HIDE DEF ops, n, Inside, Apart2
<1> QED  BY <1>1, <1>2, <1>5, <1>6, <1>7

-----------------------------------------------------------------------------
(* Binary patches: what is written is what the hunks mean.                 *)

\* Where the i-th operation lies, and what it stands for.
Stands(o, total) ==
  /\ o.order \in DOMAIN patch /\ o.body = patch[o.order].body
  /\ \/ /\ o.order \in Inserts
        /\ o.start = Boundary(patch[o.order], total) /\ o.end = o.start
     \/ /\ o.order \in Ranges /\ o.start < o.end
        /\ o.start = patch[o.order].from /\ o.end = patch[o.order].from + patch[o.order].len

\* The operations of an accepted patch, in order.
Laid(ops, total) ==
  /\ ops \in [1..Len(patch) -> Op(total)]
  /\ \A i \in 1..Len(patch) : Stands(ops[i], total)
  /\ \A k \in DOMAIN patch : \E i \in 1..Len(patch) : ops[i].order = k
  /\ Sequential(ops, Len(patch))
  /\ \A i, j \in 1..Len(patch) : i < j /\ ops[i].start = ops[j].start /\ ops[j].start = ops[j].end =>
       ops[i].start = ops[i].end /\ ops[i].order < ops[j].order
  /\ \A i, j \in 1..Len(patch) : i < j => ops[i].order # ops[j].order

\* The operations of a patch that is accepted, laid out over the bytes.
LEMMA AcceptedIsLaid ==
  ASSUME patch \in Seq(Hunk), NEW total \in Nat, BytesAccepted(total)
  PROVE  Laid(Operations(total), total)
<1> DEFINE ops == Operations(total)
           n == Len(patch)
<1>1. HunksAccepted(total) /\ \A k \in DOMAIN ops : ops[k].start >= Cursor(ops, k)
  BY DEF BytesAccepted, HunksAccepted
<1>2. Sequential(ops, n)
  BY <1>1, CursorsGiveSequence
<1>3. /\ ops \in [1..n -> Op(total)]
      /\ \A i \in 1..n : ops[i] = Operation(ops[i].order, total)
      /\ \A k \in 1..n : \E i \in 1..n : ops[i] = Operation(k, total)
      /\ \A i, j \in 1..n : i < j => Precedes(ops[i], ops[j]) /\ ~Precedes(ops[j], ops[i])
  BY <1>1, OperationsSorted
<1>4. \A i \in 1..n : ops[i] \in Op(total)
  BY <1>3
<1> HIDE DEF ops
<1>5. \A i \in 1..n : Stands(ops[i], total)
  <2> SUFFICES ASSUME NEW i \in 1..n PROVE Stands(ops[i], total)
    OBVIOUS
  <2> DEFINE k == ops[i].order
  <2>1. k \in DOMAIN patch
    BY <1>4 DEF Op
  <2>2. patch[k] \in Hunk
    BY <2>1
  <2>3. ops[i] = Operation(k, total)
    BY <1>3
  <2> HIDE DEF k
  <2>4. patch[k].op \in {"delete", "append", "replace"}
    BY <2>2 DEF Hunk
  <2>5. /\ k = Operation(k, total).order /\ ops[i].body = patch[k].body
        /\ patch[k].op = "append" => /\ ops[i].start = Boundary(patch[k], total)
                                     /\ ops[i].end = ops[i].start
        /\ patch[k].op # "append" => /\ ops[i].start = patch[k].from /\ ops[i].start < ops[i].end
                                     /\ ops[i].end = patch[k].from + patch[k].len
    BY <1>1, <2>1, <2>3, OperationTyped
  <2>6. k \in Inserts \/ k \in Ranges
    BY <2>1, <2>4 DEF Inserts, Ranges, Places
  <2>7. (k \in Inserts => patch[k].op = "append") /\ (k \in Ranges => patch[k].op # "append")
    BY DEF Inserts, Ranges, Places
  <2> QED  BY <2>1, <2>3, <2>5, <2>6, <2>7 DEF Stands
<1>6. \A k \in DOMAIN patch : \E i \in 1..n : ops[i].order = k
  <2> SUFFICES ASSUME NEW k \in DOMAIN patch PROVE \E i \in 1..n : ops[i].order = k
    OBVIOUS
  <2>1. Operation(k, total).order = k
    BY <1>1, OperationTyped
  <2>2. k \in 1..n
    OBVIOUS
  <2> QED  BY <1>3, <2>1, <2>2
<1>7. ASSUME NEW i \in 1..n, NEW j \in 1..n, i < j, ops[i].start = ops[j].start, ops[j].start = ops[j].end
      PROVE  ops[i].start = ops[i].end /\ ops[i].order < ops[j].order
  <2>1. Precedes(ops[i], ops[j])
    BY <1>3, <1>7
  <2>2. /\ ops[i].start \in Nat /\ ops[j].start \in Nat /\ ops[i].end \in Nat /\ ops[j].end \in Nat
    BY <1>4 DEF Op
  <2> QED  BY <1>7, <2>1, <2>2 DEF Precedes
<1>8. ASSUME NEW i \in 1..n, NEW j \in 1..n, i < j PROVE ops[i].order # ops[j].order
  <2>1. /\ Precedes(ops[i], ops[j]) /\ ~Precedes(ops[j], ops[i])
        /\ ops[i] = Operation(ops[i].order, total) /\ ops[j] = Operation(ops[j].order, total)
    BY <1>3, <1>8
  <2>2. SUFFICES ASSUME ops[i].order = ops[j].order PROVE FALSE
    OBVIOUS
  <2>3. ops[i] = ops[j]
    BY <2>1, <2>2
  <2> QED  BY <2>1, <2>3
<1> QED  BY <1>2, <1>3, <1>5, <1>6, <1>7, <1>8 DEF Laid, ops

\* What an insertion brings to a boundary, and what a boundary has after the first
\* instructions.
Puts(g, total) ==
  [k \in DOMAIN patch |-> IF k \in Inserts /\ Boundary(patch[k], total) = g THEN patch[k].body ELSE <<>>]
In(g, total) == JoinOf(Puts(g, total), Text)

\* What is inserted at a boundary, one hunk at a time.
LEMMA InIs ==
  ASSUME patch \in Seq(Hunk), NEW total, NEW g
  PROVE  /\ In(g, total) \in [0..Len(patch) -> Seq(Text)]
         /\ In(g, total)[0] = <<>>
         /\ \A k \in 1..Len(patch) : /\ In(g, total)[k] = In(g, total)[k - 1] \o Puts(g, total)[k]
                                     /\ Puts(g, total)[k] \in Seq(Text)
         /\ Added(g, total) = In(g, total)[Len(patch)]
         /\ Added(g, total) \in Seq(Text)
<1>1. \A k \in DOMAIN patch : patch[k].body \in Seq(Text)
  <2>1. \A k \in DOMAIN patch : patch[k] \in Hunk
    OBVIOUS
  <2> QED  BY <2>1 DEF Hunk, Text
<1>2. DOMAIN patch = 1..Len(patch) /\ Len(patch) \in Nat
  OBVIOUS
<1>3. Puts(g, total) \in Seq(Seq(Text)) /\ Len(Puts(g, total)) = Len(patch)
  BY <1>1, <1>2 DEF Puts
<1>4. Added(g, total) = FlattenSeq(Puts(g, total))
  BY DEF Added, Puts
<1>5. \A k \in 1..Len(patch) : Puts(g, total)[k] \in Seq(Text)
  BY <1>3
<1>6. /\ In(g, total) \in [0..Len(patch) -> Seq(Text)]
      /\ In(g, total)[0] = <<>>
      /\ \A k \in 1..Len(patch) : In(g, total)[k] = In(g, total)[k - 1] \o Puts(g, total)[k]
      /\ Added(g, total) = In(g, total)[Len(patch)]
  BY <1>3, <1>4, JoinOfIs DEF In
<1>7. Added(g, total) \in Seq(Text)
  BY <1>2, <1>6
<1> QED  BY <1>5, <1>6, <1>7

\* A boundary has nothing more when no insertion goes there.
LEMMA InStays ==
  ASSUME patch \in Seq(Hunk), NEW total, NEW g, NEW a \in 0..Len(patch), NEW b \in 0..Len(patch), a <= b,
         \A k \in Inserts : Boundary(patch[k], total) = g => k <= a \/ b < k
  PROVE  In(g, total)[b] = In(g, total)[a]
<1> DEFINE n == Len(patch)
           f == In(g, total)
           seqs == Puts(g, total)
<1>1. n \in Nat
  OBVIOUS
<1>2. f \in [0..n -> Seq(Text)] /\ \A k \in 1..n : f[k] = f[k - 1] \o seqs[k]
  <2>1. /\ f \in [0..n -> Seq(Text)] /\ f[0] = <<>>
        /\ \A k \in 1..n : f[k] = f[k - 1] \o seqs[k] /\ seqs[k] \in Seq(Text)
    BY InIs
  <2> QED  BY <2>1
<1>3. ASSUME NEW k \in 1..n, a < k, k <= b PROVE seqs[k] = <<>>
  <2>1. k \in DOMAIN patch /\ k \in Nat /\ a \in Nat /\ b \in Nat
    OBVIOUS
  <2>2. ~(k \in Inserts /\ Boundary(patch[k], total) = g)
    BY <1>3, <2>1
  <2> QED  BY <2>1, <2>2 DEF Puts
<1>4. a \in 0..n /\ b \in 0..n
  OBVIOUS
<1> HIDE DEF n, f, seqs
<1>5. Grows(f, n, seqs, Text) /\ Nothing(seqs, n, a, b) /\ a <= b
  BY <1>2, <1>3 DEF Grows, Nothing
<1>6. f[b] = f[a]
  BY <1>1, <1>4, <1>5, JoinNothing
<1> QED  BY <1>6 DEF f

\* What becomes of one byte.
LEMMA KeptIs ==
  ASSUME patch \in Seq(Hunk), NEW bytes \in Seq(Text), RangesApart(Len(bytes)), NEW i \in 1..Len(bytes)
  PROVE  /\ (\A k \in Ranges : i - 1 \notin At(patch[k])) => Kept(bytes, i) = <<bytes[i]>>
         /\ \A k \in Ranges : i - 1 \in At(patch[k]) =>
              /\ patch[k].op = "delete" => Kept(bytes, i) = <<>>
              /\ patch[k].op # "delete" => /\ i - patch[k].from \in 1..Len(patch[k].body)
                                           /\ Kept(bytes, i) = <<patch[k].body[i - patch[k].from]>>
         /\ Kept(bytes, i) \in Seq(Text)
<1> DEFINE over == {k \in Ranges : i - 1 \in At(patch[k])}
<1>1. /\ \A k \in Ranges : /\ k \in DOMAIN patch /\ patch[k] \in Hunk /\ patch[k].body \in Seq(Text)
                           /\ \A x : x \in At(patch[k]) <=>
                                x \in Int /\ patch[k].from <= x /\ x < patch[k].from + patch[k].len
                           /\ patch[k].from \in Nat /\ patch[k].len \in Nat
  <2> SUFFICES ASSUME NEW k \in Ranges
               PROVE  /\ k \in DOMAIN patch /\ patch[k] \in Hunk /\ patch[k].body \in Seq(Text)
                      /\ \A x : x \in At(patch[k]) <=>
                           x \in Int /\ patch[k].from <= x /\ x < patch[k].from + patch[k].len
                      /\ patch[k].from \in Nat /\ patch[k].len \in Nat
    OBVIOUS
  <2>1. k \in DOMAIN patch
    BY DEF Ranges, Places
  <2>2. patch[k] \in Hunk
    BY <2>1
  <2>3. patch[k].body \in Seq(Text)
    BY <2>2 DEF Hunk, Text
  <2> QED  BY <2>1, <2>2, <2>3, AtIs
<1>2. CASE over = {}
  <2>1. Kept(bytes, i) = <<bytes[i]>>
    BY <1>2 DEF Kept
  <2>2. bytes[i] \in Text
    OBVIOUS
  <2> QED  BY <1>2, <2>1, <2>2
<1>3. CASE over # {}
  <2> DEFINE r == CHOOSE k \in over : TRUE
  <2>1. r \in Ranges /\ i - 1 \in At(patch[r])
    BY <1>3
  <2>2. Kept(bytes, i) = IF patch[r].op = "delete" THEN <<>> ELSE <<patch[r].body[i - patch[r].from]>>
    BY <1>3 DEF Kept
  <2> HIDE DEF r
  <2>3. \A k \in Ranges : i - 1 \in At(patch[k]) => k = r
    BY <2>1 DEF RangesApart
  <2>4. patch[r].op # "delete" => i - patch[r].from \in 1..Len(patch[r].body)
    <3>1. patch[r].op # "delete" => Len(patch[r].body) = patch[r].len
      BY <1>1, <2>1 DEF RangesApart
    <3>2. patch[r].from <= i - 1 /\ i - 1 < patch[r].from + patch[r].len /\ patch[r].from \in Nat /\ patch[r].len \in Nat
      BY <1>1, <2>1
    <3> DEFINE f == patch[r].from
               l == patch[r].len
    <3>3. f <= i - 1 /\ i - 1 < f + l /\ f \in Nat /\ l \in Nat
      BY <3>2
    <3> HIDE DEF f, l
    <3>4. i - f \in 1..l
      BY <3>3
    <3> QED  BY <3>1, <3>4 DEF f, l
  <2>5. Kept(bytes, i) \in Seq(Text)
    <3>1. patch[r].op # "delete" => patch[r].body[i - patch[r].from] \in Text
      BY <1>1, <2>1, <2>4, ElementOfSeq
    <3> QED  BY <2>2, <3>1
  <2> QED  BY <2>1, <2>2, <2>3, <2>4, <2>5
<1> QED  BY <1>2, <1>3

\* The patched bytes up to a boundary with what is added there (Till) and without
\* it (Upto), and with the first insertions there (Done).
Pieces(bytes) == [i \in DOMAIN bytes |-> Kept(bytes, i) \o Added(i, Len(bytes))]
Till(bytes, c) == Added(0, Len(bytes)) \o JoinOf(Pieces(bytes), Text)[c]
Upto(bytes, c) == IF c = 0 THEN <<>> ELSE Till(bytes, c - 1) \o Kept(bytes, c)
Done(bytes, c, k) == Upto(bytes, c) \o In(c, Len(bytes))[k]

\* Concatenation keeps the type.
LEMMA ConcatTyped ==
  \A r, s \in Seq(Text) : r \o s \in Seq(Text)
BY ConcatProperties

\* Concatenation is associative.
LEMMA ConcatGroups ==
  \A r, s, t \in Seq(Text) : r \o (s \o t) = (r \o s) \o t
BY ConcatAssociative

\* Concatenation is associative: four sequences.
LEMMA FourGroups ==
  \A p, q, r, s \in Seq(Text) : Both(p, Both(q, Both(r, s))) = Both(Both(Both(p, q), r), s)
<1>1. \A r, s \in Seq(Text) : Both(r, s) \in Seq(Text)
  BY ConcatTyped DEF Both
<1>2. \A r, s, t \in Seq(Text) : Both(r, Both(s, t)) = Both(Both(r, s), t)
  BY ConcatGroups DEF Both
<1> QED  BY <1>1, <1>2

\* What the reference has written up to an offset, before and after the insertions there.
LEMMA TillIs ==
  ASSUME patch \in Seq(Hunk), NEW bytes \in Seq(Text), RangesApart(Len(bytes)), NEW c \in 0..Len(bytes)
  PROVE  /\ Till(bytes, c) \in Seq(Text) /\ Upto(bytes, c) \in Seq(Text)
         /\ Till(bytes, c) = Upto(bytes, c) \o Added(c, Len(bytes))
         /\ BytesAsRead(bytes) = Till(bytes, Len(bytes))
<1> DEFINE total == Len(bytes)
           j == JoinOf(Pieces(bytes), Text)
<1>1. total \in Nat /\ DOMAIN bytes = 1..total
  OBVIOUS
<1>2. \A i \in 1..total : Kept(bytes, i) \in Seq(Text)
  BY KeptIs
<1>3. \A i : Added(i, total) \in Seq(Text)
  BY InIs
<1>4. \A i \in 1..total : Kept(bytes, i) \o Added(i, total) \in Seq(Text)
  BY <1>2, <1>3, ConcatTyped
<1>5. /\ Pieces(bytes) \in Seq(Seq(Text)) /\ Len(Pieces(bytes)) = total
      /\ \A i \in 1..total : Pieces(bytes)[i] = Kept(bytes, i) \o Added(i, total)
  BY <1>1, <1>4 DEF Pieces
<1>6. /\ j \in [0..total -> Seq(Text)] /\ j[0] = <<>>
      /\ \A i \in 1..total : j[i] = j[i - 1] \o Pieces(bytes)[i]
      /\ FlattenSeq(Pieces(bytes)) = j[total]
  BY <1>5, JoinOfIs
<1>7. BytesAsRead(bytes) = Till(bytes, total)
  BY <1>6 DEF BytesAsRead, Till, Pieces
<1> HIDE DEF j, total
<1>8. \A i \in 0..total : Till(bytes, i) = Added(0, total) \o j[i] /\ Till(bytes, i) \in Seq(Text)
  <2>1. \A i \in 0..total : Till(bytes, i) = Added(0, total) \o j[i] /\ j[i] \in Seq(Text)
    BY <1>6 DEF Till, j, total
  <2> QED  BY <1>3, <2>1, ConcatTyped
<1>9. c \in 0..total
  BY DEF total
<1>10. CASE c = 0
  <2>1. Upto(bytes, 0) = <<>> /\ Till(bytes, 0) = Added(0, total) \o <<>>
    BY <1>6, <1>8, <1>9, <1>10 DEF Upto
  <2>2. Till(bytes, 0) = Added(0, total) /\ Added(0, total) = <<>> \o Added(0, total)
    BY <1>3, <2>1, ConcatEmptySeq
  <2>3. <<>> \in Seq(Text)
    OBVIOUS
  <2> QED  BY <1>3, <1>7, <1>10, <2>1, <2>2, <2>3 DEF total
<1>11. CASE c # 0
  <2>1. c \in 1..total /\ c - 1 \in 0..total
    BY <1>1, <1>9, <1>11
  <2>2. /\ Upto(bytes, c) = Till(bytes, c - 1) \o Kept(bytes, c) /\ Till(bytes, c - 1) \in Seq(Text)
        /\ Kept(bytes, c) \in Seq(Text)
    BY <1>2, <1>8, <1>11, <2>1 DEF Upto, total
  <2>3. Upto(bytes, c) \in Seq(Text)
    BY <2>2, ConcatTyped
  <2>4. j[c] = j[c - 1] \o (Kept(bytes, c) \o Added(c, total)) /\ j[c - 1] \in Seq(Text)
    BY <1>5, <1>6, <2>1 DEF total
  <2>5. Till(bytes, c) = Upto(bytes, c) \o Added(c, total)
    <3> DEFINE a0 == Added(0, total)
               kc == Kept(bytes, c)
               ac == Added(c, total)
               jc == j[c - 1]
    <3>1. a0 \in Seq(Text) /\ kc \in Seq(Text) /\ ac \in Seq(Text) /\ jc \in Seq(Text)
      BY <1>3, <2>2, <2>4
    <3>2. Till(bytes, c) = Both(a0, Both(jc, Both(kc, ac))) /\ Upto(bytes, c) = Both(Both(a0, jc), kc)
      <4>1. Till(bytes, c) = a0 \o j[c] /\ Till(bytes, c - 1) = a0 \o jc
        BY <1>8, <1>9, <2>1
      <4>2. j[c] = jc \o (kc \o ac) /\ Upto(bytes, c) = Till(bytes, c - 1) \o kc
        BY <2>2, <2>4
      <4> QED  BY <4>1, <4>2 DEF Both
    <3> HIDE DEF a0, kc, ac, jc
    <3>3. Both(a0, Both(jc, Both(kc, ac))) = Both(Both(Both(a0, jc), kc), ac)
      BY <3>1, FourGroups
    <3>4. Till(bytes, c) = Both(Upto(bytes, c), ac)
      BY <3>2, <3>3
    <3> QED  BY <3>4 DEF ac, Both
  <2> QED  BY <1>7, <1>8, <1>9, <2>3, <2>5 DEF total
<1> QED  BY <1>10, <1>11

\* What is written up to an offset and some of the insertions there, hunk by hunk.
LEMMA DoneIs ==
  ASSUME patch \in Seq(Hunk), NEW bytes \in Seq(Text), RangesApart(Len(bytes)), NEW c \in 0..Len(bytes)
  PROVE  /\ Done(bytes, c, 0) = Upto(bytes, c)
         /\ Done(bytes, c, Len(patch)) = Till(bytes, c)
         /\ \A k \in 0..Len(patch) : Done(bytes, c, k) \in Seq(Text)
         /\ \A k \in 1..Len(patch) : Done(bytes, c, k) = Done(bytes, c, k - 1) \o Puts(c, Len(bytes))[k]
<1> DEFINE n == Len(patch)
           f == In(c, Len(bytes))
           u == Upto(bytes, c)
           p == Puts(c, Len(bytes))
           a == Added(c, Len(bytes))
<1>1. /\ f \in [0..n -> Seq(Text)] /\ f[0] = <<>> /\ a = f[n]
      /\ \A k \in 1..n : f[k] = f[k - 1] \o p[k] /\ p[k] \in Seq(Text)
  BY InIs
<1>2. u \in Seq(Text) /\ Till(bytes, c) = u \o a
  BY TillIs
<1>3. n \in Nat /\ \A k : Done(bytes, c, k) = u \o f[k]
  BY DEF Done
<1> HIDE DEF n, f, u, p, a
<1>4. Done(bytes, c, 0) = u
  BY <1>1, <1>2, <1>3, ConcatEmptySeq
<1>5. ASSUME NEW k \in 0..n PROVE f[k] \in Seq(Text) /\ Done(bytes, c, k) \in Seq(Text)
  <2>1. f[k] \in Seq(Text)
    BY <1>1
  <2>2. u \o f[k] \in Seq(Text)
    BY <1>2, <2>1, ConcatTyped
  <2> QED  BY <1>3, <2>1, <2>2
<1>6. ASSUME NEW k \in 1..n PROVE Done(bytes, c, k) = Done(bytes, c, k - 1) \o p[k]
  <2>1. k - 1 \in 0..n
    BY <1>3
  <2>2. f[k] = f[k - 1] \o p[k] /\ p[k] \in Seq(Text) /\ f[k - 1] \in Seq(Text)
    BY <1>1, <1>5, <2>1
  <2>3. u \o (f[k - 1] \o p[k]) = (u \o f[k - 1]) \o p[k]
    BY <1>2, <2>2, ConcatGroups
  <2> QED  BY <1>3, <2>2, <2>3
<1> QED  BY <1>1, <1>2, <1>3, <1>4, <1>5, <1>6 DEF n, u, p

\* What is put in place of a run of bytes.
Run(bytes, v, s, e) ==
  /\ v \in [s..e -> Seq(Text)] /\ v[s] = <<>>
  /\ \A i \in (s + 1)..e : v[i] = v[i - 1] \o Kept(bytes, i)

\* Bytes with nothing inserted between them are written one after the other.
LEMMA RunIs ==
  ASSUME patch \in Seq(Hunk), NEW bytes \in Seq(Text), RangesApart(Len(bytes)),
         NEW s \in 0..Len(bytes), NEW e \in 0..Len(bytes), s < e, NEW v, Run(bytes, v, s, e),
         \A t \in (s + 1)..(e - 1) : Added(t, Len(bytes)) = <<>>
  PROVE  Till(bytes, s) \o v[e] = Upto(bytes, e)
<1> DEFINE total == Len(bytes)
           S == {i \in 0..total : s < i /\ i <= e => Till(bytes, s) \o v[i] = Upto(bytes, i)}
<1>1. total \in Nat /\ s \in 0..total /\ e \in 0..total /\ \A t \in (s + 1)..(e - 1) : Added(t, total) = <<>>
  OBVIOUS
<1>2. /\ \A i \in s..e : v[i] \in Seq(Text)
      /\ v[s] = <<>> /\ \A i \in (s + 1)..e : v[i] = v[i - 1] \o Kept(bytes, i)
  BY DEF Run
<1>3. \A i \in 0..total : /\ Till(bytes, i) \in Seq(Text) /\ Upto(bytes, i) \in Seq(Text)
                          /\ Till(bytes, i) = Upto(bytes, i) \o Added(i, total)
  BY TillIs
<1>4. \A i \in 1..total : Kept(bytes, i) \in Seq(Text) /\ Upto(bytes, i) = Till(bytes, i - 1) \o Kept(bytes, i)
  BY KeptIs DEF Upto
<1> HIDE DEF total
<1>5. 0 \in S
  BY <1>1
<1>6. ASSUME NEW i \in 1..total, i - 1 \in S PROVE i \in S
  <2>1. SUFFICES ASSUME s < i, i <= e PROVE Till(bytes, s) \o v[i] = Upto(bytes, i)
    BY <1>1
  <2> DEFINE t == Till(bytes, s)
             k == Kept(bytes, i)
             w == v[i - 1]
  <2>2. /\ i - 1 \in 0..total /\ i - 1 \in s..e /\ i \in (s + 1)..e
        /\ s < i - 1 => i - 1 \in (s + 1)..(e - 1)
    BY <1>1, <2>1
  <2>3. /\ v[i] = w \o k /\ w \in Seq(Text) /\ k \in Seq(Text) /\ t \in Seq(Text)
        /\ Upto(bytes, i) = Till(bytes, i - 1) \o k
    BY <1>1, <1>2, <1>3, <1>4, <2>2
  <2>4. t \o w = Till(bytes, i - 1)
    <3>1. CASE s = i - 1
      <4>1. w = <<>> /\ Till(bytes, i - 1) = t
        BY <1>2, <3>1
      <4> QED  BY <2>3, <4>1, ConcatEmptySeq
    <3>2. CASE s # i - 1
      <4>1. s < i - 1
        BY <1>1, <2>1, <3>2
      <4>2. t \o w = Upto(bytes, i - 1)
        BY <1>1, <1>6, <2>1, <4>1
      <4>3. Added(i - 1, total) = <<>>
        BY <1>1, <2>2, <4>1
      <4>4. Till(bytes, i - 1) = Upto(bytes, i - 1) \o <<>> /\ Upto(bytes, i - 1) \in Seq(Text)
        BY <1>3, <2>2, <4>3
      <4>5. Till(bytes, i - 1) = Upto(bytes, i - 1)
        BY <4>4, ConcatEmptySeq
      <4> QED  BY <4>2, <4>5
    <3> QED  BY <3>1, <3>2
  <2> HIDE DEF t, k, w
  <2>5. t \o (w \o k) = (t \o w) \o k
    BY <2>3, ConcatGroups
  <2> QED  BY <2>3, <2>4, <2>5 DEF t
<1>7. 0..total \subseteq S
  <2> HIDE DEF S
  <2> QED  BY <1>1, <1>5, <1>6, UpTo
<1> QED  BY <1>1, <1>7

\* Bytes no hunk names are copied.
LEMMA CopiedRun ==
  ASSUME patch \in Seq(Hunk), NEW bytes \in Seq(Text), RangesApart(Len(bytes)),
         NEW s \in 0..Len(bytes), NEW e \in 0..Len(bytes), s < e,
         \A i \in (s + 1)..e : \A k \in Ranges : i - 1 \notin At(patch[k])
  PROVE  \E v : Run(bytes, v, s, e) /\ v[e] = SubSeq(bytes, s + 1, e)
<1> DEFINE v == [i \in s..e |-> SubSeq(bytes, s + 1, i)]
<1>1. s \in Nat /\ e \in Nat /\ Len(bytes) \in Nat /\ e <= Len(bytes)
  OBVIOUS
<1>2. ASSUME NEW i \in s..e
      PROVE  SubSeq(bytes, s + 1, i) \in Seq(Text) /\ Len(SubSeq(bytes, s + 1, i)) = i - s
  <2>1. i \in Nat /\ s + 1 \in 1..(Len(bytes) + 1) /\ i \in s..Len(bytes)
    BY <1>1
  <2> QED  BY <1>1, <2>1, SubSeqProperties
<1>3. SubSeq(bytes, s + 1, s) = <<>>
  BY <1>1, <1>2, s \in s..e
<1>4. ASSUME NEW i \in (s + 1)..e
      PROVE  SubSeq(bytes, s + 1, i) = SubSeq(bytes, s + 1, i - 1) \o Kept(bytes, i)
  <2>1. i \in 1..Len(bytes) /\ i - 1 \in s..e /\ i \in s..e /\ bytes[i] \in Text
    BY <1>1
  <2>11. Kept(bytes, i) = <<bytes[i]>>
    <3>1. \A k \in Ranges : i - 1 \notin At(patch[k])
      OBVIOUS
    <3> QED  BY <2>1, <3>1, KeptIs
  <2>2. SubSeq(bytes, s + 1, i) = SubSeq(bytes, s + 1, i - 1) \o <<bytes[i]>>
    <3> DEFINE x == SubSeq(bytes, s + 1, i)
               y == SubSeq(bytes, s + 1, i - 1)
               b == bytes[i]
    <3>1. x \in Seq(Text) /\ y \in Seq(Text) /\ Len(x) = i - s /\ Len(y) = i - 1 - s
      BY <1>2, <2>1
    <3>2. \A j \in 1..(i - s) : x[j] = bytes[s + j]
      BY <1>1
    <3>3. \A j \in 1..(i - 1 - s) : y[j] = bytes[s + j]
      BY <1>1
    <3>4. b \in Text /\ s + (i - s) = i /\ i - s \in Nat \ {0} /\ b = bytes[s + (i - s)]
      BY <1>1, <2>1
    <3>5. x[i - s] = b /\ \A j \in 1..(i - 1 - s) : x[j] = y[j]
      <4>1. i - s \in 1..(i - s)
        BY <3>4
      <4>2. x[i - s] = bytes[s + (i - s)]
        <5> HIDE DEF x
        <5> QED  BY <3>2, <4>1
      <4>3. \A j \in 1..(i - 1 - s) : j \in 1..(i - s)
        BY <1>1, <2>1
      <4>4. \A j \in 1..(i - 1 - s) : x[j] = bytes[s + j]
        <5> HIDE DEF x
        <5> QED  BY <3>2, <4>3
      <4> HIDE DEF x, y, b
      <4> QED  BY <3>3, <3>4, <4>2, <4>4
    <3>6. Len(x) = Len(y) + 1 /\ x[Len(x)] = b /\ \A j \in 1..Len(y) : x[j] = y[j]
      <4> HIDE DEF x, y, b
      <4> QED  BY <1>1, <2>1, <3>1, <3>5
    <3>7. x = y \o <<b>>
      <4> DEFINE T == Text
      <4> HIDE DEF x, y, b
      <4>1. x \in Seq(T) /\ y \in Seq(T) /\ b \in T
        BY <3>1, <3>4
      <4> HIDE DEF T
      <4> QED  BY <3>6, <4>1, OneMore
    <3> QED  BY <3>7
  <2> QED  BY <2>2, <2>11
<1>5. Run(bytes, v, s, e)
  <2>1. v \in [s..e -> Seq(Text)] /\ v[s] = <<>>
    BY <1>1, <1>2, <1>3
  <2>2. ASSUME NEW i \in (s + 1)..e PROVE v[i] = v[i - 1] \o Kept(bytes, i)
    <3>1. i \in s..e /\ i - 1 \in s..e
      BY <1>1
    <3>2. v[i] = SubSeq(bytes, s + 1, i) /\ v[i - 1] = SubSeq(bytes, s + 1, i - 1)
      BY <3>1
    <3> HIDE DEF v
    <3> QED  BY <1>4, <3>2
  <2> QED  BY <2>1, <2>2 DEF Run
<1>6. v[e] = SubSeq(bytes, s + 1, e)
  BY <1>1
<1> HIDE DEF v
<1> QED  BY <1>5, <1>6

\* The bytes of a range become its body.
LEMMA RangeRun ==
  ASSUME patch \in Seq(Hunk), NEW bytes \in Seq(Text), RangesApart(Len(bytes)), NEW k \in Ranges,
         patch[k].op = "delete" => patch[k].body = <<>>,
         NEW s, NEW e, s = patch[k].from, e = patch[k].from + patch[k].len
  PROVE  /\ s \in 0..Len(bytes) /\ e \in 0..Len(bytes)
         /\ \E v : Run(bytes, v, s, e) /\ v[e] = patch[k].body
<1> DEFINE b == patch[k].body
           l == patch[k].len
           f == patch[k].from
<1>1. k \in DOMAIN patch /\ patch[k] \in Hunk
  BY DEF Ranges, Places
<1>2. /\ b \in Seq(Text) /\ l \in Nat /\ f \in Nat /\ patch[k].op \in {"replace", "delete"}
      /\ \A x : x \in At(patch[k]) <=> x \in Int /\ f <= x /\ x < f + l
  <2>1. b \in Seq(Text) /\ patch[k].op \in {"replace", "delete"}
    BY <1>1 DEF Hunk, Text, Ranges, Places
  <2> QED  BY <1>1, <2>1, AtIs
<1>3. /\ At(patch[k]) # {} /\ At(patch[k]) \subseteq 0..(Len(bytes) - 1)
      /\ patch[k].op # "delete" => Len(b) = l
  BY <1>1 DEF RangesApart
<1>4. s = f /\ e = f + l
  OBVIOUS
<1>5. \A i \in 1..Len(bytes) : i - 1 \in At(patch[k]) =>
        /\ patch[k].op = "delete" => Kept(bytes, i) = <<>>
        /\ patch[k].op # "delete" => i - f \in 1..Len(b) /\ Kept(bytes, i) = <<b[i - f]>>
  BY KeptIs
<1>6. Len(bytes) \in Nat /\ (patch[k].op = "delete" => b = <<>>)
  OBVIOUS
<1> HIDE DEF b, l, f
<1>7. l > 0 /\ f + l <= Len(bytes)
  <2>1. l > 0
    BY <1>2, <1>3
  <2>2. f + l - 1 \in At(patch[k])
    BY <1>2, <2>1
  <2>3. f + l - 1 \in 0..(Len(bytes) - 1)
    BY <1>3, <2>2
  <2> QED  BY <1>2, <1>6, <2>1, <2>3
<1>8. ASSUME NEW i \in (s + 1)..e PROVE i \in 1..Len(bytes) /\ i - 1 \in At(patch[k])
  BY <1>2, <1>4, <1>6, <1>7, <1>8
<1>9. CASE patch[k].op = "delete"
  <2> DEFINE v == [i \in s..e |-> <<>>]
  <2>1. v \in [s..e -> Seq(Text)] /\ v[s] = <<>> /\ v[e] = b
    BY <1>2, <1>4, <1>6, <1>9
  <2>2. ASSUME NEW i \in (s + 1)..e PROVE v[i] = v[i - 1] \o Kept(bytes, i)
    <3>1. i \in s..e /\ i - 1 \in s..e /\ Kept(bytes, i) = <<>>
      BY <1>2, <1>4, <1>5, <1>8, <1>9
    <3>2. <<>> \o <<>> = <<>>
      OBVIOUS
    <3> QED  BY <3>1, <3>2
  <2>3. Run(bytes, v, s, e)
    BY <2>1, <2>2 DEF Run
  <2>4. s \in 0..Len(bytes) /\ e \in 0..Len(bytes)
    BY <1>2, <1>4, <1>6, <1>7
  <2> HIDE DEF v
  <2> QED  BY <2>1, <2>3, <2>4 DEF b
<1>10. CASE patch[k].op # "delete"
  <2> DEFINE v == [i \in s..e |-> SubSeq(b, 1, i - f)]
  <2>1. Len(b) = l
    BY <1>3, <1>10
  <2>2. ASSUME NEW i \in s..e
        PROVE  SubSeq(b, 1, i - f) \in Seq(Text) /\ Len(SubSeq(b, 1, i - f)) = i - f /\ i - f \in 0..l
    <3>1. i - f \in 0..l
      BY <1>2, <1>4
    <3> QED  BY <1>2, <2>1, <3>1, SubSeqProperties
  <2>3. v \in [s..e -> Seq(Text)]
    BY <2>2
  <2>4. v[s] = <<>> /\ v[e] = b
    <3>1. s \in s..e /\ e \in s..e /\ s - f = 0 /\ e - f = l
      BY <1>2, <1>4
    <3>2. SubSeq(b, 1, 0) = <<>> /\ SubSeq(b, 1, l) = b
      BY <1>2, <2>1
    <3> QED  BY <3>1, <3>2
  <2>5. ASSUME NEW i \in (s + 1)..e PROVE v[i] = v[i - 1] \o Kept(bytes, i)
    <3> DEFINE m == i - f
               x == SubSeq(b, 1, m)
               y == SubSeq(b, 1, m - 1)
    <3>1. i \in s..e /\ i - 1 \in s..e /\ (i - 1) - f = m - 1 /\ m \in 1..l /\ m - 1 \in 0..l
      BY <1>2, <1>4
    <3>2. Kept(bytes, i) = <<b[m]>>
      BY <1>5, <1>8, <1>10
    <3>3. v[i] = x /\ v[i - 1] = y
      BY <3>1
    <3> HIDE DEF m, v
    <3>4. x = y \o <<b[m]>>
      <4>1. b[m] \in Text
        BY <1>2, <2>1, <3>1, ElementOfSeq
      <4> QED  BY <1>2, <2>1, <3>1, <4>1
    <3> QED  BY <3>2, <3>3, <3>4
  <2>6. Run(bytes, v, s, e)
    BY <2>3, <2>4, <2>5 DEF Run
  <2>7. s \in 0..Len(bytes) /\ e \in 0..Len(bytes)
    BY <1>2, <1>4, <1>6, <1>7
  <2> HIDE DEF v
  <2> QED  BY <2>4, <2>6, <2>7 DEF b
<1> QED  BY <1>9, <1>10

\* The instruction up to which the insertions at the cursor are done after j
\* operations.
After(ops, j) == IF j # 0 /\ ops[j].start = ops[j].end THEN ops[j].order ELSE 0

\* The facts about laid out operations that the proofs below use.
LEMMA LaidIs ==
  ASSUME patch \in Seq(Hunk), NEW total \in Nat, NEW ops, Laid(ops, total)
  PROVE  /\ \A i \in 1..Len(patch) :
              /\ ops[i].start \in 0..total /\ ops[i].end \in 0..total /\ ops[i].start <= ops[i].end
              /\ ops[i].order \in 1..Len(patch) /\ ops[i].body = patch[ops[i].order].body
              /\ ops[i].body \in Seq(Text)
         /\ \A i, j \in 1..Len(patch) : i < j => ops[i].end <= ops[j].start
         /\ \A j \in 1..Len(patch) : Cursor(ops, j + 1) = ops[j].end
         /\ Cursor(ops, 1) = 0
         /\ \A j \in 0..Len(patch) : Cursor(ops, j + 1) \in 0..total /\ After(ops, j) \in 0..Len(patch)
         /\ \A k \in Inserts : \E i \in 1..Len(patch) :
              ops[i].order = k /\ ops[i].start = Boundary(patch[k], total) /\ ops[i].end = ops[i].start
         /\ \A k \in Ranges : \E i \in 1..Len(patch) :
              /\ ops[i].order = k
              /\ \A x : x \in At(patch[k]) => x \in Int /\ ops[i].start <= x /\ x < ops[i].end
<1> DEFINE n == Len(patch)
<1>1. n \in Nat /\ DOMAIN patch = 1..n
  OBVIOUS
<1>2. ASSUME NEW i \in 1..n
      PROVE  /\ ops[i].start \in 0..total /\ ops[i].end \in 0..total /\ ops[i].start <= ops[i].end
             /\ ops[i].order \in 1..n /\ ops[i].body = patch[ops[i].order].body
             /\ ops[i].body \in Seq(Text)
  <2>1. ops[i] \in Op(total)
    BY DEF Laid
  <2>2. Stands(ops[i], total)
    BY DEF Laid
  <2> QED  BY <1>1, <2>1, <2>2 DEF Op, Stands
<1>3. \A i, j \in 1..n : i < j => ops[i].end <= ops[j].start
  BY DEF Laid, Sequential
<1>4. (\A j \in 1..n : Cursor(ops, j + 1) = ops[j].end) /\ Cursor(ops, 1) = 0
  <2>1. \A j \in 1..n : j + 1 # 1 /\ (j + 1) - 1 = j
    BY <1>1
  <2> QED  BY <2>1 DEF Cursor
<1>5. \A k \in DOMAIN patch : \E i \in 1..n : ops[i].order = k /\ Stands(ops[i], total)
  BY DEF Laid
<1>6. \A k : ~(k \in Inserts /\ k \in Ranges)
  BY DEF Inserts, Ranges, Places
<1>7. ASSUME NEW k \in Inserts
      PROVE \E i \in 1..n :
              ops[i].order = k /\ ops[i].start = Boundary(patch[k], total) /\ ops[i].end = ops[i].start
  <2>1. k \in DOMAIN patch
    BY DEF Inserts, Places
  <2>2. PICK i \in 1..n : ops[i].order = k /\ Stands(ops[i], total)
    BY <1>5, <2>1
  <2> QED  BY <1>6, <2>2 DEF Stands
<1>8. ASSUME NEW k \in Ranges
      PROVE \E i \in 1..n :
              /\ ops[i].order = k
              /\ \A x : x \in At(patch[k]) => x \in Int /\ ops[i].start <= x /\ x < ops[i].end
  <2>1. k \in DOMAIN patch
    BY DEF Ranges, Places
  <2>2. PICK i \in 1..n : ops[i].order = k /\ Stands(ops[i], total)
    BY <1>5, <2>1
  <2>3. ops[i].start = patch[k].from /\ ops[i].end = patch[k].from + patch[k].len
    BY <1>6, <2>2 DEF Stands
  <2>4. patch[k] \in Hunk
    BY <2>1
  <2>5. \A x : x \in At(patch[k]) => x \in Int /\ patch[k].from <= x /\ x < patch[k].from + patch[k].len
    BY <2>4, AtIs
  <2> QED  BY <2>2, <2>3, <2>5
<1>9. ASSUME NEW j \in 0..n PROVE Cursor(ops, j + 1) \in 0..total /\ After(ops, j) \in 0..n
  <2>1. CASE j = 0
    BY <1>1, <1>4, <2>1 DEF After
  <2>2. CASE j # 0
    <3>1. j \in 1..n
      BY <1>1, <2>2
    <3> QED  BY <1>1, <1>2, <1>4, <3>1 DEF After
  <2> QED  BY <2>1, <2>2
<1> QED  BY <1>2, <1>3, <1>4, <1>7, <1>8, <1>9 DEF n

\* No insertion at or after the cursor has been done but those counted there.
LEMMA InsertedSoFar ==
  ASSUME patch \in Seq(Hunk), NEW total \in Nat, NEW ops, Laid(ops, total), NEW j \in 0..Len(patch),
         NEW i \in 1..Len(patch), i <= j, ops[i].start = ops[i].end, Cursor(ops, j + 1) <= ops[i].end
  PROVE  Cursor(ops, j + 1) = ops[i].end /\ ops[i].order <= After(ops, j)
<1> DEFINE n == Len(patch)
<1>1. j \in 1..n /\ n \in Nat /\ j # 0
  OBVIOUS
<1>2. /\ \A m \in 1..n : /\ ops[m].start \in 0..total /\ ops[m].end \in 0..total
                         /\ ops[m].start <= ops[m].end /\ ops[m].order \in 1..n
      /\ \A l, m \in 1..n : l < m => ops[l].end <= ops[m].start
      /\ Cursor(ops, j + 1) = ops[j].end
  <2>1. \A m \in 1..n : /\ ops[m].start \in 0..total /\ ops[m].end \in 0..total
                        /\ ops[m].start <= ops[m].end /\ ops[m].order \in 1..n
    BY LaidIs
  <2>2. \A l, m \in 1..n : l < m => ops[l].end <= ops[m].start
    BY LaidIs
  <2>3. Cursor(ops, j + 1) = ops[j].end
    BY <1>1, LaidIs
  <2> QED  BY <2>1, <2>2, <2>3
<1> HIDE DEF n
<1>3. CASE i = j
  BY <1>1, <1>2, <1>3 DEF After
<1>4. CASE i # j
  <2>1. i < j /\ i \in 1..n
    BY <1>1, <1>4 DEF n
  <2>2. /\ ops[i].end <= ops[j].start /\ ops[j].start <= ops[j].end /\ ops[j].end <= ops[i].end
        /\ ops[i].end \in Int /\ ops[j].start \in Int /\ ops[j].end \in Int
    BY <1>1, <1>2, <2>1
  <2>3. ops[i].end = ops[j].start /\ ops[j].start = ops[j].end
    BY <2>2
  <2>4. ops[i].order < ops[j].order
    <3>1. \A l, m \in 1..n : l < m /\ ops[l].start = ops[m].start /\ ops[m].start = ops[m].end =>
            ops[l].order < ops[m].order
      BY DEF Laid, n
    <3> QED  BY <1>1, <2>1, <2>3, <3>1
  <2>5. ops[i].order \in Int /\ ops[j].order \in Int
    BY <1>1, <1>2, <2>1
  <2> QED  BY <1>1, <1>2, <2>3, <2>4, <2>5 DEF After
<1> QED  BY <1>3, <1>4

\* From the cursor to where the next operation begins.
LEMMA CopyUpTo ==
  ASSUME patch \in Seq(Hunk), NEW bytes \in Seq(Text), RangesApart(Len(bytes)),
         NEW ops, Laid(ops, Len(bytes)), NEW j \in 0..Len(patch), NEW s \in 0..Len(bytes),
         Cursor(ops, j + 1) <= s, \A i \in 1..Len(patch) : j < i => s <= ops[i].start
  PROVE  Done(bytes, Cursor(ops, j + 1), After(ops, j)) \o SubSeq(bytes, Cursor(ops, j + 1) + 1, s)
           = Done(bytes, s, IF Cursor(ops, j + 1) < s THEN 0 ELSE After(ops, j))
<1> DEFINE n == Len(patch)
           total == Len(bytes)
           c == Cursor(ops, j + 1)
           a == After(ops, j)
<1>1. n \in Nat /\ total \in Nat
  OBVIOUS
<1>2. c \in 0..total /\ a \in 0..n
  BY <1>1, LaidIs
<1>3. CASE c = s
  <2>1. SubSeq(bytes, c + 1, s) = <<>>
    <3>1. s \in Nat /\ s + 1 \in Nat /\ s < s + 1
      OBVIOUS
    <3>2. SubSeq(bytes, s + 1, s) = <<>>
      BY <3>1
    <3> HIDE DEF c
    <3> QED  BY <1>3, <3>2
  <2>2. Done(bytes, s, a) \in Seq(Text)
    BY <1>2, DoneIs
  <2> HIDE DEF c, a
  <2>3. ~(c < s)
    BY <1>2, <1>3
  <2>4. Done(bytes, c, a) \o SubSeq(bytes, c + 1, s) = Done(bytes, s, a) \o <<>>
    BY <1>3, <2>1
  <2>5. Done(bytes, s, a) \o <<>> = Done(bytes, s, a)
    BY <2>2, ConcatEmptySeq
  <2>6. Done(bytes, c, a) \o SubSeq(bytes, c + 1, s) = Done(bytes, s, IF c < s THEN 0 ELSE a)
    BY <2>3, <2>4, <2>5
  <2> QED  BY <2>6 DEF c, a
<1>4. CASE c # s
  <2>1. c < s /\ s \in 0..total /\ c <= s
    BY <1>2, <1>4
  <2>2. ASSUME NEW k \in Inserts
        PROVE  \/ Boundary(patch[k], total) < c
               \/ Boundary(patch[k], total) = c /\ k <= a
               \/ s <= Boundary(patch[k], total)
    <3>1. PICK i \in 1..n : ops[i].order = k /\ ops[i].start = Boundary(patch[k], total) /\ ops[i].end = ops[i].start
      BY <1>1, LaidIs
    <3>2. ops[i].end \in 0..total
      BY <1>1, LaidIs
    <3>3. CASE j < i
      BY <3>1, <3>3
    <3>4. CASE i <= j
      <4>1. c <= ops[i].end => c = ops[i].end /\ ops[i].order <= a
        BY <1>1, <3>1, <3>4, InsertedSoFar
      <4> HIDE DEF c, a
      <4> QED  BY <1>2, <3>1, <3>2, <4>1
    <3> QED  BY <3>3, <3>4
  <2>3. ASSUME NEW i \in (c + 1)..s, NEW k \in Ranges PROVE i - 1 \notin At(patch[k])
    <3>1. SUFFICES ASSUME i - 1 \in At(patch[k]) PROVE FALSE
      OBVIOUS
    <3>2. PICK m \in 1..n : ops[m].order = k /\ \A x : x \in At(patch[k]) => x \in Int /\ ops[m].start <= x /\ x < ops[m].end
      BY <1>1, LaidIs
    <3>3. ops[m].start <= i - 1 /\ i - 1 < ops[m].end
      BY <3>1, <3>2
    <3>4. /\ ops[m].start \in Int /\ ops[m].end \in Int
          /\ \A p, q \in 1..n : p < q => ops[p].end <= ops[q].start
          /\ j \in 1..n => c = ops[j].end /\ ops[j].start <= ops[j].end /\ ops[j].start \in Int
      <4>1. \A i2 \in 1..n : ops[i2].start \in 0..total /\ ops[i2].end \in 0..total /\ ops[i2].start <= ops[i2].end
        BY <1>1, LaidIs
      <4>2. \A p, q \in 1..n : p < q => ops[p].end <= ops[q].start
        BY <1>1, LaidIs
      <4>3. j \in 1..n => c = ops[j].end
        BY <1>1, LaidIs
      <4>4. /\ ops[m].start \in 0..total /\ ops[m].end \in 0..total
            /\ j \in 1..n => ops[j].start \in 0..total /\ ops[j].start <= ops[j].end
        BY <4>1
      <4> HIDE DEF n, c, total
      <4> QED  BY <1>1, <4>2, <4>3, <4>4
    <3>5. CASE j < m
      <4>1. s <= ops[m].start
        BY <3>5
      <4> HIDE DEF c
      <4> QED  BY <1>2, <2>1, <3>3, <3>4, <4>1
    <3>6. CASE m <= j
      <4>1. j \in 1..n
        BY <3>6
      <4>2. ops[m].end <= c
        <5>1. CASE m = j
          BY <3>4, <4>1, <5>1
        <5>2. CASE m # j
          <6>1. ops[m].end <= ops[j].start
            BY <3>4, <3>6, <4>1, <5>2
          <6> HIDE DEF c
          <6> QED  BY <1>2, <3>4, <4>1, <6>1
        <5> QED  BY <5>1, <5>2
      <4> HIDE DEF c
      <4> QED  BY <1>2, <2>1, <3>3, <3>4, <4>2
    <3> QED  BY <3>5, <3>6
  <2> HIDE DEF c, a
  <2>4. Done(bytes, c, a) = Till(bytes, c)
    <3>1. \A k \in Inserts : Boundary(patch[k], total) = c => k <= a \/ n < k
      BY <1>2, <2>1, <2>2
    <3>2. In(c, total)[n] = In(c, total)[a]
      <4>1. n \in 0..n /\ a <= n
        BY <1>1, <1>2
      <4> QED  BY <1>2, <3>1, <4>1, InStays
    <3>3. Done(bytes, c, n) = Till(bytes, c)
      BY <1>2, DoneIs
    <3> QED  BY <3>2, <3>3 DEF Done
  <2>5. ASSUME NEW t \in (c + 1)..(s - 1) PROVE Added(t, total) = <<>>
    <3>1. \A k \in Inserts : Boundary(patch[k], total) = t => FALSE
      BY <1>2, <2>1, <2>2
    <3>2. In(t, total)[n] = In(t, total)[0]
      <4>1. 0 \in 0..n /\ n \in 0..n /\ 0 <= n
        BY <1>1
      <4> QED  BY <3>1, <4>1, InStays
    <3> QED  BY <3>2, InIs
  <2>6. PICK v : Run(bytes, v, c, s) /\ v[s] = SubSeq(bytes, c + 1, s)
    BY <1>2, <2>1, <2>3, CopiedRun
  <2>7. Till(bytes, c) \o v[s] = Upto(bytes, s)
    BY <1>2, <2>1, <2>5, <2>6, RunIs
  <2>8. Upto(bytes, s) = Done(bytes, s, 0)
    BY DoneIs
  <2>9. Done(bytes, c, a) \o SubSeq(bytes, c + 1, s) = Done(bytes, s, IF c < s THEN 0 ELSE a)
    BY <2>1, <2>4, <2>6, <2>7, <2>8
  <2> QED  BY <2>9 DEF c, a
<1> QED  BY <1>3, <1>4

\* One operation more.
LEMMA HunkIsDone ==
  ASSUME patch \in Seq(Hunk), NEW bytes \in Seq(Text), RangesApart(Len(bytes)),
         \A k \in Ranges : patch[k].op = "delete" => patch[k].body = <<>>,
         NEW ops, Laid(ops, Len(bytes)), NEW j \in 1..Len(patch)
  PROVE  Done(bytes, Cursor(ops, j), After(ops, j - 1))
           \o (SubSeq(bytes, Cursor(ops, j) + 1, ops[j].start) \o ops[j].body)
           = Done(bytes, Cursor(ops, j + 1), After(ops, j))
<1> DEFINE n == Len(patch)
           total == Len(bytes)
           c == Cursor(ops, j)
           a == After(ops, j - 1)
           s == ops[j].start
           e == ops[j].end
           k == ops[j].order
           b == ops[j].body
           q == IF c < s THEN 0 ELSE a
           run == SubSeq(bytes, c + 1, s)
<1>1. n \in Nat /\ total \in Nat /\ j - 1 \in 0..n /\ (j - 1) + 1 = j /\ j \in 1..n
  OBVIOUS
<1>2. c \in 0..total /\ a \in 0..n /\ Cursor(ops, j + 1) = e
  <2>1. \A i \in 0..n : Cursor(ops, i + 1) \in 0..total /\ After(ops, i) \in 0..n
    BY <1>1, LaidIs
  <2>2. Cursor(ops, (j - 1) + 1) \in 0..total /\ After(ops, j - 1) \in 0..n
    BY <1>1, <2>1
  <2>3. \A i \in 1..n : Cursor(ops, i + 1) = ops[i].end
    BY <1>1, LaidIs
  <2>4. Cursor(ops, j + 1) = e
    BY <1>1, <2>3
  <2> QED  BY <1>1, <2>2, <2>4
<1>3. \A i \in 1..n : /\ ops[i].start \in 0..total /\ ops[i].end \in 0..total
                      /\ ops[i].start <= ops[i].end /\ ops[i].order \in 1..n
                      /\ ops[i].body = patch[ops[i].order].body /\ ops[i].body \in Seq(Text)
  BY <1>1, LaidIs
<1>4. \A i, m \in 1..n : i < m => ops[i].end <= ops[m].start
  BY <1>1, LaidIs
<1>5. c <= s
  <2>1. j = 1 => c = 0
    BY DEF Cursor
  <2>2. j # 1 => j - 1 \in 1..n /\ c = ops[j - 1].end /\ j - 1 < j
    BY <1>1 DEF Cursor
  <2>3. j # 1 => ops[j - 1].end <= s
    BY <1>1, <1>4, <2>2
  <2> QED  BY <1>1, <1>3, <2>1, <2>2, <2>3
<1>6. ASSUME NEW i \in 1..n, j - 1 < i PROVE s <= ops[i].start
  <2>1. CASE i = j
    BY <1>1, <1>3, <2>1
  <2>2. CASE i # j
    <3>1. j < i
      BY <1>1, <1>6, <2>2
    <3>2. e <= ops[i].start
      BY <1>1, <1>4, <3>1
    <3>3. /\ s \in Int /\ e \in Int /\ ops[i].start \in Int /\ s <= e
      BY <1>1, <1>3
    <3> HIDE DEF s, e
    <3> QED  BY <3>2, <3>3
  <2> QED  BY <2>1, <2>2
<1>7. Done(bytes, c, a) \o run = Done(bytes, s, q)
  <2>1. s \in 0..total
    BY <1>1, <1>3
  <2>2. Cursor(ops, (j - 1) + 1) <= s
    BY <1>1, <1>5
  <2>3. \A i \in 1..n : j - 1 < i => s <= ops[i].start
    BY <1>6
  <2>4. Done(bytes, Cursor(ops, (j - 1) + 1), After(ops, j - 1)) \o SubSeq(bytes, Cursor(ops, (j - 1) + 1) + 1, s)
           = Done(bytes, s, IF Cursor(ops, (j - 1) + 1) < s THEN 0 ELSE After(ops, j - 1))
    <3> HIDE DEF s
    <3> QED  BY <1>1, <2>1, <2>2, <2>3, CopyUpTo
  <2> QED  BY <1>1, <2>4
<1>8. /\ s \in 0..total /\ e \in 0..total /\ s <= e /\ k \in 1..n /\ b = patch[k].body /\ b \in Seq(Text)
      /\ q \in 0..n
  <2>1. /\ s \in 0..total /\ e \in 0..total /\ s <= e /\ k \in 1..n
        /\ b = patch[k].body /\ b \in Seq(Text)
    <3> USE DEF s, e, k, b
    <3> QED  BY <1>1, <1>3
  <2>2. 0 \in 0..n /\ a \in 0..n
    BY <1>1, <1>2
  <2>3. q = 0 \/ q = a
    OBVIOUS
  <2>4. q \in 0..n
    <3> HIDE DEF q, a
    <3> QED  BY <2>2, <2>3
  <2> QED  BY <2>1, <2>4
<1>80. \A l \in Inserts : \E i \in 1..n :
         ops[i].order = l /\ ops[i].start = Boundary(patch[l], total) /\ ops[i].end = ops[i].start
  BY <1>1, LaidIs
\* Insertions at the boundary not yet done come with this operation or after it.
<1>9. ASSUME NEW m \in Inserts, Boundary(patch[m], total) = s
      PROVE  /\ s = e => m <= q \/ k <= m
             /\ s < e => m <= q
  <2>1. PICK i \in 1..n : ops[i].order = m /\ ops[i].start = s /\ ops[i].end = ops[i].start
    <3>1. PICK i \in 1..n : ops[i].order = m /\ ops[i].start = Boundary(patch[m], total) /\ ops[i].end = ops[i].start
      BY <1>80
    <3> QED  BY <1>9, <3>1
  <2>2. CASE i < j
    <3>1. i <= j - 1
      BY <1>1, <2>2
    <3>2. Cursor(ops, (j - 1) + 1) <= ops[i].end
      BY <1>1, <1>5, <2>1
    <3>3. Cursor(ops, (j - 1) + 1) = ops[i].end /\ ops[i].order <= After(ops, j - 1)
      BY <1>1, <2>1, <3>1, <3>2, InsertedSoFar
    <3>4. c = s /\ m <= a
      BY <1>1, <2>1, <3>3
    <3>5. q = a
      BY <1>2, <1>8, <3>4
    <3> QED  BY <3>4, <3>5
  <2>3. CASE i = j
    <3>1. m = k /\ s = e
      BY <2>1, <2>3
    <3>2. m \in Int /\ s \in Int /\ e \in Int
      BY <1>8, <3>1
    <3> QED  BY <3>1, <3>2
  <2>4. CASE j < i
    <3>1. e <= ops[i].start
      BY <1>1, <1>4, <2>4
    <3>2. e = s
      BY <1>8, <2>1, <3>1
    <3>3. k < m
      <4>1. \A u, v \in 1..n : u < v /\ ops[u].start = ops[v].start /\ ops[v].start = ops[v].end =>
              ops[u].order < ops[v].order
        BY DEF Laid
      <4> QED  BY <1>1, <2>1, <2>4, <4>1
    <3>4. k \in Int /\ m \in Int /\ s \in Int
      BY <1>3, <1>8, <2>1
    <3> QED  BY <3>2, <3>3, <3>4
  <2> QED  BY <1>1, <2>2, <2>3, <2>4
<1>10. Stands(ops[j], total)
  BY <1>1 DEF Laid
<1>11. Done(bytes, s, q) \o b = Done(bytes, e, After(ops, j))
  <2>1. CASE k \in Inserts /\ s = Boundary(patch[k], total) /\ e = s
    <3>1. After(ops, j) = k
      BY <1>1, <2>1 DEF After
    <3>2. q < k
      <4>1. CASE q = 0
        BY <1>8, <4>1
      <4>2. CASE q # 0
        <5>1. c = s /\ q = a /\ a # 0
          BY <1>2, <1>5, <1>8, <4>2
        <5>2. /\ j - 1 # 0 /\ ops[j - 1].start = ops[j - 1].end /\ a = ops[j - 1].order
          BY <5>1 DEF After
        <5>3. j - 1 \in 1..n /\ j - 1 < j
          BY <1>1, <5>2
        <5>4. c = ops[j - 1].end
          BY <1>1, <5>2 DEF Cursor
        <5>5. \A u, v \in 1..n : u < v /\ ops[u].start = ops[v].start /\ ops[v].start = ops[v].end =>
                ops[u].order < ops[v].order
          BY DEF Laid
        <5>6. ops[j - 1].order < k
          BY <1>1, <2>1, <5>1, <5>2, <5>3, <5>4, <5>5
        <5> QED  BY <5>1, <5>2, <5>6
      <4> QED  BY <4>1, <4>2
    <3>3. In(s, total)[k - 1] = In(s, total)[q]
      <4>1. k - 1 \in 0..n /\ q <= k - 1
        BY <1>1, <1>8, <3>2
      <4>2. \A m \in Inserts : Boundary(patch[m], total) = s => m <= q \/ k - 1 < m
        <5> SUFFICES ASSUME NEW m \in Inserts, Boundary(patch[m], total) = s PROVE m <= q \/ k - 1 < m
          OBVIOUS
        <5>1. m <= q \/ k <= m
          BY <1>9, <2>1
        <5>2. m \in Int
          BY DEF Inserts, Places
        <5> HIDE DEF k, q
        <5> QED  BY <1>8, <5>1, <5>2
      <4> HIDE DEF k, q, s, total
      <4> QED  BY <1>8, <4>1, <4>2, InStays DEF n
    <3>4. Done(bytes, s, k) = Done(bytes, s, k - 1) \o Puts(s, total)[k]
      BY <1>8, DoneIs
    <3>5. Puts(s, total)[k] = b
      <4>1. k \in DOMAIN patch
        BY <1>8
      <4> QED  BY <1>8, <2>1, <4>1 DEF Puts
    <3>6. Done(bytes, s, k - 1) = Done(bytes, s, q)
      BY <3>3 DEF Done
    <3> HIDE DEF k, s, e, b, q
    <3> QED  BY <2>1, <3>1, <3>4, <3>5, <3>6
  <2>2. CASE k \in Ranges /\ s < e /\ s = patch[k].from /\ e = patch[k].from + patch[k].len
    <3>1. After(ops, j) = 0
      <4>1. s # e
        BY <1>8, <2>2
      <4> QED  BY <4>1 DEF After
    <3>2. Done(bytes, s, q) = Till(bytes, s)
      <4>1. \A m \in Inserts : Boundary(patch[m], total) = s => m <= q \/ n < m
        BY <1>9, <2>2
      <4>2. n \in 0..n /\ q <= n
        BY <1>1, <1>8
      <4>3. In(s, total)[n] = In(s, total)[q]
        BY <1>8, <4>1, <4>2, InStays
      <4>4. Done(bytes, s, n) = Till(bytes, s)
        BY <1>8, DoneIs
      <4> QED  BY <4>3, <4>4 DEF Done
    <3>3. ASSUME NEW t \in (s + 1)..(e - 1) PROVE Added(t, total) = <<>>
      <4>1. ASSUME NEW m \in Inserts, Boundary(patch[m], total) = t PROVE FALSE
        <5>1. PICK i \in 1..n : ops[i].order = m /\ ops[i].start = t /\ ops[i].end = ops[i].start
          BY <1>80, <4>1
        <5>2. i < j => ops[i].end <= s
          BY <1>1, <1>4
        <5>3. j < i => e <= ops[i].start
          BY <1>1, <1>4
        <5>4. i = j => t = s
          BY <5>1
        <5> HIDE DEF s, e
        <5> QED  BY <1>1, <1>8, <5>1, <5>2, <5>3, <5>4
      <4>2. In(t, total)[n] = In(t, total)[0]
        <5>1. 0 \in 0..n /\ n \in 0..n /\ 0 <= n
          BY <1>1
        <5> QED  BY <4>1, <5>1, InStays
      <4> QED  BY <4>2, InIs
    <3>4. PICK v : Run(bytes, v, s, e) /\ v[e] = patch[k].body
      BY <2>2, RangeRun
    <3>5. Till(bytes, s) \o v[e] = Upto(bytes, e)
      <4> HIDE DEF s, e
      <4> QED  BY <1>8, <2>2, <3>3, <3>4, RunIs
    <3>6. Upto(bytes, e) = Done(bytes, e, 0)
      BY <1>8, DoneIs
    <3> HIDE DEF k, s, e, b, q
    <3> QED  BY <1>8, <3>1, <3>2, <3>4, <3>5, <3>6
  <2> QED  BY <1>10, <2>1, <2>2 DEF Stands
<1>12. Done(bytes, c, a) \in Seq(Text) /\ run \in Seq(Text)
  <2>1. Done(bytes, c, a) \in Seq(Text)
    BY <1>2, DoneIs
  <2>2. run \in Seq(Text)
    <3>1. c + 1 \in 1..(total + 1) /\ s \in c..total
      BY <1>1, <1>2, <1>5, <1>8
    <3> HIDE DEF c, s
    <3> QED  BY <3>1, SubSeqProperties DEF run
  <2> QED  BY <2>1, <2>2
<1> HIDE DEF c, a, s, e, b, q, run
<1>13. Done(bytes, c, a) \o (run \o b) = (Done(bytes, c, a) \o run) \o b
  <2> DEFINE d == Done(bytes, c, a)
  <2>1. d \in Seq(Text) /\ run \in Seq(Text) /\ b \in Seq(Text)
    BY <1>8, <1>12
  <2> HIDE DEF d
  <2>2. d \o (run \o b) = (d \o run) \o b
    BY <2>1, ConcatGroups
  <2> QED  BY <2>2 DEF d
<1>14. Done(bytes, c, a) \o (run \o b) = Done(bytes, Cursor(ops, j + 1), After(ops, j))
  BY <1>2, <1>7, <1>11, <1>13
<1> QED  BY <1>14 DEF c, a, run, b, s

\* The total of the counts when one of them changes.
LEMMA TotalChanges ==
  ASSUME NEW a \in Seq(Int), NEW b \in Seq(Int), Len(a) = Len(b), NEW m \in 1..Len(a),
         \A i \in 1..Len(a) : i # m => a[i] = b[i]
  PROVE  Total(a) \in Int /\ Total(b) \in Int /\ Total(b) = Total(a) + (b[m] - a[m])
<1> DEFINE n == Len(a)
           d == b[m] - a[m]
<1>1. n \in Nat /\ m \in 1..n /\ d \in Int /\ a[m] \in Int /\ b[m] \in Int /\ n = Len(b) /\ b[m] = a[m] + d
  OBVIOUS
<1>2. \A i \in 1..n : a[i] \in Int /\ b[i] \in Int /\ (i # m => a[i] = b[i])
  OBVIOUS
<1>3. PICK f \in [0..n -> Int] : f[0] = 0 /\ (\A i \in 1..n : f[i] = f[i - 1] + a[i]) /\ Total(a) = f[n]
  BY TotalIs
<1>4. PICK g \in [0..n -> Int] : g[0] = 0 /\ (\A i \in 1..n : g[i] = g[i - 1] + b[i]) /\ Total(b) = g[n]
  BY <1>1, TotalIs
<1> HIDE DEF n, d
<1> DEFINE S == {i \in 0..n : g[i] = f[i] + IF i < m THEN 0 ELSE d}
<1>5. 0 \in S
  BY <1>1, <1>3, <1>4
<1>6. ASSUME NEW i \in 1..n, i - 1 \in S PROVE i \in S
  <2>1. i - 1 \in 0..n /\ i \in 0..n
    BY <1>1
  <2>6. f[i - 1] \in Int /\ g[i - 1] \in Int /\ f[i] \in Int /\ g[i] \in Int
    <3>1. f \in [0..n -> Int] /\ g \in [0..n -> Int]
      BY <1>3, <1>4
    <3> QED  BY <2>1, <3>1
  <2>2. f[i] = f[i - 1] + a[i] /\ g[i] = g[i - 1] + b[i] /\ a[i] \in Int /\ b[i] \in Int
    BY <1>2, <1>3, <1>4
  <2>3. g[i - 1] = f[i - 1] + IF i - 1 < m THEN 0 ELSE d
    BY <1>6
  <2> DEFINE f1 == f[i - 1]
             f2 == f[i]
             g1 == g[i - 1]
             g2 == g[i]
             ai == a[i]
             bi == b[i]
  <2>7. /\ f1 \in Int /\ g1 \in Int /\ ai \in Int /\ bi \in Int
        /\ f2 = f1 + ai /\ g2 = g1 + bi /\ g1 = f1 + IF i - 1 < m THEN 0 ELSE d
    BY <2>2, <2>3, <2>6
  <2>4. CASE i = m
    <3>1. b[i] = a[i] + d /\ i - 1 < m /\ ~(i < m)
      BY <1>1, <2>4
    <3>2. g2 = f2 + d
      <4>1. bi = ai + d
        BY <2>4, <3>1
      <4> HIDE DEF f1, f2, g1, g2, ai, bi
      <4> QED  BY <1>1, <2>7, <3>1, <4>1
    <3> QED  BY <2>1, <3>1, <3>2
  <2>5. CASE i # m
    <3>1. b[i] = a[i] /\ (i - 1 < m <=> i < m)
      BY <1>1, <1>2, <2>5
    <3>2. g2 = f2 + IF i < m THEN 0 ELSE d
      <4>1. bi = ai
        BY <3>1
      <4> HIDE DEF f1, f2, g1, g2, ai, bi
      <4>2. CASE i < m
        BY <1>1, <2>7, <3>1, <4>1, <4>2
      <4>3. CASE ~(i < m)
        BY <1>1, <2>7, <3>1, <4>1, <4>3
      <4> QED  BY <4>2, <4>3
    <3> QED  BY <2>1, <3>2
  <2> QED  BY <2>4, <2>5
<1>7. 0..n \subseteq S
  <2> HIDE DEF S
  <2> QED  BY <1>1, <1>5, <1>6, UpTo
<1>8. n \in S
  BY <1>1, <1>7
<1>9. n \in 0..n /\ ~(n < m)
  BY <1>1
<1>10. Total(b) = Total(a) + d /\ Total(a) \in Int /\ Total(b) \in Int
  BY <1>3, <1>4, <1>8, <1>9
<1> QED  BY <1>10 DEF d

\* A total of zeros is zero.
LEMMA TotalOfNothing ==
  ASSUME NEW a \in Seq(Int), \A i \in 1..Len(a) : a[i] = 0
  PROVE  Total(a) = 0
<1>1. PICK f \in [0..Len(a) -> Int] :
        f[0] = 0 /\ (\A i \in 1..Len(a) : f[i] = f[i - 1] + a[i]) /\ Total(a) = f[Len(a)]
  BY TotalIs
<1> DEFINE n == Len(a)
           S == {i \in 0..n : f[i] = 0}
<1>2. n \in Nat /\ 0 \in S /\ \A i \in 1..n : i - 1 \in S => i \in S
  BY <1>1
<1>3. 0..n \subseteq S
  <2> HIDE DEF S, n
  <2> QED  BY <1>2, UpTo
<1> QED  BY <1>1, <1>2, <1>3

\* The total over the instructions of the first operations.
Counted(ops, j, w) == [k \in DOMAIN patch |-> IF \E i \in 1..j : ops[i].order = k THEN w[k] ELSE 0]

\* Totals over the hunks are the same taken in the order of the operations.
LEMMA TotalInOrder ==
  ASSUME patch \in Seq(Hunk), NEW total \in Nat, NEW ops, Laid(ops, total), NEW w \in [DOMAIN patch -> Int]
  PROVE  /\ Total(Counted(ops, 0, w)) = 0
         /\ \A j \in 1..Len(patch) :
              Total(Counted(ops, j, w)) = Total(Counted(ops, j - 1, w)) + w[ops[j].order]
         /\ \A j \in 0..Len(patch) : Total(Counted(ops, j, w)) \in Int
         /\ Total(Counted(ops, Len(patch), w)) = Total(w)
<1> DEFINE n == Len(patch)
<1>1. n \in Nat /\ DOMAIN patch = 1..n
  OBVIOUS
<1>2. \A j : /\ Counted(ops, j, w) \in Seq(Int) /\ Len(Counted(ops, j, w)) = n
             /\ \A k \in 1..n : Counted(ops, j, w)[k] = IF \E i \in 1..j : ops[i].order = k THEN w[k] ELSE 0
  <2> SUFFICES ASSUME NEW j
               PROVE  /\ Counted(ops, j, w) \in Seq(Int) /\ Len(Counted(ops, j, w)) = n
                      /\ \A k \in 1..n : Counted(ops, j, w)[k] = IF \E i \in 1..j : ops[i].order = k THEN w[k] ELSE 0
    OBVIOUS
  <2> DEFINE In2(k) == \E i \in 1..j : ops[i].order = k
             c == [k \in 1..n |-> IF In2(k) THEN w[k] ELSE 0]
  <2>1. Counted(ops, j, w) = c
    BY <1>1 DEF Counted
  <2>2. \A k \in 1..n : w[k] \in Int
    BY <1>1
  <2> HIDE DEF In2
  <2>3. c \in Seq(Int) /\ Len(c) = n /\ \A k \in 1..n : c[k] = IF In2(k) THEN w[k] ELSE 0
    BY <1>1, <2>2
  <2> HIDE DEF c
  <2> QED  BY <2>1, <2>3 DEF In2
<1>3. Total(Counted(ops, 0, w)) = 0
  <2>1. \A k \in 1..n : Counted(ops, 0, w)[k] = 0
    BY <1>2
  <2> QED  BY <1>2, <2>1, TotalOfNothing
<1>4. /\ \A i \in 1..n : ops[i].order \in 1..n
      /\ \A i, m \in 1..n : i < m => ops[i].order # ops[m].order
      /\ \A k \in 1..n : \E i \in 1..n : ops[i].order = k
  <2>1. \A i \in 1..n : ops[i].order \in 1..n
    BY LaidIs
  <2>2. \A i, m \in 1..n : i < m => ops[i].order # ops[m].order
    BY DEF Laid
  <2>3. \A k \in 1..n : \E i \in 1..n : ops[i].order = k
    BY <1>1 DEF Laid
  <2> QED  BY <2>1, <2>2, <2>3
<1>5. ASSUME NEW j \in 1..n
      PROVE  /\ Total(Counted(ops, j, w)) = Total(Counted(ops, j - 1, w)) + w[ops[j].order]
             /\ Total(Counted(ops, j, w)) \in Int /\ Total(Counted(ops, j - 1, w)) \in Int
  <2> DEFINE m == ops[j].order
             a == Counted(ops, j - 1, w)
             b == Counted(ops, j, w)
  <2>1. m \in 1..n /\ w[m] \in Int
    BY <1>1, <1>4
  <2>2. ~ \E i \in 1..(j - 1) : ops[i].order = m
    <3> SUFFICES ASSUME NEW i \in 1..(j - 1) PROVE ops[i].order # m
      OBVIOUS
    <3>1. i \in 1..n /\ i < j
      BY <1>1
    <3> QED  BY <1>4, <3>1
  <2>3. \E i \in 1..j : ops[i].order = m
    BY <1>1
  <2>4. ASSUME NEW k \in 1..n, k # m
        PROVE (\E i \in 1..(j - 1) : ops[i].order = k) <=> (\E i \in 1..j : ops[i].order = k)
    BY <1>1, <2>4
  <2>5. a[m] = 0 /\ b[m] = w[m]
    BY <1>2, <2>1, <2>2, <2>3
  <2>6. \A k \in 1..n : k # m => a[k] = b[k]
    <3>1. \A k \in 1..n : a[k] = IF \E i \in 1..(j - 1) : ops[i].order = k THEN w[k] ELSE 0
      BY <1>2
    <3>2. \A k \in 1..n : b[k] = IF \E i \in 1..j : ops[i].order = k THEN w[k] ELSE 0
      BY <1>2
    <3> HIDE DEF a, b, m
    <3> QED  BY <2>4, <3>1, <3>2
  <2>7. a \in Seq(Int) /\ b \in Seq(Int) /\ Len(a) = n /\ Len(b) = n
    BY <1>2
  <2> HIDE DEF m, a, b
  <2>8. Total(a) \in Int /\ Total(b) \in Int /\ Total(b) = Total(a) + (b[m] - a[m])
    <3> HIDE DEF n
    <3> QED  BY <2>1, <2>6, <2>7, TotalChanges
  <2>9. Total(b) = Total(a) + w[m]
    BY <2>1, <2>5, <2>8
  <2> QED  BY <2>8, <2>9 DEF m, a, b
<1>6. Counted(ops, n, w) = w
  <2>1. \A k \in DOMAIN patch : \E i \in 1..n : ops[i].order = k
    BY <1>1, <1>4
  <2> QED  BY <2>1 DEF Counted
<1>7. ASSUME NEW j \in 0..n PROVE Total(Counted(ops, j, w)) \in Int
  <2>1. j = 0 \/ j \in 1..n
    BY <1>1
  <2> QED  BY <1>3, <1>5, <2>1
<1> QED  BY <1>3, <1>5, <1>6, <1>7 DEF n

\* What is written by an accepted patch, and its length.
LEMMA HunksAreRead ==
  ASSUME patch \in Seq(Hunk), NEW bytes \in Seq(Text), Len(bytes) < UsizeMax, BytesAccepted(Len(bytes)),
         \A k \in Ranges : patch[k].op = "delete" => patch[k].body = <<>>
  PROVE  /\ ApplyBinaryHunks(bytes) = BytesAsRead(bytes)
         /\ ApplyBinaryHunks(bytes) \in Seq(Text)
         /\ Len(ApplyBinaryHunks(bytes)) + Deletions = Len(bytes) + Additions
<1> DEFINE n == Len(patch)
           total == Len(bytes)
           ops == Operations(total)
           piece(k) == SubSeq(bytes, Cursor(ops, k) + 1, ops[k].start) \o ops[k].body
           pieces == [k \in DOMAIN ops |-> piece(k)]
           w == JoinOf(pieces, Text)
           c(j) == Cursor(ops, j + 1)
           rest == SubSeq(bytes, c(n) + 1, total)
<1>1. n \in Nat /\ total \in Nat
  OBVIOUS
<1>2. RangesApart(total)
  BY <1>1, AcceptedIsApart
<1>3. Laid(ops, total)
  BY <1>1, AcceptedIsLaid
<1>4. DOMAIN ops = 1..n /\ Len(ops) = n
  BY <1>1, <1>3 DEF Laid
<1>5. ApplyBinaryHunks(bytes) = FlattenSeq(pieces) \o rest
  BY <1>4 DEF ApplyBinaryHunks
<1> HIDE DEF ops
<1>6. ASSUME NEW j \in 0..n PROVE c(j) \in 0..total /\ After(ops, j) \in 0..n
  BY <1>1, <1>3, <1>6, LaidIs
<1>7. ASSUME NEW j \in 1..n
      PROVE  /\ ops[j].start \in 0..total /\ ops[j].end \in 0..total /\ ops[j].order \in 1..n
             /\ ops[j].body \in Seq(Text) /\ ops[j].body = patch[ops[j].order].body
             /\ c(j) = ops[j].end
  <2>1. /\ ops[j].start \in 0..total /\ ops[j].end \in 0..total /\ ops[j].order \in 1..n
        /\ ops[j].body \in Seq(Text) /\ ops[j].body = patch[ops[j].order].body
    <3>1. \A i \in 1..n : /\ ops[i].start \in 0..total /\ ops[i].end \in 0..total
                          /\ ops[i].start <= ops[i].end /\ ops[i].order \in 1..n
                          /\ ops[i].body = patch[ops[i].order].body /\ ops[i].body \in Seq(Text)
      BY <1>1, <1>3, LaidIs
    <3> HIDE DEF total, n
    <3> QED  BY <3>1
  <2>2. \A i \in 1..n : Cursor(ops, i + 1) = ops[i].end
    BY <1>1, <1>3, LaidIs
  <2> QED  BY <2>1, <2>2
<1>8. ASSUME NEW j \in 1..n PROVE Cursor(ops, j) = c(j - 1) /\ j - 1 \in 0..n /\ c(j - 1) <= ops[j].start
  <2>1. (j - 1) + 1 = j /\ j - 1 \in 0..n
    BY <1>1
  <2>2. BytesAccepted(total)
    OBVIOUS
  <2>3. ops[j].start >= Cursor(ops, j)
    BY <1>4, <2>2 DEF BytesAccepted, ops
  <2>4. Cursor(ops, j) \in Int /\ ops[j].start \in Int
    <3>1. c(j - 1) \in 0..total /\ c(j - 1) = Cursor(ops, j)
      BY <1>6, <2>1
    <3>2. ops[j].start \in 0..total
      BY <1>7
    <3> HIDE DEF c
    <3> QED  BY <1>1, <3>1, <3>2
  <2> QED  BY <2>1, <2>3, <2>4
<1>9. ASSUME NEW j \in 1..n
      PROVE  /\ piece(j) \in Seq(Text)
             /\ Len(piece(j)) = (ops[j].start - c(j - 1)) + Len(ops[j].body)
             /\ Len(ops[j].body) \in Nat
  <2> DEFINE k == Cursor(ops, j)
             s == ops[j].start
             b == ops[j].body
             r == SubSeq(bytes, k + 1, s)
  <2>1. k \in 0..total /\ s \in 0..total /\ k <= s /\ b \in Seq(Text) /\ k = c(j - 1)
    BY <1>6, <1>7, <1>8
  <2> HIDE DEF k, s, b, c
  <2>2. r \in Seq(Text) /\ Len(r) = s - k
    <3>1. k + 1 \in 1..(total + 1) /\ s \in k..total
      BY <1>1, <2>1
    <3> QED  BY <1>1, <2>1, <3>1, SubSeqProperties
  <2> HIDE DEF r
  <2>3. r \o b \in Seq(Text) /\ Len(r \o b) = Len(r) + Len(b)
    BY <2>1, <2>2, ConcatProperties
  <2> QED  BY <2>1, <2>2, <2>3 DEF r, k, s, b
<1>10. pieces \in Seq(Seq(Text)) /\ Len(pieces) = n /\ \A j \in 1..n : pieces[j] = piece(j)
  <2> HIDE DEF piece, n
  <2> QED  BY <1>1, <1>4, <1>9
<1>11. /\ w \in [0..n -> Seq(Text)] /\ w[0] = <<>> /\ FlattenSeq(pieces) = w[n]
       /\ \A j \in 1..n : w[j] = w[j - 1] \o pieces[j]
  <2> HIDE DEF n, pieces
  <2> QED  BY <1>10, JoinOfIs
<1> HIDE DEF pieces, w, n, total
<1>12. ASSUME NEW j \in 1..n PROVE w[j] = w[j - 1] \o piece(j)
  <2> HIDE DEF piece
  <2> QED  BY <1>10, <1>11
\* What is written so far is what the patch means up to the cursor.
<1>13. \A j \in 0..n : w[j] = Done(bytes, c(j), After(ops, j))
  <2> DEFINE S == {j \in 0..n : w[j] = Done(bytes, c(j), After(ops, j))}
  <2>1. 0 \in S
    <3>1. c(0) = 0 /\ After(ops, 0) = 0
      BY DEF Cursor, After
    <3>2. Done(bytes, 0, 0) = Upto(bytes, 0)
      <4>1. 0 \in 0..Len(bytes)
        BY <1>1 DEF total
      <4> QED  BY <1>2, <4>1, DoneIs DEF total
    <3>3. Upto(bytes, 0) = <<>>
      BY DEF Upto
    <3> HIDE DEF c
    <3> QED  BY <1>1, <1>11, <3>1, <3>2, <3>3
  <2>2. ASSUME NEW j \in 1..n, j - 1 \in S PROVE j \in S
    <3>1. w[j - 1] = Done(bytes, c(j - 1), After(ops, j - 1))
      BY <2>2
    <3>2. Done(bytes, Cursor(ops, j), After(ops, j - 1)) \o piece(j) = Done(bytes, c(j), After(ops, j))
      BY <1>2, <1>3, HunkIsDone DEF total, n
    <3>3. j \in 0..n
      BY <1>1
    <3> HIDE DEF c, piece
    <3> QED  BY <1>8, <1>12, <3>1, <3>2, <3>3
  <2>3. 0..n \subseteq S
    <3> HIDE DEF S
    <3> QED  BY <1>1, <2>1, <2>2, UpTo
  <2> QED  BY <2>3
<1>14. w[n] \o rest = Till(bytes, total)
  <2> DEFINE k == c(n)
             a == After(ops, n)
             q == IF k < total THEN 0 ELSE a
  <2>1. k \in 0..total /\ a \in 0..n /\ n \in 0..n /\ total \in 0..total /\ k <= total /\ q \in 0..n
    BY <1>1, <1>6
  <2>2. w[n] = Done(bytes, k, a)
    BY <1>13, <2>1
  <2>3. Done(bytes, k, a) \o rest = Done(bytes, total, q)
    <3>1. \A i \in 1..n : n < i => total <= ops[i].start
      BY <1>1
    <3>2. /\ n \in 0..Len(patch) /\ total \in 0..Len(bytes) /\ Cursor(ops, n + 1) <= total
          /\ \A i \in 1..Len(patch) : n < i => total <= ops[i].start
      BY <2>1, <3>1 DEF n, total
    <3> QED  BY <1>2, <1>3, <3>2, CopyUpTo DEF total
  <2>4. ASSUME NEW m \in Inserts, Boundary(patch[m], total) = total PROVE m <= q \/ n < m
    <3>1. PICK i \in 1..n : ops[i].order = m /\ ops[i].start = total /\ ops[i].end = ops[i].start
      <4>1. \A l \in Inserts : \E i \in 1..n :
              ops[i].order = l /\ ops[i].start = Boundary(patch[l], total) /\ ops[i].end = ops[i].start
        BY <1>1, <1>3, LaidIs DEF n
      <4> QED  BY <2>4, <4>1
    <3>2. i <= n /\ Cursor(ops, n + 1) <= ops[i].end
      BY <1>1, <2>1, <3>1
    <3>3. k = ops[i].end /\ ops[i].order <= a
      BY <1>1, <1>3, <2>1, <3>1, <3>2, InsertedSoFar DEF n
    <3>4. q = a
      BY <2>1, <3>1, <3>3
    <3> QED  BY <3>1, <3>3, <3>4
  <2>5. In(total, total)[n] = In(total, total)[q]
    <3>1. q <= n
      BY <2>1
    <3> HIDE DEF q
    <3> QED  BY <2>1, <2>4, <3>1, InStays DEF n
  <2>6. Done(bytes, total, n) = Till(bytes, total)
    BY <1>1, <1>2, <2>1, DoneIs DEF n, total
  <2>7. Done(bytes, total, q) = Done(bytes, total, n)
    BY <2>5 DEF Done, total
  <2> HIDE DEF k, a, q, rest
  <2> QED  BY <2>2, <2>3, <2>6, <2>7
<1>15. ApplyBinaryHunks(bytes) = BytesAsRead(bytes)
  <2>1. BytesAsRead(bytes) = Till(bytes, total)
    <3>1. Len(bytes) \in 0..Len(bytes)
      BY <1>1 DEF total
    <3> QED  BY <1>2, <3>1, TillIs DEF total
  <2> HIDE DEF rest
  <2> QED  BY <1>5, <1>11, <1>14, <2>1
<1>16. rest \in Seq(Text) /\ Len(rest) = total - c(n) /\ n \in 0..n /\ c(n) \in 0..total
  <2>1. n \in 0..n /\ c(n) \in 0..total
    BY <1>1, <1>6
  <2> DEFINE k == c(n)
  <2>2. k \in 0..total
    BY <2>1
  <2> HIDE DEF k, c
  <2>3. k + 1 \in 1..(Len(bytes) + 1) /\ total \in k..Len(bytes) /\ total = Len(bytes)
    BY <1>1, <2>2 DEF total
  <2>4. SubSeq(bytes, k + 1, total) \in Seq(Text) /\ Len(SubSeq(bytes, k + 1, total)) = total - k
    BY <1>1, <2>2, <2>3, SubSeqProperties
  <2> QED  BY <2>1, <2>4 DEF k
<1>17. w[n] \in Seq(Text) /\ w[n] \o rest \in Seq(Text) /\ Len(w[n] \o rest) = Len(w[n]) + Len(rest)
  <2>1. w[n] \in Seq(Text)
    BY <1>11, <1>16
  <2> DEFINE x == w[n]
  <2> HIDE DEF x, rest
  <2>2. x \in Seq(Text)
    BY <2>1 DEF x
  <2>3. x \o rest \in Seq(Text) /\ Len(x \o rest) = Len(x) + Len(rest)
    BY <1>16, <2>2, ConcatProperties
  <2> QED  BY <2>2, <2>3 DEF x
\* The bytes that came and went up to the cursor.
<1> DEFINE came == [k \in DOMAIN patch |-> Len(patch[k].body)]
           went == [k \in DOMAIN patch |-> IF patch[k].op \in {"replace", "delete"} THEN patch[k].len ELSE 0]
           in(j) == Total(Counted(ops, j, came))
           out(j) == Total(Counted(ops, j, went))
<1>18. \A k \in DOMAIN patch : /\ Len(patch[k].body) \in Int /\ patch[k].len \in Int
                               /\ patch[k].op \in {"delete", "append", "replace"}
  <2> SUFFICES ASSUME NEW k \in DOMAIN patch
               PROVE  Len(patch[k].body) \in Int /\ patch[k].len \in Int /\ patch[k].op \in {"delete", "append", "replace"}
    OBVIOUS
  <2>1. patch[k] \in Hunk
    OBVIOUS
  <2>2. patch[k].body \in Seq(Text) /\ patch[k].len \in Nat /\ patch[k].op \in {"delete", "append", "replace"}
    BY <2>1, AtIs DEF Hunk, Text
  <2> QED  BY <2>2
<1>19. came \in [DOMAIN patch -> Int] /\ went \in [DOMAIN patch -> Int]
  BY <1>18
<1>20. Additions = Total(came) /\ Deletions = Total(went)
  BY DEF Additions, Deletions
<1>21. ASSUME NEW j \in 1..n
       PROVE  /\ came[ops[j].order] = Len(ops[j].body)
              /\ went[ops[j].order] = ops[j].end - ops[j].start
  <2> DEFINE k == ops[j].order
  <2>1. k \in DOMAIN patch /\ ops[j].body = patch[k].body
    BY <1>7 DEF n
  <2>2. Stands(ops[j], total)
    BY <1>3 DEF Laid, n
  <2>3. ops[j].start \in Int /\ ops[j].end \in Int
    BY <1>7
  <2>4. CASE k \in Inserts /\ ops[j].end = ops[j].start
    <3>1. went[k] = 0
      BY <2>1, <2>4 DEF Inserts, Places
    <3> QED  BY <2>1, <2>3, <2>4, <3>1
  <2>5. CASE k \in Ranges /\ ops[j].start = patch[k].from /\ ops[j].end = patch[k].from + patch[k].len
    <3>1. went[k] = patch[k].len
      BY <2>1, <2>5 DEF Ranges, Places
    <3>2. patch[k].len \in Int /\ patch[k].from \in Int
      BY <1>18, <2>1, <2>3, <2>5
    <3> QED  BY <2>1, <2>3, <2>5, <3>1, <3>2
  <2> QED  BY <2>2, <2>4, <2>5 DEF Stands
<1>22. /\ in(0) = 0 /\ in(n) = Additions
       /\ \A j \in 1..n : in(j) = in(j - 1) + came[ops[j].order]
       /\ \A j \in 0..n : in(j) \in Int
  <2> HIDE DEF came
  <2> QED  BY <1>1, <1>3, <1>19, <1>20, TotalInOrder DEF n
<1>23. /\ out(0) = 0 /\ out(n) = Deletions
       /\ \A j \in 1..n : out(j) = out(j - 1) + went[ops[j].order]
       /\ \A j \in 0..n : out(j) \in Int
  <2> HIDE DEF went, came
  <2>1. total \in Nat /\ went \in [DOMAIN patch -> Int]
    BY <1>1, <1>19
  <2>2. out(0) = 0 /\ out(n) = Total(went)
    BY <1>3, <2>1, TotalInOrder DEF n
  <2>3. \A j \in 1..n : out(j) = out(j - 1) + went[ops[j].order]
    BY <1>3, <2>1, TotalInOrder DEF n
  <2>4. \A j \in 0..n : out(j) \in Int
    BY <1>3, <2>1, TotalInOrder DEF n
  <2> QED  BY <1>20, <2>2, <2>3, <2>4
<1> HIDE DEF came, went, in, out
<1>24. \A j \in 0..n : Len(w[j]) + out(j) = c(j) + in(j)
  <2> DEFINE S == {j \in 0..n : Len(w[j]) + out(j) = c(j) + in(j)}
  <2>1. 0 \in S
    <3>1. c(0) = 0 /\ Len(<<>>) = 0
      BY DEF Cursor
    <3> HIDE DEF c
    <3> QED  BY <1>1, <1>11, <1>22, <1>23, <3>1
  <2>2. ASSUME NEW j \in 1..n, j - 1 \in S PROVE j \in S
    <3>1. Len(w[j - 1]) + out(j - 1) = c(j - 1) + in(j - 1) /\ j \in 0..n
      BY <1>1, <2>2
    <3>2. Len(w[j]) = Len(w[j - 1]) + Len(piece(j)) /\ Len(w[j - 1]) \in Nat
      <4> DEFINE x == w[j - 1]
                 y == piece(j)
      <4>1. x \in Seq(Text)
        BY <1>8, <1>11
      <4>2. y \in Seq(Text) /\ w[j] = x \o y
        BY <1>9, <1>12
      <4> HIDE DEF x, y
      <4>3. Len(x \o y) = Len(x) + Len(y) /\ Len(x) \in Nat
        BY <4>1, <4>2, ConcatProperties
      <4> QED  BY <4>2, <4>3 DEF x, y
    <3> DEFINE lp == Len(piece(j))
               lb == Len(ops[j].body)
               s  == ops[j].start
               e  == ops[j].end
               lw == Len(w[j - 1])
               cp == c(j - 1)
    <3>3. lp = (s - cp) + lb /\ lb \in Nat
      BY <1>9
    <3>4. c(j) = e /\ s \in Int /\ e \in Int /\ cp \in Int
      <4>1. c(j) = e /\ s \in 0..total /\ e \in 0..total
        BY <1>7
      <4>2. cp \in 0..total
        BY <1>6, <1>8
      <4> HIDE DEF c, s, e, cp
      <4> QED  BY <1>1, <4>1, <4>2
    <3>5. in(j) = in(j - 1) + lb /\ out(j) = out(j - 1) + (e - s)
      BY <1>21, <1>22, <1>23
    <3>6. in(j - 1) \in Int /\ out(j - 1) \in Int
      BY <1>8, <1>22, <1>23
    <3> HIDE DEF lp, lb, s, e, lw, cp
    <3>7. Len(w[j]) = lw + lp /\ lw \in Nat /\ lw + out(j - 1) = cp + in(j - 1)
      BY <3>1, <3>2 DEF lw, lp, cp
    <3> DEFINE cj == c(j)
               oj == out(j)
               ij == in(j)
               op == out(j - 1)
               ip == in(j - 1)
               lj == Len(w[j])
    <3>9. /\ lj = lw + lp /\ lw \in Nat /\ lw + op = cp + ip /\ ij = ip + lb /\ oj = op + (e - s)
          /\ op \in Int /\ ip \in Int /\ cj = e
      BY <3>4, <3>5, <3>6, <3>7
    <3> HIDE DEF c, cj, oj, ij, op, ip, lj
    <3>8. lj + oj = cj + ij
      BY <3>3, <3>4, <3>9
    <3> QED  BY <3>1, <3>8 DEF lj, oj, cj, ij
  <2>3. 0..n \subseteq S
    <3> HIDE DEF S
    <3> QED  BY <1>1, <2>1, <2>2, UpTo
  <2> QED  BY <2>3
<1>25. Len(ApplyBinaryHunks(bytes)) + Deletions = total + Additions
  <2> DEFINE k == c(n)
             lw == Len(w[n])
             lr == Len(rest)
  <2>1. lw + Deletions = k + Additions /\ lr = total - k /\ k \in Int /\ total \in Int
    BY <1>1, <1>16, <1>22, <1>23, <1>24
  <2>2. Additions \in Int /\ Deletions \in Int
    BY <1>16, <1>22, <1>23
  <2>3. lw \in Int
    BY <1>17
  <2>4. Len(ApplyBinaryHunks(bytes)) = lw + lr
    BY <1>5, <1>11, <1>17
  <2> HIDE DEF k, lw, lr
  <2> QED  BY <2>1, <2>2, <2>3, <2>4
<1>26. ApplyBinaryHunks(bytes) \in Seq(Text)
  <2> HIDE DEF rest
  <2> QED  BY <1>5, <1>11, <1>17
<1> QED  BY <1>15, <1>25, <1>26 DEF total

\* The reference depends on the patch alone.
LEMMA SamePatch ==
  ASSUME UNCHANGED patch
  PROVE  /\ \A total : RangesApart(total)' <=> RangesApart(total)
         /\ \A bytes : BytesAsRead(bytes)' = BytesAsRead(bytes)
<1>1. Ranges' = Ranges /\ Inserts' = Inserts
  BY DEF Ranges, Inserts, Places
<1>2. \A total : RangesApart(total)' <=> RangesApart(total)
  <2> SUFFICES ASSUME NEW total PROVE RangesApart(total)' <=> RangesApart(total)
    OBVIOUS
  <2> DEFINE Apt(p, ran, ins) ==
        /\ p # <<>>
        /\ \A k \in DOMAIN p : p[k].op = "delete" \/ Len(p[k].body) = p[k].len
        /\ \A k \in ran : At(p[k]) # {} /\ At(p[k]) \subseteq 0..(total - 1)
        /\ \A j, k \in ran : j # k => At(p[j]) \cap At(p[k]) = {}
        /\ \A k \in ins :
             /\ p[k].body # <<>> /\ Boundary(p[k], total) <= total
             /\ \A j \in ran : Boundary(p[k], total) \notin At(p[j]) \ {p[j].from}
  <2>1. RangesApart(total) <=> Apt(patch, Ranges, Inserts)
    BY DEF RangesApart
  <2>2. RangesApart(total)' <=> Apt(patch', Ranges', Inserts')
    BY DEF RangesApart
  <2> HIDE DEF Apt
  <2> QED  BY <1>1, <2>1, <2>2
<1>3. \A gap, total : Added(gap, total)' = Added(gap, total)
  <2> SUFFICES ASSUME NEW gap, NEW total PROVE Added(gap, total)' = Added(gap, total)
    OBVIOUS
  <2> DEFINE Add(p, ins) ==
        FlattenSeq([k \in DOMAIN p |-> IF k \in ins /\ Boundary(p[k], total) = gap THEN p[k].body ELSE <<>>])
  <2>1. Added(gap, total) = Add(patch, Inserts)
    BY DEF Added
  <2>2. Added(gap, total)' = Add(patch', Inserts')
    BY DEF Added
  <2> HIDE DEF Add
  <2> QED  BY <1>1, <2>1, <2>2
<1>4. \A bytes, i : Kept(bytes, i)' = Kept(bytes, i)
  <2> SUFFICES ASSUME NEW bytes, NEW i PROVE Kept(bytes, i)' = Kept(bytes, i)
    OBVIOUS
  <2> DEFINE Keep(p, ran) ==
        LET over == {k \in ran : i - 1 \in At(p[k])}
        IN  IF over = {} THEN <<bytes[i]>>
            ELSE LET hunk == p[CHOOSE k \in over : TRUE]
                 IN  IF hunk.op = "delete" THEN <<>> ELSE <<hunk.body[i - hunk.from]>>
  <2>1. Kept(bytes, i) = Keep(patch, Ranges)
    BY DEF Kept
  <2>2. Kept(bytes, i)' = Keep(patch', Ranges')
    BY DEF Kept
  <2> HIDE DEF Keep
  <2> QED  BY <1>1, <2>1, <2>2
<1>5. \A bytes : BytesAsRead(bytes)' = BytesAsRead(bytes)
  <2> SUFFICES ASSUME NEW bytes PROVE BytesAsRead(bytes)' = BytesAsRead(bytes)
    OBVIOUS
  <2> DEFINE f == [i \in DOMAIN bytes |-> Kept(bytes, i) \o Added(i, Len(bytes))]
             g == [i \in DOMAIN bytes |-> Kept(bytes, i)' \o Added(i, Len(bytes))']
  <2>1. f = g
    BY <1>3, <1>4
  <2>2. /\ BytesAsRead(bytes) = Added(0, Len(bytes)) \o FlattenSeq(f)
        /\ BytesAsRead(bytes)' = Added(0, Len(bytes))' \o FlattenSeq(g)
    BY DEF BytesAsRead
  <2> HIDE DEF f, g
  <2> QED  BY <1>3, <2>1, <2>2
<1> QED  BY <1>2, <1>5

\* What apply_binary_patch leaves.
LEMMA BinaryApplied ==
  ASSUME Patchable, ApplyBinaryPatch
  PROVE  /\ file.kind = "binary" /\ file \in Files
         /\ \/ /\ answer' = [mode |-> "binary", ok |-> FALSE] /\ UNCHANGED file
               /\ ~RangesApart(Len(file.bytes))
            \/ /\ answer' = [mode |-> "binary", ok |-> TRUE, before |-> file,
                             additions |-> Additions, deletions |-> Deletions]
               /\ RangesApart(Len(file.bytes))
               /\ file' = [kind |-> "binary", bytes |-> BytesAsRead(file.bytes)]
               /\ file' \in Files
               /\ Len(BytesAsRead(file.bytes)) + Deletions = Len(file.bytes) + Additions
<1>1. /\ file.kind = "binary" /\ answer = None /\ file \in Files /\ Len(file.bytes) < UsizeMax
      /\ patch \in Seq(Hunk)
  BY DEF ApplyBinaryPatch, Patchable, Instructions
<1>2. file = [kind |-> "binary", bytes |-> file.bytes] /\ file.bytes \in Seq(Text)
  BY <1>1 DEF Files, Text
<1>3. Len(file.bytes) \in Nat
  BY <1>2
<1>4. BytesAccepted(Len(file.bytes)) <=> RangesApart(Len(file.bytes))
  BY <1>1, <1>3, AcceptedIsApart
<1>5. \A k \in Ranges : patch[k].op = "delete" => patch[k].body = <<>>
  <2>1. \A k \in Ranges : patch[k].op = "delete" => k \in Places({"delete"})
    BY DEF Ranges, Places
  <2> QED  BY <1>1, <2>1 DEF Patchable
<1>6. CASE ~BytesAccepted(Len(file.bytes)) /\ Refused("binary")
  BY <1>1, <1>4, <1>6 DEF Refused
<1>7. CASE /\ BytesAccepted(Len(file.bytes))
           /\ file' = [file EXCEPT !.bytes = ApplyBinaryHunks(@)]
           /\ answer' = [mode |-> "binary", ok |-> TRUE, before |-> file,
                         additions |-> Additions, deletions |-> Deletions]
  <2> DEFINE bytes == file.bytes
             out == ApplyBinaryHunks(bytes)
  <2>1. /\ out = BytesAsRead(bytes) /\ out \in Seq(Text)
        /\ Len(out) + Deletions = Len(bytes) + Additions
    BY <1>1, <1>2, <1>5, <1>7, HunksAreRead
  <2>2. file' = [file EXCEPT !.bytes = out]
    BY <1>7
  <2> HIDE DEF out
  <2>3. file' = [kind |-> "binary", bytes |-> out]
    BY <1>2, <2>2
  <2>4. file' \in Files
    BY <2>1, <2>3 DEF Files, Text
  <2> QED  BY <1>1, <1>4, <1>7, <2>1, <2>3, <2>4
<1> QED  BY <1>6, <1>7 DEF ApplyBinaryPatch

\* A step that writes bytes writes what its hunks mean.
LEMMA HunksStep ==
  ASSUME Patchable, HunksReadSnapshot, [Work]_<<vars, toolVars>>
  PROVE  HunksReadSnapshot'
<1> DEFINE Reads2(a, f, b, apart, as) ==
      a # None /\ a.mode = "binary" =>
        /\ a.ok <=> apart
        /\ a.ok => f.bytes = as /\ Len(f.bytes) + a.deletions = Len(b.bytes) + a.additions
<1>1. HunksReadSnapshot <=>
        Reads2(answer, file, Before, RangesApart(Len(Before.bytes)), BytesAsRead(Before.bytes))
  BY DEF HunksReadSnapshot
<1>3. ASSUME NEW b, Before' = b, UNCHANGED patch
      PROVE  HunksReadSnapshot' <=> Reads2(answer', file', b, RangesApart(Len(b.bytes)), BytesAsRead(b.bytes))
  <2>1. HunksReadSnapshot' <=> Reads2(answer', file', b, RangesApart(Len(b.bytes))', BytesAsRead(b.bytes)')
    BY <1>3 DEF HunksReadSnapshot
  <2>2. /\ RangesApart(Len(b.bytes))' <=> RangesApart(Len(b.bytes))
        /\ BytesAsRead(b.bytes)' = BytesAsRead(b.bytes)
    BY <1>3, SamePatch
  <2> QED  BY <2>1, <2>2
<1>4. CASE answer # None
  <2>1. UNCHANGED <<file, patch, answer>>
    BY <1>4, AnswerStays
  <2>2. UNCHANGED Before
    BY <2>1 DEF Before
  <2>3. HunksReadSnapshot' <=>
          Reads2(answer', file', Before, RangesApart(Len(Before.bytes)), BytesAsRead(Before.bytes))
    BY <1>3, <2>1, <2>2
  <2> HIDE DEF Reads2
  <2> QED  BY <1>1, <2>1, <2>3
<1>5. CASE answer = None /\ answer' = None
  BY <1>5 DEF HunksReadSnapshot
<1>6. CASE answer = None /\ ApplyTextPatch
  BY <1>6 DEF ApplyTextPatch, Refused, HunksReadSnapshot
<1>7. CASE answer = None /\ ApplyBinaryPatch
  <2>1. UNCHANGED patch
    BY <1>7 DEF ApplyBinaryPatch, Refused
  <2>2. Before' = file
    BY <1>7, BinaryApplied DEF Before
  <2>3. HunksReadSnapshot' <=>
          Reads2(answer', file', file, RangesApart(Len(file.bytes)), BytesAsRead(file.bytes))
    BY <1>3, <2>1, <2>2
  <2>4. Reads2(answer', file', file, RangesApart(Len(file.bytes)), BytesAsRead(file.bytes))
    BY <1>7, BinaryApplied
  <2> QED  BY <2>3, <2>4
<1> QED  BY <1>4, <1>5, <1>6, <1>7, AnswerComes

-----------------------------------------------------------------------------
(* The invariants, step by step, and the theorems.                         *)

\* The initial states of Patch are well typed.
LEMMA TypeInit == WorkInit => TypeOK
<1> SUFFICES ASSUME WorkInit PROVE TypeOK
  OBVIOUS
<1>1. Patchable /\ answer = None
  BY PatchInit DEF WorkInit, Init
<1> QED  BY <1>1 DEF Patchable, Instructions, TypeOK

\* The type of what the tools and the patches share.
LEMMA TypeStep ==
  ASSUME Patchable, TypeOK, [Work]_<<vars, toolVars>>
  PROVE  TypeOK'
<1>1. Patchable'
  BY PatchableStep
<1>2. patch' \in Seq(IF file'.kind = "text" THEN LineOp ELSE Hunk)
  BY <1>1 DEF Patchable, Instructions
<1>3. file' \in Files /\ answer' \in Answers \cup {None}
  <2>1. CASE answer # None
    BY <2>1, AnswerStays DEF TypeOK
  <2>2. CASE answer' = None
    BY <1>1, <2>2 DEF Patchable
  <2>3. CASE answer = None /\ answer' # None
    <3>1. ApplyTextPatch \/ ApplyBinaryPatch
      BY <2>3, AnswerComes
    <3>2. answer' \in Answers
      BY <3>1, AppliesAnswer
    <3>3. CASE ApplyTextPatch
      BY <3>2, <3>3, TextApplied DEF TypeOK
    <3>4. CASE ApplyBinaryPatch
      BY <3>2, <3>4, BinaryApplied DEF TypeOK
    <3> QED  BY <3>1, <3>3, <3>4
  <2> QED  BY <2>1, <2>2, <2>3
<1> QED  BY <1>2, <1>3 DEF TypeOK

\* The type invariant of ReadTools follows from the stronger types above.
LEMMA ToolsTyped ==
  ASSUME SearchTyped, ReadTyped
  PROVE  Tools!TypeOK
<1>1. read = Tools!Idle \/ read.step \in {"asking", "refused", "lost", "done"}
  BY DEF ReadTyped, ReadRecords
<1>2. search = Tools!Idle \/ /\ search.step \in {"sent", "walking", "reading", "finished", "failed"}
                             /\ search.next \in 1..(Len(search.tree) + 1)
                             /\ search.hits \in Nat
  <2>1. CASE search # Tools!Idle
    <3>1. search \in Searches /\ search.next <= Len(search.tree) + 1
      BY <2>1 DEF SearchTyped
    <3>2. Len(search.tree) \in Nat
      BY <3>1, SearchValues
    <3> QED  BY <3>1, <3>2 DEF Searches
  <2> QED  BY <2>1
<1> QED  BY <1>1, <1>2 DEF Tools!TypeOK, SearchTyped, ReadTyped

\* What holds in every state of the work, one lemma for each part.
LEMMA PatchableHolds == WorkSpec => []Patchable
BY PatchInit, PatchableStep, PTL DEF WorkSpec

\* The type of a search always holds.
LEMMA SearchTypedHolds == WorkSpec => []SearchTyped
BY SearchInit, SearchStep, PTL DEF WorkSpec

\* So does the account of the seconds.
LEMMA ClockHoldsAlways == WorkSpec => []ClockHolds
BY SearchInit, SearchTypedHolds, ClockStep, PTL DEF WorkSpec

\* The type of a read always holds.
LEMMA ReadTypedHolds == WorkSpec => []ReadTyped
BY ReadInit, PatchableHolds, ReadTypedStep, PTL DEF WorkSpec

\* A client has always been shown a run of the items.
LEMMA ShownAlways == WorkSpec => []ShownHolds
BY ReadInit, PatchableHolds, ReadTypedHolds, ShownStep, PTL DEF WorkSpec

\* Every variable of the file tools keeps its type: a patch in hand is one its file can
\* have, a search stays within its tree and its counters are numbers, the clock does not
\* run past its end.
THEOREM WorkIsTyped == WorkSpec => []WorkTypeOK
<1>1. WorkSpec => []TypeOK
  BY TypeInit, PatchableHolds, TypeStep, PTL DEF WorkSpec
<1>2. TypeOK /\ SearchTyped /\ ReadTyped => WorkTypeOK
  BY ToolsTyped DEF WorkTypeOK
<1>3. QED
  BY <1>1, <1>2, SearchTypedHolds, ReadTypedHolds, PTL

\* A caller that gives up on glob or rg has lost the whole buffer outside the search
\* (call_with_soft_timeout adds it to the timeout the search enforces on itself), or the
\* search runs with the timeout of the tool, which the caller does not count with.
THEOREM AlwaysAnsweredInTime == WorkSpec => []AnsweredInTime
BY SearchInit, SearchTypedHolds, ClockHoldsAlways, AnswerStep, PTL DEF WorkSpec

\* A search that ends without saying it ran out of time found all there is up to its
\* count: rg's matches but those of damaged files, glob's paths, with the flag for more.
THEOREM FlagsAlwaysTrue == WorkSpec => []FlagsAreTrue
<1>1. WorkInit => FoundHolds /\ FlagsAreTrue
  BY DEF WorkInit, Tools!Init, FoundHolds, FlagsAreTrue, Tools!FlagsAreTrue
<1>2. QED
  BY <1>1, SearchTypedHolds, FlagsStep, PTL DEF WorkSpec

\* A client that follows the hints of read to the end has seen every line, byte or entry
\* from where it began, once and in order, for files and limits of any size.
THEOREM PagesAlwaysCover == WorkSpec => []PagesCover
BY PatchableHolds, ReadTypedHolds, ShownAlways, CoverIsShown, PTL

\* The offset a page of read names to go on with is never refused, and is lost only in a
\* text with a line further on that cannot be cut, unless the file was written meanwhile.
THEOREM HintsAlwaysHold == WorkSpec => []HintsHold
BY PatchableHolds, ReadTypedHolds, ShownAlways, CoverIsShown, PTL

\* Read and a text patch number a line alike up to the first lone carriage return.
THEOREM NumbersAlwaysAgree == WorkSpec => []NumbersAgree
BY PatchableHolds, ReadTypedHolds, ShownAlways, NumbersAreShown, PTL

\* A text patch keeps the byte order mark and the one line ending of a file: TextShape
\* detects it, patches line feeds and converts back.
THEOREM EndingsAlwaysKept == WorkSpec => []EndingsKept
<1>1. WorkInit => EndingsKept
  BY DEF WorkInit, Init, EndingsKept
<1>2. QED
  BY <1>1, PatchableHolds, EndingsStep, PTL DEF WorkSpec

\* A binary patch is accepted exactly when its ranges lie in the file and apart with
\* nothing inserted inside one; what apply_binary_hunks then writes by sorting and copying
\* is what the hunks say of the bytes as read, and the counts account for the new length.
THEOREM HunksAlwaysReadSnapshot == WorkSpec => []HunksReadSnapshot
<1>1. WorkInit => HunksReadSnapshot
  BY DEF WorkInit, Init, HunksReadSnapshot
<1>2. QED
  BY <1>1, PatchableHolds, HunksStep, PTL DEF WorkSpec

\* A text patch is applied exactly when it is unambiguous, and then the file holds what its
\* instructions say one after the other, every line named by the number it had when it was
\* read: apply_line_patch collects deletions, replacements and insertions and writes at once.
THEOREM PatchAlwaysReadsSnapshot == WorkSpec => []PatchReadsSnapshot
<1>1. WorkInit => PatchReadsSnapshot
  BY DEF WorkInit, Init, PatchReadsSnapshot
<1>2. QED
  BY <1>1, PatchableHolds, PatchStep, PTL DEF WorkSpec
=============================================================================
