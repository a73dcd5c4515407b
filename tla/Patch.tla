-------------------------------- MODULE Patch --------------------------------
(***************************************************************************)
(* The patch algorithms of FileAction (src/src/tools/file_action/mod.rs):  *)
(* the line instructions of a text patch and the byte hunks of a binary    *)
(* one. A client writes a patch instruction by instruction (Instruct) and  *)
(* sends it (ApplyTextPatch, ApplyBinaryPatch). Hash check, lock and       *)
(* failures of the disk are in WritePath.                                  *)
(*                                                                         *)
(* A text and a byte are the place they come from: <<0, i>> is the i-th of *)
(* the file as it was, <<k, j>> the j-th one brought by instruction k.     *)
(* Texts hold no carriage return of their own, and a line ended by a lone  *)
(* one is not followed by an empty line ended by a line feed (the same     *)
(* bytes are one CRLF).                                                    *)
(***************************************************************************)
EXTENDS Integers, SequencesExt

CONSTANTS
  Endings,      \* the text files: the line ending of each of their lines
  Sizes,        \* the binary files: their length
  MaxOps,       \* bound: instructions in a patch
  MaxBlock,     \* bound: lines or bytes an instruction brings
  UsizeMax,     \* the largest value of a usize
  None          \* no answer yet

ASSUME PatchAssumption ==
  /\ Endings \subseteq Seq({"lf", "crlf", "cr", "none"})
  /\ \A e \in Endings : \A i \in DOMAIN e : e[i] = "none" => i = Len(e)
  /\ UsizeMax \in Nat
  /\ Sizes \subseteq 0..(UsizeMax - 1)     \* a Vec holds isize::MAX bytes at most
  /\ MaxOps \in Nat
  /\ MaxBlock \in 0..UsizeMax

VARIABLES
  file,     \* what is on the disk
  patch,    \* the instructions written so far
  answer    \* what apply_text_patch or apply_binary_patch returned

vars == <<file, patch, answer>>

Blank == <<0, 0>>
Brought(k, n) == [j \in 1..n |-> <<k, j>>]
Places(S) == {k \in DOMAIN patch : patch[k].op \in S}

TextFile(bom, ends) ==
  [kind |-> "text", bom |-> bom,
   lines |-> [i \in DOMAIN ends |-> [text |-> <<0, i>>, eol |-> ends[i]]]]

BinaryFile(size) == [kind |-> "binary", bytes |-> Brought(0, size)]

Texts(lines) == [i \in DOMAIN lines |-> lines[i].text]

LineOp == [op : {"delete", "move", "append", "replace"}, from : Nat, to : Nat,
           after : Nat \cup {-1}, body : Seq(Nat \X Nat)]
Hunk == [op : {"delete", "append", "replace"}, from : 0..UsizeMax, len : 0..UsizeMax,
         after : (0..UsizeMax) \cup {-1}, body : Seq(Nat \X Nat)]

Line == [text : Nat \X Nat, eol : {"lf", "crlf", "cr", "none"}]

\* Only the last line may lack its ending.
Files ==
  {f \in [kind : {"text"}, bom : BOOLEAN, lines : Seq(Line)] :
     \A i \in DOMAIN f.lines : f.lines[i].eol = "none" => i = Len(f.lines)}
  \cup [kind : {"binary"}, bytes : Seq(Nat \X Nat)]

\* What apply_text_patch and apply_binary_patch return, with the file as it was.
Answers ==
  [mode : {"text", "binary"}, ok : {FALSE}]
  \cup [mode : {"text"}, ok : {TRUE}, before : Files]
  \cup [mode : {"binary"}, ok : {TRUE}, before : Files, additions : Int, deletions : Int]

ASSUME NoneAssumption == None \notin Answers \cup (Nat \X Nat)

TypeOK ==
  /\ file \in Files
  /\ patch \in Seq(IF file.kind = "text" THEN LineOp ELSE Hunk)
  /\ answer \in Answers \cup {None}

-----------------------------------------------------------------------------
(* Text patches. An instruction is the lines from..to it deletes, moves or   *)
(* replaces, the line it inserts after (0 start, -1 end), and its own lines. *)

\* parse_line_range and parse_line_number refuse 0 and a reversed range;
\* ensure_line_range refuses what the file has not.
InLines(op, n) == 1 <= op.from /\ op.from <= op.to /\ op.to <= n

\* LineInsertTarget::index: the boundary, counted in lines before it.
Boundary(op, n) == IF op.after = -1 THEN n ELSE op.after

Apart(p, q) == p.to < q.from \/ q.to < p.from

\* What apply_line_patch refuses: an empty patch, a line or a target the file
\* has not, a move into itself, and two instructions for one line.
LinesAccepted(n) ==
  /\ patch # <<>>
  /\ \A k \in Places({"delete", "move", "replace"}) : InLines(patch[k], n)
  /\ \A k \in Places({"move", "append"}) : Boundary(patch[k], n) <= n
  /\ \A k \in Places({"move"}) : patch[k].after \notin patch[k].from..patch[k].to
  /\ \A j, k \in Places({"delete", "move"}) : j # k => Apart(patch[j], patch[k])
  /\ \A j, k \in Places({"replace"}) : j # k => Apart(patch[j], patch[k])
  /\ \A j \in Places({"replace"}), k \in Places({"delete"}) : Apart(patch[j], patch[k])

Removed(i) == \E k \in Places({"delete", "move"}) : i \in patch[k].from..patch[k].to

\* line_text: a line with its replacement, wherever that stands in the patch.
LineText(texts, i) ==
  LET by == {k \in Places({"replace"}) : patch[k].from = i}
  IN  IF by = {} THEN texts[i] ELSE patch[CHOOSE k \in by : TRUE].body[1]

\* A moved line is taken from the file, without its replacement.
Inserted_original(texts, k) ==
  IF patch[k].op = "append" THEN patch[k].body
  ELSE SubSeq(texts, patch[k].from, patch[k].to)

\* The lines instruction k inserts.
Inserted(texts, k) ==
  IF patch[k].op = "append" THEN patch[k].body
  ELSE [j \in 1..(patch[k].to - patch[k].from + 1) |-> LineText(texts, patch[k].from + j - 1)]

\* resolve_line_insertions: at one boundary, in the order of the instructions.
Insertions(texts, b) ==
  FlattenSeq([k \in DOMAIN patch |->
    IF k \in Places({"move", "append"}) /\ Boundary(patch[k], Len(texts)) = b
    THEN Inserted(texts, k) ELSE <<>>])

ApplyLinePatch(texts) ==
  Insertions(texts, 0) \o
  FlattenSeq([i \in DOMAIN texts |->
    (IF Removed(i) THEN <<>> ELSE <<LineText(texts, i)>>) \o Insertions(texts, i)])

\* detect_line_ending: that of the first line feed; a lone CR is not seen.
DetectLineEnding(lines) ==
  LET fed == {i \in DOMAIN lines : lines[i].eol \in {"lf", "crlf"}}
  IN  IF fed = {} THEN "lf" ELSE lines[Min(fed)].eol

\* The line endings are not restored.
Encode_unrestored(lines, out) == [i \in DOMAIN out |-> [text |-> out[i], eol |-> "lf"]]

\* The end of apply_line_patch and TextShape::encode: every line ends in the
\* ending detected. With no line left, a text that ended in a newline becomes
\* one newline.
Encode(lines, out) ==
  LET rows == IF out = <<>> /\ lines # <<>> /\ Last(lines).eol # "none"
              THEN <<Blank>> ELSE out
  IN  [i \in DOMAIN rows |-> [text |-> rows[i], eol |-> DetectLineEnding(lines)]]

Refused(mode) ==
  /\ answer' = [mode |-> mode, ok |-> FALSE]
  /\ UNCHANGED <<file, patch>>

\* apply_text_patch: TextShape::from_bytes refuses a binary file.
ApplyTextPatch ==
  /\ answer = None
  /\ \/ file.kind = "binary" /\ Refused("text")
     \/ file.kind = "text" /\ ~LinesAccepted(Len(file.lines)) /\ Refused("text")
     \/ /\ file.kind = "text"
        /\ LinesAccepted(Len(file.lines))
        /\ file' = [file EXCEPT !.lines = Encode(@, ApplyLinePatch(Texts(@)))]
        /\ answer' = [mode |-> "text", ok |-> TRUE, before |-> file]
        /\ UNCHANGED patch

-----------------------------------------------------------------------------
(* Binary patches. A hunk replaces or deletes len bytes from offset from, or *)
(* inserts its body at offset after (-1 end).                                *)

\* usize::checked_add: nothing when the sum does not fit.
CheckedAdd(a, b) == {sum \in {a + b} : sum <= UsizeMax}

\* byte_range_end.
ByteRangeEnd(hunk, total) == {end \in CheckedAdd(hunk.from, hunk.len) : end <= total}

\* parse_binary_patch and hunk_to_binary_operation on one hunk. A length is
\* not 0 and is that of the body.
HunkAccepted(hunk, total) ==
  /\ hunk.len > 0
  /\ hunk.op # "delete" => Len(hunk.body) = hunk.len
  /\ hunk.op # "append" => ByteRangeEnd(hunk, total) # {}
  /\ hunk.op = "append" => Boundary(hunk, total) <= total

Operation(k, total) ==
  LET hunk == patch[k]
      at == Boundary(hunk, total)
  IN  IF hunk.op = "append"
      THEN [start |-> at, end |-> at, body |-> hunk.body, order |-> k]
      ELSE [start |-> hunk.from, end |-> hunk.from + hunk.len, body |-> hunk.body, order |-> k]

\* The sort key leaves out whether an operation is an insertion.
Precedes_byOrder(p, q) ==
  p.start < q.start \/ (p.start = q.start /\ p.order < q.order)

\* The key of sort_by_key: start, insertions before ranges, order.
Precedes(p, q) ==
  \/ p.start < q.start
  \/ /\ p.start = q.start
     /\ \/ p.end = p.start /\ q.end > q.start
        \/ (p.end = p.start <=> q.end = q.start) /\ p.order < q.order

Operations(total) ==
  LET all == {Operation(k, total) : k \in DOMAIN patch}
  IN  [n \in DOMAIN patch |->
         CHOOSE p \in all : Cardinality({q \in all : Precedes(q, p)}) = n - 1]

\* The cursor of apply_binary_hunks when it comes to the k-th operation.
Cursor(ops, k) == IF k = 1 THEN 0 ELSE ops[k - 1].end

BytesAccepted(total) ==
  /\ patch # <<>>
  /\ \A k \in DOMAIN patch : HunkAccepted(patch[k], total)
  /\ LET ops == Operations(total)
     IN  \A k \in DOMAIN ops : ops[k].start >= Cursor(ops, k)

ApplyBinaryHunks(bytes) ==
  LET ops == Operations(Len(bytes))
  IN  FlattenSeq([k \in DOMAIN ops |->
                    SubSeq(bytes, Cursor(ops, k) + 1, ops[k].start) \o ops[k].body])
      \o SubSeq(bytes, Cursor(ops, Len(ops) + 1) + 1, Len(bytes))

\* The additions and deletions of the operations, which the answer shows.
Total(counts) ==
  LET upTo[n \in 0..Len(counts)] == IF n = 0 THEN 0 ELSE upTo[n - 1] + counts[n]
  IN  upTo[Len(counts)]

Additions == Total([k \in DOMAIN patch |-> Len(patch[k].body)])
Deletions == Total([k \in DOMAIN patch |->
                      IF patch[k].op \in {"replace", "delete"} THEN patch[k].len ELSE 0])

\* apply_binary_patch. Bytes of a text are patched the same way: the files
\* of Sizes stand for both.
ApplyBinaryPatch ==
  /\ answer = None
  /\ file.kind = "binary"
  /\ \/ ~BytesAccepted(Len(file.bytes)) /\ Refused("binary")
     \/ /\ BytesAccepted(Len(file.bytes))
        /\ file' = [file EXCEPT !.bytes = ApplyBinaryHunks(@)]
        /\ answer' = [mode |-> "binary", ok |-> TRUE, before |-> file,
                      additions |-> Additions, deletions |-> Deletions]
        /\ UNCHANGED patch

-----------------------------------------------------------------------------
(* The client. Instructions are enumerated one beyond every limit, and a     *)
(* patch is extended only while it is acceptable: each refusal is of the     *)
(* last instruction.                                                         *)

LineInstructions(n, k) ==
  LET Number == 0..(n + 1)
  IN       {[op |-> "delete", from |-> s, to |-> e, after |-> 0, body |-> <<>>] :
              s \in Number, e \in Number}
      \cup {[op |-> "move", from |-> s, to |-> e, after |-> t, body |-> <<>>] :
              s \in Number, e \in Number, t \in Number \cup {-1}}
      \cup {[op |-> "append", from |-> 0, to |-> 0, after |-> t, body |-> Brought(k, b)] :
              t \in Number \cup {-1}, b \in 0..MaxBlock}
      \cup {[op |-> "replace", from |-> i, to |-> i, after |-> 0, body |-> Brought(k, 1)] :
              i \in Number}

\* Offsets up to one beyond the file and the largest of all; a body may be one
\* byte longer than declared.
Hunks(total, k) ==
  LET Offset == 0..(total + 1) \cup {UsizeMax}
  IN       {[op |-> "delete", from |-> o, len |-> n, after |-> 0, body |-> <<>>] :
              o \in Offset, n \in 0..MaxBlock}
      \cup {[op |-> "replace", from |-> o, len |-> n, after |-> 0, body |-> Brought(k, n + x)] :
              o \in Offset, n \in 0..MaxBlock, x \in {0, 1}}
      \cup {[op |-> "append", from |-> 0, len |-> n, after |-> o, body |-> Brought(k, n + x)] :
              o \in Offset \cup {-1}, n \in 0..MaxBlock, x \in {0, 1}}

Init ==
  /\ file \in {TextFile(bom, ends) : bom \in BOOLEAN, ends \in Endings}
              \cup {BinaryFile(size) : size \in Sizes}
  /\ patch = <<>>
  /\ answer = None

InstructLines ==
  /\ answer = None
  /\ Len(patch) < MaxOps
  /\ file.kind = "text"
  /\ patch = <<>> \/ LinesAccepted(Len(file.lines))
  /\ \E op \in LineInstructions(Len(file.lines), Len(patch) + 1) : patch' = Append(patch, op)
  /\ UNCHANGED <<file, answer>>

InstructBytes ==
  /\ answer = None
  /\ Len(patch) < MaxOps
  /\ file.kind = "binary"
  /\ patch = <<>> \/ BytesAccepted(Len(file.bytes))
  /\ \E op \in Hunks(Len(file.bytes), Len(patch) + 1) : patch' = Append(patch, op)
  /\ UNCHANGED <<file, answer>>

Next == InstructLines \/ InstructBytes \/ ApplyTextPatch \/ ApplyBinaryPatch

Spec == Init /\ [][Next]_vars

-----------------------------------------------------------------------------
(* What a patch means: the reference the algorithms are compared with. The   *)
(* text as a sequence of lines, which may leave their place, and anchors,    *)
(* one for each boundary; instructions act one after the other.              *)

Anchor(b) == [line |-> b, text |-> None]
IsLine(x) == x.text # None

Document(texts) ==
  <<Anchor(0)>> \o FlattenSeq([i \in DOMAIN texts |-> <<[line |-> i, text |-> texts[i]], Anchor(i)>>])

\* One instruction, whatever the ones before it have done. A block goes before
\* the anchor of its boundary, after what is there already.
Follow(doc, op, n) ==
  LET Named(x) == IsLine(x) /\ x.line \in op.from..op.to
      block == IF op.op = "append"
               THEN [j \in DOMAIN op.body |-> [line |-> 0, text |-> op.body[j]]]
               ELSE FlattenSeq([p \in DOMAIN doc |-> IF Named(doc[p]) THEN <<doc[p]>> ELSE <<>>])
      Becomes(x) ==
        CASE op.op \in {"move", "append"} /\ x = Anchor(Boundary(op, n)) -> Append(block, x)
          [] op.op \in {"delete", "move"} /\ Named(x) -> <<>>
          [] op.op = "replace" /\ Named(x) -> <<[x EXCEPT !.text = op.body[1]]>>
          [] OTHER -> <<x>>
  IN  FlattenSeq([p \in DOMAIN doc |-> Becomes(doc[p])])

AsRead(texts) ==
  LET doc[k \in 0..Len(patch)] ==
        IF k = 0 THEN Document(texts) ELSE Follow(doc[k - 1], patch[k], Len(texts))
      end == doc[Len(patch)]
  IN  FlattenSeq([p \in DOMAIN end |-> IF IsLine(end[p]) THEN <<end[p].text>> ELSE <<>>])

\* A deletion wants the place and the text of its lines, a move the place, a
\* replacement the text.
Wants(op) == CASE op.op = "delete" -> {"place", "text"} [] op.op = "move" -> {"place"}
               [] op.op = "replace" -> {"text"} [] op.op = "append" -> {}
Claims(op) == {<<what, i>> : i \in op.from..op.to, what \in Wants(op)}

Unambiguous(n) ==
  /\ patch # <<>>
  /\ \A k \in DOMAIN patch :
       LET op == patch[k]
           named == op.from..op.to
       IN  /\ op.op # "append" => named # {} /\ named \subseteq 1..n
           /\ op.op \in {"move", "append"} => op.after \in -1..n
           /\ op.op = "move" => op.after \notin named
  /\ \A j, k \in DOMAIN patch : j # k => Claims(patch[j]) \cap Claims(patch[k]) = {}

\* The same for bytes: the places of a hunk, what is inserted at a boundary, and
\* what becomes of a byte.
At(hunk) == hunk.from..(hunk.from + hunk.len - 1)
Ranges  == Places({"replace", "delete"})
Inserts == Places({"append"})

RangesApart(total) ==
  /\ patch # <<>>
  /\ \A k \in DOMAIN patch : patch[k].op = "delete" \/ Len(patch[k].body) = patch[k].len
  /\ \A k \in Ranges : At(patch[k]) # {} /\ At(patch[k]) \subseteq 0..(total - 1)
  /\ \A j, k \in Ranges : j # k => At(patch[j]) \cap At(patch[k]) = {}
  /\ \A k \in Inserts :
       /\ patch[k].body # <<>> /\ Boundary(patch[k], total) <= total
       /\ \A j \in Ranges : Boundary(patch[k], total) \notin At(patch[j]) \ {patch[j].from}

Added(gap, total) ==
  FlattenSeq([k \in DOMAIN patch |->
    IF k \in Inserts /\ Boundary(patch[k], total) = gap THEN patch[k].body ELSE <<>>])

Kept(bytes, i) ==
  LET over == {k \in Ranges : i - 1 \in At(patch[k])}
  IN  IF over = {} THEN <<bytes[i]>>
      ELSE LET hunk == patch[CHOOSE k \in over : TRUE]
           IN  IF hunk.op = "delete" THEN <<>> ELSE <<hunk.body[i - hunk.from]>>

BytesAsRead(bytes) ==
  Added(0, Len(bytes)) \o
  FlattenSeq([i \in DOMAIN bytes |-> Kept(bytes, i) \o Added(i, Len(bytes))])

Before == IF answer.ok THEN answer.before ELSE file

\* A text patch is applied exactly when no two of its instructions want the
\* same line and all they name exists, and the result is that of its
\* instructions taken one after the other with every line known by the number
\* it had: apply_line_patch collects and rearranges instead. When no line is
\* left of a text that ended in a newline, an empty line is.
PatchReadsSnapshot ==
  answer # None /\ file.kind = "text" =>
    LET texts == Texts(Before.lines)
        out == AsRead(texts)
    IN  /\ answer.ok <=> Unambiguous(Len(texts))
        /\ answer.ok =>
             \/ Texts(file.lines) = out
             \/ /\ out = <<>> /\ Texts(file.lines) = <<Blank>>
                /\ texts # <<>> /\ Last(Before.lines).eol # "none"

\* A text patch keeps the byte order mark and the line ending of a file that
\* has one line ending, and ends its last line: TextShape converts the whole
\* text to line feeds and back.
EndingsKept ==
  answer # None /\ file.kind = "text" /\ answer.ok =>
    LET old == {Before.lines[i].eol : i \in DOMAIN Before.lines} \ {"none"}
        new == {file.lines[i].eol : i \in DOMAIN file.lines}
    IN  /\ file.bom = Before.bom
        /\ \A e \in {"lf", "crlf"} : old = {e} => new \subseteq {e}
        /\ new \subseteq {"lf", "crlf"} /\ Cardinality(new) <= 1

\* A binary patch is applied exactly when its ranges lie in the file and apart
\* and nothing is inserted inside one, and then each byte of the file is kept,
\* replaced or left out where it was, with what is inserted before it in the
\* order of the hunks: apply_binary_hunks sorts and copies instead. Additions
\* and deletions account for the new length.
HunksReadSnapshot ==
  answer # None /\ answer.mode = "binary" =>
    LET bytes == Before.bytes
    IN  /\ answer.ok <=> RangesApart(Len(bytes))
        /\ answer.ok =>
             /\ file.bytes = BytesAsRead(bytes)
             /\ Len(file.bytes) + answer.deletions = Len(bytes) + answer.additions
=============================================================================
