------------------------------ MODULE Workspace ------------------------------
(***************************************************************************)
(* A client at work on one file, one request after the other as one        *)
(* connection to the executor serves them (send_executor_response): it     *)
(* reads the file or its directory page by page, searches a tree, and      *)
(* sends a patch that names lines and bytes by the numbers it was shown.   *)
(***************************************************************************)
EXTENDS Patch

CONSTANTS
  MaxRows, Offsets, Limits, BinaryLimit, Listing, Rewrites, Trees, Counts, GlobLimit,
  Timeouts, ToolTimeouts, Absent, DefaultTimeout, Buffer, MaxTime

VARIABLES split, read, search, now, spare

Tools == INSTANCE ReadTools

ASSUME WorkAssumption ==
  /\ Tools!ReadParameters
  /\ Rewrites \subseteq Files
  /\ \A f \in Rewrites : f.kind = "binary" => Len(f.bytes) < UsizeMax

toolVars == <<split, read, search, now, spare>>

WorkInit == Init /\ Tools!Init

\* Nothing is read or searched while a patch is written.
Work ==
  \/ patch = <<>> /\ answer = None /\ Tools!Next /\ UNCHANGED <<patch, answer>>
  \/ read = Tools!Idle /\ search = Tools!Idle /\ Next /\ UNCHANGED toolVars

WorkSpec == WorkInit /\ [][Work]_<<vars, toolVars>>

\* Every variable stays in its type.
WorkTypeOK == TypeOK /\ Tools!TypeOK

PagesCover     == Tools!PagesCover
HintsHold      == Tools!HintsHold
NumbersAgree   == Tools!NumbersAgree
AnsweredInTime == Tools!AnsweredInTime
FlagsAreTrue   == Tools!FlagsAreTrue
=============================================================================
