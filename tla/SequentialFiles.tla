--------------------------- MODULE SequentialFiles ---------------------------
(***************************************************************************)
(* Reading a file from front to back (PosixSequentialFile and              *)
(* NewSequentialFile, util/env_posix.cpp): how logs, MANIFESTs and CURRENT *)
(* are read in recovery, when nobody writes to them.                       *)
(*                                                                         *)
(* The reader is not in the repository.  It goes on as long as it gets     *)
(* something, gives up on an error, and takes a short or an empty result   *)
(* with an ok status for the end of the file: log::Reader the one, whoever *)
(* reads a whole file into a string the other.                             *)
(*                                                                         *)
(* The names carry the component's, so that a module may extend several.   *)
(***************************************************************************)
EXTENDS Naturals, FiniteSetsExt

CONSTANTS
  FileSize,    \* bytes in the file
  Wanted       \* how many may be asked for or skipped at a time

ASSUME SequentialAssumption == FileSize \in Nat /\ Wanted \subseteq Nat \ {0}

VARIABLES
  reader,      \* what the reader is doing
  position,    \* of the FILE
  eof,         \* its end-of-file indicator
  delivered,   \* the bytes that have been delivered, by their places
  skipped      \* those that were not wanted

sequentialVars == <<reader, position, eof, delivered, skipped>>

Left == IF position < FileSize THEN FileSize - position ELSE 0

From(p, n) == p..p + n - 1

SequentialInit ==
  /\ reader = "none"
  /\ position = 0
  /\ eof = FALSE
  /\ delivered = {}
  /\ skipped = {}

-----------------------------------------------------------------------------
(* fopen succeeds, or does not.                                            *)
NewSequentialFile ==
  /\ reader = "none"
  /\ reader' \in {"reading", "failed"}
  /\ UNCHANGED <<position, eof, delivered, skipped>>

(* Mutant: less than was asked for is always the end of the file.          *)
StatusOkAlways(r, n, feof) == TRUE

(* The status of a Read that got r of n bytes.                             *)
StatusOk(r, n, feof) == r = n \/ feof

(* fread_unlocked gets all n bytes, or fewer as the file ends or an error  *)
(* comes up.  Once set, the indicator stays.                               *)
Read(n) ==
  \E r \in 0..Min({n, Left}), error \in BOOLEAN :
    LET feof == eof \/ (r < n /\ ~error) IN
    /\ reader = "reading"
    /\ IF error THEN r < n ELSE r = Min({n, Left})
    /\ position' = position + r
    /\ eof' = feof
    /\ delivered' = delivered \cup From(position, r)
    /\ IF ~StatusOk(r, n, feof) THEN reader' = "failed"
       ELSE \/ r > 0 /\ reader' = "reading"
            \/ r < n /\ reader' = "ended"
    /\ UNCHANGED skipped

(* fseek may go beyond the end, and clears the indicator.  The code does   *)
(* not look where the file is: the guard on position is a bound.           *)
Skip(n) ==
  /\ reader = "reading"
  /\ position <= FileSize
  /\ position' = position + n
  /\ eof' = FALSE
  /\ skipped' = skipped \cup From(position, n)
  /\ UNCHANGED <<reader, delivered>>

SkipFails ==
  /\ reader = "reading"
  /\ reader' = "failed"
  /\ UNCHANGED <<position, eof, delivered, skipped>>

SequentialNext ==
  \/ NewSequentialFile
  \/ \E n \in Wanted : Read(n) \/ Skip(n)
  \/ SkipFails

SequentialSpec == SequentialInit /\ [][SequentialNext]_sequentialVars

-----------------------------------------------------------------------------
(* A reader that has been told that the file ends has got all of it that   *)
(* it has not skipped: an error, even one after part of what was asked for *)
(* or one that leaves the indicator of an earlier call, never passes for   *)
(* the end, so that recovery cannot lose the rest of a log silently.       *)
NotCutShort ==
  reader = "ended" => delivered = From(0, FileSize) \ skipped
=============================================================================
