------------------------------ MODULE MCParts ------------------------------
(* The small parts of the system instantiated for TLC, side by side: one of*)
(* them runs, the others stay where they begin.                            *)
EXTENDS Arena, FileLocks, WriteBatches, SequentialFiles, FileNames,
        RandomNumbers, Buffers, RandomAccessFiles, WritableFiles

CONSTANTS o1, o2, o3, p1, p2, t1

(* The component that runs.                                                *)
VARIABLE part

(* Blocks of 16 bytes: objects of more than 4 are large.                   *)
SmallSizes == {1, 3, 4, 5, 12}

(* Two openers in one process, one in another.                             *)
Openers == {o1, o2, o3}
Processes == {p1, p2}
TwoAndOne == [o \in Openers |-> IF o = o3 THEN p2 ELSE p1]

PartsInit ==
  /\ part \in {"arena", "locks", "batches", "sequential", "names", "random",
               "buffers", "files", "writable"}
  /\ Init /\ LockInit /\ BatchInit /\ SequentialInit
  /\ NameInit /\ RandomInit /\ BufferInit
  /\ FilesInit /\ WritableInit

Resting(p, v) == IF part = p THEN TRUE ELSE UNCHANGED v

OthersRest ==
  /\ UNCHANGED part
  /\ Resting("arena", vars) /\ Resting("locks", lockVars)
  /\ Resting("batches", batchVars) /\ Resting("sequential", sequentialVars)
  /\ Resting("names", nameVars) /\ Resting("random", randomVars)
  /\ Resting("buffers", bufferVars)
  /\ Resting("files", filesVars) /\ Resting("writable", writableVars)

PartsNext ==
  \/ part = "arena" /\ Next /\ OthersRest
  \/ part = "locks" /\ LockNext /\ OthersRest
  \/ part = "batches" /\ BatchNext /\ OthersRest
  \/ part = "sequential" /\ SequentialNext /\ OthersRest
  \/ part = "names" /\ NameNext /\ OthersRest
  \/ part = "random" /\ RandomNext /\ OthersRest
  \/ part = "buffers" /\ BufferNext /\ OthersRest
  \/ part = "files" /\ FilesNext /\ OthersRest
  \/ part = "writable" /\ WritableNext /\ OthersRest

PartsSpec == PartsInit /\ [][PartsNext]_<<part, vars, lockVars, batchVars,
                                        sequentialVars, nameVars, randomVars,
                                        bufferVars, filesVars, writableVars>>

=============================================================================
