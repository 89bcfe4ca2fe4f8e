---------------------------- MODULE WritableFiles ----------------------------
(***************************************************************************)
(* The writable files of PosixEnv (util/env_posix.cpp) and the calls that  *)
(* change a directory, down to what a crash may leave on the disk, with    *)
(* SetCurrentFile (db/filename.cpp) on top of them.                        *)
(*                                                                         *)
(* What is written passes through three places: the buffer of the FILE,    *)
(* which a crash of the process loses, the kernel, and the disk, which a   *)
(* crash of the machine goes back to.  The disk is not known: until an     *)
(* fdatasync, any of the contents the file has had may be on it, and until *)
(* an fsync of the directory each name may stand for any of the files it   *)
(* has stood for, whatever became of other names.                          *)
(*                                                                         *)
(* The callers are modelled by what they do with these calls: tables are   *)
(* written, synced and closed (BuildTable), then named by a record of the  *)
(* MANIFEST, which is synced (VersionSet::LogAndApply, external), then     *)
(* SetCurrentFile installs that MANIFEST.  They stop at the first error of *)
(* a file.  The system calls and RenameFile and WriteStringToFileSync,     *)
(* which PosixEnv leaves out, are external.                                *)
(***************************************************************************)
EXTENDS Naturals, FiniteSets, SequencesExt

CONSTANTS
  Table,        \* names of table files
  Manifest,     \* the name of the MANIFEST
  Tmp,          \* TempFileName, which SetCurrentFile writes
  Current,      \* CURRENT
  Inodes,       \* bound: files that exist at the same time, named or open
  MaxRecords,   \* bound: records of the MANIFEST
  MaxFaults     \* bound: failed calls and crashes

ASSUME WritableAssumption ==
  /\ IsFiniteSet(Table)
  /\ Cardinality({Manifest, Tmp, Current}) = 3
  /\ Table \cap {Manifest, Tmp, Current} = {}
  /\ Inodes \in Nat /\ MaxRecords \in Nat /\ MaxFaults \in Nat

Written == Table \cup {Manifest, Tmp}
Name == Written \cup {Current}
Inode == 1..Inodes

VARIABLES
  entry,      \* the file each name stands for, 0 if there is none
  held,       \* the files a machine crash may leave under that name
  content,    \* what the kernel has of each file, record by record
  maybe,      \* the contents a machine crash may leave
  file,       \* the PosixWritableFile open on a name, see Closed
  table,      \* what each table is to this process, see TableState
  promised,   \* records of the MANIFEST that Sync has reported as stored
  setting,    \* where SetCurrentFile is
  faults      \* failed calls and crashes so far

disk == <<entry, held, content, maybe>>
writableVars == <<disk, file, table, promised, setting, faults>>

(* A record is the set of names it refers to; what is in a table refers to *)
(* the table itself.                                                       *)
Record == SUBSET Name

(*   inode    the file, 0 if there is no object or it has been closed      *)
(*   buffer   what has been written to the FILE and not to the kernel      *)
(*   sync     where its Sync is                                            *)
(*   clean    has Sync returned ok, and nothing been appended since?       *)
(*   failed   has a call returned an error?                                *)
Closed ==
  [inode |-> 0, buffer |-> <<>>, sync |-> "no", clean |-> FALSE, failed |-> FALSE]

(* A number no table has had since the process started, a table that is    *)
(* being written or was given up, one that was written, synced and closed  *)
(* and, if that was before a crash, named by a record that was reported,   *)
(* and any other that DB::Open finds in the MANIFEST: the name is there,   *)
(* but a number may be used again after a crash, and the file may be that  *)
(* of an earlier attempt.                                                  *)
TableState == {"new", "used", "done", "found"}

WritableTypeOK ==
  /\ entry \in [Name -> 0..Inodes]
  /\ held \in [Name -> SUBSET (0..Inodes)]
  /\ content \in [Inode -> Seq(Record)]
  /\ \A i \in Inode : maybe[i] \subseteq Seq(Record)
  /\ file \in [Written -> [inode : 0..Inodes, buffer : Seq(Record),
                           sync : {"no", "flush", "data"},
                           clean : BOOLEAN, failed : BOOLEAN]]
  /\ table \in [Table -> TableState]
  /\ promised \in Seq(Record)
  /\ setting \in {"no", "write", "rename", "remove"}
  /\ faults \in 0..MaxFaults

WritableInit ==
  /\ entry = [n \in Name |-> 0]
  /\ held = [n \in Name |-> {0}]
  /\ content = [i \in Inode |-> <<>>]
  /\ maybe = [i \in Inode |-> {<<>>}]
  /\ file = [n \in Written |-> Closed]
  /\ table = [t \in Table |-> "new"]
  /\ promised = <<>>
  /\ setting = "no"
  /\ faults = 0

-----------------------------------------------------------------------------
(* The file system.                                                        *)
UnusedInodes == {i \in Inode : /\ \A n \in Name : i \notin held[n]
                         /\ \A n \in Written : file[n].inode # i}

Enter(n, i) ==
  /\ entry' = [entry EXCEPT ![n] = i]
  /\ held' = [held EXCEPT ![n] = @ \cup {i}]

SetContent(i, s) ==
  /\ content' = [content EXCEPT ![i] = s]
  /\ maybe' = [maybe EXCEPT ![i] = @ \cup {s}]

(* fopen.  Mode "w" creates a file or makes it empty.                      *)
Fopen(n, mode) ==
  /\ IF entry[n] # 0
     THEN /\ UNCHANGED <<entry, held>>
          /\ IF mode = "w" THEN SetContent(entry[n], <<>>)
                           ELSE UNCHANGED <<content, maybe>>
     ELSE /\ UnusedInodes # {}
          /\ LET i == Min(UnusedInodes) IN
               /\ Enter(n, i)
               /\ content' = [content EXCEPT ![i] = <<>>]
               /\ maybe' = [maybe EXCEPT ![i] = {<<>>}]
  /\ file' = [file EXCEPT ![n] = [Closed EXCEPT !.inode = entry'[n]]]

(* The records that leave the buffer b of n reach the kernel in order, the *)
(* first k of them here; f is what the object becomes.                     *)
Write(n, b, k, f) ==
  LET i == file[n].inode
      sent(j) == content[i] \o SubSeq(b, 1, j) IN
  /\ content' = [content EXCEPT ![i] = sent(k)]
  /\ maybe' = [maybe EXCEPT ![i] = @ \cup {sent(j) : j \in 0..k}]
  /\ file' = [file EXCEPT ![n] =
                IF f.inode = 0 THEN f ELSE [f EXCEPT !.buffer = SubSeq(b, k + 1, Len(b))]]
  /\ UNCHANGED <<entry, held>>

Stays(n, f) == file' = [file EXCEPT ![n] = f] /\ UNCHANGED disk

(* fsync of the directory, and fdatasync.                                  *)
FsyncDir == held' = [n \in Name |-> {entry[n]}] /\ UNCHANGED <<entry, content, maybe>>
Fdatasync(i) == maybe' = [maybe EXCEPT ![i] = {content[i]}] /\ UNCHANGED <<entry, held, content>>

-----------------------------------------------------------------------------
(* What the callers may do with the object open on n.                      *)
Idle(n) == file[n].inode # 0 /\ file[n].sync = "no"
Usable(n) == Idle(n) /\ ~file[n].failed

Done == {t \in Table : table[t] = "done"}
Size(n) == Len(content[file[n].inode]) + Len(file[n].buffer)
NextRecord(n) == IF n = Manifest THEN Done ELSE IF n = Tmp THEN {Manifest} ELSE {n}

(* DB::Open goes on only if every table that the MANIFEST names is there;  *)
(* it looks at a MANIFEST only if CURRENT can name it.                     *)
Intact ==
  promised # <<>> =>
    \A t \in UNION Range(content[entry[Manifest]]) : entry[t] # 0

(* A table has a number of its own; a MANIFEST that CURRENT does not name  *)
(* is written anew.                                                        *)
MayCreate(n) ==
  CASE n \in Table  -> table[n] = "new" /\ Intact
    [] n = Manifest -> promised = <<>>
    [] n = Tmp      -> setting = "write"

(* A Write of the caller's data: as much of it as no longer fits into the  *)
(* buffer goes to the kernel.                                              *)
AppendTo(n) ==
  /\ Usable(n)
  /\ Size(n) < IF n = Manifest THEN MaxRecords ELSE 1
  /\ LET b == Append(file[n].buffer, NextRecord(n)) IN
       \E k \in 0..Len(b) : Write(n, b, k, [file[n] EXCEPT !.clean = FALSE])
  /\ UNCHANGED <<table, promised, setting>>

NewWritableFile(n) ==
  /\ file[n].inode = 0
  /\ MayCreate(n)
  /\ Fopen(n, "w")
  /\ table' = IF n \in Table THEN [table EXCEPT ![n] = "used"] ELSE table
  /\ UNCHANGED <<promised, setting>>

(* The MANIFEST of an earlier run is added to.                             *)
NewAppendableFile ==
  /\ file[Manifest].inode = 0
  /\ promised # <<>> /\ Intact
  /\ Fopen(Manifest, "a")
  /\ UNCHANGED <<table, promised, setting>>

Flush(n) ==
  /\ Usable(n)
  /\ file[n].buffer # <<>>
  /\ Write(n, file[n].buffer, Len(file[n].buffer), file[n])
  /\ UNCHANGED <<table, promised, setting>>

(* Mutant: Sync of a MANIFEST does not look at the directory.              *)
SyncDirSkipped(n) ==
  /\ Usable(n)
  /\ Size(n) > 0 /\ ~file[n].clean
  /\ Stays(n, [file[n] EXCEPT !.sync = "flush"])
  /\ UNCHANGED <<table, promised, setting>>

(* Sync begins with SyncDirIfManifest.                                     *)
SyncDirIfManifest(n) ==
  /\ Usable(n)
  /\ Size(n) > 0 /\ ~file[n].clean
  /\ file' = [file EXCEPT ![n].sync = "flush"]
  /\ IF n = Manifest THEN FsyncDir ELSE UNCHANGED disk
  /\ UNCHANGED <<table, promised, setting>>

(* Then it writes out the buffer,                                          *)
SyncFlush(n) ==
  /\ file[n].sync = "flush"
  /\ Write(n, file[n].buffer, Len(file[n].buffer), [file[n] EXCEPT !.sync = "data"])
  /\ UNCHANGED <<table, promised, setting>>

(* Mutant: Sync is only a flush.                                           *)
SyncDataFlushed(n) ==
  /\ file[n].sync = "data"
  /\ Stays(n, [file[n] EXCEPT !.sync = "no", !.clean = TRUE])
  /\ promised' = IF n = Manifest THEN content[file[n].inode] ELSE promised
  /\ UNCHANGED <<table, setting>>

(* and waits for the disk; ok is returned.                                 *)
SyncData(n) ==
  /\ file[n].sync = "data"
  /\ Fdatasync(file[n].inode)
  /\ file' = [file EXCEPT ![n].sync = "no", ![n].clean = TRUE]
  /\ promised' = IF n = Manifest THEN content[file[n].inode] ELSE promised
  /\ UNCHANGED <<table, setting>>

(* Mutant: a failed Sync or Append of the temporary file is forgotten.     *)
CloseForgets(n) ==
  /\ Idle(n)
  /\ file[n].clean \/ file[n].failed
  /\ Write(n, file[n].buffer, Len(file[n].buffer), Closed)
  /\ table' = IF n \in Table THEN [table EXCEPT ![n] = "done"] ELSE table
  /\ setting' = IF n # Tmp THEN setting ELSE "rename"
  /\ UNCHANGED promised

(* Mutant: the file is flushed, and file_ keeps it open.                   *)
CloseKeeps(n) ==
  LET ok == file[n].clean /\ ~file[n].failed IN
  /\ Idle(n)
  /\ file[n].clean \/ file[n].failed
  /\ Write(n, file[n].buffer, Len(file[n].buffer), file[n])
  /\ table' = IF n \in Table /\ ok THEN [table EXCEPT ![n] = "done"] ELSE table
  /\ setting' = IF n # Tmp THEN setting ELSE IF ok THEN "rename" ELSE "remove"
  /\ UNCHANGED promised

(* Close, or the destructor if there has been an error: fclose writes out  *)
(* what is in the buffer, and nobody looks at the result after an error.   *)
(* A table is done if all went well; SetCurrentFile goes on to rename its  *)
(* file, or to remove it.                                                  *)
Close(n) ==
  LET ok == file[n].clean /\ ~file[n].failed IN
  /\ Idle(n)
  /\ file[n].clean \/ file[n].failed
  /\ Write(n, file[n].buffer, Len(file[n].buffer), Closed)
  /\ table' = IF n \in Table /\ ok THEN [table EXCEPT ![n] = "done"] ELSE table
  /\ setting' = IF n # Tmp THEN setting ELSE IF ok THEN "rename" ELSE "remove"
  /\ UNCHANGED promised

(* BuildTable removes what it could not finish.                            *)
DeleteFile(n) ==
  /\ n \in Table /\ table[n] = "used"
  /\ file[n].inode = 0
  /\ entry[n] # 0
  /\ Enter(n, 0)
  /\ UNCHANGED <<content, maybe, file, table, promised, setting>>

-----------------------------------------------------------------------------
(* SetCurrentFile, called with the number of a MANIFEST that Sync has      *)
(* returned ok for, writes and syncs the temporary file,                   *)
SetCurrentFile ==
  /\ setting = "no"
  /\ promised # <<>>
  /\ setting' = "write"
  /\ UNCHANGED <<disk, file, table, promised>>

(* then renames it,                                                        *)
RenameFile ==
  /\ setting = "rename"
  /\ entry' = [entry EXCEPT ![Current] = entry[Tmp], ![Tmp] = 0]
  /\ held' = [held EXCEPT ![Current] = @ \cup {entry[Tmp]}, ![Tmp] = @ \cup {0}]
  /\ setting' = "no"
  /\ UNCHANGED <<content, maybe, file, table, promised>>

(* or deletes it if anything has failed.                                   *)
RemoveTmp ==
  /\ setting = "remove"
  /\ IF entry[Tmp] # 0 THEN Enter(Tmp, 0) ELSE UNCHANGED <<entry, held>>
  /\ setting' = "no"
  /\ UNCHANGED <<content, maybe, file, table, promised>>

-----------------------------------------------------------------------------
(* Failures.  A FILE that fails to write has written some of its buffer.   *)
Fails(n) == [file[n] EXCEPT !.failed = TRUE, !.clean = FALSE, !.sync = "no"]

OpenTmpFails ==
  /\ setting = "write" /\ file[Tmp].inode = 0
  /\ setting' = "remove"
  /\ UNCHANGED <<disk, file, table, promised>>

(* fwrite or fflush, the latter alone or in Sync.                          *)
WriteFails(n) ==
  /\ Usable(n) \/ file[n].sync = "flush"
  /\ \E k \in 0..Len(file[n].buffer) : Write(n, file[n].buffer, k, Fails(n))
  /\ UNCHANGED <<table, promised, setting>>

(* open or fsync of the directory, or fdatasync.                           *)
SyncFails(n) ==
  /\ (n = Manifest /\ Usable(n) /\ ~file[n].clean) \/ file[n].sync = "data"
  /\ Stays(n, Fails(n))
  /\ UNCHANGED <<table, promised, setting>>

(* fclose: file_ is NULL all the same.                                     *)
CloseFails(n) ==
  /\ Idle(n)
  /\ \E k \in 0..Len(file[n].buffer) : Write(n, file[n].buffer, k, Closed)
  /\ setting' = IF n = Tmp THEN "remove" ELSE setting
  /\ UNCHANGED <<table, promised>>

RenameFails ==
  /\ setting = "rename"
  /\ setting' = "remove"
  /\ UNCHANGED <<disk, file, table, promised>>

(* unlink of the temporary file: the status is dropped.                    *)
RemoveTmpFails ==
  /\ setting = "remove"
  /\ setting' = "no"
  /\ UNCHANGED <<disk, file, table, promised>>

(* The process ends: buffers are lost.  The next one starts from the       *)
(* tables that the MANIFEST names.                                         *)
Restart ==
  /\ file' = [n \in Written |-> Closed]
  /\ LET named == IF promised = <<>> THEN {}
                  ELSE UNION Range(content'[entry'[Manifest]]) IN
       table' = [t \in Table |-> IF t \in Done \cap UNION Range(promised) THEN "done"
                                 ELSE IF t \in named THEN "found" ELSE "new"]
  /\ setting' = "no"
  /\ UNCHANGED promised

(* The functions on S that take their value at x from f[x].                *)
Selections(S, f) ==
  {g \in [S -> UNION {f[x] : x \in S}] : \A x \in S : g[x] \in f[x]}

ProcessCrash == UNCHANGED disk /\ Restart

(* The machine stops: one of the possible disks is what is there.          *)
MachineCrash ==
  /\ \E e \in Selections(Name, held) :
       LET there == {e[n] : n \in Name} \ {0} IN
       /\ e[Tmp] # e[Current] \/ e[Tmp] = 0
       /\ entry' = e
       /\ held' = [n \in Name |-> {e[n]}]
       /\ \E c \in Selections(there, maybe) :
            /\ content' = [i \in Inode |-> IF i \in there THEN c[i] ELSE <<>>]
            /\ maybe' = [i \in Inode |-> {content'[i]}]
  /\ Restart

-----------------------------------------------------------------------------
WritableStep ==
  \/ \E n \in Written : \/ NewWritableFile(n) \/ AppendTo(n) \/ Flush(n)
                        \/ SyncDirIfManifest(n) \/ SyncFlush(n) \/ SyncData(n)
                        \/ Close(n) \/ DeleteFile(n)
  \/ NewAppendableFile \/ SetCurrentFile \/ RenameFile \/ RemoveTmp

Fault ==
  \/ \E n \in Written : WriteFails(n) \/ SyncFails(n) \/ CloseFails(n)
  \/ OpenTmpFails \/ RenameFails \/ RemoveTmpFails
  \/ ProcessCrash \/ MachineCrash

WritableNext ==
  \/ WritableStep /\ UNCHANGED faults
  \/ faults < MaxFaults /\ Fault /\ faults' = faults + 1

WritableSpec == WritableInit /\ [][WritableNext]_writableVars

-----------------------------------------------------------------------------
(* What Sync has reported of the MANIFEST cannot be lost, nor can the name *)
(* of any table in it, nor what is in a table that is done: "Ensure new    *)
(* files refered to by the manifest are in the filesystem"                 *)
(* (env_posix.cpp:290).                                                    *)
PromisesKept ==
  promised # <<>> =>
    /\ \A i \in held[Manifest] :
         i # 0 /\ \A s \in maybe[i] : IsPrefix(promised, s)
    /\ \A t \in UNION Range(promised) : \A i \in held[t] :
         i # 0 /\ (t \in Done => maybe[i] = {<<{t}>>})

(* Whatever CURRENT may be after a crash, it is complete and names a       *)
(* MANIFEST that is safe: SetCurrentFile never shows a file it is still    *)
(* writing.                                                                *)
CurrentWhole ==
  \A i \in held[Current] \ {0} : maybe[i] = {<<{Manifest}>>} /\ promised # <<>>

(* What is written through an object goes to the file of its own name, and *)
(* to no file that another name may stand for after a crash: the temporary *)
(* file is closed before it is renamed, so nothing is written to the file  *)
(* of CURRENT (destructor of PosixWritableFile, env_posix.cpp:231), and a  *)
(* table is closed before it is removed.                                   *)
WritesOwnFile ==
  \A n \in Written : file[n].inode # 0 =>
    /\ entry[n] = file[n].inode
    /\ \A m \in Name \ {n} : file[n].inode \notin held[m]

(* The data of a table that has been synced and closed is on the disk,     *)
(* even where its name is not.                                             *)
DoneStored ==
  \A t \in Done : entry[t] # 0 /\ maybe[entry[t]] = {<<{t}>>}

(* "Ensure new files refered to by the manifest are in the filesystem"     *)
(* (env_posix.cpp:290) as a reader of the file after a crash needs it: all *)
(* the records it may find in a MANIFEST that CURRENT may name, reported   *)
(* or not, refer to tables that the directory has.                         *)
ManifestNames ==
  promised # <<>> =>
    \A m \in held[Manifest] \ {0} : \A s \in maybe[m] :
      \A t \in UNION Range(s) : 0 \notin held[t]
=============================================================================
