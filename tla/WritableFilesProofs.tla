------------------------ MODULE WritableFilesProofs ------------------------
(***************************************************************************)
(* The promises of WritableFiles, for any number of tables, files, records *)
(* and errors and any crashes: what Sync has reported of a MANIFEST is not *)
(* lost, nor are the tables it names, and CURRENT is never incomplete.     *)
(***************************************************************************)
EXTENDS WritableFiles, SequenceTheorems, FiniteSetTheorems, WellFoundedInduction,
        TLAPS

(* A FILE is open on n.                                                    *)
Open(n) == file[n].inode # 0

(* What a file and the buffer of its FILE have together.  Sequence         *)
(* operations have names here, so that lemmas about them can be applied.   *)
Joined(s, b) == s \o b

(* s with one more record.                                                 *)
With(s, r) == Append(s, r)

(* The first k records of the buffer b sent after the others of s, and     *)
(* those that stay in b.                                                   *)
Sent(s, b, k) == s \o SubSeq(b, 1, k)
Unsent(b, k) == SubSeq(b, k + 1, Len(b))

(* What the file of n will have when the buffer has been written out.      *)
Total(n) == Joined(content[file[n].inode], file[n].buffer)

(* What a table and the temporary file of SetCurrentFile have when         *)
(* complete.                                                               *)
Whole(n) == IF n = Tmp THEN <<{Manifest}>> ELSE <<{n}>>

(* Sync has looked at the directory and has not yet returned.              *)
Syncing(n) == file[n].sync \in {"flush", "data"}

(* The tables that a MANIFEST may name.                                    *)
Known == {t \in Table : table[t] \in {"done", "found"}}

(* WritableTypeOK does not say that maybe has no other values.                     *)
TypeInv == WritableTypeOK /\ maybe \in [Inode -> SUBSET Seq(Record)]

(* No file has two names, except that a crash may undo a rename of the     *)
(* temporary file; what the kernel has is among what a crash may leave.    *)
HeldInv ==
  /\ \A n \in Name : entry[n] \in held[n]
  /\ \A n, m \in Name : \A i \in held[n] \cap held[m] :
       i = 0 \/ n = m \/ (n \in {Tmp, Current} /\ m \in {Tmp, Current})
  /\ entry[Tmp] = 0 \/ entry[Tmp] \notin held[Current]
  /\ \A i \in Inode : content[i] \in maybe[i]

(* What each state of an object says about its file: a table is open only  *)
(* until it is done; SetCurrentFile has its file open only while it writes *)
(* it; what has been synced is what the disk has.                          *)
FileGood(n) ==
  IF Open(n)
  THEN /\ entry[n] = file[n].inode
       /\ n \in Table => table[n] = "used"
       /\ n = Tmp => setting = "write"
       /\ n # Manifest => Total(n) \in {<<>>, Whole(n)}
       /\ Syncing(n) \/ file[n].clean => Total(n) # <<>>
       /\ Syncing(n) => ~file[n].clean
       /\ file[n].sync = "data" \/ file[n].clean => file[n].buffer = <<>>
       /\ file[n].clean => maybe[file[n].inode] = {content[file[n].inode]}
  ELSE file[n] = Closed

FileInv == \A n \in Written : FileGood(n)

(* Whatever a MANIFEST may be after a crash, it names only tables.         *)
RecordInv ==
  /\ \A i \in held[Manifest] \ {0} : maybe[i] \subseteq Seq(SUBSET Table)
  /\ Open(Manifest) => file[Manifest].buffer \in Seq(SUBSET Table)

(* The tables in the records of the MANIFEST, on their way or in the       *)
(* kernel, are known and there; once Sync has been past the directory, a   *)
(* crash cannot take their names.                                          *)
ManifestInv ==
  /\ Open(Manifest) =>
       /\ \A t \in UNION Range(Total(Manifest)) :
            /\ t \in Known /\ entry[t] # 0
            /\ Syncing(Manifest) => held[t] = {entry[t]}
       /\ Syncing(Manifest) => held[Manifest] = {entry[Manifest]}
  /\ promised # <<>> => UNION Range(content[entry[Manifest]]) \subseteq Known

(* What Sync has reported: PromisesKept without the contents of tables,    *)
(* which DoneStored has.                                                   *)
PromiseInv ==
  promised # <<>> =>
    /\ held[Manifest] = {entry[Manifest]} /\ entry[Manifest] # 0
    /\ \A s \in maybe[entry[Manifest]] : IsPrefix(promised, s)
    /\ \A t \in UNION Range(promised) : held[t] = {entry[t]} /\ entry[t] # 0

(* SetCurrentFile begins after a Sync of the MANIFEST, and renames a file  *)
(* that is complete on the disk.                                           *)
SettingInv ==
  /\ setting # "no" => promised # <<>>
  /\ setting = "rename" => entry[Tmp] # 0 /\ maybe[entry[Tmp]] = {<<{Manifest}>>}

(* None of the properties is preserved alone: that the names in a MANIFEST *)
(* are safe needs the state of its Sync, and that CURRENT is whole that of *)
(* the temporary file.                                                     *)
WritableInv ==
  /\ TypeInv /\ HeldInv /\ FileInv /\ RecordInv /\ ManifestInv
  /\ PromiseInv /\ SettingInv /\ DoneStored /\ CurrentWhole

-----------------------------------------------------------------------------
(* The names of the four kinds of files differ.                            *)
LEMMA Distinct ==
  /\ Manifest # Tmp /\ Manifest # Current /\ Tmp # Current
  /\ Manifest \notin Table /\ Tmp \notin Table /\ Current \notin Table
  /\ Inodes \in Nat /\ MaxFaults \in Nat /\ 0 \notin Inode
<1>1. \A a, b : Cardinality({a, b}) # 3
  <2> SUFFICES ASSUME NEW a, NEW b PROVE Cardinality({a, b}) # 3
    OBVIOUS
  <2>1. IsFiniteSet({a}) /\ Cardinality({a}) = 1
    BY FS_Singleton
  <2>2. {a, b} = {a} \cup {b}
    OBVIOUS
  <2>3. Cardinality({a} \cup {b}) \in {1, 2}
    BY <2>1, FS_AddElement
  <2>4. QED
    BY <2>2, <2>3
<1>2. Cardinality({Manifest, Tmp, Current}) = 3
  BY WritableAssumption
<1>3. Manifest = Tmp => {Manifest, Tmp, Current} = {Manifest, Current}
  OBVIOUS
<1>4. Manifest = Current => {Manifest, Tmp, Current} = {Manifest, Tmp}
  OBVIOUS
<1>5. Tmp = Current => {Manifest, Tmp, Current} = {Manifest, Current}
  OBVIOUS
<1>6. QED
  BY <1>1, <1>2, <1>3, <1>4, <1>5, WritableAssumption DEF Inode

(* Records that leave the buffer for the file.                             *)
LEMMA Regroup ==
  ASSUME NEW R, NEW s \in Seq(R), NEW t \in Seq(R), NEW u \in Seq(R), NEW b, b = t \o u
  PROVE  s \o t \in Seq(R) /\ (s \o t) \o u = s \o b
<1>1. s \o t \in Seq(R)
  BY ConcatProperties
<1>2. (s \o t) \o u = s \o (t \o u)
  BY ConcatAssociative
<1>3. QED
  BY <1>1, <1>2

(* A file that is added to still begins with what it had.                  *)
LEMMA PrefixExtends ==
  ASSUME NEW R, NEW p \in Seq(R), NEW s \in Seq(R), NEW u \in Seq(R), IsPrefix(p, s)
  PROVE  IsPrefix(p, s \o u)
<1>1. Len(p) \in Nat /\ Len(s) \in Nat /\ Len(u) \in Nat /\ Len(p) <= Len(s)
      /\ SubSeq(p, 1, Len(p)) = SubSeq(s, 1, Len(p))
  BY LenProperties DEF IsPrefix
<1>2. Len(s \o u) = Len(s) + Len(u)
  BY ConcatProperties
<1>3. SubSeq(s \o u, 1, Len(p)) = SubSeq(s, 1, Len(p))
  <2>1. CASE Len(p) = 0
    <3>1. Len(p) < 1 /\ 1 \in Int /\ Len(p) \in Int
      BY <2>1
    <3>2. QED
      BY <3>1, SubSeqEmpty
  <2>2. CASE Len(p) # 0
    <3>1. 1 \in 1..Len(s) /\ Len(p) \in 1..Len(s)
      BY <1>1, <2>2
    <3>2. QED
      BY <3>1, SubSeqOfConcat1
  <2>3. QED
    BY <2>1, <2>2
<1>4. Len(p) <= Len(s \o u)
  BY <1>1, <1>2
<1>5. QED
  BY <1>1, <1>3, <1>4 DEF IsPrefix

(* Writing out part of the buffer keeps the whole, and everything that the *)
(* file began with.                                                        *)
LEMMA SentParts ==
  ASSUME NEW R, NEW s \in Seq(R), NEW b \in Seq(R), NEW k \in 0..Len(b)
  PROVE  /\ Sent(s, b, k) \in Seq(R) /\ Unsent(b, k) \in Seq(R)
         /\ Joined(Sent(s, b, k), Unsent(b, k)) = Joined(s, b)
         /\ \A p \in Seq(R) : IsPrefix(p, s) => IsPrefix(p, Sent(s, b, k))
<1>1. Len(b) \in Nat /\ k \in Nat /\ k <= Len(b)
  BY LenProperties
<1>2. \A i \in 1..Len(b) : b[i] \in R
  BY ElementOfSeq
<1>3. SubSeq(b, 1, k) \in Seq(R)
  <2>1. \A i \in 1..k : b[i] \in R
    BY <1>1, <1>2
  <2>2. 1 \in Int /\ k \in Int
    BY <1>1
  <2>3. QED
    BY <2>1, <2>2, SubSeqProperties
<1>4. SubSeq(b, k + 1, Len(b)) \in Seq(R)
  <2>1. \A i \in k + 1..Len(b) : b[i] \in R
    BY <1>1, <1>2
  <2>2. k + 1 \in Int /\ Len(b) \in Int
    BY <1>1
  <2>3. QED
    BY <2>1, <2>2, SubSeqProperties
<1>5. b = SubSeq(b, 1, k) \o SubSeq(b, k + 1, Len(b))
  <2>1. /\ 1 \in 1..Len(b) + 1 /\ k \in 1 - 1..Len(b) /\ Len(b) \in k..Len(b)
    BY <1>1
  <2>2. SubSeq(b, 1, k) \o SubSeq(b, k + 1, Len(b)) = SubSeq(b, 1, Len(b))
    BY <2>1, ConcatAdjacentSubSeq
  <2>3. QED
    BY <2>2, SubSeqFull
<1>6. \A t, u \in Seq(R) : b = t \o u => s \o t \in Seq(R) /\ (s \o t) \o u = s \o b
  BY Regroup
<1>7. QED
  <2>1. /\ s \o SubSeq(b, 1, k) \in Seq(R)
        /\ (s \o SubSeq(b, 1, k)) \o SubSeq(b, k + 1, Len(b)) = s \o b
    BY <1>3, <1>4, <1>5, <1>6, ZenonT(20)
  <2>2. \A p \in Seq(R) : IsPrefix(p, s) => IsPrefix(p, s \o SubSeq(b, 1, k))
    BY <1>3, PrefixExtends
  <2>3. QED
    BY <1>4, <2>1, <2>2, Zenon DEF Sent, Unsent, Joined

(* A prefix refers to nothing else.                                        *)
LEMMA PrefixNames ==
  ASSUME NEW R, NEW p \in Seq(R), NEW s \in Seq(R), IsPrefix(p, s)
  PROVE  UNION Range(p) \subseteq UNION Range(s)
<1>1. Len(p) \in Nat /\ Len(s) \in Nat /\ Len(p) <= Len(s)
      /\ SubSeq(p, 1, Len(p)) = SubSeq(s, 1, Len(p))
  BY LenProperties DEF IsPrefix
<1>2. SubSeq(p, 1, Len(p)) = p
  BY SubSeqFull
<1>3. \A i \in 1..Len(p) : s[i] \in R
  BY <1>1, ElementOfSeq
<1>4. \A i \in 1..Len(p) : SubSeq(s, 1, Len(p))[i] = s[1 + i - 1]
  <2>1. 1 \in Int /\ Len(p) \in Int /\ Len(p) - 1 + 1 = Len(p)
    BY <1>1
  <2>2. \A i \in 1..Len(p) - 1 + 1 : SubSeq(s, 1, Len(p))[i] = s[1 + i - 1]
    BY <1>3, <2>1, SubSeqProperties
  <2>3. QED
    BY <2>1, <2>2
<1>5. \A i \in 1..Len(p) : p[i] = s[i] /\ i \in 1..Len(s)
  BY <1>1, <1>2, <1>4
<1>6. Range(p) = {p[i] : i \in 1..Len(p)} /\ Range(s) = {s[i] : i \in 1..Len(s)}
  BY RangeEquality
<1>7. Range(p) \subseteq Range(s)
  BY <1>5, <1>6
<1>8. QED
  BY <1>7

(* What Sync reports is what the file has.                                 *)
LEMMA PrefixReflexive ==
  ASSUME NEW R, NEW p \in Seq(R)
  PROVE  IsPrefix(p, p)
  BY LenProperties DEF IsPrefix

(* Records of a MANIFEST refer to tables.                                  *)
LEMMA NamesTables ==
  ASSUME NEW s \in Seq(SUBSET Table)
  PROVE  UNION Range(s) \subseteq Table
  BY RangeOfSeq

(* The names in a file and in a buffer.                                    *)
LEMMA NamesJoin ==
  ASSUME NEW R, NEW s \in Seq(R), NEW u \in Seq(R)
  PROVE  UNION Range(Joined(s, u)) = (UNION Range(s)) \cup (UNION Range(u))
<1>1. Range(Joined(s, u)) = Range(s) \cup Range(u)
  BY RangeConcatenation DEF Joined
<1>2. QED
  BY <1>1

(* The names after one more record.                                        *)
LEMMA NamesAppend ==
  ASSUME NEW R, NEW c \in Seq(R), NEW s \in Seq(R), NEW r \in R
  PROVE  UNION Range(Joined(c, With(s, r))) = (UNION Range(Joined(c, s))) \cup r
<1>1. <<r>> \in Seq(R) /\ Append(s, r) = s \o <<r>>
  BY AppendIsConcat
<1>2. PICK u \in Seq(R) : u = <<r>>
  BY <1>1
<1>3. Joined(c, s) \in Seq(R) /\ Joined(c, With(s, r)) = Joined(Joined(c, s), u)
  <2>1. c \o s \in Seq(R)
    BY ConcatProperties
  <2>2. (c \o s) \o <<r>> = c \o (s \o <<r>>)
    BY <1>1, ConcatAssociative
  <2>3. QED
    BY <1>1, <1>2, <2>1, <2>2 DEF Joined, With
<1>4. UNION Range(Joined(Joined(c, s), u)) = (UNION Range(Joined(c, s))) \cup (UNION Range(u))
  <2>1. PICK v : v \in Seq(R) /\ v = Joined(c, s)
    BY <1>3
  <2>2. UNION Range(Joined(v, u)) = (UNION Range(v)) \cup (UNION Range(u))
    BY ONLY <2>1, NamesJoin, u \in Seq(R)
  <2>3. QED
    BY <2>1, <2>2
<1>5. UNION Range(u) = r
  <2>1. Range(u) = {u[j] : j \in 1..Len(u)}
    BY RangeEquality
  <2>2. Len(u) = 1 /\ u[1] = r
    BY <1>2
  <2>3. Range(u) = {r}
    BY <2>1, <2>2
  <2>4. QED
    BY <2>3
<1>6. QED
  BY <1>3, <1>4, <1>5

-----------------------------------------------------------------------------
(* PosixWritableFile as WritableTypeOK has it.                                     *)
FileState == [inode : 0..Inodes, buffer : Seq(Record),
              sync : {"no", "flush", "data"}, clean : BOOLEAN, failed : BOOLEAN]

(* WritableTypeOK, one variable at a time.                                         *)
LEMMA TypeParts ==
  TypeInv <=> /\ entry \in [Name -> 0..Inodes]
              /\ held \in [Name -> SUBSET (0..Inodes)]
              /\ content \in [Inode -> Seq(Record)]
              /\ maybe \in [Inode -> SUBSET Seq(Record)]
              /\ file \in [Written -> FileState]
              /\ table \in [Table -> TableState]
              /\ promised \in Seq(Record)
              /\ setting \in {"no", "write", "rename", "remove"}
              /\ faults \in 0..MaxFaults
<1>1. maybe \in [Inode -> SUBSET Seq(Record)] => \A i \in Inode : maybe[i] \subseteq Seq(Record)
  OBVIOUS
<1>2. QED
  BY <1>1 DEF TypeInv, WritableTypeOK, FileState

(* And after a step.                                                       *)
LEMMA TypePartsNext ==
  TypeInv' <=> /\ entry' \in [Name -> 0..Inodes]
               /\ held' \in [Name -> SUBSET (0..Inodes)]
               /\ content' \in [Inode -> Seq(Record)]
               /\ maybe' \in [Inode -> SUBSET Seq(Record)]
               /\ file' \in [Written -> FileState]
               /\ table' \in [Table -> TableState]
               /\ promised' \in Seq(Record)
               /\ setting' \in {"no", "write", "rename", "remove"}
               /\ faults' \in 0..MaxFaults
<1>1. maybe' \in [Inode -> SUBSET Seq(Record)] => \A i \in Inode : maybe'[i] \subseteq Seq(Record)
  OBVIOUS
<1>2. QED
  BY <1>1 DEF TypeInv, WritableTypeOK, FileState

(* The kinds of names.                                                     *)
LEMMA Written3 ==
  /\ Table \subseteq Written /\ Manifest \in Written /\ Tmp \in Written
  /\ Written \subseteq Name /\ Current \in Name /\ Current \notin Written
  /\ \A n \in Written : n \in Table \/ n = Manifest \/ n = Tmp
  /\ \A n \in Name : n \in Written \/ n = Current
  BY Distinct DEF Written, Name

(* Write: what the kernel and the FILE have afterwards.                    *)
Wrote(n, b, k, f) ==
  /\ file[n].inode \in Inode
  /\ entry' = entry /\ held' = held
  /\ content' \in [Inode -> Seq(Record)]
  /\ maybe' \in [Inode -> SUBSET Seq(Record)]
  /\ file' \in [Written -> FileState]
  /\ \A j \in Inode \ {file[n].inode} : content'[j] = content[j] /\ maybe'[j] = maybe[j]
  /\ \A m \in Written \ {n} : file'[m] = file[m]
  /\ content'[file[n].inode] = Sent(content[file[n].inode], b, k)
  /\ maybe'[file[n].inode] = maybe[file[n].inode]
       \cup {Sent(content[file[n].inode], b, j) : j \in 0..k}
  /\ f = Closed => file'[n] = Closed
  /\ f # Closed => /\ file'[n].inode = file[n].inode
                   /\ file'[n].buffer = Unsent(b, k)
                   /\ file'[n].sync = f.sync /\ file'[n].clean = f.clean
                   /\ file'[n].failed = f.failed

(* Write does that to the file and to the FILE.                            *)
LEMMA WriteFacts ==
  ASSUME TypeInv, NEW n \in Written, Open(n), NEW b \in Seq(Record),
         NEW k \in 0..Len(b), NEW f \in FileState,
         f = Closed \/ f.inode = file[n].inode,
         Write(n, b, k, f)
  PROVE  Wrote(n, b, k, f)
<1> DEFINE i == file[n].inode
           sent(j) == Sent(content[i], b, j)
<1>1. i \in Inode /\ file[n] \in FileState
  BY TypeParts DEF Open, FileState, Inode
<1>2. Len(b) \in Nat /\ k \in 0..Len(b) /\ k \in Nat /\ 0..k \subseteq 0..Len(b)
  BY LenProperties
<1>3. content[i] \in Seq(Record) /\ maybe[i] \in SUBSET Seq(Record)
  BY <1>1, TypeParts
<1>4. \A j \in 0..Len(b) : sent(j) \in Seq(Record)
  BY <1>3, SentParts
<1>5. Unsent(b, k) \in Seq(Record)
  BY <1>3, SentParts
<1>6. /\ content' = [content EXCEPT ![i] = sent(k)]
      /\ maybe' = [maybe EXCEPT ![i] = @ \cup {sent(j) : j \in 0..k}]
      /\ file' = [file EXCEPT ![n] = IF f.inode = 0 THEN f
                                     ELSE [f EXCEPT !.buffer = Unsent(b, k)]]
      /\ UNCHANGED <<entry, held>>
  BY DEF Write, Sent, Unsent
<1>7. sent(k) \in Seq(Record) /\ {sent(j) : j \in 0..k} \subseteq Seq(Record)
  BY <1>2, <1>4
<1>8. /\ content \in [Inode -> Seq(Record)] /\ maybe \in [Inode -> SUBSET Seq(Record)]
      /\ file \in [Written -> FileState]
  BY TypeParts
<1>9. \A r \in Seq(Record) : [f EXCEPT !.buffer = r] \in FileState
  BY DEF FileState
<1>10. Closed.inode = 0 /\ Closed \in FileState
  BY EmptySeq, Distinct DEF Closed, FileState
<1>11. i # 0
  BY DEF Open
<1> HIDE DEF i, sent
<1>12. /\ content' \in [Inode -> Seq(Record)] /\ content'[i] = sent(k)
       /\ \A j \in Inode \ {i} : content'[j] = content[j]
  BY <1>1, <1>6, <1>7, <1>8
<1>13. /\ maybe' \in [Inode -> SUBSET Seq(Record)]
       /\ maybe'[i] = maybe[i] \cup {sent(j) : j \in 0..k}
       /\ \A j \in Inode \ {i} : maybe'[j] = maybe[j]
  <2>1. maybe[i] \cup {sent(j) : j \in 0..k} \in SUBSET Seq(Record)
    BY <1>3, <1>7
  <2>2. QED
    BY <1>1, <1>6, <1>8, <2>1
<1>14. /\ file' \in [Written -> FileState] /\ \A m \in Written \ {n} : file'[m] = file[m]
       /\ file'[n] = IF f.inode = 0 THEN f ELSE [f EXCEPT !.buffer = Unsent(b, k)]
  <2>1. (IF f.inode = 0 THEN f ELSE [f EXCEPT !.buffer = Unsent(b, k)])
          \in FileState
    BY <1>5, <1>9
  <2>2. QED
    BY <1>6, <1>8, <2>1
<1>15. f = Closed => file'[n] = Closed
  BY <1>10, <1>14
<1>16. ASSUME f # Closed
       PROVE  /\ file'[n].inode = file[n].inode
              /\ file'[n].buffer = Unsent(b, k)
              /\ file'[n].sync = f.sync /\ file'[n].clean = f.clean
              /\ file'[n].failed = f.failed
  <2>1. f.inode = i /\ f.inode # 0
    BY <1>11, <1>16 DEF i
  <2>2. file'[n] = [f EXCEPT !.buffer = Unsent(b, k)]
    BY <1>14, <2>1
  <2>3. \A r : /\ [f EXCEPT !.buffer = r].inode = f.inode
               /\ [f EXCEPT !.buffer = r].buffer = r
               /\ [f EXCEPT !.buffer = r].sync = f.sync
               /\ [f EXCEPT !.buffer = r].clean = f.clean
               /\ [f EXCEPT !.buffer = r].failed = f.failed
    BY DEF FileState
  <2>4. QED
    BY <2>1, <2>2, <2>3 DEF i
<1>17. QED
  BY <1>1, <1>6, <1>12, <1>13, <1>14, <1>15, <1>16 DEF i, sent, Wrote

(* The tables of a record that has been reported are known to the process. *)
LEMMA PromisedKnown ==
  ASSUME WritableInv
  PROVE  UNION Range(promised) \subseteq Known
<1>1. CASE promised = <<>>
  <2>1. promised \in Seq(Record) /\ Len(promised) = 0
    BY <1>1, TypeParts, EmptySeq DEF WritableInv
  <2>2. Range(promised) = {promised[j] : j \in 1..Len(promised)}
    BY <2>1, RangeEquality
  <2>3. QED
    BY <2>1, <2>2
<1>2. CASE promised # <<>>
  <2>1. /\ entry[Manifest] # 0
        /\ \A s \in maybe[entry[Manifest]] : IsPrefix(promised, s)
    BY <1>2 DEF WritableInv, PromiseInv
  <2>2. /\ entry[Manifest] \in Inode
        /\ promised \in Seq(Record) /\ content[entry[Manifest]] \in Seq(Record)
    <3>1. entry[Manifest] \in 0..Inodes
      BY TypeParts, Written3 DEF WritableInv
    <3>2. entry[Manifest] \in Inode
      BY <2>1, <3>1, Distinct DEF Inode
    <3>3. QED
      BY <3>2, TypeParts DEF WritableInv
  <2>3. IsPrefix(promised, content[entry[Manifest]])
    BY <2>1, <2>2 DEF WritableInv, HeldInv
  <2>4. UNION Range(promised) \subseteq UNION Range(content[entry[Manifest]])
    BY <2>2, <2>3, PrefixNames
  <2>5. QED
    BY <1>2, <2>4 DEF WritableInv, ManifestInv
<1>3. QED
  BY <1>1, <1>2

-----------------------------------------------------------------------------
(* A step on the file i, which n stands for after it.                      *)
Touches(n, i) ==
  /\ i \in Inode
  /\ entry'[n] = i /\ held'[n] = held[n] \cup {i}
  /\ \A m \in Name \ {n} : entry'[m] = entry[m] /\ held'[m] = held[m] /\ i \notin held[m]
  /\ \A j \in Inode \ {i} : content'[j] = content[j] /\ maybe'[j] = maybe[j]
  /\ content'[i] \in maybe'[i]
  /\ \A m \in Written \ {n} : file'[m] = file[m]

(* A file that is not CURRENT has no second name, now or after a crash.    *)
LEMMA OwnInode ==
  ASSUME WritableInv, NEW n \in Written, entry[n] # 0
  PROVE  entry[n] \in Inode /\ \A m \in Name \ {n} : entry[n] \notin held[m]
<1>1. entry \in [Name -> 0..Inodes] /\ n \in Name
  BY TypeParts, Written3 DEF WritableInv
<1>2. entry[n] \in held[n]
  BY <1>1 DEF WritableInv, HeldInv
<1>3. entry[n] \in Inode
  BY <1>1, Distinct DEF Inode
<1>4. ASSUME NEW m \in Name \ {n}, entry[n] \in held[m] PROVE FALSE
  <2>1. n \in {Tmp, Current} /\ m \in {Tmp, Current}
    BY <1>1, <1>2, <1>4 DEF WritableInv, HeldInv
  <2>2. n = Tmp /\ m = Current
    BY <2>1, <1>4, Written3
  <2>3. QED
    BY <1>4, <2>2 DEF WritableInv, HeldInv
<1>5. QED
  BY <1>3, <1>4

(* The other names keep what they have.                                    *)
LEMMA OthersKeep ==
  ASSUME WritableInv, NEW n \in Written, NEW i, Touches(n, i), TypeInv'
  PROVE  \A m \in Name \ {n} : \A j \in held'[m] \ {0} :
           j \in Inode /\ j \in held[m] /\ content'[j] = content[j] /\ maybe'[j] = maybe[j]
<1>1. held' \in [Name -> SUBSET (0..Inodes)]
  <2>1. TypeInv' => held' \in [Name -> SUBSET (0..Inodes)]
    BY DEF TypeInv, WritableTypeOK
  <2>2. QED
    BY <2>1
<1>2. \A j \in 0..Inodes : j # 0 => j \in Inode
  BY Distinct DEF Inode
<1>3. QED
  BY <1>1, <1>2 DEF Touches

(* A step on the file of n leaves the other files and objects as good as   *)
(* they were.                                                              *)
LEMMA FileFrame ==
  ASSUME WritableInv, NEW n \in Written, NEW i, Touches(n, i), TypeInv', FileGood(n)',
         \A t \in Table \ {n} : table'[t] = table[t],
         n # Tmp => setting' = setting
  PROVE  HeldInv' /\ FileInv'
<1>0. n \in Name /\ Tmp \in Name /\ Current \in Name /\ n # Current /\ Written \subseteq Name
  BY Written3
<1>1. HeldInv'
  <2>1. \A m \in Name : entry'[m] \in held'[m]
    BY <1>0 DEF WritableInv, HeldInv, Touches
  <2>2. \A m, p \in Name : \A j \in held'[m] \cap held'[p] :
          j = 0 \/ m = p \/ (m \in {Tmp, Current} /\ p \in {Tmp, Current})
    BY <1>0 DEF WritableInv, HeldInv, Touches
  <2>3. entry'[Tmp] = 0 \/ entry'[Tmp] \notin held'[Current]
    BY <1>0 DEF WritableInv, HeldInv, Touches
  <2>4. \A j \in Inode : content'[j] \in maybe'[j]
    BY DEF WritableInv, HeldInv, Touches
  <2>5. QED
    BY <2>1, <2>2, <2>3, <2>4 DEF HeldInv
<1>2. ASSUME NEW m \in Written \ {n} PROVE FileGood(m)'
  <2>1. FileGood(m) /\ file'[m] = file[m] /\ entry'[m] = entry[m] /\ m \in Name
    BY <1>0 DEF WritableInv, FileInv, Touches
  <2>2. CASE ~Open(m)
    BY <2>1, <2>2 DEF FileGood, Open
  <2>3. CASE Open(m)
    <3>1. file[m].inode \in Inode /\ file[m].inode # i
      <4>1. entry[m] = file[m].inode /\ entry[m] # 0
        BY <2>1, <2>3 DEF FileGood, Open
      <4>2. entry[m] \in held[m] /\ i \notin held[m]
        BY <2>1 DEF WritableInv, HeldInv, Touches
      <4>3. QED
        BY <4>1, <4>2, OwnInode
    <3>2. /\ content'[file[m].inode] = content[file[m].inode]
          /\ maybe'[file[m].inode] = maybe[file[m].inode]
      BY <3>1 DEF Touches
    <3>3. Total(m)' = Total(m) /\ Open(m)' /\ Syncing(m)' = Syncing(m)
      BY <2>1, <2>3, <3>2 DEF Total, Open, Syncing
    <3>4. (m \in Table => table'[m] = table[m]) /\ (m = Tmp => setting' = setting)
      BY <1>2
    <3>5. QED
      BY <2>1, <2>3, <3>2, <3>3, <3>4 DEF FileGood, Whole
  <2>4. QED
    BY <2>2, <2>3
<1>3. QED
  BY <1>1, <1>2 DEF FileInv

(* Whatever n is, if it is not the MANIFEST.                               *)
LEMMA ManifestKept ==
  ASSUME WritableInv, NEW n \in Written \ {Manifest}, NEW i, Touches(n, i), TypeInv',
         n \notin Known, Known \subseteq Known', promised' = promised
  PROVE  RecordInv' /\ ManifestInv' /\ PromiseInv'
<1>0. /\ Manifest \in Written /\ Manifest \in Name \ {n} /\ Table \subseteq Name
      /\ file'[Manifest] = file[Manifest] /\ entry'[Manifest] = entry[Manifest]
      /\ held'[Manifest] = held[Manifest]
      /\ FileGood(Manifest)
  BY Written3 DEF Touches, WritableInv, FileInv
<1>1. \A j \in held[Manifest] \ {0} :
        j \in Inode /\ content'[j] = content[j] /\ maybe'[j] = maybe[j]
  BY <1>0, OthersKeep
<1>2. \A t \in Known : t \in Table /\ entry'[t] = entry[t] /\ held'[t] = held[t]
  BY <1>0 DEF Known, Touches
<1>3. entry[Manifest] \in held[Manifest]
  BY <1>0, Written3 DEF WritableInv, HeldInv
<1>4. RecordInv'
  BY <1>0, <1>1 DEF WritableInv, RecordInv, Open
<1>5. ManifestInv'
  <2>1. ASSUME Open(Manifest)' PROVE Open(Manifest) /\ Total(Manifest)' = Total(Manifest)
                                     /\ Syncing(Manifest)' = Syncing(Manifest)
    <3>1. Open(Manifest) /\ Syncing(Manifest)' = Syncing(Manifest)
      BY <1>0, <2>1 DEF Open, Syncing
    <3>2. entry[Manifest] = file[Manifest].inode /\ file[Manifest].inode # 0
      BY <1>0, <3>1 DEF FileGood, Open
    <3>3. QED
      BY <1>0, <1>1, <1>3, <3>1, <3>2 DEF Total
  <2>2. ASSUME promised' # <<>>
        PROVE  UNION Range(content'[entry'[Manifest]]) \subseteq Known'
    <3>1. entry[Manifest] # 0 /\ promised # <<>>
      BY <2>2 DEF WritableInv, PromiseInv
    <3>2. content'[entry'[Manifest]] = content[entry[Manifest]]
      BY <1>0, <1>1, <1>3, <3>1
    <3>3. UNION Range(content[entry[Manifest]]) \subseteq Known
      BY <3>1 DEF WritableInv, ManifestInv
    <3>4. QED
      BY <3>2, <3>3
  <2>3. ASSUME Open(Manifest)'
        PROVE  /\ \A t \in UNION Range(Total(Manifest)') :
                    /\ t \in Known' /\ entry'[t] # 0
                    /\ Syncing(Manifest)' => held'[t] = {entry'[t]}
               /\ Syncing(Manifest)' => held'[Manifest] = {entry'[Manifest]}
    <3>1. Open(Manifest) /\ Total(Manifest)' = Total(Manifest)
          /\ Syncing(Manifest)' = Syncing(Manifest)
      BY <2>1, <2>3
    <3>2. /\ \A t \in UNION Range(Total(Manifest)) :
               /\ t \in Known /\ entry[t] # 0
               /\ Syncing(Manifest) => held[t] = {entry[t]}
          /\ Syncing(Manifest) => held[Manifest] = {entry[Manifest]}
      BY <3>1 DEF WritableInv, ManifestInv
    <3>3. QED
      BY <1>0, <1>2, <3>1, <3>2
  <2>4. QED
    BY <2>2, <2>3 DEF ManifestInv
<1>6. PromiseInv'
  <2> SUFFICES ASSUME promised' # <<>>
               PROVE  /\ held'[Manifest] = {entry'[Manifest]} /\ entry'[Manifest] # 0
                      /\ \A s \in maybe'[entry'[Manifest]] : IsPrefix(promised', s)
                      /\ \A t \in UNION Range(promised') :
                           held'[t] = {entry'[t]} /\ entry'[t] # 0
    BY DEF PromiseInv
  <2>1. /\ held[Manifest] = {entry[Manifest]} /\ entry[Manifest] # 0
        /\ \A s \in maybe[entry[Manifest]] : IsPrefix(promised, s)
        /\ \A t \in UNION Range(promised) : held[t] = {entry[t]} /\ entry[t] # 0
    BY DEF WritableInv, PromiseInv
  <2>2. UNION Range(promised) \subseteq Known
    BY PromisedKnown
  <2>3. maybe'[entry'[Manifest]] = maybe[entry[Manifest]]
    BY <1>0, <1>1, <1>3, <2>1
  <2>4. QED
    BY <1>0, <1>2, <2>1, <2>2, <2>3
<1>7. QED
  BY <1>4, <1>5, <1>6

(* And the tables that are done, and CURRENT.                              *)
LEMMA DoneFrame ==
  ASSUME WritableInv, NEW n \in Written, NEW i, Touches(n, i), TypeInv',
         \A t \in Table \ {n} : table'[t] = table[t],
         n \in Table /\ table'[n] = "done" => maybe'[i] = {<<{n}>>},
         promised # <<>> => promised' # <<>>
  PROVE  DoneStored' /\ CurrentWhole'
<1>1. DoneStored'
  <2> SUFFICES ASSUME NEW t \in Table, table'[t] = "done"
               PROVE  entry'[t] # 0 /\ maybe'[entry'[t]] = {<<{t}>>}
    BY DEF DoneStored, Done
  <2>1. CASE t = n
    BY <2>1, Distinct DEF Touches
  <2>2. CASE t # n
    <3>1. t \in Name /\ t \in Written /\ table[t] = "done"
      BY <2>2, Written3
    <3>2. entry[t] # 0 /\ maybe[entry[t]] = {<<{t}>>}
      BY <3>1 DEF WritableInv, DoneStored, Done
    <3>3. entry[t] \in held[t] /\ entry'[t] = entry[t] /\ held'[t] = held[t]
      BY <2>2, <3>1 DEF WritableInv, HeldInv, Touches
    <3>4. maybe'[entry[t]] = maybe[entry[t]]
      BY <2>2, <3>1, <3>2, <3>3, OthersKeep
    <3>5. QED
      BY <3>2, <3>3, <3>4
  <2>3. QED
    BY <2>1, <2>2
<1>2. CurrentWhole'
  <2>1. Current \in Name \ {n} /\ held'[Current] = held[Current]
    BY Written3 DEF Touches
  <2>2. \A j \in held'[Current] \ {0} : maybe'[j] = maybe[j]
    BY <2>1, OthersKeep
  <2>3. QED
    BY <2>1, <2>2 DEF WritableInv, CurrentWhole
<1>3. QED
  BY <1>1, <1>2

(* And the temporary file, if n is another.                                *)
LEMMA SettingKept ==
  ASSUME WritableInv, NEW n \in Written \ {Tmp}, NEW i, Touches(n, i), TypeInv',
         setting' = setting, promised # <<>> => promised' # <<>>
  PROVE  SettingInv'
<1>1. Tmp \in Name \ {n} /\ entry'[Tmp] = entry[Tmp] /\ held'[Tmp] = held[Tmp]
      /\ entry[Tmp] \in held[Tmp]
  BY Written3 DEF Touches, WritableInv, HeldInv
<1>2. \A j \in held'[Tmp] \ {0} : maybe'[j] = maybe[j]
  BY <1>1, OthersKeep
<1>3. QED
  BY <1>1, <1>2 DEF WritableInv, SettingInv

(* A step on a table that is being written.                                *)
LEMMA TableStep ==
  ASSUME WritableInv, NEW n \in Table, NEW i, Touches(n, i), TypeInv', FileGood(n)',
         n \notin Known, \A t \in Table \ {n} : table'[t] = table[t],
         table'[n] = "done" => maybe'[i] = {<<{n}>>},
         UNCHANGED <<promised, setting>>
  PROVE  WritableInv'
<1>1. n \in Written \ {Manifest} /\ n \in Written \ {Tmp} /\ n # Tmp /\ n \in Written
  BY Distinct, Written3
<1>2. HeldInv' /\ FileInv'
  BY <1>1, FileFrame
<1>3. Known \subseteq Known'
  BY DEF Known
<1>4. RecordInv' /\ ManifestInv' /\ PromiseInv'
  BY <1>1, <1>3, ManifestKept
<1>5. SettingInv'
  BY <1>1, SettingKept
<1>6. DoneStored' /\ CurrentWhole'
  BY <1>1, DoneFrame
<1>7. QED
  BY <1>2, <1>4, <1>5, <1>6 DEF WritableInv

(* A step on the temporary file of SetCurrentFile.                         *)
LEMMA TmpStep ==
  ASSUME WritableInv, NEW i, Touches(Tmp, i), TypeInv', FileGood(Tmp)',
         UNCHANGED <<table, promised>>, SettingInv'
  PROVE  WritableInv'
<1>1. Tmp \in Written \ {Manifest} /\ Tmp \notin Known /\ Tmp \notin Table /\ Tmp \in Written
  BY Distinct, Written3 DEF Known
<1>2. HeldInv' /\ FileInv'
  BY <1>1, FileFrame
<1>3. Known \subseteq Known'
  BY DEF Known
<1>4. RecordInv' /\ ManifestInv' /\ PromiseInv'
  BY <1>1, <1>3, ManifestKept
<1>6. DoneStored' /\ CurrentWhole'
  BY <1>1, DoneFrame
<1>7. QED
  BY <1>2, <1>4, <1>6 DEF WritableInv

(* A step on the MANIFEST: what it says about the tables is to be shown.   *)
LEMMA ManifestStep ==
  ASSUME WritableInv, NEW i, Touches(Manifest, i), TypeInv', FileGood(Manifest)',
         UNCHANGED <<table, setting>>, promised # <<>> => promised' # <<>>,
         RecordInv', ManifestInv', PromiseInv'
  PROVE  WritableInv'
<1>1. Manifest \in Written \ {Tmp} /\ Manifest \notin Table /\ Manifest \in Written
  BY Distinct, Written3
<1>2. HeldInv' /\ FileInv'
  BY <1>1, FileFrame
<1>5. SettingInv'
  BY <1>1, SettingKept
<1>6. DoneStored' /\ CurrentWhole'
  BY <1>1, DoneFrame
<1>7. QED
  BY <1>2, <1>5, <1>6 DEF WritableInv

-----------------------------------------------------------------------------
(* Steps that write to the file that is open on n.                         *)
OthersTyped ==
  /\ table' \in [Table -> TableState] /\ promised' \in Seq(Record)
  /\ setting' \in {"no", "write", "rename", "remove"} /\ faults' \in 0..MaxFaults

(* Write is a step on the file of n.                                       *)
LEMMA WriteTouches ==
  ASSUME WritableInv, NEW n \in Written, Open(n), NEW b \in Seq(Record),
         NEW k \in 0..Len(b), NEW f \in FileState,
         f = Closed \/ f.inode = file[n].inode,
         Write(n, b, k, f)
  PROVE  /\ Wrote(n, b, k, f)
         /\ Touches(n, file[n].inode) /\ (OthersTyped => TypeInv')
<1>0. Wrote(n, b, k, f)
  BY WriteFacts DEF WritableInv
<1>1. TypeInv /\ FileGood(n) /\ n \in Name
  BY Written3 DEF WritableInv, FileInv
<1>2. entry[n] = file[n].inode /\ entry[n] # 0
  BY <1>1 DEF FileGood, Open
<1>3. entry[n] \in held[n] /\ \A m \in Name \ {n} : entry[n] \notin held[m]
  BY <1>1, <1>2, OwnInode DEF WritableInv, HeldInv
<1>4. k \in Nat /\ k \in 0..k
  BY LenProperties
<1>5. content'[file[n].inode] \in maybe'[file[n].inode]
  BY <1>0, <1>4 DEF Wrote
<1>9. held[n] \cup {file[n].inode} = held[n] /\ file[n].inode \in Inode
  BY <1>0, <1>2, <1>3 DEF Wrote
<1>6. Touches(n, file[n].inode)
  BY <1>0, <1>1, <1>2, <1>3, <1>5, <1>9 DEF Touches, Wrote
<1>7. OthersTyped => TypeInv'
  <2>1. entry' \in [Name -> 0..Inodes] /\ held' \in [Name -> SUBSET (0..Inodes)]
    BY <1>0, <1>1, TypeParts DEF Wrote
  <2>2. QED
    BY <1>0, <2>1, TypePartsNext DEF OthersTyped, Wrote
<1>8. QED
  BY <1>0, <1>6, <1>7

(* The next record of a MANIFEST names the tables that are done.           *)
LEMMA RecordNames == SUBSET Table \subseteq Record /\ Done \in SUBSET Table
  BY Written3 DEF Record, Done

(* A Write to the MANIFEST promises nothing new.                           *)
LEMMA ManifestWrite ==
  ASSUME WritableInv, Open(Manifest), NEW b \in Seq(SUBSET Table), NEW k \in 0..Len(b),
         NEW f \in FileState, f = Closed \/ f.inode = file[Manifest].inode,
         Write(Manifest, b, k, f), OthersTyped, UNCHANGED <<table, promised, setting>>,
         FileGood(Manifest)',
         \A t \in UNION Range(Joined(content[file[Manifest].inode], b)) :
           t \in Known /\ entry[t] # 0,
         f.sync \in {"flush", "data"} => Syncing(Manifest) /\ b = file[Manifest].buffer
  PROVE  WritableInv'
<1> DEFINE i == file[Manifest].inode
           c == content[i]
<1>1. b \in Seq(Record) /\ Manifest \in Written /\ Manifest \in Name
  BY RecordNames, SeqMonotonic, Written3
<1>3. Touches(Manifest, i) /\ TypeInv' /\ Wrote(Manifest, b, k, f)
  BY <1>1, WriteTouches
<1>2. /\ TypeInv /\ FileGood(Manifest) /\ i \in Inode /\ entry[Manifest] = i /\ i # 0
      /\ entry' = entry /\ held' = held
  BY <1>1, <1>3 DEF WritableInv, FileInv, FileGood, Open, Wrote
<1>4. i \in held[Manifest] /\ c \in maybe[i] /\ maybe[i] \subseteq Seq(SUBSET Table)
  BY <1>1, <1>2 DEF WritableInv, HeldInv, RecordInv
<1>5. c \in Seq(SUBSET Table) /\ c \in Seq(Record)
  BY <1>2, <1>4, TypeParts
<1>6. /\ content'[i] = Sent(c, b, k)
      /\ maybe'[i] = maybe[i] \cup {Sent(c, b, j) : j \in 0..k}
      /\ f = Closed => file'[Manifest] = Closed
      /\ f # Closed => /\ file'[Manifest].inode = i
                       /\ file'[Manifest].buffer = Unsent(b, k)
                       /\ file'[Manifest].sync = f.sync
  BY <1>3 DEF Wrote
<1>7. \A j \in 0..k : j \in 0..Len(b)
  BY LenProperties
<1> HIDE DEF i, c
<1>8. \A j \in 0..Len(b) :
        /\ Sent(c, b, j) \in Seq(SUBSET Table) /\ Unsent(b, j) \in Seq(SUBSET Table)
        /\ Joined(Sent(c, b, j), Unsent(b, j)) = Joined(c, b)
        /\ \A p \in Seq(Record) : IsPrefix(p, c) => IsPrefix(p, Sent(c, b, j))
  <2>1. \A j \in 0..Len(b) :
          /\ Sent(c, b, j) \in Seq(SUBSET Table) /\ Unsent(b, j) \in Seq(SUBSET Table)
          /\ Joined(Sent(c, b, j), Unsent(b, j)) = Joined(c, b)
    BY <1>5, SentParts
  <2>2. \A j \in 0..Len(b) : \A p \in Seq(Record) : IsPrefix(p, c) => IsPrefix(p, Sent(c, b, j))
    BY ONLY <1>1, <1>5, SentParts
  <2>3. QED
    BY <2>1, <2>2
<1>9. RecordInv'
  <2>1. \A j \in held'[Manifest] \ {0} : j # i => maybe'[j] = maybe[j]
    BY <1>1, <1>2, <1>3, TypePartsNext, Distinct DEF Touches, Inode
  <2>2. maybe'[i] \subseteq Seq(SUBSET Table)
    BY <1>4, <1>6, <1>7, <1>8
  <2>3. Open(Manifest)' => file'[Manifest].buffer \in Seq(SUBSET Table)
    <3>1. Closed.inode = 0
      BY DEF Closed
    <3>2. Open(Manifest)' => file'[Manifest].buffer = Unsent(b, k)
      BY <1>6, <3>1 DEF Open
    <3>3. QED
      BY <1>8, <3>2
  <2>4. QED
    BY <1>2, <2>1, <2>2, <2>3 DEF WritableInv, RecordInv
<1>10. UNION Range(Sent(c, b, k)) \subseteq UNION Range(Joined(c, b))
  <2>1. /\ Sent(c, b, k) \in Seq(SUBSET Table) /\ Unsent(b, k) \in Seq(SUBSET Table)
        /\ Joined(Sent(c, b, k), Unsent(b, k)) = Joined(c, b)
    BY <1>8
  <2>2. UNION Range(Joined(Sent(c, b, k), Unsent(b, k)))
          = (UNION Range(Sent(c, b, k))) \cup (UNION Range(Unsent(b, k)))
    BY <2>1, NamesJoin
  <2>3. QED
    BY <2>1, <2>2
<1>11. ManifestInv'
  <2>1. \A t \in UNION Range(Joined(c, b)) : t \in Known /\ entry[t] # 0
    BY DEF i, c
  <2>2. promised' # <<>> => UNION Range(content'[entry'[Manifest]]) \subseteq Known'
    BY <1>2, <1>6, <1>10, <2>1 DEF Known
  <2>3. ASSUME Open(Manifest)'
        PROVE  /\ Total(Manifest)' = Joined(c, b)
               /\ Syncing(Manifest)' => Syncing(Manifest) /\ Total(Manifest) = Joined(c, b)
    <3>1. f # Closed /\ file'[Manifest].inode = i
          /\ file'[Manifest].buffer = Unsent(b, k)
          /\ file'[Manifest].sync = f.sync
      BY <1>6, <2>3 DEF Open, Closed
    <3>2. Total(Manifest)' = Joined(content'[i], Unsent(b, k))
      BY <3>1 DEF Total
    <3>3. Total(Manifest)' = Joined(c, b)
      BY <1>6, <1>8, <3>2
    <3>4. Syncing(Manifest)' => Syncing(Manifest) /\ Total(Manifest) = Joined(c, b)
      BY <3>1 DEF Syncing, Total, i, c
    <3>5. QED
      BY <3>3, <3>4
  <2>4. Open(Manifest) /\ Known' = Known
    BY DEF Known
  <2>5. Open(Manifest)' =>
          /\ \A t \in UNION Range(Total(Manifest)') :
               /\ t \in Known' /\ entry'[t] # 0
               /\ Syncing(Manifest)' => held'[t] = {entry'[t]}
          /\ Syncing(Manifest)' => held'[Manifest] = {entry'[Manifest]}
    BY <1>2, <2>1, <2>3, <2>4 DEF WritableInv, ManifestInv
  <2>6. QED
    BY <2>2, <2>5 DEF ManifestInv
<1>12. PromiseInv'
  <2> SUFFICES ASSUME promised # <<>>
               PROVE  /\ held[Manifest] = {entry[Manifest]} /\ entry[Manifest] # 0
                      /\ \A s \in maybe'[i] : IsPrefix(promised, s)
                      /\ \A t \in UNION Range(promised) :
                           held[t] = {entry[t]} /\ entry[t] # 0
    BY <1>2 DEF PromiseInv
  <2>1. /\ held[Manifest] = {entry[Manifest]} /\ entry[Manifest] # 0
        /\ \A s \in maybe[i] : IsPrefix(promised, s)
        /\ \A t \in UNION Range(promised) : held[t] = {entry[t]} /\ entry[t] # 0
    BY <1>2 DEF WritableInv, PromiseInv
  <2>2. promised \in Seq(Record)
    BY <1>2, TypeParts
  <2>3. \A j \in 0..Len(b) : IsPrefix(promised, Sent(c, b, j))
    <3>1. IsPrefix(promised, c)
      BY <1>4, <2>1
    <3>2. QED
      BY <1>8, <2>2, <3>1
  <2>4. QED
    BY <1>6, <1>7, <2>1, <2>3
<1>13. QED
  BY <1>3, <1>9, <1>11, <1>12, ManifestStep DEF i

(* A buffer that has been written out is empty.                            *)
LEMMA AllSent ==
  ASSUME NEW R, NEW b \in Seq(R)
  PROVE  Unsent(b, Len(b)) = <<>>
<1>1. Len(b) \in Nat /\ Len(b) + 1 \in Int /\ Len(b) \in Int /\ Len(b) < Len(b) + 1
  BY LenProperties
<1>2. QED
  BY <1>1, SubSeqEmpty DEF Unsent

(* An empty buffer adds nothing.                                           *)
LEMMA NothingSent ==
  ASSUME NEW R, NEW s \in Seq(R), NEW j \in 0..Len(<<>>)
  PROVE  j = 0 /\ Sent(s, <<>>, j) = s /\ Joined(s, <<>>) = s
<1>1. j = 0
  OBVIOUS
<1>2. SubSeq(<<>>, 1, 0) = <<>>
  <2>1. 1 \in Int /\ 0 \in Int /\ 0 < 1
    OBVIOUS
  <2>2. QED
    BY <2>1, SubSeqEmpty
<1>3. s \o <<>> = s
  BY ConcatEmptySeq
<1>4. QED
  BY <1>1, <1>2, <1>3, Zenon DEF Sent, Joined

(* An object after a Write.                                                *)
LEMMA WriteGood ==
  ASSUME WritableInv, NEW n \in Written, Open(n), NEW b \in Seq(Record),
         NEW k \in 0..Len(b), NEW f \in FileState,
         f = Closed \/ f.inode = file[n].inode, Write(n, b, k, f),
         ~f.clean,
         f # Closed /\ n \in Table => table'[n] = table[n],
         f # Closed /\ n = Tmp => setting' = setting,
         n # Manifest => Joined(content[file[n].inode], b) \in {<<>>, Whole(n)},
         f.sync \in {"flush", "data"} => Joined(content[file[n].inode], b) # <<>>,
         f.sync = "data" => k = Len(b)
  PROVE  FileGood(n)'
<1>1. Wrote(n, b, k, f) /\ FileGood(n) /\ TypeInv
  BY WriteTouches DEF WritableInv, FileInv
<1>2. CASE f = Closed
  <2>1. file'[n] = Closed /\ Closed.inode = 0
    BY <1>1, <1>2 DEF Wrote, Closed
  <2>2. QED
    BY <2>1 DEF FileGood, Open
<1>3. CASE f # Closed
  <2> DEFINE i == file[n].inode
  <2>1. /\ i \in Inode /\ entry' = entry
        /\ content'[i] = Sent(content[i], b, k)
        /\ file'[n].inode = i /\ file'[n].buffer = Unsent(b, k)
        /\ file'[n].sync = f.sync /\ file'[n].clean = f.clean
    BY <1>1, <1>3 DEF Wrote
  <2>2. content[i] \in Seq(Record)
    BY <1>1, <2>1, TypeParts
  <2>3. Joined(content'[i], file'[n].buffer) = Joined(content[i], b)
    BY <2>1, <2>2, SentParts
  <2>4. Total(n)' = Joined(content[i], b)
    BY <2>1, <2>3 DEF Total
  <2>5. f.sync = "data" => file'[n].buffer = <<>>
    BY <2>1, AllSent
  <2>6. entry[n] = i /\ (n \in Table => table[n] = "used") /\ (n = Tmp => setting = "write")
    BY <1>1 DEF FileGood
  <2>7. Open(n)' /\ Syncing(n)' = (f.sync \in {"flush", "data"}) /\ ~file'[n].clean
        /\ entry'[n] = file'[n].inode /\ (f.sync = "data" <=> file'[n].sync = "data")
    BY <2>1, <2>6 DEF Open, Syncing
  <2>8. /\ n \in Table => table'[n] = "used"
        /\ n = Tmp => setting' = "write"
    BY <1>3, <2>6
  <2> HIDE DEF i
  <2>9. /\ n # Manifest => Total(n)' \in {<<>>, Whole(n)}
        /\ Syncing(n)' \/ file'[n].clean => Total(n)' # <<>>
        /\ Syncing(n)' => ~file'[n].clean
        /\ file'[n].sync = "data" \/ file'[n].clean => file'[n].buffer = <<>>
    BY <2>4, <2>5, <2>7 DEF i
  <2>10. QED
    BY <2>7, <2>8, <2>9 DEF FileGood, Whole
<1>4. QED
  BY <1>2, <1>3

(* Close after a Sync, and nothing since, leaves on the disk exactly what  *)
(* was written.                                                            *)
LEMMA CleanFacts ==
  ASSUME WritableInv, NEW n \in Written \ {Manifest}, Open(n), file[n].clean,
         NEW k \in 0..Len(file[n].buffer), NEW f \in FileState,
         f = Closed, Write(n, file[n].buffer, k, f)
  PROVE  maybe'[file[n].inode] = {Whole(n)}
<1> DEFINE i == file[n].inode
<1>1. FileGood(n) /\ TypeInv /\ file[n].buffer \in Seq(Record)
  BY TypeParts DEF WritableInv, FileInv, FileState
<1>2. file[n].buffer = <<>> /\ maybe[i] = {content[i]} /\ Total(n) = Whole(n)
  BY <1>1 DEF FileGood
<1>3. Wrote(n, file[n].buffer, k, f)
  BY <1>1, WriteTouches
<1>4. /\ i \in Inode /\ content[i] \in Seq(Record)
      /\ maybe'[i] = maybe[i] \cup {Sent(content[i], <<>>, j) : j \in 0..k}
  BY <1>1, <1>2, <1>3, TypeParts DEF Wrote
<1>5. k = 0 /\ 0..k \subseteq 0..Len(<<>>)
  BY <1>2
<1> HIDE DEF i
<1>6. \A j \in 0..k : Sent(content[i], <<>>, j) = content[i]
  BY <1>4, <1>5, NothingSent
<1>7. Joined(content[i], <<>>) = content[i]
  BY <1>4, <1>5, NothingSent
<1>8. Total(n) = content[i]
  BY <1>2, <1>7 DEF Total, i
<1>9. maybe'[i] = {content[i]}
  BY <1>2, <1>4, <1>5, <1>6 DEF i
<1>10. QED
  BY <1>2, <1>8, <1>9 DEF i

(* The records that leave the buffer.                                      *)
LEMMA BufferStep ==
  ASSUME WritableInv, NEW n \in Written, Open(n), NEW k \in 0..Len(file[n].buffer),
         NEW f \in FileState, f = Closed \/ f.inode = file[n].inode,
         Write(n, file[n].buffer, k, f), ~f.clean,
         f.sync \in {"flush", "data"} => Syncing(n),
         f.sync = "data" => k = Len(file[n].buffer),
         faults' \in 0..MaxFaults, UNCHANGED promised,
         \/ UNCHANGED table
         \/ n \in Table /\ f = Closed /\ file[n].clean /\ table' = [table EXCEPT ![n] = "done"],
         \/ UNCHANGED setting
         \/ n = Tmp /\ f = Closed /\ setting' = "remove"
         \/ n = Tmp /\ f = Closed /\ file[n].clean /\ setting' = "rename"
  PROVE  WritableInv'
<1> DEFINE b == file[n].buffer
           i == file[n].inode
<1>1. TypeInv /\ FileGood(n) /\ b \in Seq(Record)
  BY TypeParts DEF WritableInv, FileInv, FileState
<1>2. /\ entry[n] = i /\ (n \in Table => table[n] = "used") /\ (n = Tmp => setting = "write")
      /\ (n # Manifest => Total(n) \in {<<>>, Whole(n)})
      /\ (Syncing(n) => Total(n) # <<>>)
  BY <1>1 DEF FileGood
<1>3. OthersTyped
  BY <1>1, TypeParts DEF OthersTyped, TableState
<1>4. Touches(n, i) /\ TypeInv' /\ Wrote(n, b, k, f)
  BY <1>1, <1>3, WriteTouches
<1>5. Total(n) = Joined(content[i], b)
  BY DEF Total
<1> HIDE DEF b
<1>6. FileGood(n)'
  BY <1>1, <1>2, <1>5, WriteGood DEF b
<1>7. CASE n \in Table
  <2>1. n \notin Known /\ n # Tmp /\ n # Manifest /\ Whole(n) = <<{n}>>
    BY <1>2, <1>7, Distinct DEF Known, Whole
  <2>2. \A t \in Table \ {n} : table'[t] = table[t]
    BY <1>1, TypeParts
  <2>3. table'[n] = "done" => maybe'[i] = {<<{n}>>}
    BY <1>2, <1>7, <2>1, CleanFacts
  <2>4. QED
    BY <1>4, <1>6, <1>7, <2>1, <2>2, <2>3, TableStep
<1>8. CASE n = Tmp
  <2>1. n # Manifest /\ n \notin Table /\ Whole(n) = <<{Manifest}>>
    BY <1>8, Distinct DEF Whole
  <2>2. setting' # "no" => promised' # <<>>
    BY <1>2, <1>8 DEF WritableInv, SettingInv
  <2>3. setting' = "rename" => entry'[Tmp] # 0 /\ maybe'[entry'[Tmp]] = {<<{Manifest}>>}
    <3>1. entry' = entry /\ entry[Tmp] # 0
      BY <1>2, <1>4, <1>8 DEF Wrote, Open
    <3>2. setting' = "rename" => f = Closed /\ file[n].clean
      BY <1>2, <1>8
    <3>3. QED
      BY <1>2, <1>8, <2>1, <3>1, <3>2, CleanFacts
  <2>4. QED
    BY <1>4, <1>6, <1>8, <2>1, <2>2, <2>3, TmpStep DEF SettingInv
<1>9. CASE n = Manifest
  <2>1. b \in Seq(SUBSET Table)
    BY <1>9 DEF WritableInv, RecordInv, b
  <2>2. \A t \in UNION Range(Joined(content[i], b)) : t \in Known /\ entry[t] # 0
    BY <1>5, <1>9 DEF WritableInv, ManifestInv
  <2>3. UNCHANGED <<table, promised, setting>>
    BY <1>9, Distinct
  <2>4. QED
    BY <1>3, <1>6, <1>9, <2>1, <2>2, <2>3, ManifestWrite DEF b
<1>10. QED
  BY <1>7, <1>8, <1>9, Written3

-----------------------------------------------------------------------------
(* The actions, one by one.                                                *)
LEMMA OpenFacts ==
  ASSUME WritableInv, NEW n \in Written
  PROVE  /\ file[n] \in FileState /\ FileGood(n) /\ TypeInv
         /\ file[n].buffer \in Seq(Record) /\ Len(file[n].buffer) \in Nat
         /\ file[n].sync # "no" => Open(n)
<1>1. file[n] \in FileState /\ FileGood(n) /\ TypeInv
  BY TypeParts DEF WritableInv, FileInv
<1>2. file[n].buffer \in Seq(Record)
  BY <1>1 DEF FileState
<1>3. file[n].sync # "no" => Open(n)
  BY <1>1 DEF FileGood, Closed
<1>4. QED
  BY <1>1, <1>2, <1>3, LenProperties

(* What the object is changed to before a Write.                           *)
LEMMA StateChanges ==
  ASSUME NEW s \in FileState
  PROVE  /\ Closed \in FileState /\ Closed.sync = "no" /\ Closed.clean = FALSE
         /\ [s EXCEPT !.clean = FALSE] \in FileState
         /\ [s EXCEPT !.clean = FALSE].inode = s.inode
         /\ [s EXCEPT !.clean = FALSE].sync = s.sync
         /\ [s EXCEPT !.clean = FALSE].clean = FALSE
         /\ \A y \in {"no", "flush", "data"} :
              /\ [s EXCEPT !.sync = y] \in FileState
              /\ [s EXCEPT !.sync = y].inode = s.inode
              /\ [s EXCEPT !.sync = y].buffer = s.buffer
              /\ [s EXCEPT !.sync = y].sync = y
              /\ [s EXCEPT !.sync = y].clean = s.clean
<1>1. Closed \in FileState /\ Closed.sync = "no" /\ Closed.clean = FALSE
  BY EmptySeq, Distinct DEF Closed, FileState
<1>2. QED
  BY <1>1 DEF FileState

(* What an error makes of an object.                                       *)
LEMMA FailsFacts ==
  ASSUME NEW n, file[n] \in FileState
  PROVE  /\ Fails(n) \in FileState /\ Fails(n).inode = file[n].inode
         /\ Fails(n).buffer = file[n].buffer
         /\ Fails(n).sync = "no" /\ Fails(n).clean = FALSE
  BY DEF Fails, FileState

(* Flush writes out the buffer.                                            *)
LEMMA FlushStep ==
  ASSUME WritableInv, NEW n \in Written, Flush(n), faults' \in 0..MaxFaults
  PROVE  WritableInv'
<1>1. /\ Open(n) /\ file[n].sync = "no" /\ file[n].buffer # <<>>
      /\ Write(n, file[n].buffer, Len(file[n].buffer), file[n])
      /\ UNCHANGED <<table, promised, setting>>
  BY DEF Flush, Usable, Idle, Open
<1>2. ~file[n].clean
  BY <1>1, OpenFacts DEF FileGood
<1>3. Len(file[n].buffer) \in 0..Len(file[n].buffer)
  BY OpenFacts
<1>4. QED
  BY <1>1, <1>2, <1>3, OpenFacts, BufferStep

(* Sync writes out the buffer.                                             *)
LEMMA SyncFlushStep ==
  ASSUME WritableInv, NEW n \in Written, SyncFlush(n), faults' \in 0..MaxFaults
  PROVE  WritableInv'
<1> DEFINE f == [file[n] EXCEPT !.sync = "data"]
<1>1. /\ file[n].sync = "flush"
      /\ Write(n, file[n].buffer, Len(file[n].buffer), f)
      /\ UNCHANGED <<table, promised, setting>>
  BY DEF SyncFlush
<1>2. Open(n) /\ Syncing(n)
  BY <1>1, OpenFacts DEF Syncing
<1>3. Len(file[n].buffer) \in 0..Len(file[n].buffer)
  BY OpenFacts
<1>4. f \in FileState /\ f.inode = file[n].inode /\ ~f.clean
  BY <1>2, OpenFacts, StateChanges DEF FileGood
<1> HIDE DEF f
<1>5. QED
  BY <1>1, <1>2, <1>3, <1>4, BufferStep

(* Close: a table is done, or the temporary file ready to be renamed, only *)
(* if all went well.                                                       *)
LEMMA CloseStep ==
  ASSUME WritableInv, NEW n \in Written, Close(n), faults' \in 0..MaxFaults
  PROVE  WritableInv'
<1>1. /\ Open(n) /\ Write(n, file[n].buffer, Len(file[n].buffer), Closed)
      /\ UNCHANGED promised
      /\ \/ UNCHANGED table
         \/ n \in Table /\ file[n].clean /\ table' = [table EXCEPT ![n] = "done"]
      /\ \/ UNCHANGED setting
         \/ n = Tmp /\ setting' = "remove"
         \/ n = Tmp /\ file[n].clean /\ setting' = "rename"
  BY DEF Close, Idle, Open
<1>2. Len(file[n].buffer) \in 0..Len(file[n].buffer)
  BY OpenFacts
<1>3. Closed \in FileState /\ ~Closed.clean /\ Closed.sync = "no"
  BY OpenFacts, StateChanges
<1>4. QED
  BY <1>1, <1>2, <1>3, BufferStep

(* fwrite or fflush fails.                                                 *)
LEMMA WriteFailsStep ==
  ASSUME WritableInv, NEW n \in Written, WriteFails(n), faults' \in 0..MaxFaults
  PROVE  WritableInv'
<1>1. PICK k \in 0..Len(file[n].buffer) : Write(n, file[n].buffer, k, Fails(n))
  BY DEF WriteFails
<1>2. Open(n) /\ UNCHANGED <<table, promised, setting>>
  BY OpenFacts DEF WriteFails, Usable, Idle, Open
<1>3. /\ Fails(n) \in FileState /\ Fails(n).inode = file[n].inode
      /\ Fails(n).sync = "no" /\ ~Fails(n).clean
  BY OpenFacts, FailsFacts
<1>4. QED
  BY <1>1, <1>2, <1>3, BufferStep

(* fclose fails: no table is done by it.                                   *)
LEMMA CloseFailsStep ==
  ASSUME WritableInv, NEW n \in Written, CloseFails(n), faults' \in 0..MaxFaults
  PROVE  WritableInv'
<1>1. PICK k \in 0..Len(file[n].buffer) : Write(n, file[n].buffer, k, Closed)
  BY DEF CloseFails
<1>2. Open(n) /\ UNCHANGED <<table, promised>>
      /\ ((UNCHANGED setting) \/ (n = Tmp /\ setting' = "remove"))
  BY DEF CloseFails, Idle, Open
<1>3. Closed \in FileState /\ ~Closed.clean /\ Closed.sync = "no"
  BY OpenFacts, StateChanges
<1>4. QED
  BY <1>1, <1>2, <1>3, BufferStep

(* Append: the record of a MANIFEST names tables that are done, and those  *)
(* are there (DoneStored).                                                 *)
LEMMA AppendStep ==
  ASSUME WritableInv, NEW n \in Written, AppendTo(n), faults' \in 0..MaxFaults
  PROVE  WritableInv'
<1> DEFINE r == NextRecord(n)
           b == Append(file[n].buffer, r)
           f == [file[n] EXCEPT !.clean = FALSE]
           i == file[n].inode
           old == file[n].buffer
<1>1. /\ Open(n) /\ file[n].sync = "no"
      /\ Size(n) < IF n = Manifest THEN MaxRecords ELSE 1
      /\ UNCHANGED <<table, promised, setting>>
  BY DEF AppendTo, Usable, Idle, Open
<1>2. PICK k \in 0..Len(b) : Write(n, b, k, f)
  BY DEF AppendTo
<1>3. r \in Record /\ (n = Manifest => r = Done) /\ (n # Manifest => <<r>> = Whole(n))
  BY Written3, RecordNames DEF NextRecord, Record, Whole
<1>4. /\ TypeInv /\ FileGood(n) /\ old \in Seq(Record) /\ file[n] \in FileState
  BY OpenFacts
<1>5. b \in Seq(Record)
  BY <1>3, <1>4, AppendProperties
<1>6. f \in FileState /\ f.inode = i /\ f.sync = "no" /\ f.clean = FALSE
  BY <1>1, <1>4, StateChanges
<1>7. OthersTyped
  BY <1>1, <1>4, TypeParts DEF OthersTyped
<1>8. entry[n] = i /\ i # 0 /\ i \in Inode /\ content[i] \in Seq(Record)
  <2>1. entry[n] = i /\ i # 0
    BY <1>1, <1>4 DEF FileGood, Open
  <2>2. i \in Inode
    BY <2>1, OwnInode
  <2>3. QED
    BY <1>4, <2>1, <2>2, TypeParts
<1>9. n # Manifest => Joined(content[i], b) = Whole(n)
  <2> SUFFICES ASSUME n # Manifest PROVE Joined(content[i], b) = Whole(n)
    OBVIOUS
  <2>1. Len(content[i]) + Len(old) < 1
    BY <1>1 DEF Size
  <2>2. Len(content[i]) \in Nat /\ Len(old) \in Nat
    BY <1>4, <1>8, LenProperties
  <2>9. \A x, y \in Nat : x + y < 1 => x = 0 /\ y = 0
    OBVIOUS
  <2>3. Len(content[i]) = 0 /\ Len(old) = 0
    BY <2>1, <2>2, <2>9, Zenon
  <2>4. content[i] = <<>> /\ old = <<>>
    BY <1>4, <1>8, <2>3, EmptySeq
  <2>5. b = <<r>>
    BY <2>4
  <2>6. <<r>> \in Seq(Record)
    BY <1>3
  <2>7. <<>> \o <<r>> = <<r>>
    BY <2>6, ConcatEmptySeq
  <2>8. QED
    BY <1>3, <2>4, <2>5, <2>7 DEF Joined
<1>10. FileGood(n)'
  <2> HIDE DEF b, f, r
  <2>1. QED
    BY <1>1, <1>2, <1>5, <1>6, <1>9, WriteGood
<1>11. CASE n # Manifest
  <2>1. Touches(n, i) /\ TypeInv' /\ Wrote(n, b, k, f)
    <3> HIDE DEF b, f, r
    <3>1. QED
      BY <1>1, <1>2, <1>5, <1>6, <1>7, WriteTouches
  <2>2. n \in Table \/ n = Tmp
    BY <1>11, Written3
  <2>3. n \in Table => n \notin Known /\ table'[n] = "used"
    BY <1>1, <1>4 DEF FileGood, Known
  <2>4. n = Tmp => SettingInv'
    <3>1. n = Tmp => setting = "write"
      BY <1>1, <1>4 DEF FileGood
    <3>2. QED
      BY <1>1, <3>1 DEF WritableInv, SettingInv
  <2>5. QED
    BY <1>1, <1>10, <2>1, <2>2, <2>3, <2>4, TableStep, TmpStep
<1>12. CASE n = Manifest
  <2>1. old \in Seq(SUBSET Table) /\ r \in SUBSET Table
    BY <1>1, <1>3, <1>12, RecordNames DEF WritableInv, RecordInv
  <2>2. b \in Seq(SUBSET Table)
    BY <2>1, AppendProperties
  <2>3. ASSUME NEW t \in UNION Range(Joined(content[i], b))
        PROVE  t \in Known /\ entry[t] # 0
    <3>1. UNION Range(Joined(content[i], b)) = (UNION Range(Joined(content[i], old))) \cup r
      <4>1. b = With(old, r) /\ content[i] \in Seq(Record) /\ old \in Seq(Record)
            /\ r \in Record
        BY <1>3, <1>4, <1>8 DEF With
      <4> HIDE DEF old, r, b, i
      <4>2. QED
        BY ONLY <4>1, NamesAppend
    <3>5. t \in UNION Range(Total(Manifest)) \/ t \in Done
      BY <1>3, <1>12, <2>3, <3>1 DEF Total
    <3>6. CASE t \in Done
      BY <3>6 DEF WritableInv, DoneStored, Done, Known
    <3>7. CASE t \in UNION Range(Total(Manifest))
      BY <1>1, <1>12, <3>7 DEF WritableInv, ManifestInv
    <3>8. QED
      BY <3>5, <3>6, <3>7
  <2> HIDE DEF b, f, r, i
  <2>4. QED
    BY <1>1, <1>2, <1>6, <1>7, <1>10, <1>12, <2>2, <2>3, ManifestWrite DEF i
<1>13. QED
  BY <1>11, <1>12

(* The file and the directory stay as they are.                            *)
LEMMA StaysTouches ==
  ASSUME WritableInv, NEW n \in Written, Open(n), UNCHANGED <<entry, held, content>>,
         NEW f \in FileState, file' = [file EXCEPT ![n] = f],
         maybe' \in [Inode -> SUBSET Seq(Record)],
         \A j \in Inode \ {file[n].inode} : maybe'[j] = maybe[j],
         content[file[n].inode] \in maybe'[file[n].inode]
  PROVE  Touches(n, file[n].inode) /\ (OthersTyped => TypeInv') /\ file'[n] = f
<1>1. TypeInv /\ FileGood(n) /\ n \in Name
  BY Written3 DEF WritableInv, FileInv
<1>2. entry[n] = file[n].inode /\ entry[n] # 0
  BY <1>1 DEF FileGood, Open
<1>3. entry[n] \in held[n] /\ \A m \in Name \ {n} : entry[n] \notin held[m]
  BY <1>1, <1>2, OwnInode DEF WritableInv, HeldInv
<1>4. held[n] \cup {file[n].inode} = held[n] /\ file[n].inode \in Inode
  BY <1>2, <1>3, OwnInode
<1>5. /\ file' \in [Written -> FileState] /\ file'[n] = f
      /\ \A m \in Written \ {n} : file'[m] = file[m]
  BY <1>1, TypeParts
<1>6. Touches(n, file[n].inode)
  BY <1>2, <1>3, <1>4, <1>5 DEF Touches
<1>7. OthersTyped => TypeInv'
  BY <1>1, <1>5, TypeParts, TypePartsNext DEF OthersTyped
<1>8. QED
  BY <1>5, <1>6, <1>7

(* Only the object open on n changes.                                      *)
LEMMA StaysStep ==
  ASSUME WritableInv, NEW n \in Written, Open(n), UNCHANGED disk,
         NEW f \in FileState, file' = [file EXCEPT ![n] = f],
         f.inode = file[n].inode, f.buffer = file[n].buffer, f.clean = FALSE,
         f.sync = "no" \/ (f.sync = "flush" /\ Total(n) # <<>> /\ n # Manifest),
         UNCHANGED <<table, promised, setting>>, faults' \in 0..MaxFaults
  PROVE  WritableInv'
<1> DEFINE i == file[n].inode
<1>1. TypeInv /\ FileGood(n) /\ OthersTyped /\ n \in Name
  BY OpenFacts, TypeParts, Written3 DEF OthersTyped
<1>2. UNCHANGED <<entry, held, content, maybe>>
  BY DEF disk
<1>3. i \in Inode /\ entry[n] = i /\ i # 0
  BY <1>1, OwnInode DEF FileGood, Open
<1>4. content[i] \in maybe[i] /\ maybe' \in [Inode -> SUBSET Seq(Record)]
  BY <1>1, <1>2, <1>3, TypeParts DEF WritableInv, HeldInv
<1>5. Touches(n, i) /\ TypeInv' /\ file'[n] = f
  BY <1>1, <1>2, <1>4, StaysTouches
<1>6. Total(n)' = Total(n) /\ Open(n)' /\ Syncing(n)' = (f.sync = "flush")
  BY <1>2, <1>3, <1>5 DEF Total, Open, Syncing
<1>7. FileGood(n)'
  BY <1>1, <1>2, <1>5, <1>6 DEF FileGood, Whole, Open
<1>8. CASE n \in Table
  <2>1. n \notin Known /\ table'[n] # "done"
    BY <1>1, <1>8 DEF FileGood, Known
  <2>2. QED
    BY <1>5, <1>7, <1>8, <2>1, TableStep
<1>9. CASE n = Tmp
  <2>1. SettingInv'
    BY <1>2 DEF WritableInv, SettingInv
  <2>2. QED
    BY <1>5, <1>7, <1>9, <2>1, TmpStep
<1>10. CASE n = Manifest
  <2>1. ~Syncing(n)' /\ Known' = Known
    BY <1>6, <1>10 DEF Known
  <2>2. RecordInv'
    BY <1>2, <1>5, <1>10 DEF WritableInv, RecordInv
  <2>3. ManifestInv'
    BY <1>2, <1>6, <1>10, <2>1 DEF WritableInv, ManifestInv
  <2>4. PromiseInv'
    BY <1>2 DEF WritableInv, PromiseInv
  <2>5. QED
    BY <1>5, <1>7, <1>10, <2>2, <2>3, <2>4, ManifestStep
<1>11. QED
  BY <1>8, <1>9, <1>10, Written3

(* fsync or fdatasync fails.                                               *)
LEMMA SyncFailsStep ==
  ASSUME WritableInv, NEW n \in Written, SyncFails(n), faults' \in 0..MaxFaults
  PROVE  WritableInv'
<1>1. /\ Open(n) /\ UNCHANGED disk /\ file' = [file EXCEPT ![n] = Fails(n)]
      /\ UNCHANGED <<table, promised, setting>>
  BY OpenFacts DEF SyncFails, Stays, Usable, Idle, Open
<1>2. QED
  BY <1>1, OpenFacts, FailsFacts, StaysStep

(* Something has been appended.                                            *)
LEMMA SizeCounts ==
  ASSUME WritableInv, NEW n \in Written, Open(n), Size(n) > 0
  PROVE  Total(n) # <<>>
<1>1. file[n].inode \in Inode
  BY OpenFacts, OwnInode DEF FileGood, Open
<1>2. content[file[n].inode] \in Seq(Record) /\ file[n].buffer \in Seq(Record)
  BY <1>1, OpenFacts, TypeParts
<1>3. Len(content[file[n].inode] \o file[n].buffer) > 0
  BY <1>2, ConcatProperties DEF Size
<1>4. PICK v : v = content[file[n].inode] \o file[n].buffer
  OBVIOUS
<1>5. Len(v) > 0 /\ Total(n) = v
  BY <1>3, <1>4, Zenon DEF Total, Joined
<1>6. v = <<>> => Len(v) = 0
  OBVIOUS
<1>7. QED
  BY <1>5, <1>6

(* SyncDirIfManifest: the fsync of the directory of a MANIFEST makes every *)
(* name what it is.                                                        *)
LEMMA SyncDirStep ==
  ASSUME WritableInv, NEW n \in Written, SyncDirIfManifest(n), faults' \in 0..MaxFaults
  PROVE  WritableInv'
<1> DEFINE f == [file[n] EXCEPT !.sync = "flush"]
<1>1. /\ Open(n) /\ ~file[n].clean /\ Size(n) > 0
      /\ file' = [file EXCEPT ![n].sync = "flush"]
      /\ UNCHANGED <<table, promised, setting>>
  BY DEF SyncDirIfManifest, Usable, Idle, Open
<1>2. file' = [file EXCEPT ![n] = f]
  BY <1>1
<1>3. /\ f \in FileState /\ f.inode = file[n].inode /\ f.buffer = file[n].buffer
      /\ f.clean = FALSE /\ f.sync = "flush"
  <2>1. file[n] \in FileState /\ file[n].clean = FALSE
    BY <1>1, OpenFacts DEF FileState
  <2>2. QED
    BY <2>1, StateChanges
<1>4. Total(n) # <<>>
  BY <1>1, SizeCounts
<1> HIDE DEF f
<1>5. CASE n # Manifest
  <2>1. UNCHANGED disk
    BY <1>5 DEF SyncDirIfManifest
  <2>2. QED
    BY <1>1, <1>2, <1>3, <1>4, <1>5, <2>1, StaysStep
<1>6. CASE n = Manifest
  <2>1. held' = [m \in Name |-> {entry[m]}] /\ UNCHANGED <<entry, content, maybe>>
    BY <1>6 DEF SyncDirIfManifest, FsyncDir
  <2>2. /\ TypeInv /\ entry \in [Name -> 0..Inodes] /\ file \in [Written -> FileState]
        /\ Written \subseteq Name /\ Current \in Name /\ Manifest \in Name /\ Table \subseteq Name
        /\ \A m \in Name : entry[m] \in held[m]
    BY TypeParts, Written3 DEF WritableInv, HeldInv
  <2>3. /\ file'[n] = f /\ \A m \in Written \ {n} : file'[m] = file[m]
        /\ file' \in [Written -> FileState]
    BY <1>2, <1>3, <2>2
  <2>4. TypeInv'
    <3>1. held' \in [Name -> SUBSET (0..Inodes)]
      BY <2>1, <2>2
    <3>2. QED
      BY <1>1, <2>1, <2>3, <3>1, <2>2, TypeParts, TypePartsNext
  <2>5. \A m \in Name : held'[m] = {entry[m]} /\ held'[m] \subseteq held[m]
    BY <2>1, <2>2
  <2>6. HeldInv'
    BY <2>1, <2>5, Written3 DEF WritableInv, HeldInv
  <2>7. Total(n)' = Total(n) /\ Open(n)' /\ Syncing(n)'
    BY <1>1, <1>3, <2>1, <2>3 DEF Total, Open, Syncing
  <2>8. FileInv'
    <3>1. FileGood(n)'
      BY <1>1, <1>3, <1>4, <1>6, <2>1, <2>3, <2>7, OpenFacts, Distinct DEF FileGood, Open
    <3>2. ASSUME NEW m \in Written \ {n} PROVE FileGood(m)'
      <4>1. FileGood(m) /\ file'[m] = file[m]
        BY <2>3, OpenFacts
      <4>2. Total(m)' = Total(m) /\ Open(m)' = Open(m) /\ Syncing(m)' = Syncing(m)
        BY <2>1, <4>1 DEF Total, Open, Syncing
      <4>3. QED
        BY <1>1, <2>1, <4>1, <4>2 DEF FileGood, Whole
    <3>3. QED
      BY <3>1, <3>2 DEF FileInv
  <2>9. RecordInv'
    BY <1>1, <1>3, <1>6, <2>1, <2>2, <2>3, <2>5 DEF WritableInv, RecordInv
  <2>10. ManifestInv'
    <3>1. \A t \in UNION Range(Total(Manifest)) : t \in Known /\ entry[t] # 0
      BY <1>1, <1>6 DEF WritableInv, ManifestInv
    <3>2. Known' = Known /\ Known \subseteq Table
      BY <1>1 DEF Known
    <3>3. QED
      BY <1>1, <1>6, <2>1, <2>2, <2>5, <2>7, <3>1, <3>2 DEF WritableInv, ManifestInv
  <2>11. PromiseInv'
    <3>1. UNION Range(promised) \subseteq Name
      BY <2>2, PromisedKnown DEF Known
    <3>2. QED
      BY <1>1, <2>1, <2>2, <2>5, <3>1 DEF WritableInv, PromiseInv
  <2>12. SettingInv' /\ DoneStored'
    BY <1>1, <2>1 DEF WritableInv, SettingInv, DoneStored, Done
  <2>13. CurrentWhole'
    BY <1>1, <2>1, <2>2, <2>5 DEF WritableInv, CurrentWhole
  <2>14. QED
    BY <2>4, <2>6, <2>8, <2>9, <2>10, <2>11, <2>12, <2>13 DEF WritableInv
<1>7. QED
  BY <1>5, <1>6

(* fdatasync, and Sync returns ok: what the MANIFEST has is promised; its  *)
(* records name tables whose names the fsync of the directory has made     *)
(* safe.                                                                   *)
LEMMA SyncDataStep ==
  ASSUME WritableInv, NEW n \in Written, SyncData(n), faults' \in 0..MaxFaults
  PROVE  WritableInv'
<1> DEFINE i == file[n].inode
           f == [[file[n] EXCEPT !.sync = "no"] EXCEPT !.clean = TRUE]
<1>1. /\ file[n].sync = "data" /\ Open(n) /\ Syncing(n)
      /\ maybe' = [maybe EXCEPT ![i] = {content[i]}] /\ UNCHANGED <<entry, held, content>>
      /\ promised' = (IF n = Manifest THEN content[i] ELSE promised)
      /\ UNCHANGED <<table, setting>>
  BY OpenFacts DEF SyncData, Fdatasync, Syncing
<1>2. TypeInv /\ FileGood(n) /\ n \in Name /\ file[n] \in FileState
  BY OpenFacts, Written3
<1>3. /\ f \in FileState /\ f.inode = file[n].inode /\ f.buffer = file[n].buffer
      /\ f.clean = TRUE /\ f.sync = "no"
  BY <1>2 DEF FileState
<1>4. file' = [file EXCEPT ![n] = f]
  BY <1>2, TypeParts DEF SyncData, FileState
<1>5. i \in Inode /\ entry[n] = i /\ i # 0 /\ content[i] \in Seq(Record)
  <2>1. entry[n] = i /\ i # 0
    BY <1>1, <1>2 DEF FileGood, Open
  <2>2. QED
    BY <1>2, <2>1, OwnInode, TypeParts
<1> HIDE DEF f
<1>6. /\ maybe' \in [Inode -> SUBSET Seq(Record)] /\ maybe'[i] = {content[i]}
      /\ \A j \in Inode \ {i} : maybe'[j] = maybe[j]
  BY <1>1, <1>2, <1>5, TypeParts
<1>7. OthersTyped
  BY <1>1, <1>2, <1>5, TypeParts DEF OthersTyped
<1>8. Touches(n, i) /\ TypeInv' /\ file'[n] = f
  BY <1>1, <1>3, <1>4, <1>6, <1>7, StaysTouches
<1>9. Total(n)' = Total(n) /\ Open(n)' /\ ~Syncing(n)' /\ Open(n)
  BY <1>1, <1>3, <1>5, <1>8 DEF Total, Open, Syncing
<1>10. FileGood(n)'
  BY <1>1, <1>2, <1>3, <1>5, <1>6, <1>8, <1>9 DEF FileGood, Whole
<1>11. CASE n \in Table
  <2>1. n \notin Known /\ table'[n] # "done"
    BY <1>1, <1>2, <1>11 DEF FileGood, Known
  <2>2. UNCHANGED promised
    BY <1>1, <1>11, Distinct
  <2>3. QED
    BY <1>1, <1>8, <1>10, <1>11, <2>1, <2>2, TableStep
<1>12. CASE n = Tmp
  <2>1. UNCHANGED promised /\ setting = "write"
    BY <1>1, <1>2, <1>12, Distinct DEF FileGood
  <2>2. SettingInv'
    BY <1>1, <2>1 DEF WritableInv, SettingInv
  <2>3. QED
    BY <1>1, <1>8, <1>10, <1>12, <2>1, <2>2, TmpStep
<1>13. CASE n = Manifest
  <2>1. Total(n) = content[i] /\ content[i] # <<>> /\ promised' = content[i]
    <3>1. file[n].buffer = <<>> /\ Total(n) # <<>>
      BY <1>1, <1>2 DEF FileGood
    <3>2. 0 \in 0..Len(<<>>)
      OBVIOUS
    <3>3. Joined(content[i], <<>>) = content[i]
      BY <1>5, <3>2, NothingSent
    <3>4. QED
      BY <1>1, <1>13, <3>1, <3>3 DEF Total
  <2>2. /\ \A t \in UNION Range(content[i]) : t \in Known /\ entry[t] # 0 /\ held[t] = {entry[t]}
        /\ held[Manifest] = {entry[Manifest]}
    BY <1>1, <1>13, <2>1 DEF WritableInv, ManifestInv
  <2>3. i \in held[Manifest] /\ content[i] \in maybe[i]
    BY <1>2, <1>5, <1>13 DEF WritableInv, HeldInv
  <2>4. RecordInv'
    <3>1. \A j \in held[Manifest] : j # 0 => j \in Inode
      BY <1>5, <1>13, <2>2
    <3>2. QED
      BY <1>1, <1>3, <1>5, <1>6, <1>8, <1>13, <2>3, <3>1 DEF WritableInv, RecordInv
  <2>5. Known' = Known
    BY <1>1 DEF Known
  <2>6. ManifestInv'
    BY <1>1, <1>5, <1>9, <1>13, <2>1, <2>2, <2>5 DEF ManifestInv
  <2>7. PromiseInv'
    <3>1. IsPrefix(content[i], content[i])
      BY <1>5, PrefixReflexive
    <3>2. QED
      BY <1>1, <1>5, <1>6, <1>13, <2>1, <2>2, <3>1 DEF PromiseInv
  <2>8. QED
    BY <1>1, <1>8, <1>10, <1>13, <2>1, <2>4, <2>6, <2>7, ManifestStep
<1>14. QED
  BY <1>11, <1>12, <1>13, Written3

-----------------------------------------------------------------------------
(* A file is opened.                                                       *)
LEMMA LeastUnused ==
  ASSUME UnusedInodes # {}
  PROVE  Min(UnusedInodes) \in UnusedInodes
<1>1. UnusedInodes \in SUBSET Nat
  BY Distinct DEF UnusedInodes, Inode
<1>2. OpToRel(<, Nat) = {p \in Nat \X Nat : p[1] < p[2]}
  BY Zenon DEF OpToRel
<1>3. PICK d \in UnusedInodes : \A e \in UnusedInodes : ~(<<e, d>> \in {p \in Nat \X Nat : p[1] < p[2]})
  BY <1>1, NatLessThanWellFounded, WFMin, <1>2
<1>4. ASSUME NEW e \in UnusedInodes PROVE d =< e
  <2>1. d \in Nat /\ e \in Nat
    BY <1>1
  <2>2. e < d => <<e, d>> \in {p \in Nat \X Nat : p[1] < p[2]}
    BY <2>1
  <2>3. ~(e < d)
    BY <1>3, <2>2
  <2>4. QED
    BY <2>1, <2>3
<1>5. QED
  BY <1>4 DEF Min

(* n has been opened on an empty file i, its old one or one that nothing   *)
(* else refers to.                                                         *)
NewlyOpen(n, i) ==
  /\ Touches(n, i) /\ entry'[n] = i /\ i # 0 /\ content'[i] = <<>>
  /\ file'[n].inode = i /\ file'[n].buffer = <<>> /\ file'[n].sync = "no"
  /\ file'[n].clean = FALSE
  /\ maybe'[i] \subseteq (IF i \in held[n] THEN maybe[i] ELSE {}) \cup {<<>>}
  /\ held'[n] \subseteq held[n] \cup {i}
  /\ TypeInv'

(* fopen of mode "w".                                                      *)
LEMMA FopenFacts ==
  ASSUME WritableInv, NEW n \in Written, Fopen(n, "w"), OthersTyped
  PROVE  \E i \in Inode : NewlyOpen(n, i)
<1>1. /\ TypeInv /\ n \in Name /\ <<>> \in Seq(Record) /\ 0 \notin Inode
      /\ entry \in [Name -> 0..Inodes] /\ held \in [Name -> SUBSET (0..Inodes)]
      /\ content \in [Inode -> Seq(Record)] /\ maybe \in [Inode -> SUBSET Seq(Record)]
      /\ file \in [Written -> FileState] /\ Inode \subseteq 0..Inodes
  BY TypeParts, Written3, EmptySeq, Distinct DEF WritableInv, Inode
<1>2. ASSUME NEW i \in Inode
      PROVE  LET f == [Closed EXCEPT !.inode = i] IN
             /\ f \in FileState /\ f.inode = i /\ f.buffer = <<>> /\ f.sync = "no"
             /\ f.clean = FALSE
  BY <1>1 DEF Closed, FileState
<1>3. CASE entry[n] # 0
  <2> DEFINE i == entry[n]
             f == [Closed EXCEPT !.inode = i]
  <2>1. i \in Inode /\ i \in held[n] /\ \A m \in Name \ {n} : i \notin held[m]
    BY <1>1, <1>3, OwnInode DEF WritableInv, HeldInv
  <2>2. /\ entry' = entry /\ held' = held
        /\ content' = [content EXCEPT ![i] = <<>>]
        /\ maybe' = [maybe EXCEPT ![i] = @ \cup {<<>>}]
        /\ file' = [file EXCEPT ![n] = f]
    BY <1>3 DEF Fopen, SetContent
  <2>3. f \in FileState /\ f.inode = i /\ f.buffer = <<>> /\ f.sync = "no" /\ f.clean = FALSE
    BY <1>2, <2>1
  <2> HIDE DEF f, i
  <2>4. /\ content' \in [Inode -> Seq(Record)] /\ content'[i] = <<>>
        /\ \A j \in Inode \ {i} : content'[j] = content[j]
    BY <1>1, <2>1, <2>2
  <2>5. /\ maybe' \in [Inode -> SUBSET Seq(Record)] /\ maybe'[i] = maybe[i] \cup {<<>>}
        /\ \A j \in Inode \ {i} : maybe'[j] = maybe[j]
    BY <1>1, <2>1, <2>2
  <2>6. /\ file' \in [Written -> FileState] /\ file'[n] = f
        /\ \A m \in Written \ {n} : file'[m] = file[m]
    BY <1>1, <2>2, <2>3
  <2>7. TypeInv'
    BY <1>1, <2>2, <2>4, <2>5, <2>6, TypePartsNext DEF OthersTyped
  <2>8. Touches(n, i)
    BY <2>1, <2>2, <2>4, <2>5, <2>6 DEF Touches, i
  <2>9. NewlyOpen(n, i)
    BY <1>1, <2>1, <2>2, <2>3, <2>4, <2>5, <2>6, <2>7, <2>8 DEF NewlyOpen, i
  <2>10. QED
    BY <2>1, <2>9
<1>4. CASE entry[n] = 0
  <2> DEFINE i == Min(UnusedInodes)
             f == [Closed EXCEPT !.inode = i]
  <2>1. i \in Inode /\ \A m \in Name : i \notin held[m]
    <3>1. UnusedInodes # {}
      BY <1>4 DEF Fopen
    <3>2. i \in UnusedInodes
      BY <3>1, LeastUnused
    <3>3. QED
      BY <3>2 DEF UnusedInodes
  <2>2. /\ entry' = [entry EXCEPT ![n] = i] /\ held' = [held EXCEPT ![n] = @ \cup {i}]
        /\ content' = [content EXCEPT ![i] = <<>>]
        /\ maybe' = [maybe EXCEPT ![i] = {<<>>}]
        /\ file' = [file EXCEPT ![n] = [Closed EXCEPT !.inode = entry'[n]]]
    BY <1>4 DEF Fopen, Enter
  <2> HIDE DEF i
  <2>3. /\ entry' \in [Name -> 0..Inodes] /\ entry'[n] = i
        /\ \A m \in Name \ {n} : entry'[m] = entry[m]
    BY <1>1, <2>1, <2>2
  <2>4. /\ held' \in [Name -> SUBSET (0..Inodes)] /\ held'[n] = held[n] \cup {i}
        /\ \A m \in Name \ {n} : held'[m] = held[m]
    <3>1. held[n] \cup {i} \in SUBSET (0..Inodes)
      BY <1>1, <2>1
    <3>2. QED
      BY <1>1, <2>2, <3>1
  <2>5. f \in FileState /\ f.inode = i /\ f.buffer = <<>> /\ f.sync = "no" /\ f.clean = FALSE
    BY <1>2, <2>1
  <2>6. file' = [file EXCEPT ![n] = f]
    BY <2>2, <2>3
  <2> HIDE DEF f
  <2>7. /\ content' \in [Inode -> Seq(Record)] /\ content'[i] = <<>>
        /\ \A j \in Inode \ {i} : content'[j] = content[j]
    BY <1>1, <2>1, <2>2
  <2>8. /\ maybe' \in [Inode -> SUBSET Seq(Record)] /\ maybe'[i] = {<<>>}
        /\ \A j \in Inode \ {i} : maybe'[j] = maybe[j]
    BY <1>1, <2>1, <2>2
  <2>9. /\ file' \in [Written -> FileState] /\ file'[n] = f
        /\ \A m \in Written \ {n} : file'[m] = file[m]
    BY <1>1, <2>5, <2>6
  <2>10. TypeInv'
    BY <2>3, <2>4, <2>7, <2>8, <2>9, TypePartsNext DEF OthersTyped
  <2>11. Touches(n, i)
    BY <2>1, <2>3, <2>4, <2>7, <2>8, <2>9 DEF Touches
  <2>12. NewlyOpen(n, i)
    BY <1>1, <2>1, <2>3, <2>4, <2>5, <2>7, <2>8, <2>9, <2>10, <2>11 DEF NewlyOpen
  <2>13. QED
    BY <2>1, <2>12
<1>5. QED
  BY <1>3, <1>4

(* NewWritableFile: a table has a number that no known table has.          *)
LEMMA NewWritableFileStep ==
  ASSUME WritableInv, NEW n \in Written, NewWritableFile(n), faults' \in 0..MaxFaults
  PROVE  WritableInv'
<1>1. /\ ~Open(n) /\ Fopen(n, "w") /\ UNCHANGED <<promised, setting>> /\ MayCreate(n)
      /\ table' = IF n \in Table THEN [table EXCEPT ![n] = "used"] ELSE table
  BY DEF NewWritableFile, Open
<1>2. TypeInv /\ n \in Name
  BY Written3 DEF WritableInv
<1>3. OthersTyped
  BY <1>1, <1>2, TypeParts DEF OthersTyped, TableState
<1>4. PICK i \in Inode : NewlyOpen(n, i)
  BY <1>1, <1>3, FopenFacts
<1>5. Touches(n, i) /\ TypeInv'
  BY <1>4 DEF NewlyOpen
<1>6. /\ Open(n)' /\ ~Syncing(n)' /\ Total(n)' = <<>> /\ ~file'[n].clean
      /\ entry'[n] = file'[n].inode
  <2>1. content'[file'[n].inode] = <<>> /\ file'[n].buffer = <<>>
    BY <1>4 DEF NewlyOpen
  <2>2. Joined(<<>>, <<>>) = <<>>
    <3>1. <<>> \in Seq(Record) /\ 0 \in 0..Len(<<>>)
      BY EmptySeq
    <3>2. QED
      BY <3>1, NothingSent
  <2>3. Total(n)' = <<>>
    BY <2>1, <2>2 DEF Total
  <2>4. QED
    BY <1>4, <2>3 DEF NewlyOpen, Open, Syncing
<1>7. FileGood(n)'
  <2>1. n \in Table => table'[n] = "used"
    BY <1>1, <1>2, TypeParts
  <2>2. n = Tmp => setting' = "write"
    BY <1>1, Distinct DEF MayCreate
  <2>3. file'[n].sync = "no" /\ n # Manifest => Total(n)' \in {<<>>, Whole(n)}
    BY <1>6
  <2>4. QED
    BY <1>4, <1>6, <2>1, <2>2, <2>3 DEF FileGood, Whole, NewlyOpen
<1>8. CASE n \in Table
  <2>1. table[n] = "new" /\ n \notin Known /\ table'[n] = "used"
    BY <1>1, <1>2, <1>8, TypeParts, Distinct DEF MayCreate, Known
  <2>2. \A t \in Table \ {n} : table'[t] = table[t]
    BY <1>1, <1>2, TypeParts
  <2>3. QED
    BY <1>1, <1>5, <1>7, <1>8, <2>1, <2>2, TableStep
<1>9. CASE n = Tmp
  <2>1. setting = "write" /\ UNCHANGED table
    BY <1>1, <1>9, Distinct DEF MayCreate
  <2>2. SettingInv'
    BY <1>1, <2>1 DEF WritableInv, SettingInv
  <2>3. QED
    BY <1>1, <1>5, <1>7, <1>9, <2>1, <2>2, TmpStep
<1>10. CASE n = Manifest
  <2>1. promised = <<>> /\ UNCHANGED table
    BY <1>1, <1>10, Distinct DEF MayCreate
  <2>2. PromiseInv'
    BY <1>1, <2>1 DEF PromiseInv
  <2>3. <<>> \in Seq(SUBSET Table) /\ <<>> \in Seq(Record) /\ Range(<<>>) = {}
    <3>1. <<>> \in Seq(SUBSET Table) /\ <<>> \in Seq(Record) /\ Len(<<>>) = 0
      BY EmptySeq
    <3>2. ASSUME NEW v \in Seq(Record), Len(v) = 0 PROVE Range(v) = {}
      <4>1. Range(v) = {v[j] : j \in 1..Len(v)}
        BY RangeEquality
      <4>2. QED
        BY <3>2, <4>1
    <3>3. QED
      BY <3>1, <3>2
  <2>4. ManifestInv'
    <3>1. UNION Range(Total(n)') = {}
      BY <1>6, <2>3
    <3>2. QED
      BY <1>1, <1>6, <1>10, <2>1, <3>1 DEF ManifestInv
  <2>5. RecordInv'
    <3>1. ASSUME NEW j \in held'[Manifest] \ {0} PROVE maybe'[j] \subseteq Seq(SUBSET Table)
      <4>1. CASE j = i
        BY <1>4, <1>10, <2>3, <4>1, Distinct DEF NewlyOpen, WritableInv, RecordInv
      <4>2. CASE j # i
        <5>1. j \in held[Manifest] \ {0} /\ j \in Inode
          BY <1>2, <1>4, <1>10, <3>1, <4>2, TypeParts, Distinct DEF NewlyOpen, Inode
        <5>2. QED
          BY <1>5, <4>2, <5>1 DEF Touches, WritableInv, RecordInv
      <4>3. QED
        BY <4>1, <4>2
    <3>2. file'[Manifest].buffer \in Seq(SUBSET Table)
      BY <1>4, <1>10, <2>3 DEF NewlyOpen
    <3>3. QED
      BY <3>1, <3>2 DEF RecordInv
  <2>6. QED
    BY <1>1, <1>5, <1>7, <1>10, <2>1, <2>2, <2>4, <2>5, ManifestStep
<1>11. QED
  BY <1>8, <1>9, <1>10, Written3

(* NewAppendableFile: DB::Open has found the tables that the MANIFEST      *)
(* names.                                                                  *)
LEMMA NewAppendableFileStep ==
  ASSUME WritableInv, NewAppendableFile, faults' \in 0..MaxFaults
  PROVE  WritableInv'
<1> DEFINE i == entry[Manifest]
           f == [Closed EXCEPT !.inode = i]
<1>1. /\ ~Open(Manifest) /\ promised # <<>> /\ Intact /\ Fopen(Manifest, "a")
      /\ UNCHANGED <<table, promised, setting>>
  BY DEF NewAppendableFile, Open
<1>2. /\ i # 0 /\ UNION Range(content[i]) \subseteq Known
      /\ held[Manifest] = {i}
      /\ \A t \in UNION Range(content[i]) : entry[t] # 0
  BY <1>1 DEF WritableInv, PromiseInv, ManifestInv, Intact
<1>3. /\ UNCHANGED <<entry, held, content, maybe>>
      /\ file' = [file EXCEPT ![Manifest] = f]
  BY <1>1, <1>2 DEF Fopen
<1>4. /\ TypeInv /\ Manifest \in Written /\ Manifest \in Name /\ file \in [Written -> FileState]
      /\ content \in [Inode -> Seq(Record)] /\ maybe \in [Inode -> SUBSET Seq(Record)]
      /\ <<>> \in Seq(Record) /\ <<>> \in Seq(SUBSET Table)
  BY TypeParts, Written3, EmptySeq DEF WritableInv
<1>5. i \in Inode /\ content[i] \in maybe[i] /\ i \in 0..Inodes
      /\ \A m \in Name \ {Manifest} : i \notin held[m]
  BY <1>2, <1>4, OwnInode, Distinct DEF WritableInv, HeldInv, Inode
<1>6. f \in FileState /\ f.inode = i /\ f.buffer = <<>> /\ f.sync = "no" /\ f.clean = FALSE
  BY <1>4, <1>5 DEF Closed, FileState
<1> HIDE DEF i, f
<1>7. /\ file'[Manifest] = f /\ file' \in [Written -> FileState]
      /\ \A m \in Written \ {Manifest} : file'[m] = file[m]
  BY <1>3, <1>4, <1>6
<1>8. TypeInv'
  BY <1>1, <1>3, <1>4, <1>7, TypeParts, TypePartsNext
<1>9. Touches(Manifest, i)
  BY <1>2, <1>3, <1>4, <1>5, <1>7 DEF Touches, i
<1>10. /\ Open(Manifest)' /\ ~Syncing(Manifest)' /\ Total(Manifest)' = content[i]
  <2>1. Joined(content[i], <<>>) = content[i]
    <3>1. content[i] \in Seq(Record) /\ 0 \in 0..Len(<<>>)
      BY <1>4, <1>5
    <3>2. QED
      BY <3>1, NothingSent
  <2>2. QED
    BY <1>2, <1>3, <1>6, <1>7, <2>1 DEF Open, Syncing, Total
<1>11. FileGood(Manifest)'
  BY <1>3, <1>6, <1>7, <1>10, Distinct DEF FileGood, i
<1>12. RecordInv'
  BY <1>3, <1>4, <1>6, <1>7 DEF WritableInv, RecordInv
<1>13. ManifestInv'
  <2>1. Known' = Known
    BY <1>1 DEF Known
  <2>2. QED
    BY <1>2, <1>3, <1>10, <2>1 DEF ManifestInv, i
<1>14. PromiseInv'
  BY <1>1, <1>3 DEF WritableInv, PromiseInv
<1>15. QED
  BY <1>1, <1>8, <1>9, <1>11, <1>12, <1>13, <1>14, ManifestStep

-----------------------------------------------------------------------------
(* Only the directory, or where SetCurrentFile is, changes.                *)
LEMMA DirStep ==
  ASSUME WritableInv, NEW X, X \subseteq Name, Manifest \notin X, X \cap Known = {},
         \A n \in X \cap Written : ~Open(n),
         \A n \in Name \ X : entry'[n] = entry[n] /\ held'[n] = held[n],
         UNCHANGED <<content, maybe, file, table, promised>>,
         setting' = setting \/ ~Open(Tmp),
         TypeInv', HeldInv', SettingInv', CurrentWhole'
  PROVE  WritableInv'
<1>1. Manifest \in Written /\ Manifest \in Name \ X /\ Known \subseteq Name \ X
      /\ Written \subseteq Name
  BY Written3 DEF Known
<1>2. Known' = Known /\ \A n \in Written : Open(n)' = Open(n) /\ Total(n)' = Total(n)
                                           /\ Syncing(n)' = Syncing(n)
  BY DEF Known, Open, Total, Syncing
<1>3. FileInv'
  <2> SUFFICES ASSUME NEW n \in Written PROVE FileGood(n)'
    BY DEF FileInv
  <2>1. FileGood(n)
    BY DEF WritableInv, FileInv
  <2>2. CASE Open(n)
    <3>1. n \in Name \ X /\ (n = Tmp => setting' = setting)
      BY <1>1, <2>2
    <3>2. QED
      BY <1>2, <2>1, <2>2, <3>1 DEF FileGood, Whole
  <2>3. CASE ~Open(n)
    BY <1>2, <2>1, <2>3 DEF FileGood
  <2>4. QED
    BY <2>2, <2>3
<1>4. RecordInv'
  BY <1>1, <1>2 DEF WritableInv, RecordInv
<1>5. ManifestInv'
  BY <1>1, <1>2 DEF WritableInv, ManifestInv
<1>6. PromiseInv'
  <2>1. UNION Range(promised) \subseteq Name \ X
    BY <1>1, PromisedKnown
  <2>2. QED
    BY <1>1, <2>1 DEF WritableInv, PromiseInv
<1>7. DoneStored'
  <2>1. Done' = Done /\ Done \subseteq Name \ X
    BY <1>1 DEF Done, Known
  <2>2. QED
    BY <2>1 DEF WritableInv, DoneStored
<1>8. QED
  BY <1>3, <1>4, <1>5, <1>6, <1>7 DEF WritableInv

(* The name n is removed.                                                  *)
LEMMA RemoveFacts ==
  ASSUME WritableInv, NEW n \in Written, Enter(n, 0), UNCHANGED <<content, maybe, file>>,
         OthersTyped
  PROVE  /\ TypeInv' /\ HeldInv' /\ entry'[n] = 0 /\ held'[n] = held[n] \cup {0}
         /\ \A m \in Name \ {n} : entry'[m] = entry[m] /\ held'[m] = held[m]
<1>1. /\ TypeInv /\ n \in Name /\ entry \in [Name -> 0..Inodes] /\ 0 \in 0..Inodes
      /\ held \in [Name -> SUBSET (0..Inodes)] /\ Tmp \in Name /\ Current \in Name
      /\ n # Current
  BY TypeParts, Written3, Distinct DEF WritableInv
<1>2. /\ entry' \in [Name -> 0..Inodes] /\ entry'[n] = 0
      /\ \A m \in Name \ {n} : entry'[m] = entry[m]
  BY <1>1 DEF Enter
<1>3. /\ held' \in [Name -> SUBSET (0..Inodes)] /\ held'[n] = held[n] \cup {0}
      /\ \A m \in Name \ {n} : held'[m] = held[m]
  <2>1. held[n] \cup {0} \in SUBSET (0..Inodes)
    BY <1>1
  <2>2. QED
    BY <1>1, <2>1 DEF Enter
<1>4. TypeInv'
  BY <1>1, <1>2, <1>3, TypeParts, TypePartsNext DEF OthersTyped
<1>5. HeldInv'
  <2>1. \A m \in Name : entry'[m] \in held'[m]
    BY <1>2, <1>3 DEF WritableInv, HeldInv
  <2>2. \A m, p \in Name : \A j \in held'[m] \cap held'[p] :
          j = 0 \/ m = p \/ (m \in {Tmp, Current} /\ p \in {Tmp, Current})
    <3>1. \A m \in Name : \A j \in held'[m] : j = 0 \/ j \in held[m]
      BY <1>3
    <3>2. QED
      BY <3>1 DEF WritableInv, HeldInv
  <2>3. entry'[Tmp] = 0 \/ entry'[Tmp] \notin held'[Current]
    BY <1>1, <1>2, <1>3 DEF WritableInv, HeldInv
  <2>4. \A j \in Inode : content'[j] \in maybe'[j]
    BY DEF WritableInv, HeldInv
  <2>5. QED
    BY <2>1, <2>2, <2>3, <2>4 DEF HeldInv
<1>6. QED
  BY <1>2, <1>3, <1>4, <1>5

(* BuildTable deletes only what it has not finished.                       *)
LEMMA DeleteFileStep ==
  ASSUME WritableInv, NEW n \in Written, DeleteFile(n), faults' \in 0..MaxFaults
  PROVE  WritableInv'
<1>1. /\ n \in Table /\ table[n] = "used" /\ ~Open(n) /\ Enter(n, 0)
      /\ UNCHANGED <<content, maybe, file, table, promised, setting>>
  BY DEF DeleteFile, Open
<1>2. OthersTyped
  BY <1>1, TypeParts DEF OthersTyped, WritableInv
<1>3. /\ TypeInv' /\ HeldInv' /\ n \in Name /\ Tmp \in Name \ {n} /\ Current \in Name \ {n}
      /\ \A m \in Name \ {n} : entry'[m] = entry[m] /\ held'[m] = held[m]
  BY <1>1, <1>2, RemoveFacts, Written3, Distinct
<1>4. n \notin Known /\ n # Manifest
  BY <1>1, Distinct DEF Known
<1>5. SettingInv' /\ CurrentWhole'
  BY <1>1, <1>3 DEF WritableInv, SettingInv, CurrentWhole
<1>6. {n} \subseteq Name /\ Manifest \notin {n} /\ {n} \cap Known = {}
      /\ \A m \in {n} \cap Written : ~Open(m)
  BY <1>1, <1>3, <1>4
<1>7. QED
  BY <1>1, <1>3, <1>5, <1>6, DirStep

(* SetCurrentFile has the temporary file open only while it writes it.     *)
LEMMA TmpClosed ==
  ASSUME WritableInv, setting # "write"
  PROVE  ~Open(Tmp)
  BY Written3 DEF WritableInv, FileInv, FileGood

(* SetCurrentFile removes the temporary file.                              *)
LEMMA RemoveTmpStep ==
  ASSUME WritableInv, RemoveTmp, faults' \in 0..MaxFaults
  PROVE  WritableInv'
<1>1. /\ setting = "remove" /\ setting' = "no"
      /\ UNCHANGED <<content, maybe, file, table, promised>>
  BY DEF RemoveTmp
<1>2. /\ OthersTyped /\ Tmp \in Written /\ Tmp \in Name /\ Current \in Name \ {Tmp}
      /\ Manifest # Tmp /\ Tmp \notin Known
  BY <1>1, TypeParts, Written3, Distinct DEF OthersTyped, WritableInv, Known
<1>3. /\ TypeInv' /\ HeldInv'
      /\ \A m \in Name \ {Tmp} : entry'[m] = entry[m] /\ held'[m] = held[m]
  <2>1. CASE entry[Tmp] # 0
    BY <1>1, <1>2, <2>1, RemoveFacts DEF RemoveTmp
  <2>2. CASE entry[Tmp] = 0
    <3>1. UNCHANGED <<entry, held>>
      BY <2>2 DEF RemoveTmp
    <3>2. HeldInv'
      BY <1>1, <3>1 DEF WritableInv, HeldInv
    <3>3. TypeInv'
      BY <1>1, <1>2, <3>1, TypeParts, TypePartsNext DEF WritableInv, OthersTyped
    <3>4. QED
      BY <3>1, <3>2, <3>3
  <2>3. QED
    BY <2>1, <2>2
<1>4. ~Open(Tmp)
  BY <1>1, TmpClosed
<1>5. SettingInv' /\ CurrentWhole'
  BY <1>1, <1>2, <1>3 DEF WritableInv, SettingInv, CurrentWhole
<1>6. {Tmp} \subseteq Name /\ Manifest \notin {Tmp} /\ {Tmp} \cap Known = {}
      /\ \A m \in {Tmp} \cap Written : ~Open(m)
  BY <1>2, <1>4
<1>7. QED
  BY <1>1, <1>3, <1>4, <1>5, <1>6, DirStep

(* RenameFile: CURRENT becomes a file that the disk has.                   *)
LEMMA RenameFileStep ==
  ASSUME WritableInv, RenameFile, faults' \in 0..MaxFaults
  PROVE  WritableInv'
<1> DEFINE i == entry[Tmp]
<1>1. /\ setting = "rename" /\ setting' = "no"
      /\ UNCHANGED <<content, maybe, file, table, promised>>
  BY DEF RenameFile
<1>2. /\ Tmp \in Written /\ Tmp \in Name /\ Current \in Name /\ Current # Tmp
      /\ Manifest \notin {Tmp, Current} /\ Tmp \notin Known /\ Current \notin Known
      /\ Current \notin Written
      /\ TypeInv /\ entry \in [Name -> 0..Inodes] /\ 0 \in 0..Inodes
      /\ held \in [Name -> SUBSET (0..Inodes)]
  BY TypeParts, Written3, Distinct DEF WritableInv, Known
<1>3. i # 0 /\ maybe[i] = {<<{Manifest}>>} /\ promised # <<>>
  BY <1>1 DEF WritableInv, SettingInv
<1>4. i \in Inode /\ i \in 0..Inodes /\ i \in held[Tmp] /\ \A m \in Name \ {Tmp} : i \notin held[m]
  BY <1>2, <1>3, OwnInode DEF WritableInv, HeldInv
<1>5. /\ entry' \in [Name -> 0..Inodes] /\ entry'[Current] = i /\ entry'[Tmp] = 0
      /\ \A m \in Name \ {Tmp, Current} : entry'[m] = entry[m]
  BY <1>2 DEF RenameFile
<1>6. /\ held' \in [Name -> SUBSET (0..Inodes)]
      /\ held'[Current] = held[Current] \cup {i} /\ held'[Tmp] = held[Tmp] \cup {0}
      /\ \A m \in Name \ {Tmp, Current} : held'[m] = held[m]
  <2>1. held[Current] \cup {i} \in SUBSET (0..Inodes) /\ held[Tmp] \cup {0} \in SUBSET (0..Inodes)
    BY <1>2, <1>4
  <2>2. QED
    BY <1>2, <2>1 DEF RenameFile
<1>7. TypeInv'
  BY <1>1, <1>2, <1>5, <1>6, TypeParts, TypePartsNext
<1> HIDE DEF i
<1>8. HeldInv'
  <2>1. \A m \in Name : entry'[m] \in held'[m]
    BY <1>5, <1>6 DEF WritableInv, HeldInv
  <2>2. \A m, p \in Name : \A j \in held'[m] \cap held'[p] :
          j = 0 \/ m = p \/ (m \in {Tmp, Current} /\ p \in {Tmp, Current})
    <3>1. \A m \in Name : \A j \in held'[m] :
            j = 0 \/ j \in held[m] \/ (m = Current /\ j \in held[Tmp])
      BY <1>4, <1>6
    <3>2. \A m, p \in Name : \A j \in held[m] \cap held[p] :
            j = 0 \/ m = p \/ (m \in {Tmp, Current} /\ p \in {Tmp, Current})
      BY DEF WritableInv, HeldInv
    <3>3. QED
      BY <1>2, <3>1, <3>2
  <2>3. \A j \in Inode : content'[j] \in maybe'[j]
    BY <1>1 DEF WritableInv, HeldInv
  <2>4. QED
    BY <1>5, <2>1, <2>2, <2>3 DEF HeldInv
<1>9. SettingInv' /\ CurrentWhole'
  <2>1. \A j \in held'[Current] \ {0} : j = i \/ j \in held[Current] \ {0}
    BY <1>6
  <2>2. QED
    BY <1>1, <1>3, <2>1 DEF WritableInv, SettingInv, CurrentWhole
<1>10. ~Open(Tmp)
  BY <1>1, TmpClosed
<1>11. {Tmp, Current} \subseteq Name /\ Manifest \notin {Tmp, Current}
       /\ {Tmp, Current} \cap Known = {}
       /\ \A m \in {Tmp, Current} \cap Written : ~Open(m)
  BY <1>2, <1>10
<1>12. QED
  BY <1>1, <1>5, <1>6, <1>7, <1>8, <1>9, <1>10, <1>11, DirStep

(* SetCurrentFile goes on without touching the directory.                  *)
LEMMA SettingStep ==
  ASSUME WritableInv, UNCHANGED <<disk, file, table, promised>>, ~Open(Tmp),
         setting' \in {"no", "write", "remove"}, setting' # "no" => promised # <<>>,
         faults' \in 0..MaxFaults
  PROVE  WritableInv'
<1>1. UNCHANGED <<entry, held, content, maybe, file, table, promised>>
  BY DEF disk
<1>2. TypeInv'
  BY <1>1, TypeParts, TypePartsNext DEF WritableInv
<1>3. HeldInv' /\ SettingInv' /\ CurrentWhole'
  BY <1>1 DEF WritableInv, HeldInv, SettingInv, CurrentWhole
<1>4. {} \subseteq Name /\ Manifest \notin {} /\ {} \cap Known = {}
      /\ \A m \in {} \cap Written : ~Open(m)
  OBVIOUS
<1>5. \A n \in Name \ {} : entry'[n] = entry[n] /\ held'[n] = held[n]
  BY <1>1
<1>6. QED
  BY <1>1, <1>2, <1>3, <1>4, <1>5, DirStep

(* Its beginning, and its errors.                                          *)
LEMMA SetCurrentFileSteps ==
  ASSUME WritableInv, SetCurrentFile \/ OpenTmpFails \/ RenameFails \/ RemoveTmpFails,
         faults' \in 0..MaxFaults
  PROVE  WritableInv'
<1>1. UNCHANGED <<disk, file, table, promised>> /\ setting' \in {"no", "write", "remove"}
  BY DEF SetCurrentFile, OpenTmpFails, RenameFails, RemoveTmpFails
<1>2. ~Open(Tmp)
  BY TmpClosed DEF SetCurrentFile, OpenTmpFails, RenameFails, RemoveTmpFails, Open
<1>3. setting' # "no" => promised # <<>>
  BY DEF SetCurrentFile, OpenTmpFails, RenameFails, RemoveTmpFails, WritableInv, SettingInv
<1>4. QED
  BY <1>1, <1>2, <1>3, SettingStep

-----------------------------------------------------------------------------
(* Crashes.  What a crash leaves is some of what might have been there.    *)
CrashDisk ==
  /\ entry' \in [Name -> 0..Inodes] /\ held' \in [Name -> SUBSET (0..Inodes)]
  /\ content' \in [Inode -> Seq(Record)] /\ maybe' \in [Inode -> SUBSET Seq(Record)]
  /\ \A n \in Name : entry'[n] \in held'[n] /\ held'[n] \subseteq held[n]
  /\ \A n \in Name : \A i \in held'[n] \ {0} : maybe'[i] \subseteq maybe[i]
  /\ \A i \in Inode : content'[i] \in maybe'[i]
  /\ entry'[Tmp] = 0 \/ entry'[Tmp] \notin held'[Current]

(* A crash of the process leaves what the kernel has,                      *)
LEMMA ProcessCrashDisk ==
  ASSUME WritableInv, UNCHANGED disk
  PROVE  CrashDisk
<1>1. UNCHANGED <<entry, held, content, maybe>>
  BY DEF disk
<1>2. QED
  BY <1>1, TypeParts DEF CrashDisk, WritableInv, HeldInv

(* one of the machine some of what it may leave.                           *)
LEMMA MachineCrashDisk ==
  ASSUME WritableInv, MachineCrash
  PROVE  CrashDisk
<1>1. /\ held \in [Name -> SUBSET (0..Inodes)] /\ maybe \in [Inode -> SUBSET Seq(Record)]
      /\ Tmp \in Name /\ Current \in Name /\ <<>> \in Seq(Record)
      /\ \A j \in 0..Inodes : j # 0 => j \in Inode
  BY TypeParts, Written3, EmptySeq, Distinct DEF WritableInv, Inode
<1>2. PICK e \in Selections(Name, held) :
        LET there == {e[n] : n \in Name} \ {0} IN
        /\ e[Tmp] # e[Current] \/ e[Tmp] = 0
        /\ entry' = e
        /\ held' = [n \in Name |-> {e[n]}]
        /\ \E c \in Selections(there, maybe) :
             /\ content' = [i \in Inode |-> IF i \in there THEN c[i] ELSE <<>>]
             /\ maybe' = [i \in Inode |-> {content'[i]}]
  BY DEF MachineCrash
<1> DEFINE there == {e[n] : n \in Name} \ {0}
<1>3. PICK c \in Selections(there, maybe) :
        /\ content' = [i \in Inode |-> IF i \in there THEN c[i] ELSE <<>>]
        /\ maybe' = [i \in Inode |-> {content'[i]}]
  BY <1>2
<1>4. /\ DOMAIN e = Name /\ e = [n \in Name |-> e[n]]
      /\ \A n \in Name : e[n] \in held[n] /\ e[n] \in 0..Inodes
  BY <1>1 DEF Selections
<1>5. there \subseteq Inode
  BY <1>1, <1>4
<1>6. \A i \in there : c[i] \in maybe[i] /\ c[i] \in Seq(Record)
  <2>1. \A i \in there : c[i] \in maybe[i]
    BY <1>3 DEF Selections
  <2>2. QED
    BY <1>1, <1>5, <2>1
<1>7. /\ entry' \in [Name -> 0..Inodes] /\ held' \in [Name -> SUBSET (0..Inodes)]
      /\ \A n \in Name : entry'[n] = e[n] /\ held'[n] = {e[n]}
  BY <1>2, <1>4
<1>8. \A n \in Name : e[n] # 0 => e[n] \in there
  OBVIOUS
<1> HIDE DEF there
<1>9. /\ content' \in [Inode -> Seq(Record)]
      /\ \A i \in there : content'[i] \in maybe[i]
  BY <1>1, <1>3, <1>5, <1>6
<1>10. /\ maybe' \in [Inode -> SUBSET Seq(Record)]
       /\ \A i \in Inode : maybe'[i] = {content'[i]}
  BY <1>3, <1>9
<1>11. \A n \in Name : \A i \in held'[n] \ {0} : maybe'[i] \subseteq maybe[i]
  BY <1>5, <1>7, <1>8, <1>9, <1>10
<1>12. entry'[Tmp] = 0 \/ entry'[Tmp] \notin held'[Current]
  BY <1>1, <1>2, <1>7
<1>13. QED
  BY <1>4, <1>7, <1>9, <1>10, <1>11, <1>12 DEF CrashDisk

(* No record, no name.                                                     *)
LEMMA NoNames ==
  ASSUME NEW v \in Seq(Record), Len(v) = 0
  PROVE  UNION Range(v) = {}
<1>1. Range(v) = {v[j] : j \in 1..Len(v)}
  BY RangeEquality
<1>2. QED
  BY <1>1

(* The next process knows the tables that the MANIFEST names; those that   *)
(* were promised and done are where they were. Of the others only the name *)
(* is known: the file may be an older one of the same number.              *)
LEMMA RestartStep ==
  ASSUME WritableInv, CrashDisk, Restart, faults' \in 0..MaxFaults
  PROVE  WritableInv'
<1> DEFINE m == entry'[Manifest]
           named == IF promised = <<>> THEN {} ELSE UNION Range(content'[m])
           kept == UNION Range(promised)
<1>1. /\ file' = [n \in Written |-> Closed] /\ setting' = "no" /\ promised' = promised
      /\ table' = [t \in Table |-> IF t \in Done \cap kept THEN "done"
                                   ELSE IF t \in named THEN "found" ELSE "new"]
  BY DEF Restart
<1>2. /\ TypeInv /\ Manifest \in Name /\ Current \in Name /\ Table \subseteq Name
      /\ promised \in Seq(Record)
      /\ \A j \in 0..Inodes : j # 0 => j \in Inode
  BY TypeParts, Written3, Distinct DEF WritableInv, Inode
<1> HIDE DEF named, kept
<1>3. /\ table' \in [Table -> TableState]
      /\ \A t \in Table : (table'[t] = "done" => t \in Done /\ t \in kept)
                          /\ (t \in named => table'[t] \in {"done", "found"})
  BY <1>1 DEF TableState
<1>4. \A n \in Written : file'[n] = Closed /\ ~Open(n)' /\ Closed \in FileState
  <2>1. Closed.inode = 0
    BY DEF Closed
  <2>2. Closed \in FileState
    BY EmptySeq, Distinct DEF Closed, FileState
  <2>3. QED
    BY <1>1, <2>1, <2>2 DEF Open
<1>5. TypeInv'
  <2>1. file' \in [Written -> FileState]
    BY <1>1, <1>4
  <2>2. QED
    BY <1>1, <1>2, <1>3, <2>1, TypePartsNext DEF CrashDisk
<1>6. HeldInv'
  <2>1. \A n, p \in Name : \A j \in held'[n] \cap held'[p] :
          j = 0 \/ n = p \/ (n \in {Tmp, Current} /\ p \in {Tmp, Current})
    BY DEF WritableInv, HeldInv, CrashDisk
  <2>2. QED
    BY <2>1 DEF HeldInv, CrashDisk
<1>7. FileInv'
  BY <1>4 DEF FileInv, FileGood
<1>8. RecordInv'
  BY <1>2, <1>4, Written3 DEF WritableInv, RecordInv, CrashDisk
<1>9. ASSUME promised # <<>>
      PROVE  /\ held'[Manifest] = {m} /\ m = entry[Manifest] /\ m # 0 /\ m \in Inode
             /\ m \in held[Manifest]
             /\ maybe'[m] \subseteq maybe[m] /\ content'[m] \in maybe[m]
  <2>1. held[Manifest] = {entry[Manifest]} /\ entry[Manifest] # 0
    BY <1>9 DEF WritableInv, PromiseInv
  <2>2. held'[Manifest] = {m} /\ m = entry[Manifest]
    BY <1>2, <2>1 DEF CrashDisk
  <2>3. m \in Inode
    BY <1>2, <2>1, <2>2 DEF CrashDisk
  <2>4. maybe'[m] \subseteq maybe[m] /\ content'[m] \in maybe'[m]
    BY <1>2, <2>1, <2>2, <2>3 DEF CrashDisk
  <2>5. QED
    BY <2>1, <2>2, <2>3, <2>4
<1>10. ManifestInv'
  <2>1. ~Open(Manifest)'
    BY <1>4, Written3
  <2>2. ASSUME promised # <<>> PROVE UNION Range(content'[m]) \subseteq Known'
    <3>1. content'[m] \in Seq(SUBSET Table)
      BY <1>2, <1>9, <2>2 DEF WritableInv, RecordInv
    <3>2. UNION Range(content'[m]) \subseteq Table
      BY <3>1, NamesTables
    <3>3. named = UNION Range(content'[m])
      BY <2>2 DEF named
    <3>4. QED
      BY <1>3, <3>2, <3>3 DEF Known
  <2>3. QED
    BY <1>1, <2>1, <2>2 DEF ManifestInv
<1>11. ASSUME promised # <<>>, NEW t \in kept
       PROVE  /\ t \in Table /\ held'[t] = {entry'[t]} /\ entry'[t] # 0
              /\ entry'[t] = entry[t] /\ entry'[t] \in Inode
              /\ maybe'[entry'[t]] \subseteq maybe[entry[t]]
              /\ content'[entry'[t]] \in maybe'[entry'[t]]
  <2>1. t \in Table /\ held[t] = {entry[t]} /\ entry[t] # 0
    BY <1>11, PromisedKnown DEF WritableInv, PromiseInv, Known, kept
  <2>2. held'[t] = {entry'[t]} /\ entry'[t] = entry[t]
    BY <1>2, <2>1 DEF CrashDisk
  <2>3. entry'[t] \in Inode
    BY <1>2, <2>1, <2>2 DEF CrashDisk
  <2>4. QED
    BY <1>2, <2>1, <2>2, <2>3 DEF CrashDisk
<1>12. PromiseInv'
  <2> SUFFICES ASSUME promised # <<>>
               PROVE  /\ held'[Manifest] = {m} /\ m # 0
                      /\ \A s \in maybe'[m] : IsPrefix(promised, s)
                      /\ \A t \in UNION Range(promised) : held'[t] = {entry'[t]} /\ entry'[t] # 0
    BY <1>1 DEF PromiseInv
  <2>1. \A s \in maybe'[m] : IsPrefix(promised, s)
    BY <1>9 DEF WritableInv, PromiseInv
  <2>2. QED
    BY <1>9, <1>11, <2>1 DEF kept
<1>13. DoneStored'
  <2> SUFFICES ASSUME NEW t \in Table, table'[t] = "done"
               PROVE  entry'[t] # 0 /\ maybe'[entry'[t]] = {<<{t}>>}
    BY DEF DoneStored, Done
  <2>1. t \in Done /\ t \in kept
    BY <1>3
  <2>2. promised # <<>>
    <3>1. promised = <<>> => Len(promised) = 0
      OBVIOUS
    <3>2. QED
      BY <1>2, <2>1, <3>1, NoNames DEF kept
  <2>3. maybe[entry[t]] = {<<{t}>>}
    BY <2>1 DEF WritableInv, DoneStored
  <2>4. PICK S, x : S = maybe'[entry'[t]] /\ x = <<{t}>>
    OBVIOUS
  <2>5. S \subseteq {x} /\ content'[entry'[t]] \in S /\ entry'[t] # 0
    BY <1>11, <2>1, <2>2, <2>3, <2>4
  <2>6. S = {x}
    BY <2>5
  <2>7. QED
    BY <2>4, <2>5, <2>6
<1>14. CurrentWhole'
  <2> SUFFICES ASSUME NEW j \in held'[Current] \ {0}
               PROVE  maybe'[j] = {<<{Manifest}>>} /\ promised # <<>>
    BY <1>1 DEF CurrentWhole
  <2>1. j \in held[Current] \ {0} /\ j \in Inode
    BY <1>2 DEF CrashDisk
  <2>2. maybe[j] = {<<{Manifest}>>} /\ promised # <<>>
    BY <2>1 DEF WritableInv, CurrentWhole
  <2>3. maybe'[j] \subseteq maybe[j] /\ content'[j] \in maybe'[j]
    BY <1>2, <2>1 DEF CrashDisk
  <2>4. QED
    BY <2>2, <2>3
<1>15. SettingInv'
  BY <1>1 DEF SettingInv
<1>16. QED
  BY <1>5, <1>6, <1>7, <1>8, <1>10, <1>12, <1>13, <1>14, <1>15 DEF WritableInv

-----------------------------------------------------------------------------
(* The invariant holds at first,                                           *)
LEMMA InitWritable ==
  ASSUME WritableInit
  PROVE  WritableInv
<1>1. /\ entry = [n \in Name |-> 0] /\ held = [n \in Name |-> {0}]
      /\ content = [i \in Inode |-> <<>>] /\ maybe = [i \in Inode |-> {<<>>}]
      /\ file = [n \in Written |-> Closed] /\ table = [t \in Table |-> "new"]
      /\ promised = <<>> /\ setting = "no" /\ faults = 0
  BY DEF WritableInit
<1>2. /\ <<>> \in Seq(Record) /\ 0 \in 0..Inodes /\ 0 \in 0..MaxFaults
      /\ Manifest \in Name /\ Tmp \in Name /\ Current \in Name /\ Table \subseteq Name
      /\ Manifest \in Written
  BY EmptySeq, Written3, Distinct
<1>3. Closed \in FileState /\ Closed.inode = 0
  BY EmptySeq, Distinct DEF Closed, FileState
<1>4. TypeInv
  BY <1>1, <1>2, <1>3, TypeParts DEF TableState
<1>5. HeldInv
  BY <1>1, <1>2 DEF HeldInv
<1>6. FileInv
  BY <1>1, <1>3 DEF FileInv, FileGood, Open
<1>7. RecordInv /\ ManifestInv /\ PromiseInv
  <2>1. ~Open(Manifest)
    BY <1>1, <1>2, <1>3 DEF Open
  <2>2. held[Manifest] = {0}
    BY <1>1, <1>2
  <2>3. QED
    BY <1>1, <2>1, <2>2 DEF RecordInv, ManifestInv, PromiseInv
<1>8. SettingInv /\ DoneStored /\ CurrentWhole
  <2>1. held[Current] = {0} /\ Done = {}
    BY <1>1, <1>2 DEF Done
  <2>2. QED
    BY <1>1, <2>1 DEF SettingInv, DoneStored, CurrentWhole
<1>9. QED
  BY <1>4, <1>5, <1>6, <1>7, <1>8 DEF WritableInv

(* every step preserves it,                                                *)
LEMMA NextWritable ==
  ASSUME WritableInv, [WritableNext]_writableVars
  PROVE  WritableInv'
<1>1. CASE UNCHANGED writableVars
  <2>1. UNCHANGED <<entry, held, content, maybe, file, table, promised, setting, faults>>
    BY <1>1 DEF writableVars, disk
  <2>2. TypeInv'
    BY <2>1, TypeParts, TypePartsNext DEF WritableInv
  <2>3. HeldInv' /\ RecordInv' /\ PromiseInv' /\ SettingInv' /\ DoneStored' /\ CurrentWhole'
    BY <2>1 DEF WritableInv, HeldInv, RecordInv, PromiseInv, SettingInv, DoneStored, Done,
                CurrentWhole, Open
  <2>4. FileInv' /\ ManifestInv'
    BY <2>1 DEF WritableInv, FileInv, FileGood, Whole, ManifestInv, Known, Open, Total, Syncing
  <2>5. QED
    BY <2>2, <2>3, <2>4 DEF WritableInv
<1>2. CASE WritableNext
  <2>1. faults' \in 0..MaxFaults
    <3>1. faults \in 0..MaxFaults /\ MaxFaults \in Nat
      BY TypeParts, Distinct DEF WritableInv
    <3>2. QED
      BY <1>2, <3>1 DEF WritableNext
  <2>2. ASSUME NEW n \in Written,
               \/ NewWritableFile(n) \/ AppendTo(n) \/ Flush(n)
               \/ SyncDirIfManifest(n) \/ SyncFlush(n) \/ SyncData(n)
               \/ Close(n) \/ DeleteFile(n)
        PROVE  WritableInv'
    BY <2>1, <2>2, NewWritableFileStep, AppendStep, FlushStep, SyncDirStep, SyncFlushStep,
       SyncDataStep, CloseStep, DeleteFileStep
  <2>3. ASSUME NEW n \in Written, WriteFails(n) \/ SyncFails(n) \/ CloseFails(n)
        PROVE  WritableInv'
    BY <2>1, <2>3, WriteFailsStep, SyncFailsStep, CloseFailsStep
  <2>4. ASSUME NewAppendableFile \/ SetCurrentFile \/ RenameFile \/ RemoveTmp
        PROVE  WritableInv'
    BY <2>1, <2>4, NewAppendableFileStep, SetCurrentFileSteps, RenameFileStep, RemoveTmpStep
  <2>5. ASSUME OpenTmpFails \/ RenameFails \/ RemoveTmpFails
        PROVE  WritableInv'
    BY <2>1, <2>5, SetCurrentFileSteps
  <2>6. ASSUME ProcessCrash \/ MachineCrash
        PROVE  WritableInv'
    BY <2>1, <2>6, ProcessCrashDisk, MachineCrashDisk, RestartStep DEF ProcessCrash, MachineCrash
  <2>7. QED
    BY <1>2, <2>2, <2>3, <2>4, <2>5, <2>6 DEF WritableNext, WritableStep, Fault
<1>3. QED
  BY <1>1, <1>2

(* and so it always holds.                                                 *)
LEMMA WritableAlways == WritableSpec => []WritableInv
  BY InitWritable, NextWritable, PTL DEF WritableSpec

(* Files, objects and promises keep their types, for any number of tables, *)
(* files, records, errors and crashes.                                     *)
THEOREM TypeCorrect == WritableSpec => []WritableTypeOK
<1>1. WritableInv => WritableTypeOK
  BY DEF WritableInv, TypeInv
<1>2. QED
  BY <1>1, WritableAlways, PTL

(* What Sync has reported of a MANIFEST survives any crash, with every     *)
(* table it names: SyncDirIfManifest comes first in Sync, so that the      *)
(* names of the tables are on the disk before a record that refers to them *)
(* is reported (env_posix.cpp:285-305).                                    *)
THEOREM PromisesAlwaysKept == WritableSpec => []PromisesKept
<1>1. ASSUME WritableInv PROVE PromisesKept
  <2> SUFFICES ASSUME promised # <<>>
               PROVE  /\ \A i \in held[Manifest] :
                           i # 0 /\ \A s \in maybe[i] : IsPrefix(promised, s)
                      /\ \A t \in UNION Range(promised) : \A i \in held[t] :
                           i # 0 /\ (t \in Done => maybe[i] = {<<{t}>>})
    BY DEF PromisesKept
  <2>1. QED
    BY <1>1 DEF WritableInv, PromiseInv, DoneStored
<1>2. WritableInv => PromisesKept
  BY <1>1
<1>3. QED
  BY <1>2, WritableAlways, PTL

(* Whatever file CURRENT may stand for after a crash is complete on the    *)
(* disk and names a MANIFEST that has been synced: SetCurrentFile renames  *)
(* only what it has synced and closed without an error                     *)
(* (filename.cpp:115-144).                                                 *)
THEOREM CurrentAlwaysWhole == WritableSpec => []CurrentWhole
<1>1. WritableInv => CurrentWhole
  BY DEF WritableInv
<1>2. QED
  BY <1>1, WritableAlways, PTL

(* No object writes to a file that another name may stand for: the         *)
(* temporary file is closed when it is renamed, so nothing is added to the *)
(* file of CURRENT, whatever fails and however the machine stops           *)
(* (env_posix.cpp:231, filename.cpp:131-140).                              *)
THEOREM AlwaysWritesOwnFile == WritableSpec => []WritesOwnFile
<1>1. ASSUME WritableInv, NEW n \in Written, file[n].inode # 0
      PROVE  /\ entry[n] = file[n].inode
             /\ \A m \in Name \ {n} : file[n].inode \notin held[m]
  <2>1. n \in Name
    BY DEF Name
  <2>2. FileGood(n) /\ HeldInv
    BY <1>1 DEF WritableInv, FileInv
  <2>3. entry[n] = file[n].inode
    BY <1>1, <2>2 DEF FileGood, Open
  <2>4. ASSUME NEW m \in Name \ {n}, entry[n] \in held[m]
        PROVE  FALSE
    <3>1. entry[n] \in held[n] /\ entry[n] # 0
      BY <1>1, <2>1, <2>2, <2>3 DEF HeldInv
    <3>2. n = Tmp /\ m = Current
      BY <2>1, <2>2, <2>4, <3>1, Distinct DEF HeldInv, Written
    <3> QED
      BY <2>2, <2>4, <3>1, <3>2 DEF HeldInv
  <2> QED
    BY <2>3, <2>4
<1>2. WritableInv => WritesOwnFile
  BY <1>1 DEF WritesOwnFile
<1>3. QED
  BY <1>2, WritableAlways, PTL

(* A table that was written, synced and closed without an error has its    *)
(* data on the disk, whatever errors follow, and through any crash once a  *)
(* record that names it has been reported.                                 *)
THEOREM DoneAlwaysStored == WritableSpec => []DoneStored
<1>1. WritableInv => DoneStored
  BY DEF WritableInv
<1>2. QED
  BY <1>1, WritableAlways, PTL
=============================================================================
