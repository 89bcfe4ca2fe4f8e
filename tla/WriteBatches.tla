----------------------------- MODULE WriteBatches -----------------------------
(***************************************************************************)
(* Write batches (db/write_batch.cpp): how updates are put into one string *)
(* behind a header with a sequence number and a count, how batches are     *)
(* joined into one log record, and that the loop of RecoverLogFile         *)
(* (db/dp_impl.cpp) gets from the log what the writers put into memory.    *)
(*                                                                         *)
(* A batch is its header and its entries; keys and values are abstracted   *)
(* into one value each.  The rest of DBImpl::Write (BuildBatchGroup, the   *)
(* sequence numbers, the log) and the log format are external: the reader  *)
(* of the log checks sums, so that a record is read as written or not at   *)
(* all, and what it accepts may still be too short or contain entries that *)
(* cannot be decoded.                                                      *)
(*                                                                         *)
(* The names carry the component's, so that a module may extend several.   *)
(***************************************************************************)
EXTENDS Naturals, Sequences, FiniteSetsExt

CONSTANTS
  Batch,       \* the WriteBatch objects of the application
  Data,        \* keys, with their values
  CountMod,    \* what the count of a header wraps at, 2^32 in the code
  MaxOps,      \* bound: entries of a batch
  MaxGroup,    \* bound: batches of a group
  MaxLog       \* bound: log records

ASSUME BatchAssumption ==
  /\ CountMod \in Nat /\ MaxOps \in Nat /\ MaxLog \in Nat /\ MaxGroup \in Nat \ {0}
  /\ MaxGroup * MaxOps < CountMod

VARIABLES
  batch,          \* rep_ of each object
  meant,          \* what the application has asked each object for
  log,            \* the records of the log
  memtable,       \* what InsertInto has added to the memtable
  LastSequence    \* of the VersionSet

batchVars == <<batch, meant, log, memtable, LastSequence>>

Op == [type : {"value", "deletion"}, data : Data]
Rep == [seq : Nat, count : 0..CountMod - 1, ops : Seq(Op)]

BatchTypeOK ==
  /\ batch \in [Batch -> Rep]
  /\ meant \in [Batch -> Seq(Op)]
  /\ log \in Seq(Rep)
  /\ memtable \subseteq [seq : Nat, op : Op]
  /\ LastSequence \in Nat

-----------------------------------------------------------------------------
(* Clear: twelve zero bytes.                                               *)
EmptyRep == [seq |-> 0, count |-> 0, ops |-> <<>>]

(* Mutant: the count is left to the caller.                                *)
WithOpUncounted(rep, op) == [rep EXCEPT !.ops = Append(@, op)]

(* Put and Delete.  The header holds 32 bits of count, but Count returns   *)
(* them as an int, which is negative from 2^31 on: the assumption on       *)
(* CountMod keeps the model below both.                                    *)
WithOp(rep, op) ==
  [rep EXCEPT !.count = (@ + 1) % CountMod, !.ops = Append(@, op)]

(* Mutant: the counts are not added up.                                    *)
AppendedUncounted(dst, src) == [dst EXCEPT !.ops = @ \o src.ops]

(* WriteBatchInternal::Append.                                             *)
Appended(dst, src) ==
  [dst EXCEPT !.count = (@ + src.count) % CountMod, !.ops = @ \o src.ops]

(* Iterate: the entries the handler is called with, the first readable     *)
(* ones, and whether the status is ok.                                     *)
Iterated(rep, readable) ==
  [ops |-> SubSeq(rep.ops, 1, readable),
   ok  |-> readable = Len(rep.ops) /\ readable = rep.count]

(* InsertInto: the handler adds each entry with the next sequence number.  *)
Inserted(rep, readable) ==
  LET ops == Iterated(rep, readable).ops IN
  {[seq |-> rep.seq + i - 1, op |-> ops[i]] : i \in DOMAIN ops}

(* last_seq in RecoverLogFile.  A record written by Write has a sequence   *)
(* number of 1 or more.                                                    *)
LastSeq(rep) == rep.seq + rep.count - 1

(* The memtable and the max_sequence of the loop in RecoverLogFile, if the *)
(* reader accepts the records at the places in the domain of readable,     *)
(* with so many readable entries each.  A turn of the loop adds to the one *)
(* and raises the other.                                                   *)
Replay(readable) ==
  [mem |-> UNION {Inserted(log[i], readable[i]) : i \in DOMAIN readable},
   max |-> Max({0} \cup {LastSeq(log[i]) : i \in DOMAIN readable})]

-----------------------------------------------------------------------------
BatchInit ==
  /\ batch = [b \in Batch |-> EmptyRep]
  /\ meant = [b \in Batch |-> <<>>]
  /\ log = <<>>
  /\ memtable = {}
  /\ LastSequence = 0

Clear(b) ==
  /\ batch' = [batch EXCEPT ![b] = EmptyRep]
  /\ meant' = [meant EXCEPT ![b] = <<>>]
  /\ UNCHANGED <<log, memtable, LastSequence>>

PutOrDelete(b, op) ==
  /\ Len(batch[b].ops) < MaxOps
  /\ batch' = [batch EXCEPT ![b] = WithOp(@, op)]
  /\ meant' = [meant EXCEPT ![b] = Append(@, op)]
  /\ UNCHANGED <<log, memtable, LastSequence>>

(* tmp_batch_, cleared and with one batch after the other appended.        *)
Joined(group) ==
  LET joined[i \in 0..Len(group)] ==
        IF i = 0 THEN EmptyRep ELSE Appended(joined[i - 1], batch[group[i]])
  IN joined[Len(group)]

(* What Write logs for a group: the batch itself if it is alone.           *)
Grouped(group) ==
  IF Len(group) = 1 THEN batch[group[1]] ELSE Joined(group)

(* SetSequence, the record to the log, InsertInto.  The number stays in a  *)
(* batch that was alone.                                                   *)
WriteGroup(group) ==
  LET rep == [Grouped(group) EXCEPT !.seq = LastSequence + 1] IN
  /\ Len(log) < MaxLog
  /\ log' = Append(log, rep)
  /\ memtable' = memtable \cup Inserted(rep, Len(rep.ops))
  /\ LastSequence' = LastSequence + rep.count
  /\ batch' = IF Len(group) = 1 THEN [batch EXCEPT ![group[1]] = rep] ELSE batch
  /\ UNCHANGED meant

(* The writers at the front of the queue, each with a batch of its own.    *)
Groups == UNION {Injection(1..k, Batch) : k \in 1..MaxGroup}

BatchNext ==
  \/ \E b \in Batch : Clear(b) \/ \E op \in Op : PutOrDelete(b, op)
  \/ \E g \in Groups : WriteGroup(g)

BatchSpec == BatchInit /\ [][BatchNext]_batchVars

-----------------------------------------------------------------------------
(* Whatever calls have filled a batch, and whether or not it has been      *)
(* written, Iterate hands over what was asked for, in order, and finds the *)
(* count right.                                                            *)
BatchFaithful ==
  \A b \in Batch : LET it == Iterated(batch[b], Len(batch[b].ops)) IN
                   it.ok /\ it.ops = meant[b]

(* Replaying the log gives the memtable that the writers filled, and the   *)
(* sequence number that DB::Open goes on from is the last one used.  A     *)
(* record that the reader skips takes its own entries with it and no       *)
(* others: "corruptions cause entire commits to be skipped instead of      *)
(* propagating bad information" (dp_impl.cpp:437).  If InsertInto stops in *)
(* the middle of a record, what has been inserted is right as far as it    *)
(* goes; and whatever is recovered is covered by the sequence number.      *)
ReplayFaithful ==
  \A kept \in SUBSET DOMAIN log :
    LET whole == [i \in kept |-> Len(log[i].ops)]
        skipped == UNION {Inserted(log[i], Len(log[i].ops)) : i \in DOMAIN log \ kept}
    IN /\ Replay(whole).mem = memtable \ skipped
       /\ kept = DOMAIN log => Replay(whole).max = LastSequence
       /\ \A readable \in [kept -> 0..MaxGroup * MaxOps] :
            (\A i \in kept : readable[i] <= whole[i]) =>
              /\ Replay(readable).mem \subseteq memtable
              /\ \A e \in Replay(readable).mem : e.seq <= Replay(readable).max
=============================================================================
