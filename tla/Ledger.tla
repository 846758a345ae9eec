------------------------------- MODULE Ledger -------------------------------
(***************************************************************************)
(* One append-only JSONL ledger (src/hanish/past/ledger.py) shared by      *)
(* several processes, each holding one Ledger instance on the same path.   *)
(*                                                                         *)
(* The file is a sequence of complete lines, possibly followed by a torn   *)
(* tail (bytes after the last newline).  An instance keeps the lines it    *)
(* has read, its watermark and an index of the records it remembers.  All  *)
(* operations run under the flock of the .lock file; an append spends      *)
(* three steps in the critical section (decide, write, fsync) and may die  *)
(* or fail at each of them.                                                *)
(*                                                                         *)
(* Abstractions.  Lines have one width, so an offset is a number of lines; *)
(* a line is a record or Junk (blank, undecodable or not an object), which *)
(* is kept in "read" as a mark of what the parser skipped and counted.     *)
(* The identity and the mtime that instances remember are compared with    *)
(* the file's through two sets: the instances for which the path moved to  *)
(* another inode, and those for which the file was touched, since they     *)
(* looked.  The counters tail_loss and generation_resets are not kept.     *)
(***************************************************************************)
EXTENDS Naturals, Sequences, SequencesExt

CONSTANTS
    Proc,               \* processes, one Ledger instance each
    Key,                \* values of the identity fields
    Val,                \* the rest of a canonical record
    Junk,               \* a complete line that is not a JSON object
    None,               \* no process, no record, no index
    Ops,                \* the operations in use: "append", "unique", "compare"
    Faults,             \* the environment: "power", "replace", "truncate", "alien"
    Allowed(_, _),      \* transition_allowed(existing records, candidate)
    MaxLines            \* bound on the length of the file

Record == [key : Key, val : Val]
Line == Record \cup {Junk}

ASSUME LedgerAssumption ==
    /\ Junk \notin Record
    /\ None \notin Record \cup {Junk}
    /\ None \notin Proc
    /\ \A existing \in SUBSET Record, r \in Record : Allowed(existing, r) \in BOOLEAN

VARIABLES
    lines,      \* the complete lines of the file
    torn,       \* are there bytes after the last newline?
    durable,    \* how many lines have reached stable storage
    lock,       \* the holder of the flock, or None
    pc,         \* what each process is doing
    pending,    \* the payload of the append in progress
    read,       \* per instance: the lines behind _records
    watermark,  \* per instance: _watermark
    index,      \* per instance: the indexed records, None before the first use
    moved,      \* the instances for which the path names another inode by now
    touched,    \* the instances for which st_mtime_ns is not what they remember
    acked,      \* history: records some caller was told were appended
    accepted    \* history: records some caller was told are there already

file == <<lines, torn, durable>>
instance == <<read, watermark, index>>
vars == <<lines, torn, durable, lock, pc, pending, read, watermark, index,
          moved, touched, acked, accepted>>

Open == {p \in Proc : pc[p] \notin {"closed", "opening"}}
InSection == {p \in Proc : pc[p] \in {"writing", "written"}}

\* The records among the lines of s.
Records(s) == ToSet(s) \ {Junk}
WithKey(records, k) == {r \in records : r.key = k}

\* May r follow the given records?  append_unique: nothing has its identity yet.
AdmitUnique(records, r) == WithKey(records, r.key) = {}

\* compare_and_append: it is new and the caller's transition rule allows it.
AdmitCompare(records, r) ==
    LET existing == WithKey(records, r.key)
    IN  r \notin existing /\ Allowed(existing, r)

\* Some operation in use would append r after these records.
Admit(records, r) ==
    \/ "append" \in Ops
    \/ "unique" \in Ops /\ AdmitUnique(records, r)
    \/ "compare" \in Ops /\ AdmitCompare(records, r)

\* Whom p leaves with a modification time they do not remember, having looked at
\* the file and cut a torn tail off it.
TouchedByRepair(p) == IF torn THEN Open \ {p} ELSE touched \ {p}

Init ==
    /\ lines = <<>>
    /\ torn = FALSE
    /\ durable = 0
    /\ lock = None
    /\ pc = [p \in Proc |-> "closed"]
    /\ pending = [p \in Proc |-> None]
    /\ read = [p \in Proc |-> <<>>]
    /\ watermark = [p \in Proc |-> 0]
    /\ index = [p \in Proc |-> None]
    /\ moved = {}
    /\ touched = {}
    /\ acked = {}
    /\ accepted = {}

-----------------------------------------------------------------------------
(* The locked synchronization every operation begins with.                 *)

\* Mutated forms, for testing the properties: the identity of the file, or its
\* size, is not compared.
StaleIgnoringInode(p) ==
    \/ watermark[p] > Len(lines)
    \/ watermark[p] = Len(lines) /\ ~torn /\ p \in touched
StaleIgnoringSize(p) ==
    \/ p \in moved
    \/ watermark[p] = Len(lines) /\ ~torn /\ p \in touched

\* invalid_watermark: the instance cannot trust its position in the file.
Stale(p) ==
    \/ p \in moved
    \/ watermark[p] > Len(lines)
    \/ watermark[p] = Len(lines) /\ ~torn /\ p \in touched

NewLines(p) == SubSeq(lines, watermark[p] + 1, Len(lines))

\* What the instance has read once it is synchronized, and its index: a full
\* rescan drops the index, a tail is merged into it.
SyncedRead(p) == IF Stale(p) THEN lines ELSE read[p] \o NewLines(p)
SyncedIndex(p) ==
    IF Stale(p) \/ index[p] = None THEN None
    ELSE index[p] \cup Records(NewLines(p))

\* Mutated form: the identity is looked up before the tail is merged.
LookupBeforeSync(p) == IF index[p] = None THEN Records(read[p]) ELSE index[p]

\* The index an append looks its identity up in: built on first use.
LookupIndex(p) ==
    IF SyncedIndex(p) = None THEN Records(SyncedRead(p)) ELSE SyncedIndex(p)

\* _sync_tail_locked: adopt the tail or rescan, and cut a torn tail off.
SyncTail(p, newIndex) ==
    /\ pc[p] = "idle"
    /\ lock = None
    /\ read' = [read EXCEPT ![p] = SyncedRead(p)]
    /\ watermark' = [watermark EXCEPT ![p] = Len(lines)]
    /\ index' = [index EXCEPT ![p] = newIndex]
    /\ moved' = moved \ {p}
    /\ touched' = TouchedByRepair(p)
    /\ torn' = FALSE

-----------------------------------------------------------------------------
(* Operations.                                                             *)

\* Mutated form: the repair cuts at the last newline, not after it, and so takes
\* the last complete line along with the torn tail.
OpenCuttingLine(p) ==
    /\ pc[p] = "opening"
    /\ lock = None
    /\ pc' = [pc EXCEPT ![p] = "idle"]
    /\ lines' = IF torn /\ lines # <<>> THEN Front(lines) ELSE lines
    /\ read' = [read EXCEPT ![p] = lines']
    /\ watermark' = [watermark EXCEPT ![p] = Len(lines')]
    /\ index' = [index EXCEPT ![p] = None]
    /\ torn' = FALSE
    /\ touched' = TouchedByRepair(p)
    /\ UNCHANGED <<durable, lock, pending, moved, acked, accepted>>

\* __init__ touches the file before it takes the lock: whatever else goes on, those
\* who have it open see a modification time they do not remember.
Touch(p) ==
    /\ pc[p] = "closed"
    /\ pc' = [pc EXCEPT ![p] = "opening"]
    /\ touched' = Open
    /\ UNCHANGED <<file, lock, pending, instance, moved, acked, accepted>>

\* Then one cold pass over the whole file, repairing its tail.
OpenLedger(p) ==
    /\ pc[p] = "opening"
    /\ lock = None
    /\ pc' = [pc EXCEPT ![p] = "idle"]
    /\ read' = [read EXCEPT ![p] = lines]
    /\ watermark' = [watermark EXCEPT ![p] = Len(lines)]
    /\ index' = [index EXCEPT ![p] = None]
    /\ torn' = FALSE
    /\ touched' = TouchedByRepair(p)
    /\ UNCHANGED <<lines, durable, lock, pending, moved, acked, accepted>>

Synchronize(p) ==
    /\ SyncTail(p, SyncedIndex(p))
    /\ UNCHANGED <<lines, durable, lock, pc, pending, acked, accepted>>

\* Enter the section and decide to write r, or leave it with nothing to do.
StartWrite(p, r) ==
    /\ Len(lines) < MaxLines
    /\ pc' = [pc EXCEPT ![p] = "writing"]
    /\ pending' = [pending EXCEPT ![p] = r]
    /\ lock' = p
    /\ UNCHANGED <<lines, durable, acked, accepted>>

\* An exact retry is answered with the record that is there, without a write.
Decline(p, r) ==
    /\ accepted' = IF r \in LookupIndex(p) THEN accepted \cup {r} ELSE accepted
    /\ UNCHANGED <<lines, durable, lock, pc, pending, acked>>

BeginAppend(p, r) ==
    /\ "append" \in Ops
    /\ SyncTail(p, SyncedIndex(p))
    /\ StartWrite(p, r)

\* append_unique: the first record of an identity wins, a retry writes nothing.
BeginUnique(p, r) ==
    /\ "unique" \in Ops
    /\ SyncTail(p, LookupIndex(p))
    /\ IF AdmitUnique(LookupIndex(p), r) THEN StartWrite(p, r) ELSE Decline(p, r)

\* compare_and_append: the caller's transition rule is consulted under the lock.
BeginCompare(p, r) ==
    /\ "compare" \in Ops
    /\ SyncTail(p, LookupIndex(p))
    /\ IF AdmitCompare(LookupIndex(p), r) THEN StartWrite(p, r) ELSE Decline(p, r)

\* _write_durable, first half: the line reaches the page cache.
WriteLine(p) ==
    /\ pc[p] = "writing"
    /\ lines' = Append(lines, pending[p])
    /\ pc' = [pc EXCEPT ![p] = "written"]
    /\ touched' = Open
    /\ UNCHANGED <<torn, durable, lock, pending, instance, moved, acked, accepted>>

\* The write raises after some of the bytes; the instance forgets about it.
WriteFails(p) ==
    /\ pc[p] = "writing"
    /\ torn' = TRUE
    /\ touched' = Open
    /\ pc' = [pc EXCEPT ![p] = "idle"]
    /\ pending' = [pending EXCEPT ![p] = None]
    /\ lock' = None
    /\ UNCHANGED <<lines, durable, instance, moved, acked, accepted>>

\* Mutated form: the exception leaves the lock behind.
FsyncFailsLocked(p) ==
    /\ pc[p] = "written"
    /\ pc' = [pc EXCEPT ![p] = "idle"]
    /\ pending' = [pending EXCEPT ![p] = None]
    /\ UNCHANGED <<file, lock, instance, moved, touched, acked, accepted>>

\* os.fsync raises: the line is in the file, but was never remembered here.
FsyncFails(p) ==
    /\ pc[p] = "written"
    /\ pc' = [pc EXCEPT ![p] = "idle"]
    /\ pending' = [pending EXCEPT ![p] = None]
    /\ lock' = None
    /\ UNCHANGED <<file, instance, moved, touched, acked, accepted>>

\* Mutated form: the caller is answered without waiting for the disk.
FinishUnsynced(p) ==
    /\ pc[p] = "written"
    /\ read' = [read EXCEPT ![p] = Append(read[p], pending[p])]
    /\ watermark' = [watermark EXCEPT ![p] = watermark[p] + 1]
    /\ index' = [index EXCEPT ![p] = IF index[p] = None THEN None
                                     ELSE index[p] \cup {pending[p]}]
    /\ touched' = touched \ {p}
    /\ acked' = acked \cup {pending[p]}
    /\ pc' = [pc EXCEPT ![p] = "idle"]
    /\ pending' = [pending EXCEPT ![p] = None]
    /\ lock' = None
    /\ UNCHANGED <<file, moved, accepted>>

\* fsync returns: remember the record, move the watermark, answer the caller.
FinishAppend(p) ==
    /\ pc[p] = "written"
    /\ durable' = Len(lines)
    /\ read' = [read EXCEPT ![p] = Append(read[p], pending[p])]
    /\ watermark' = [watermark EXCEPT ![p] = watermark[p] + 1]
    /\ index' = [index EXCEPT ![p] = IF index[p] = None THEN None
                                     ELSE index[p] \cup {pending[p]}]
    /\ touched' = touched \ {p}
    /\ acked' = acked \cup {pending[p]}
    /\ pc' = [pc EXCEPT ![p] = "idle"]
    /\ pending' = [pending EXCEPT ![p] = None]
    /\ lock' = None
    /\ UNCHANGED <<lines, torn, moved, accepted>>

-----------------------------------------------------------------------------
(* The environment.                                                        *)

\* A process dies; the kernel drops its flock.  Dying while it writes may
\* leave a part of the line behind.
Crash(p) ==
    /\ pc[p] # "closed"
    /\ torn' \in IF pc[p] = "writing" THEN {torn, TRUE} ELSE {torn}
    /\ touched' = (IF torn' = torn THEN touched ELSE Open) \ {p}
    /\ pc' = [pc EXCEPT ![p] = "closed"]
    /\ pending' = [pending EXCEPT ![p] = None]
    /\ lock' = IF lock = p THEN None ELSE lock
    /\ read' = [read EXCEPT ![p] = <<>>]
    /\ watermark' = [watermark EXCEPT ![p] = 0]
    /\ index' = [index EXCEPT ![p] = None]
    /\ moved' = moved \ {p}
    /\ UNCHANGED <<lines, durable, acked, accepted>>

\* The machine stops: every process dies and the lines that never reached
\* stable storage may be lost, wholly or in part.
PowerLoss ==
    /\ "power" \in Faults
    /\ \E n \in durable .. Len(lines) :
         /\ lines' = SubSeq(lines, 1, n)
         /\ durable' = n
         /\ torn' \in {FALSE, torn \/ n < Len(lines)}
    /\ lock' = None
    /\ pc' = [p \in Proc |-> "closed"]
    /\ pending' = [p \in Proc |-> None]
    /\ read' = [p \in Proc |-> <<>>]
    /\ watermark' = [p \in Proc |-> 0]
    /\ index' = [p \in Proc |-> None]
    /\ moved' = {}
    /\ touched' = {}
    /\ UNCHANGED <<acked, accepted>>

\* An operator swaps in another file that holds an earlier state of this one.
\* What that removes is no longer owed to anyone.
Replace ==
    /\ "replace" \in Faults
    /\ lock = None
    /\ \E n \in 0 .. Len(lines) :
         /\ lines' = SubSeq(lines, 1, n)
         /\ durable' = n
         /\ acked' = acked \cap Records(SubSeq(lines, 1, n))
         /\ accepted' = accepted \cap Records(SubSeq(lines, 1, n))
    /\ torn' = FALSE
    /\ moved' = Open
    /\ UNCHANGED <<lock, pc, pending, instance, touched>>

\* The same, but in place: the inode stays.
Truncate ==
    /\ "truncate" \in Faults
    /\ lock = None
    /\ \E n \in 0 .. Len(lines) :
         /\ n < Len(lines)
         /\ lines' = SubSeq(lines, 1, n)
         /\ durable' = IF durable < n THEN durable ELSE n
         /\ acked' = acked \cap Records(SubSeq(lines, 1, n))
         /\ accepted' = accepted \cap Records(SubSeq(lines, 1, n))
    /\ torn' = FALSE
    /\ touched' = Open
    /\ UNCHANGED <<lock, pc, pending, instance, moved>>

\* Some other writer adds a complete line that is not a JSON object.  It has
\* to repair a torn tail first, or its bytes would join it.
AlienLine ==
    /\ "alien" \in Faults
    /\ lock = None
    /\ Len(lines) < MaxLines
    /\ lines' = Append(lines, Junk)
    /\ torn' = FALSE
    /\ touched' = Open
    /\ UNCHANGED <<durable, lock, pc, pending, instance, moved, acked, accepted>>

-----------------------------------------------------------------------------
Step(p) ==
    \/ WriteLine(p)
    \/ WriteFails(p)
    \/ FsyncFails(p)
    \/ FinishAppend(p)

Call(p) ==
    \/ Touch(p)
    \/ OpenLedger(p)
    \/ Synchronize(p)
    \/ \E r \in Record : BeginAppend(p, r) \/ BeginUnique(p, r) \/ BeginCompare(p, r)

Environment == PowerLoss \/ Replace \/ Truncate \/ AlienLine

Next ==
    \/ \E p \in Proc : Call(p) \/ Step(p) \/ Crash(p)
    \/ Environment

Spec == Init /\ [][Next]_vars

\* Inside the critical section a process keeps running until the section ends.
Fairness == \A p \in Proc : WF_vars(Step(p))

FairSpec == Spec /\ Fairness
-----------------------------------------------------------------------------
(* Properties.                                                             *)

TypeOK ==
    /\ lines \in Seq(Line)
    /\ torn \in BOOLEAN
    /\ durable \in 0 .. Len(lines)
    /\ lock \in Proc \cup {None}
    /\ pc \in [Proc -> {"closed", "opening", "idle", "writing", "written"}]
    /\ pending \in [Proc -> Record \cup {None}]
    /\ read \in [Proc -> Seq(Line)]
    /\ watermark \in [Proc -> Nat]
    /\ index \in [Proc -> (SUBSET Record) \cup {None}]
    /\ moved \in SUBSET Proc
    /\ touched \in SUBSET Proc
    /\ acked \in SUBSET Record
    /\ accepted \in SUBSET Record

\* An instance whose staleness check passes really holds a prefix of the file,
\* exactly as long as its watermark says, and indexes exactly its records: the
\* check of _sync_tail_locked is all that protects a tail merge.
FreshMeansPrefix ==
    \A p \in Open : ~Stale(p) =>
        /\ watermark[p] <= Len(lines)
        /\ read[p] = SubSeq(lines, 1, watermark[p])
        /\ index[p] # None => index[p] = Records(read[p])

\* Every record in the file was admitted by the operation that wrote it, judged
\* against ALL the records before it, whoever wrote those and whatever the
\* writer had read: first write wins, and transitions follow the caller's rule.
EveryLineAdmitted ==
    \A i \in 1 .. Len(lines) :
        lines[i] # Junk => Admit(Records(SubSeq(lines, 1, i - 1)), lines[i])

\* A record whose caller was told "appended" is on stable storage for good:
\* it survives crashes of every process and the loss of unflushed lines.
AppendedIsDurable == acked \subseteq Records(SubSeq(lines, 1, durable))

\* The ledger as its users see it: a log that grows by admitted lines, loses only
\* what is not on stable storage, and is otherwise never rewritten.
Log == INSTANCE DurableLog
         WITH log <- lines, durable <- durable, Entry <- Line, Mark <- Junk,
              Admit <- Admit, Restorable <- Faults \cap {"replace", "truncate"} # {}
ImplementsDurableLog == Log!Spec

\* Once an append has entered the critical section it leaves it: the caller gets
\* its answer or its exception, or is dead, and the lock is free again.
AppendReturns == \A p \in Proc : lock = p ~> lock # p

\* The same holds of a record whose caller was told it is there already:
\* "returns True if the record was durably accepted" (Substrate.capture).
AcceptedIsDurable == accepted \subseteq Records(SubSeq(lines, 1, durable))
=============================================================================
