---------------------------- MODULE LedgerProofs ----------------------------
(***************************************************************************)
(* Theorems about Ledger, for every number of processes, every set of keys *)
(* and values, every transition rule and every bound on the file.          *)
(***************************************************************************)
EXTENDS Ledger, SequenceTheorems, TLAPS

-----------------------------------------------------------------------------
(* Sequences of lines.                                                     *)

LEMMA PrefixType ==
    ASSUME NEW S, NEW s \in Seq(S), NEW n \in 0 .. Len(s)
    PROVE  /\ SubSeq(s, 1, n) \in Seq(S)
           /\ Len(SubSeq(s, 1, n)) = n
           /\ \A i \in 1 .. n : SubSeq(s, 1, n)[i] = s[i]
    OBVIOUS

LEMMA WholeIsPrefix ==
    ASSUME NEW S, NEW s \in Seq(S)
    PROVE  SubSeq(s, 1, Len(s)) = s
    OBVIOUS

LEMMA PrefixOfPrefix ==
    ASSUME NEW S, NEW s \in Seq(S), NEW n \in 0 .. Len(s), NEW m \in 0 .. n
    PROVE  SubSeq(SubSeq(s, 1, n), 1, m) = SubSeq(s, 1, m)
    OBVIOUS

LEMMA PrefixOfAppend ==
    ASSUME NEW S, NEW s \in Seq(S), NEW e \in S, NEW n \in 0 .. Len(s)
    PROVE  SubSeq(Append(s, e), 1, n) = SubSeq(s, 1, n)
    OBVIOUS

LEMMA PrefixAndRest ==
    ASSUME NEW S, NEW s \in Seq(S), NEW n \in 0 .. Len(s)
    PROVE  SubSeq(s, 1, n) \o SubSeq(s, n + 1, Len(s)) = s
<1>1. Len(s) \in Nat
    BY LenProperties
<1>2. 1 \in 1 .. Len(s) + 1 /\ n \in 0 .. Len(s) /\ Len(s) \in n .. Len(s)
    BY <1>1
<1>3. n \in 1 - 1 .. Len(s)
    OBVIOUS
<1>4. SubSeq(s, 1, n) \o SubSeq(s, n + 1, Len(s)) = SubSeq(s, 1, Len(s))
    BY <1>2, <1>3, ConcatAdjacentSubSeq, Zenon
<1> QED
    BY <1>4, SubSeqFull

LEMMA RestType ==
    ASSUME NEW S, NEW s \in Seq(S), NEW n \in Nat
    PROVE  SubSeq(s, n + 1, Len(s)) \in Seq(S)
    OBVIOUS

(* Records.                                                                *)

LEMMA RecordsType ==
    ASSUME NEW s \in Seq(Line)
    PROVE  Records(s) \in SUBSET Record
<1>1. \A i \in DOMAIN s : s[i] \in Line
    BY LenProperties
<1>2. \A r \in Records(s) : r \in Record
    BY <1>1 DEF Records, ToSet, Line
<1> QED
    BY <1>2

LEMMA RecordsOfAppend ==
    ASSUME NEW s \in Seq(Line), NEW r \in Record
    PROVE  Records(Append(s, r)) = Records(s) \cup {r}
<1>1. /\ DOMAIN s = 1 .. Len(s)
      /\ Len(s) \in Nat
      /\ DOMAIN Append(s, r) = 1 .. Len(s) + 1
      /\ \A i \in 1 .. Len(s) : Append(s, r)[i] = s[i]
      /\ Append(s, r)[Len(s) + 1] = r
    BY DEF Line
<1>2. ToSet(Append(s, r)) \subseteq ToSet(s) \cup {r}
    BY <1>1 DEF ToSet
<1>3. ToSet(s) \cup {r} \subseteq ToSet(Append(s, r))
    BY <1>1 DEF ToSet
<1>4. r # Junk
    BY LedgerAssumption
<1> QED
    BY <1>2, <1>3, <1>4 DEF Records

LEMMA RecordsGrow ==
    ASSUME NEW s \in Seq(Line), NEW n \in 0 .. Len(s), NEW m \in 0 .. n
    PROVE  Records(SubSeq(s, 1, m)) \subseteq Records(SubSeq(s, 1, n))
    BY DEF Records, ToSet

LEMMA LastIsRecord ==
    ASSUME NEW s \in Seq(Line), Len(s) > 0, s[Len(s)] \in Record
    PROVE  s[Len(s)] \in Records(SubSeq(s, 1, Len(s)))
    BY LedgerAssumption DEF Records, ToSet

-----------------------------------------------------------------------------
(* Type correctness.                                                       *)

LEMMA SyncTypes ==
    ASSUME TypeOK, NEW p \in Proc
    PROVE  /\ SyncedRead(p) \in Seq(Line)
           /\ SyncedIndex(p) \in (SUBSET Record) \cup {None}
           /\ LookupIndex(p) \in (SUBSET Record) \cup {None}
<1>1. NewLines(p) \in Seq(Line)
    BY RestType DEF TypeOK, NewLines
<1>2. SyncedRead(p) \in Seq(Line)
    BY <1>1, ConcatProperties DEF SyncedRead, TypeOK
<1>3. Records(NewLines(p)) \in SUBSET Record /\ Records(SyncedRead(p)) \in SUBSET Record
    BY <1>1, <1>2, RecordsType
<1>4. SyncedIndex(p) \in (SUBSET Record) \cup {None}
    BY <1>3 DEF SyncedIndex, TypeOK
<1> QED
    BY <1>2, <1>3, <1>4 DEF LookupIndex

\* What the shared beginning of every operation preserves.
LEMMA SyncTailTypes ==
    ASSUME TypeOK, NEW p \in Proc, NEW ix \in (SUBSET Record) \cup {None},
           SyncTail(p, ix), lines' = lines
    PROVE  /\ torn' \in BOOLEAN
           /\ read' \in [Proc -> Seq(Line)]
           /\ watermark' \in [Proc -> Nat]
           /\ index' \in [Proc -> (SUBSET Record) \cup {None}]
           /\ moved' \in SUBSET Proc
           /\ touched' \in SUBSET Proc
<1>1. p \in Proc /\ Len(lines) \in Nat
    BY LenProperties DEF TypeOK
<1>2. moved' \in SUBSET Proc /\ touched' \in SUBSET Proc
    BY DEF TypeOK, SyncTail, TouchedByRepair, Open
<1>3. torn' \in BOOLEAN /\ watermark' \in [Proc -> Nat]
    BY <1>1 DEF TypeOK, SyncTail
<1>4. read' \in [Proc -> Seq(Line)]
    BY SyncTypes DEF TypeOK, SyncTail
<1>5. index' \in [Proc -> (SUBSET Record) \cup {None}]
    BY DEF TypeOK, SyncTail
<1> QED
    BY <1>2, <1>3, <1>4, <1>5

LEMMA StartWriteTypes ==
    ASSUME TypeOK, NEW p \in Proc, NEW r \in Record, StartWrite(p, r)
    PROVE  /\ UNCHANGED <<lines, durable, acked, accepted>>
           /\ lock' \in Proc \cup {None}
           /\ pc' \in [Proc -> {"closed", "opening", "idle", "writing", "written"}]
           /\ pending' \in [Proc -> Record \cup {None}]
    BY DEF TypeOK, StartWrite

LEMMA DeclineTypes ==
    ASSUME TypeOK, NEW p \in Proc, NEW r \in Record, Decline(p, r)
    PROVE  /\ UNCHANGED <<lines, durable, lock, pc, pending, acked>>
           /\ accepted' \in SUBSET Record
    BY DEF TypeOK, Decline

\* The critical section: the flock is held exactly by the process that is
\* between its decision and its answer; what it wrote is the last line.
SectionOK ==
    \A p \in Proc :
        /\ lock = p <=> pc[p] \in {"writing", "written"}
        /\ lock = p => pending[p] \in Record
        /\ pc[p] = "written" => Len(lines) > 0 /\ lines[Len(lines)] = pending[p]

LEMMA InitTypes == Init => TypeOK /\ SectionOK
<1> SUFFICES ASSUME Init PROVE TypeOK /\ SectionOK
    OBVIOUS
<1>1. lines \in Seq(Line) /\ durable \in 0 .. Len(lines)
    BY EmptySeq DEF Init
<1>2. read \in [Proc -> Seq(Line)] /\ watermark \in [Proc -> Nat]
    BY EmptySeq DEF Init
<1>3. index \in [Proc -> (SUBSET Record) \cup {None}]
    BY DEF Init
<1>4. pending \in [Proc -> Record \cup {None}]
    BY DEF Init
<1>5. pc \in [Proc -> {"closed", "opening", "idle", "writing", "written"}]
    BY DEF Init
<1>6. /\ torn \in BOOLEAN
      /\ lock \in Proc \cup {None}
      /\ moved \in SUBSET Proc
      /\ touched \in SUBSET Proc
      /\ acked \in SUBSET Record
      /\ accepted \in SUBSET Record
    BY DEF Init
<1>7. SectionOK
    BY LedgerAssumption DEF Init, SectionOK
<1> QED
    BY <1>1, <1>2, <1>3, <1>4, <1>5, <1>6, <1>7 DEF TypeOK

LEMMA TouchTypes ==
    ASSUME TypeOK, SectionOK, NEW p \in Proc, Touch(p)
    PROVE  TypeOK' /\ SectionOK'
<1>1. touched' \in SUBSET Proc
    BY DEF Touch, Open
<1>2. UNCHANGED <<lines, torn, durable, lock, pending, read, watermark, index, moved,
                  acked, accepted>>
    BY DEF Touch, file, instance
<1>3. /\ pc' \in [Proc -> {"closed", "opening", "idle", "writing", "written"}]
      /\ pc[p] = "closed" /\ pc'[p] = "opening"
      /\ \A q \in Proc \ {p} : pc'[q] = pc[q]
    BY DEF Touch, TypeOK
<1>4. TypeOK'
    BY <1>1, <1>2, <1>3 DEF TypeOK
<1>5. SectionOK'
    BY <1>2, <1>3 DEF SectionOK
<1> QED
    BY <1>4, <1>5

LEMMA OpenTypes ==
    ASSUME TypeOK, SectionOK, NEW p \in Proc, OpenLedger(p)
    PROVE  TypeOK' /\ SectionOK'
<1>1. Len(lines) \in Nat
    BY LenProperties DEF TypeOK
<1>2. read' \in [Proc -> Seq(Line)] /\ watermark' \in [Proc -> Nat]
    BY <1>1 DEF TypeOK, OpenLedger
<1>3. index' \in [Proc -> (SUBSET Record) \cup {None}]
    BY DEF TypeOK, OpenLedger
<1>4. touched' \in SUBSET Proc
    BY DEF TypeOK, OpenLedger, TouchedByRepair, Open
<1>5. pc' \in [Proc -> {"closed", "opening", "idle", "writing", "written"}]
    BY DEF TypeOK, OpenLedger
<1>6. TypeOK'
    BY <1>2, <1>3, <1>4, <1>5 DEF TypeOK, OpenLedger
<1>7. SectionOK'
    BY DEF TypeOK, SectionOK, OpenLedger
<1> QED
    BY <1>6, <1>7

LEMMA SynchronizeTypes ==
    ASSUME TypeOK, SectionOK, NEW p \in Proc, Synchronize(p)
    PROVE  TypeOK' /\ SectionOK'
<1>1. TypeOK'
    BY SyncTypes, SyncTailTypes DEF TypeOK, Synchronize
<1>2. SectionOK'
    BY DEF SectionOK, Synchronize
<1> QED
    BY <1>1, <1>2

LEMMA BeginTypes ==
    ASSUME TypeOK, SectionOK, NEW p \in Proc, NEW r \in Record,
           NEW ix \in (SUBSET Record) \cup {None}, SyncTail(p, ix),
           StartWrite(p, r) \/ Decline(p, r)
    PROVE  TypeOK' /\ SectionOK'
<1>1. CASE StartWrite(p, r)
    <2>1. lines' = lines /\ pc[p] = "idle" /\ lock = None
        BY <1>1 DEF StartWrite, SyncTail
    <2>2. TypeOK'
        BY <1>1, <2>1, SyncTailTypes, StartWriteTypes DEF TypeOK
    <2>3. SectionOK'
        BY <1>1, <2>1, LedgerAssumption DEF TypeOK, SectionOK, StartWrite
    <2> QED
        BY <2>2, <2>3
<1>2. CASE Decline(p, r)
    <2>1. lines' = lines
        BY <1>2 DEF Decline
    <2>2. TypeOK'
        BY <1>2, <2>1, SyncTailTypes, DeclineTypes DEF TypeOK
    <2>3. SectionOK'
        BY <1>2 DEF SectionOK, Decline
    <2> QED
        BY <2>2, <2>3
<1> QED
    BY <1>1, <1>2

LEMMA WriteTypes ==
    ASSUME TypeOK, SectionOK, NEW p \in Proc, WriteLine(p)
    PROVE  TypeOK' /\ SectionOK'
<1>1. pending[p] \in Line /\ Len(lines) \in Nat
    BY LenProperties DEF TypeOK, SectionOK, WriteLine, Line
<1>2. /\ lines' \in Seq(Line)
      /\ Len(lines') = Len(lines) + 1
      /\ lines'[Len(lines')] = pending[p]
    BY <1>1 DEF TypeOK, WriteLine
<1>3. TypeOK'
    BY <1>1, <1>2 DEF TypeOK, WriteLine, instance, Open
<1>4. SectionOK'
    BY <1>1, <1>2 DEF TypeOK, SectionOK, WriteLine, instance
<1> QED
    BY <1>3, <1>4

LEMMA FailTypes ==
    ASSUME TypeOK, SectionOK, NEW p \in Proc, WriteFails(p) \/ FsyncFails(p)
    PROVE  TypeOK' /\ SectionOK'
<1>1. TypeOK'
    BY DEF TypeOK, WriteFails, FsyncFails, instance, file, Open
<1>2. SectionOK'
    BY LedgerAssumption DEF TypeOK, SectionOK, WriteFails, FsyncFails, instance, file
<1> QED
    BY <1>1, <1>2

LEMMA FinishTypes ==
    ASSUME TypeOK, SectionOK, NEW p \in Proc, FinishAppend(p)
    PROVE  TypeOK' /\ SectionOK'
<1>1. pending[p] \in Record /\ pending[p] \in Line /\ Len(lines) \in Nat
    BY LenProperties DEF TypeOK, SectionOK, FinishAppend, Line
<1>2. read' \in [Proc -> Seq(Line)]
    BY <1>1 DEF TypeOK, FinishAppend
<1>3. index' \in [Proc -> (SUBSET Record) \cup {None}]
    BY <1>1 DEF TypeOK, FinishAppend
<1>4. TypeOK'
    BY <1>1, <1>2, <1>3 DEF TypeOK, FinishAppend
<1>5. SectionOK'
    BY LedgerAssumption DEF TypeOK, SectionOK, FinishAppend
<1> QED
    BY <1>4, <1>5

LEMMA CrashTypes ==
    ASSUME TypeOK, SectionOK, NEW p \in Proc, Crash(p)
    PROVE  TypeOK' /\ SectionOK'
<1>1. read' \in [Proc -> Seq(Line)] /\ watermark' \in [Proc -> Nat]
    BY EmptySeq DEF TypeOK, Crash
<1>2. index' \in [Proc -> (SUBSET Record) \cup {None}]
    BY DEF TypeOK, Crash
<1>3. pending' \in [Proc -> Record \cup {None}] /\ lock' \in Proc \cup {None}
    BY DEF TypeOK, Crash
<1>4. torn' \in BOOLEAN
    BY DEF TypeOK, Crash
<1>5. touched' \in SUBSET Proc /\ moved' \in SUBSET Proc
    BY DEF TypeOK, Crash, Open
<1>6. TypeOK'
    BY <1>1, <1>2, <1>3, <1>4, <1>5 DEF TypeOK, Crash
<1>7. SectionOK'
    BY LedgerAssumption DEF TypeOK, SectionOK, Crash
<1> QED
    BY <1>6, <1>7

LEMMA EnvironmentTypes ==
    ASSUME TypeOK, SectionOK, Environment
    PROVE  TypeOK' /\ SectionOK'
<1>1. CASE PowerLoss
    <2>1. PICK n \in durable .. Len(lines) :
              /\ lines' = SubSeq(lines, 1, n)
              /\ durable' = n
              /\ torn' \in {FALSE, torn \/ n < Len(lines)}
        BY <1>1 DEF PowerLoss
    <2>2. n \in 0 .. Len(lines) /\ Len(lines) \in Nat
        BY LenProperties DEF TypeOK
    <2>3. lines' \in Seq(Line) /\ durable' \in 0 .. Len(lines')
        BY <2>1, <2>2, PrefixType DEF TypeOK
    <2>4. torn' \in BOOLEAN
        BY <2>1 DEF TypeOK
    <2>5. read' \in [Proc -> Seq(Line)] /\ watermark' \in [Proc -> Nat]
        BY <1>1, EmptySeq DEF PowerLoss
    <2>6. index' \in [Proc -> (SUBSET Record) \cup {None}]
        BY <1>1 DEF PowerLoss
    <2>7. pending' \in [Proc -> Record \cup {None}]
        BY <1>1 DEF PowerLoss
    <2>8. TypeOK'
        BY <1>1, <2>3, <2>4, <2>5, <2>6, <2>7 DEF TypeOK, PowerLoss
    <2>9. SectionOK'
        BY <1>1, LedgerAssumption DEF SectionOK, PowerLoss
    <2> QED
        BY <2>8, <2>9
<1>2. CASE Replace \/ Truncate
    <2>1. PICK n \in 0 .. Len(lines) :
              /\ lines' = SubSeq(lines, 1, n)
              /\ durable' \in 0 .. n
              /\ acked' = acked \cap Records(SubSeq(lines, 1, n))
              /\ accepted' = accepted \cap Records(SubSeq(lines, 1, n))
        <3>1. durable \in Nat /\ Len(lines) \in Nat
            BY LenProperties DEF TypeOK
        <3>2. CASE Replace
            BY <3>1, <3>2 DEF Replace
        <3>3. CASE Truncate
            BY <3>1, <3>3 DEF Truncate
        <3> QED
            BY <1>2, <3>2, <3>3
    <2>2. lines' \in Seq(Line) /\ durable' \in 0 .. Len(lines')
        BY <2>1, PrefixType DEF TypeOK
    <2>3. acked' \in SUBSET Record /\ accepted' \in SUBSET Record
        BY <2>1 DEF TypeOK
    <2>4. TypeOK'
        BY <1>2, <2>2, <2>3 DEF TypeOK, Replace, Truncate, instance, Open
    <2>5. \A q \in Proc : lock # q /\ pc[q] \notin {"writing", "written"}
        BY <1>2, LedgerAssumption DEF SectionOK, Replace, Truncate
    <2>6. SectionOK'
        BY <1>2, <2>5 DEF SectionOK, Replace, Truncate, instance
    <2> QED
        BY <2>4, <2>6
<1>3. CASE AlienLine
    <2>1. Junk \in Line /\ Len(lines) \in Nat
        BY LenProperties DEF TypeOK, Line
    <2>2. lines' \in Seq(Line) /\ Len(lines') = Len(lines) + 1
        BY <1>3, <2>1 DEF TypeOK, AlienLine
    <2>3. TypeOK'
        <3>1. durable' \in 0 .. Len(lines')
            BY <1>3, <2>1, <2>2 DEF TypeOK, AlienLine
        <3>2. touched' \in SUBSET Proc /\ torn' \in BOOLEAN
            BY <1>3 DEF AlienLine, Open
        <3> QED
            BY <1>3, <2>2, <3>1, <3>2 DEF TypeOK, AlienLine, instance
    <2>4. \A q \in Proc : lock # q /\ pc[q] \notin {"writing", "written"}
        BY <1>3, LedgerAssumption DEF SectionOK, AlienLine
    <2>5. SectionOK'
        BY <1>3, <2>4 DEF SectionOK, AlienLine, instance
    <2> QED
        BY <2>3, <2>5
<1> QED
    BY <1>1, <1>2, <1>3 DEF Environment

LEMMA NextTypes == TypeOK /\ SectionOK /\ [Next]_vars => TypeOK' /\ SectionOK'
<1> SUFFICES ASSUME TypeOK, SectionOK, [Next]_vars PROVE TypeOK' /\ SectionOK'
    OBVIOUS
<1>1. ASSUME NEW p \in Proc, Call(p) PROVE TypeOK' /\ SectionOK'
    <2>1. CASE Touch(p) \/ OpenLedger(p) \/ Synchronize(p)
        BY <2>1, TouchTypes, OpenTypes, SynchronizeTypes
    <2>2. ASSUME NEW r \in Record,
                 BeginAppend(p, r) \/ BeginUnique(p, r) \/ BeginCompare(p, r)
          PROVE  TypeOK' /\ SectionOK'
        <3>1. CASE BeginAppend(p, r)
            BY <3>1, SyncTypes, BeginTypes DEF BeginAppend
        <3>2. CASE BeginUnique(p, r) \/ BeginCompare(p, r)
            BY <3>2, SyncTypes, BeginTypes DEF BeginUnique, BeginCompare
        <3> QED
            BY <2>2, <3>1, <3>2
    <2> QED
        BY <1>1, <2>1, <2>2 DEF Call
<1>2. ASSUME NEW p \in Proc, Step(p) PROVE TypeOK' /\ SectionOK'
    BY <1>2, WriteTypes, FailTypes, FinishTypes DEF Step
<1>3. ASSUME NEW p \in Proc, Crash(p) PROVE TypeOK' /\ SectionOK'
    BY <1>3, CrashTypes
<1>4. CASE Environment
    BY <1>4, EnvironmentTypes
<1>5. CASE UNCHANGED vars
    BY <1>5 DEF TypeOK, SectionOK, vars
<1> QED
    BY <1>1, <1>2, <1>3, <1>4, <1>5 DEF Next

\* Every variable keeps its type: in particular no more lines are ever counted
\* as durable than the file holds.
THEOREM TypeCorrect == Spec => []TypeOK
<1>1. Init => TypeOK /\ SectionOK
    BY InitTypes
<1>2. TypeOK /\ SectionOK /\ [Next]_vars => TypeOK' /\ SectionOK'
    BY NextTypes
<1> QED
    BY <1>1, <1>2, PTL DEF Spec
-----------------------------------------------------------------------------
(* Durability.                                                             *)

LEMMA NextDurable ==
    ASSUME TypeOK, SectionOK, AppendedIsDurable, [Next]_vars
    PROVE  AppendedIsDurable'
<1> DEFINE Safe == Records(SubSeq(lines, 1, durable))
<1>1. /\ durable \in 0 .. Len(lines)
      /\ Len(lines) \in 0 .. Len(lines)
      /\ Len(lines) \in Nat
      /\ durable \in Nat
    BY LenProperties DEF TypeOK
<1>2. CASE UNCHANGED <<lines, durable, acked>>
    BY <1>2 DEF AppendedIsDurable
<1>3. ASSUME NEW p \in Proc, WriteLine(p) PROVE AppendedIsDurable'
    <2>1. pending[p] \in Line
        BY <1>3 DEF SectionOK, WriteLine, Line
    <2>2. SubSeq(lines', 1, durable) = SubSeq(lines, 1, durable)
        BY <1>1, <1>3, <2>1, PrefixOfAppend DEF TypeOK, WriteLine
    <2> QED
        BY <1>3, <2>2 DEF AppendedIsDurable, WriteLine
<1>4. ASSUME NEW p \in Proc, FinishAppend(p) PROVE AppendedIsDurable'
    <2>1. /\ Len(lines) > 0
          /\ lines[Len(lines)] = pending[p]
          /\ pending[p] \in Record
        BY <1>4 DEF SectionOK, FinishAppend
    <2>2. pending[p] \in Records(SubSeq(lines, 1, Len(lines)))
        BY <2>1, LastIsRecord DEF TypeOK
    <2>3. Safe \subseteq Records(SubSeq(lines, 1, Len(lines)))
        BY <1>1, RecordsGrow DEF TypeOK
    <2> QED
        BY <1>4, <2>2, <2>3 DEF AppendedIsDurable, FinishAppend
<1>5. CASE PowerLoss
    <2>1. PICK n \in durable .. Len(lines) : lines' = SubSeq(lines, 1, n) /\ durable' = n
        BY <1>5 DEF PowerLoss
    <2>2. n \in 0 .. Len(lines) /\ n \in 0 .. n /\ durable \in 0 .. n
        BY <1>1
    <2>3. SubSeq(lines', 1, n) = SubSeq(lines, 1, n)
        BY <2>1, <2>2, PrefixOfPrefix DEF TypeOK
    <2>4. Safe \subseteq Records(SubSeq(lines, 1, n))
        BY <2>2, RecordsGrow DEF TypeOK
    <2> QED
        BY <1>5, <2>1, <2>3, <2>4 DEF AppendedIsDurable, PowerLoss
<1>6. CASE Replace \/ Truncate
    <2>1. PICK n \in 0 .. Len(lines) :
              /\ lines' = SubSeq(lines, 1, n)
              /\ durable' = n \/ (durable' = durable /\ durable < n)
              /\ acked' = acked \cap Records(SubSeq(lines, 1, n))
        <3>1. CASE Replace
            BY <3>1 DEF Replace
        <3>2. CASE Truncate
            <4>1. PICK m \in 0 .. Len(lines) :
                      /\ lines' = SubSeq(lines, 1, m)
                      /\ durable' = IF durable < m THEN durable ELSE m
                      /\ acked' = acked \cap Records(SubSeq(lines, 1, m))
                BY <3>2 DEF Truncate
            <4>2. CASE durable < m
                BY <4>1, <4>2
            <4>3. CASE ~(durable < m)
                BY <4>1, <4>3
            <4> QED
                BY <4>2, <4>3
        <3> QED
            BY <1>6, <3>1, <3>2
    <2>2. CASE durable' = n
        <3>1. SubSeq(lines', 1, n) = SubSeq(lines, 1, n)
            BY <1>1, <2>1, PrefixOfPrefix DEF TypeOK
        <3> QED
            BY <2>1, <2>2, <3>1 DEF AppendedIsDurable
    <2>3. CASE durable' = durable /\ durable < n
        <3>1. durable \in 0 .. n
            BY <1>1, <2>3
        <3>2. SubSeq(lines', 1, durable) = SubSeq(lines, 1, durable)
            BY <2>1, <3>1, PrefixOfPrefix DEF TypeOK
        <3> QED
            BY <2>1, <2>3, <3>2 DEF AppendedIsDurable
    <2> QED
        BY <2>1, <2>2, <2>3
<1>7. CASE AlienLine
    <2>1. SubSeq(lines', 1, durable) = SubSeq(lines, 1, durable)
        BY <1>1, <1>7, PrefixOfAppend DEF TypeOK, AlienLine, Line
    <2> QED
        BY <1>7, <2>1 DEF AppendedIsDurable, AlienLine
<1>8. ASSUME NEW p \in Proc, Call(p) \/ Crash(p) \/ WriteFails(p) \/ FsyncFails(p)
      PROVE  UNCHANGED <<lines, durable, acked>>
    BY <1>8 DEF Call, Touch, OpenLedger, Synchronize, BeginAppend, BeginUnique, BeginCompare,
                StartWrite, Decline, Crash, WriteFails, FsyncFails, file
<1> QED
    BY <1>2, <1>3, <1>4, <1>5, <1>6, <1>7, <1>8 DEF Next, Step, Environment, vars

\* A caller told "appended" can rely on it: whatever processes die and whatever
\* unflushed lines a power failure takes, the record stays in the file.
THEOREM AppendIsDurable == Spec => []AppendedIsDurable
<1>1. Init => TypeOK /\ SectionOK /\ AppendedIsDurable
    BY InitTypes DEF Init, AppendedIsDurable
<1>2. TypeOK /\ SectionOK /\ AppendedIsDurable /\ [Next]_vars
      => TypeOK' /\ SectionOK' /\ AppendedIsDurable'
    BY NextTypes, NextDurable
<1> QED
    BY <1>1, <1>2, PTL DEF Spec
-----------------------------------------------------------------------------
(* What instances know of the file.                                        *)

LEMMA PrefixAndLast ==
    ASSUME NEW S, NEW s \in Seq(S), NEW n \in Nat, n + 1 = Len(s)
    PROVE  Append(SubSeq(s, 1, n), s[Len(s)]) = s
    OBVIOUS

LEMMA RecordsOfConcat ==
    ASSUME NEW s \in Seq(Line), NEW t \in Seq(Line)
    PROVE  Records(s \o t) = Records(s) \cup Records(t)
<1>1. /\ DOMAIN s = 1 .. Len(s) /\ Len(s) \in Nat
      /\ DOMAIN t = 1 .. Len(t) /\ Len(t) \in Nat
      /\ DOMAIN (s \o t) = 1 .. Len(s) + Len(t)
      /\ \A i \in 1 .. Len(s) : (s \o t)[i] = s[i]
      /\ \A i \in 1 .. Len(t) : (s \o t)[Len(s) + i] = t[i]
    BY ConcatProperties, LenProperties
<1>2. ASSUME NEW i \in DOMAIN (s \o t)
      PROVE  (s \o t)[i] \in ToSet(s) \cup ToSet(t)
    <2>1. CASE i <= Len(s)
        BY <1>1, <2>1 DEF ToSet
    <2>2. CASE i > Len(s)
        <3>1. i - Len(s) \in 1 .. Len(t) /\ Len(s) + (i - Len(s)) = i
            BY <1>1, <2>2
        <3>2. (s \o t)[i] = t[i - Len(s)]
            BY <1>1, <3>1
        <3> QED
            BY <1>1, <3>1, <3>2 DEF ToSet
    <2> QED
        BY <1>1, <2>1, <2>2
<1>3. ToSet(s \o t) \subseteq ToSet(s) \cup ToSet(t)
    BY <1>2 DEF ToSet
<1>4. ToSet(s) \subseteq ToSet(s \o t)
    BY <1>1 DEF ToSet
<1>5. ASSUME NEW i \in DOMAIN t PROVE t[i] \in ToSet(s \o t)
    <2>1. Len(s) + i \in DOMAIN (s \o t) /\ (s \o t)[Len(s) + i] = t[i]
        BY <1>1
    <2> QED
        BY <2>1 DEF ToSet
<1>6. ToSet(t) \subseteq ToSet(s \o t)
    BY <1>5 DEF ToSet
<1> QED
    BY <1>3, <1>4, <1>6 DEF Records

\* What p knows is the beginning of the file, as far as its watermark says.
Knows(p) ==
    /\ watermark[p] \in 0 .. Len(lines)
    /\ read[p] = SubSeq(lines, 1, watermark[p])
    /\ index[p] # None => index[p] = Records(read[p])

\* The strengthening: only a file swapped behind an instance's back can make what
\* it knows wrong, and that never happens inside a critical section, in which an
\* instance is exactly up to date.
SnapshotOK ==
    \A p \in Proc :
        /\ pc[p] \notin {"closed", "opening"} /\ p \notin moved => Knows(p)
        /\ lock = p => p \notin moved
        /\ pc[p] = "writing" => /\ watermark[p] = Len(lines)
                               /\ Admit(Records(lines), pending[p])
        /\ pc[p] = "written" => watermark[p] + 1 = Len(lines)

\* Synchronized, an instance has read the whole file and judges by all of it.
LEMMA SyncedIsFile ==
    ASSUME TypeOK, SnapshotOK, NEW p \in Proc, pc[p] = "idle"
    PROVE  /\ SyncedRead(p) = lines
           /\ SyncedIndex(p) \in {None, Records(lines)}
           /\ LookupIndex(p) = Records(lines)
<1>1. CASE Stale(p)
    BY <1>1 DEF SyncedRead, SyncedIndex, LookupIndex
<1>2. CASE ~Stale(p)
    <2>1. Knows(p)
        BY <1>2 DEF SnapshotOK, Stale
    <2>2. /\ watermark[p] \in 0 .. Len(lines)
          /\ watermark[p] \in Nat
          /\ read[p] \in Seq(Line)
          /\ NewLines(p) \in Seq(Line)
        BY <2>1, RestType DEF Knows, TypeOK, NewLines
    <2>3. read[p] \o NewLines(p) = lines
        BY <2>1, <2>2, PrefixAndRest DEF Knows, NewLines, TypeOK
    <2>4. SyncedRead(p) = lines
        BY <1>2, <2>3 DEF SyncedRead
    <2>5. Records(lines) = Records(read[p]) \cup Records(NewLines(p))
        BY <2>2, <2>3, RecordsOfConcat
    <2>6. SyncedIndex(p) \in {None, Records(lines)}
        BY <1>2, <2>1, <2>5 DEF SyncedIndex, Knows
    <2> QED
        BY <2>4, <2>6 DEF LookupIndex
<1> QED
    BY <1>1, <1>2

LEMMA SyncTailKnows ==
    ASSUME TypeOK, SnapshotOK, NEW p \in Proc, NEW ix \in {None, Records(lines)},
           SyncTail(p, ix), lines' = lines
    PROVE  /\ Knows(p)' /\ p \notin moved' /\ moved' \subseteq moved
           /\ watermark'[p] = Len(lines)
           /\ \A q \in Proc \ {p} :
                 /\ Knows(q) => Knows(q)'
                 /\ watermark'[q] = watermark[q]
                 /\ q \in moved' <=> q \in moved
<1>1. Len(lines) \in Nat /\ Len(lines) \in 0 .. Len(lines)
    BY LenProperties DEF TypeOK
<1>2. SyncedRead(p) = lines
    BY SyncedIsFile DEF SyncTail
<1>3. SubSeq(lines, 1, Len(lines)) = lines
    BY WholeIsPrefix DEF TypeOK
<1>4. /\ read'[p] = lines
      /\ watermark'[p] = Len(lines)
      /\ index'[p] = ix
    BY <1>2 DEF TypeOK, SyncTail
<1>5. Knows(p)'
    BY <1>1, <1>3, <1>4 DEF Knows
<1>6. ASSUME NEW q \in Proc \ {p}
      PROVE  /\ read'[q] = read[q]
             /\ watermark'[q] = watermark[q]
             /\ index'[q] = index[q]
    BY DEF TypeOK, SyncTail
<1>7. ASSUME NEW q \in Proc \ {p}, Knows(q) PROVE Knows(q)'
    BY <1>6, <1>7 DEF Knows
<1> QED
    BY <1>4, <1>5, <1>6, <1>7 DEF SyncTail
LEMMA BeginKnows ==
    ASSUME TypeOK, SectionOK, SnapshotOK, NEW p \in Proc, NEW r \in Record,
           NEW ix \in {None, Records(lines)}, SyncTail(p, ix),
           \/ StartWrite(p, r) /\ Admit(Records(lines), r)
           \/ Decline(p, r)
    PROVE  SnapshotOK'
<1>1. lines' = lines /\ pc[p] = "idle" /\ lock = None
    BY DEF StartWrite, Decline, SyncTail
<1>2. /\ Knows(p)' /\ p \notin moved' /\ watermark'[p] = Len(lines)
      /\ \A q \in Proc \ {p} :
            /\ Knows(q) => Knows(q)'
            /\ watermark'[q] = watermark[q]
            /\ q \in moved' <=> q \in moved
    BY <1>1, SyncTailKnows
<1>3. /\ pc'[p] \in {"idle", "writing"}
      /\ pc'[p] = "writing" => Admit(Records(lines), pending'[p])
      /\ \A q \in Proc \ {p} : pc'[q] = pc[q] /\ pending'[q] = pending[q]
      /\ \A q \in Proc \ {p} : lock' # q
    BY <1>1, LedgerAssumption DEF TypeOK, StartWrite, Decline
<1> QED
    BY <1>1, <1>2, <1>3, Zenon DEF SnapshotOK

LEMMA CallKnows ==
    ASSUME TypeOK, SectionOK, SnapshotOK, NEW p \in Proc, Call(p)
    PROVE  SnapshotOK'
<1>0. CASE Touch(p)
    <2>1. UNCHANGED <<lines, lock, pending, read, watermark, index, moved>>
        BY <1>0 DEF Touch, file, instance
    <2>2. /\ pc'[p] = "opening" /\ \A q \in Proc \ {p} : pc'[q] = pc[q]
        BY <1>0 DEF Touch, TypeOK
    <2>3. \A q \in Proc : Knows(q)' <=> Knows(q)
        BY <2>1 DEF Knows
    <2> QED
        BY <2>1, <2>2, <2>3 DEF SnapshotOK
<1>1. CASE OpenLedger(p)
    <2>1. Len(lines) \in 0 .. Len(lines) /\ SubSeq(lines, 1, Len(lines)) = lines
        BY LenProperties, WholeIsPrefix DEF TypeOK
    <2>2. Knows(p)'
        BY <1>1, <2>1 DEF TypeOK, OpenLedger, Knows
    <2>3. ASSUME NEW q \in Proc \ {p}, Knows(q) PROVE Knows(q)'
        BY <1>1, <2>3 DEF TypeOK, OpenLedger, Knows
    <2>4. ASSUME NEW q \in Proc \ {p}
          PROVE  watermark'[q] = watermark[q] /\ pc'[q] = pc[q]
        BY <1>1 DEF TypeOK, OpenLedger
    <2>5. pc'[p] = "idle"
        BY <1>1 DEF TypeOK, OpenLedger
    <2>6. lock = None /\ lock # p
        BY <1>1, LedgerAssumption DEF OpenLedger
    <2>7. UNCHANGED <<lines, lock, pending, moved>>
        BY <1>1 DEF OpenLedger
    <2> QED
        BY <2>2, <2>3, <2>4, <2>5, <2>6, <2>7, LedgerAssumption, Zenon DEF SnapshotOK
<1>2. CASE Synchronize(p)
    <2>1. SyncTail(p, SyncedIndex(p)) /\ pc[p] = "idle" /\ lock = None
        BY <1>2 DEF Synchronize, SyncTail
    <2>2. UNCHANGED <<lines, lock, pc, pending>>
        BY <1>2 DEF Synchronize
    <2>3. SyncedIndex(p) \in {None, Records(lines)}
        BY <2>1, SyncedIsFile
    <2>4. /\ Knows(p)' /\ p \notin moved'
          /\ \A q \in Proc \ {p} :
                /\ Knows(q) => Knows(q)'
                /\ watermark'[q] = watermark[q]
                /\ q \in moved' <=> q \in moved
        BY <2>1, <2>2, <2>3, SyncTailKnows
    <2> QED
        BY <2>1, <2>2, <2>4, Zenon DEF SnapshotOK
<1>3. ASSUME NEW r \in Record,
             BeginAppend(p, r) \/ BeginUnique(p, r) \/ BeginCompare(p, r)
      PROVE  SnapshotOK'
    <2>1. /\ pc[p] = "idle"
          /\ SyncedIndex(p) \in {None, Records(lines)}
          /\ LookupIndex(p) = Records(lines)
        <3>1. pc[p] = "idle"
            BY <1>3 DEF BeginAppend, BeginUnique, BeginCompare, SyncTail
        <3> QED
            BY <3>1, SyncedIsFile
    <2>2. CASE BeginAppend(p, r)
        BY <2>1, <2>2, BeginKnows DEF BeginAppend, Admit
    <2>3. CASE BeginUnique(p, r)
        BY <2>1, <2>3, BeginKnows DEF BeginUnique, Admit
    <2>4. CASE BeginCompare(p, r)
        BY <2>1, <2>4, BeginKnows DEF BeginCompare, Admit
    <2> QED
        BY <1>3, <2>2, <2>3, <2>4
<1> QED
    BY <1>0, <1>1, <1>2, <1>3 DEF Call

\* A line added at the end leaves what instances know true.
LEMMA KnowsOfAppend ==
    ASSUME TypeOK, NEW e \in Line, lines' = Append(lines, e),
           NEW p \in Proc, Knows(p), UNCHANGED instance
    PROVE  Knows(p)'
<1>1. /\ watermark[p] \in 0 .. Len(lines)
      /\ Len(lines) \in Nat
      /\ Len(lines') = Len(lines) + 1
    BY LenProperties DEF Knows, TypeOK
<1>2. SubSeq(lines', 1, watermark[p]) = SubSeq(lines, 1, watermark[p])
    BY <1>1, PrefixOfAppend DEF TypeOK
<1>3. watermark[p] \in 0 .. Len(lines')
    BY <1>1
<1>4. UNCHANGED <<read, watermark, index>>
    BY DEF instance
<1> QED
    BY <1>2, <1>3, <1>4, Zenon DEF Knows

LEMMA StepKnows ==
    ASSUME TypeOK, SectionOK, SnapshotOK, NEW p \in Proc, Step(p)
    PROVE  SnapshotOK'
<1>0. /\ lock = p /\ p \notin moved
      /\ \A q \in Proc \ {p} : lock # q /\ pc[q] \notin {"writing", "written"}
    BY DEF Step, WriteLine, WriteFails, FsyncFails, FinishAppend, SectionOK, SnapshotOK
<1>1. CASE WriteLine(p)
    <2>1. pending[p] \in Line /\ lines' = Append(lines, pending[p])
        BY <1>1 DEF SectionOK, WriteLine, Line
    <2>2. /\ Len(lines') = Len(lines) + 1
          /\ watermark[p] = Len(lines)
        BY <1>1, <2>1 DEF TypeOK, SnapshotOK, WriteLine
    <2>3. \A q \in Proc : Knows(q) => Knows(q)'
        BY <1>1, <2>1, KnowsOfAppend DEF WriteLine
    <2>4. /\ pc'[p] = "written"
          /\ \A q \in Proc \ {p} : pc'[q] = pc[q]
          /\ UNCHANGED <<lock, moved, watermark>>
        BY <1>1 DEF TypeOK, WriteLine, instance
    <2>5. pc[p] \notin {"closed", "opening"}
        BY <1>1 DEF WriteLine
    <2> QED
        BY <1>0, <2>2, <2>3, <2>4, <2>5 DEF SnapshotOK
<1>2. CASE WriteFails(p) \/ FsyncFails(p)
    <2>1. /\ pc'[p] = "idle"
          /\ \A q \in Proc \ {p} : pc'[q] = pc[q]
          /\ lock' = None
          /\ UNCHANGED <<lines, read, watermark, index, moved>>
          /\ pc[p] \notin {"closed", "opening"}
        BY <1>2 DEF TypeOK, WriteFails, FsyncFails, file, instance
    <2>2. \A q \in Proc : Knows(q)' = Knows(q)
        BY <2>1 DEF Knows
    <2> QED
        BY <1>0, <2>1, <2>2, LedgerAssumption DEF SnapshotOK
<1>3. CASE FinishAppend(p)
    <2>1. /\ Knows(p)
          /\ watermark[p] + 1 = Len(lines)
          /\ lines[Len(lines)] = pending[p]
          /\ pending[p] \in Record /\ pending[p] \in Line
          /\ watermark[p] \in Nat
          /\ watermark[p] \in 0 .. Len(lines)
        <3>1. pc[p] = "written"
            BY <1>3 DEF FinishAppend
        <3>2. Knows(p) /\ watermark[p] + 1 = Len(lines)
            BY <1>0, <3>1 DEF SnapshotOK
        <3>3. lines[Len(lines)] = pending[p] /\ pending[p] \in Record /\ pending[p] \in Line
            BY <1>0, <3>1 DEF SectionOK, Line
        <3> QED
            BY <3>2, <3>3 DEF TypeOK, Knows
    <2>2. read[p] \in Seq(Line) /\ Append(read[p], pending[p]) = lines
        BY <2>1, PrefixAndLast DEF TypeOK, Knows
    <2>3. Records(lines) = Records(read[p]) \cup {pending[p]}
        BY <2>1, <2>2, RecordsOfAppend
    <2>4. /\ read'[p] = lines
          /\ watermark'[p] = Len(lines)
          /\ index'[p] # None => index'[p] = Records(lines)
        <3>1. index'[p] = IF index[p] = None THEN None ELSE index[p] \cup {pending[p]}
            BY <1>3 DEF TypeOK, FinishAppend
        <3> QED
            BY <1>3, <2>1, <2>2, <2>3, <3>1 DEF TypeOK, FinishAppend, Knows
    <2>5. lines' = lines /\ moved' = moved /\ lock' = None
        BY <1>3 DEF FinishAppend
    <2>6. Knows(p)'
        <3>1. Len(lines) \in 0 .. Len(lines) /\ SubSeq(lines, 1, Len(lines)) = lines
            BY LenProperties, WholeIsPrefix DEF TypeOK
        <3> QED
            BY <2>4, <2>5, <3>1 DEF Knows
    <2>7. ASSUME NEW q \in Proc \ {p}
          PROVE  /\ Knows(q) => Knows(q)'
                 /\ pc'[q] = pc[q]
        BY <1>3, <2>5 DEF TypeOK, FinishAppend, Knows
    <2>8. pc'[p] = "idle"
        BY <1>3 DEF TypeOK, FinishAppend
    <2> QED
        BY <1>0, <2>5, <2>6, <2>7, <2>8, LedgerAssumption DEF SnapshotOK
<1> QED
    BY <1>1, <1>2, <1>3 DEF Step

LEMMA EnvironmentKnows ==
    ASSUME "truncate" \notin Faults, TypeOK, SectionOK, SnapshotOK,
           Environment \/ \E p \in Proc : Crash(p)
    PROVE  SnapshotOK'
<1>1. CASE PowerLoss
    BY <1>1, LedgerAssumption DEF PowerLoss, SnapshotOK
<1>2. CASE Replace
    <2>1. \A q \in Proc : lock # q /\ pc[q] \notin {"writing", "written"}
        BY <1>2, LedgerAssumption DEF SectionOK, Replace
    <2> QED
        BY <1>2, <2>1 DEF SnapshotOK, Replace, Open
<1>3. CASE AlienLine
    <2>1. \A q \in Proc : lock # q /\ pc[q] \notin {"writing", "written"}
        BY <1>3, LedgerAssumption DEF SectionOK, AlienLine
    <2>2. \A q \in Proc : Knows(q) => Knows(q)'
        BY <1>3, KnowsOfAppend DEF AlienLine, Line
    <2> QED
        BY <1>3, <2>1, <2>2 DEF SnapshotOK, AlienLine
<1>4. ASSUME NEW p \in Proc, Crash(p) PROVE SnapshotOK'
    <2>1. /\ pc'[p] = "closed"
          /\ lines' = lines
          /\ lock' # p
          /\ lock' # None => lock' = lock
        BY <1>4, LedgerAssumption DEF TypeOK, Crash
    <2>2. ASSUME NEW q \in Proc \ {p}
          PROVE  /\ Knows(q) => Knows(q)'
                 /\ pc'[q] = pc[q] /\ pending'[q] = pending[q]
                 /\ watermark'[q] = watermark[q]
                 /\ q \in moved' <=> q \in moved
        BY <1>4 DEF TypeOK, Crash, Knows
    <2> QED
        BY <2>1, <2>2, LedgerAssumption, Zenon DEF SnapshotOK
<1> QED
    BY <1>1, <1>2, <1>3, <1>4 DEF Environment, Truncate

LEMMA NextKnows ==
    ASSUME "truncate" \notin Faults, TypeOK, SectionOK, SnapshotOK, [Next]_vars
    PROVE  SnapshotOK'
<1>1. CASE UNCHANGED vars
    BY <1>1 DEF SnapshotOK, Knows, vars
<1> QED
    BY <1>1, CallKnows, StepKnows, EnvironmentKnows DEF Next

LEMMA SnapshotInvariant ==
    ASSUME "truncate" \notin Faults
    PROVE  Spec => [](TypeOK /\ SectionOK /\ SnapshotOK)
<1>1. Init => TypeOK /\ SectionOK /\ SnapshotOK
    BY InitTypes, LedgerAssumption DEF Init, SnapshotOK
<1>2. TypeOK /\ SectionOK /\ SnapshotOK /\ [Next]_vars
      => (TypeOK /\ SectionOK /\ SnapshotOK)'
    BY NextTypes, NextKnows
<1> QED
    BY <1>1, <1>2, PTL DEF Spec

\* Unless somebody shortens the file in place, an instance that trusts its
\* watermark is right to: it has read exactly that much of the file.
THEOREM FreshIsPrefix ==
    ASSUME "truncate" \notin Faults
    PROVE  Spec => []FreshMeansPrefix
<1>1. SnapshotOK => FreshMeansPrefix
    BY DEF SnapshotOK, FreshMeansPrefix, Open, Stale, Knows
<1> QED
    BY <1>1, SnapshotInvariant, PTL
-----------------------------------------------------------------------------
(* Admission and refinement.                                               *)

LEMMA AdmittedInPrefix ==
    ASSUME TypeOK, EveryLineAdmitted, NEW n \in 0 .. Len(lines),
           lines' = SubSeq(lines, 1, n)
    PROVE  EveryLineAdmitted'
<1> SUFFICES ASSUME NEW i \in 1 .. Len(lines'), lines'[i] # Junk
             PROVE  Admit(Records(SubSeq(lines', 1, i - 1)), lines'[i])
    BY DEF EveryLineAdmitted
<1>1. i \in 1 .. n /\ i \in 1 .. Len(lines) /\ i - 1 \in 0 .. n
    BY PrefixType DEF TypeOK
<1>2. lines'[i] = lines[i]
    BY <1>1, PrefixType DEF TypeOK
<1>3. SubSeq(lines', 1, i - 1) = SubSeq(lines, 1, i - 1)
    BY <1>1, PrefixOfPrefix DEF TypeOK
<1> QED
    BY <1>1, <1>2, <1>3 DEF EveryLineAdmitted

LEMMA AdmittedAppend ==
    ASSUME TypeOK, EveryLineAdmitted, NEW e \in Line,
           e # Junk => Admit(Records(lines), e), lines' = Append(lines, e)
    PROVE  EveryLineAdmitted'
<1> SUFFICES ASSUME NEW i \in 1 .. Len(lines'), lines'[i] # Junk
             PROVE  Admit(Records(SubSeq(lines', 1, i - 1)), lines'[i])
    BY DEF EveryLineAdmitted
<1>1. Len(lines) \in Nat /\ Len(lines') = Len(lines) + 1 /\ i - 1 \in 0 .. Len(lines)
    BY LenProperties DEF TypeOK
<1>2. SubSeq(lines', 1, i - 1) = SubSeq(lines, 1, i - 1)
    BY <1>1, PrefixOfAppend DEF TypeOK
<1>3. CASE i = Len(lines) + 1
    <2>1. lines'[i] = e /\ i - 1 = Len(lines)
        BY <1>1, <1>3 DEF TypeOK
    <2>2. SubSeq(lines, 1, i - 1) = lines
        BY <2>1, WholeIsPrefix DEF TypeOK
    <2> QED
        BY <1>2, <2>1, <2>2
<1>4. CASE i # Len(lines) + 1
    <2>1. i \in 1 .. Len(lines) /\ lines'[i] = lines[i]
        BY <1>1, <1>4 DEF TypeOK
    <2> QED
        BY <1>2, <2>1 DEF EveryLineAdmitted
<1> QED
    BY <1>3, <1>4

\* How a step may change the file: it keeps the lines, adds an admitted one, or
\* goes back to a prefix.
LEMMA FileSteps ==
    ASSUME TypeOK, SectionOK, SnapshotOK, [Next]_vars
    PROVE  \/ UNCHANGED <<lines, durable>>
           \/ lines' = lines /\ durable' = Len(lines)
           \/ /\ durable' = durable
              /\ \E e \in Line : /\ e # Junk => Admit(Records(lines), e)
                               /\ lines' = Append(lines, e)
           \/ \E n \in durable .. Len(lines) :
                 lines' = SubSeq(lines, 1, n) /\ durable' = n
           \/ /\ Faults \cap {"replace", "truncate"} # {}
              /\ \E n \in 0 .. Len(lines) :
                    lines' = SubSeq(lines, 1, n) /\ durable' \in 0 .. n
<1>1. ASSUME NEW p \in Proc, Call(p) \/ Crash(p) \/ WriteFails(p) \/ FsyncFails(p)
      PROVE  UNCHANGED <<lines, durable>>
    BY <1>1 DEF Call, Touch, OpenLedger, Synchronize, BeginAppend, BeginUnique, BeginCompare,
                StartWrite, Decline, Crash, WriteFails, FsyncFails, file
<1>2. ASSUME NEW p \in Proc, WriteLine(p)
      PROVE  /\ durable' = durable
             /\ \E e \in Line : /\ e # Junk => Admit(Records(lines), e)
                              /\ lines' = Append(lines, e)
    BY <1>2 DEF WriteLine, SectionOK, SnapshotOK, Line
<1>3. ASSUME NEW p \in Proc, FinishAppend(p)
      PROVE  lines' = lines /\ durable' = Len(lines)
    BY <1>3 DEF FinishAppend
<1>4. CASE PowerLoss
    BY <1>4 DEF PowerLoss
<1>5. CASE Replace \/ Truncate
    <2>1. durable \in Nat /\ Len(lines) \in Nat
        BY LenProperties DEF TypeOK
    <2>2. CASE Replace
        BY <2>1, <2>2 DEF Replace
    <2>3. CASE Truncate
        BY <2>1, <2>3 DEF Truncate
    <2> QED
        BY <1>5, <2>2, <2>3
<1>6. CASE AlienLine
    BY <1>6 DEF AlienLine, Line
<1>7. CASE UNCHANGED vars
    BY <1>7 DEF vars
<1> QED
    BY <1>1, <1>2, <1>3, <1>4, <1>5, <1>6, <1>7 DEF Next, Step, Environment

\* Unless somebody shortens the file in place, the records in it are what one
\* admission after another allows, however many processes append.
THEOREM LinesAreAdmitted ==
    ASSUME "truncate" \notin Faults
    PROVE  Spec => []EveryLineAdmitted
<1>1. Init => EveryLineAdmitted
    BY DEF Init, EveryLineAdmitted
<1>2. TypeOK /\ SectionOK /\ SnapshotOK /\ EveryLineAdmitted /\ [Next]_vars
      => EveryLineAdmitted'
    <2> SUFFICES ASSUME TypeOK, SectionOK, SnapshotOK, EveryLineAdmitted, [Next]_vars
                 PROVE  EveryLineAdmitted'
        OBVIOUS
    <2>1. CASE lines' = lines
        BY <2>1 DEF EveryLineAdmitted
    <2>2. ASSUME NEW e \in Line, e # Junk => Admit(Records(lines), e),
                 lines' = Append(lines, e)
          PROVE  EveryLineAdmitted'
        BY <2>2, AdmittedAppend
    <2>3. ASSUME NEW n \in 0 .. Len(lines), lines' = SubSeq(lines, 1, n)
          PROVE  EveryLineAdmitted'
        BY <2>3, AdmittedInPrefix
    <2>4. \A n \in durable .. Len(lines) : n \in 0 .. Len(lines)
        BY LenProperties DEF TypeOK
    <2> QED
        BY <2>1, <2>2, <2>3, <2>4, FileSteps
<1> QED
    BY <1>1, <1>2, SnapshotInvariant, PTL DEF Spec

\* The ledger implements the durable log: every step of every process is a step
\* of the log or changes nothing of it.
THEOREM LedgerRefines ==
    ASSUME "truncate" \notin Faults
    PROVE  Spec => ImplementsDurableLog
<1>1. Init => Log!Init
    BY DEF Init, Log!Init
<1>2. TypeOK /\ SectionOK /\ SnapshotOK /\ [Next]_vars => [Log!Next]_<<lines, durable>>
    <2> SUFFICES ASSUME TypeOK, SectionOK, SnapshotOK, [Next]_vars
                 PROVE  [Log!Next]_<<lines, durable>>
        OBVIOUS
    <2>1. CASE UNCHANGED <<lines, durable>>
        BY <2>1
    <2>2. CASE lines' = lines /\ durable' = Len(lines)
        BY <2>2 DEF Log!Next, Log!Harden
    <2>3. CASE /\ durable' = durable
               /\ \E e \in Line : /\ e # Junk => Admit(Records(lines), e)
                                /\ lines' = Append(lines, e)
        <3>1. Records(lines) = ToSet(lines) \ {Junk}
            BY DEF Records
        <3> QED
            BY <2>3, <3>1 DEF Log!Next, Log!Grow, Log!ToSet, ToSet
    <2>4. CASE \E n \in durable .. Len(lines) :
                  lines' = SubSeq(lines, 1, n) /\ durable' = n
        BY <2>4 DEF Log!Next, Log!Lose
    <2>5. CASE /\ Faults \cap {"replace", "truncate"} # {}
               /\ \E n \in 0 .. Len(lines) :
                     lines' = SubSeq(lines, 1, n) /\ durable' \in 0 .. n
        BY <2>5 DEF Log!Next, Log!Restore
    <2> QED
        BY <2>1, <2>2, <2>3, <2>4, <2>5, FileSteps
<1> QED
    BY <1>1, <1>2, SnapshotInvariant, PTL DEF Spec, ImplementsDurableLog, Log!Spec
=============================================================================
