-------------------------- MODULE SubstrateLogProofs --------------------------
(***************************************************************************)
(* What holds of Substrate's ledgers whatever fails: each is a durable log *)
(* with its own admission rule, and no outcome is without ground.          *)
(***************************************************************************)
EXTENDS SubstrateProofs

-----------------------------------------------------------------------------
(* What a step appends to each ledger.                                     *)

LEMMA HoldsIs ==
    ASSUME NEW log, NEW r
    PROVE  Holds(log, r) <=> r \in Range(log)
    BY DEF Holds, Range

LEMMA RecordsDiffer ==
    ASSUME NEW f, NEW g
    PROVE  Declared(f) # Amended(g) /\ (Amended(f) = Amended(g) => f = g)
    BY DEF Declared, Amended

\* A forecast that an instance knows after an append is in the ledger, and was there
\* before if it is the amendment that is appended.
LEMMA AmendmentFollows ==
    ASSUME IInv', NEW p \in Proc, NEW f \in mem'[p].known,
           forecasts' \in {forecasts, Append(forecasts, Amended(f))},
           forecasts \in Seq(ForecastRecord)
    PROVE  Declared(f) \in Range(forecasts)
<1>1. Holds(forecasts', Declared(f))
    BY DEF IInv, MemoriesOK, Sound, MemoryOK
<1>2. CASE forecasts' = forecasts
    BY <1>1, <1>2, HoldsIs
<1>3. CASE forecasts' = Append(forecasts, Amended(f))
    <2>1. PICK i \in DOMAIN forecasts' : forecasts'[i] = Declared(f)
        BY <1>1 DEF Holds
    <2>2. /\ Len(forecasts) \in Nat /\ DOMAIN forecasts = 1 .. Len(forecasts)
          /\ DOMAIN forecasts' = 1 .. Len(forecasts) + 1
          /\ forecasts'[Len(forecasts) + 1] = Amended(f)
          /\ \A j \in 1 .. Len(forecasts) : forecasts'[j] = forecasts[j]
        <3>1. Amended(f) \in ForecastRecord \cup {Amended(f)}
            OBVIOUS
        <3>2. forecasts \in Seq(ForecastRecord \cup {Amended(f)})
            OBVIOUS
        <3> QED
            BY <1>3, <3>1, <3>2, AppendProperties, LenProperties
    <2>3. i # Len(forecasts) + 1
        BY <2>1, <2>2, RecordsDiffer
    <2>4. i \in DOMAIN forecasts /\ forecasts[i] = Declared(f)
        BY <2>1, <2>2, <2>3
    <2> QED
        BY <2>4 DEF Range
<1> QED
    BY <1>2, <1>3

LEMMA ForecastSteps ==
    ASSUME IInv, [Next]_vars
    PROVE  \/ UNCHANGED forecasts
           \/ \E r \in ForecastRecord :
                /\ ForecastRule(Range(forecasts), r)
                /\ forecasts' = Append(forecasts, r)
<1> DEFINE Step == \/ UNCHANGED forecasts
                   \/ \E r \in ForecastRecord :
                        /\ ForecastRule(Range(forecasts), r)
                        /\ forecasts' = Append(forecasts, r)
<1>1. forecasts \in Seq(ForecastRecord) /\ IInv'
    BY NextOK DEF IInv, LedgersOK
<1>2. ASSUME NEW p \in Proc, NEW f \in Forecast, ~Holds(forecasts, Declared(f)),
             forecasts' = Append(forecasts, Declared(f))
      PROVE  Step
    <2>1. ForecastRule(Range(forecasts), Declared(f))
        BY <1>2, HoldsIs, RecordsDiffer DEF ForecastRule
    <2> QED
        BY <1>2, <2>1 DEF ForecastRecord
<1>3. ASSUME NEW p \in Proc, NEW f \in Forecast, ~Holds(forecasts, Amended(f)),
             f \in mem'[p].known, forecasts' = Append(forecasts, Amended(f))
      PROVE  Step
    <2>1. Declared(f) \in Range(forecasts)
        BY <1>1, <1>3, AmendmentFollows
    <2>2. ForecastRule(Range(forecasts), Amended(f))
        BY <1>3, <2>1, HoldsIs, RecordsDiffer DEF ForecastRule
    <2> QED
        BY <1>3, <2>2 DEF ForecastRecord
<1>4. ASSUME NEW p \in Proc, Host(p)
      PROVE  Step
    <2>1. ASSUME NEW f \in Forecast, NEW reset, Author(p, f, reset)
          PROVE  Step
        BY <1>2, <2>1 DEF Author
    <2>2. ASSUME NEW f \in Forecast, NEW reset, AmendExposure(p, f, reset)
          PROVE  Step
        BY <1>3, <2>2 DEF AmendExposure
    <2>3. ASSUME NEW r, ForecastAppendFails(p, r)
          PROVE  Step
        BY <1>2, <1>3, <2>3 DEF ForecastAppendFails
    <2> QED
        BY <1>4, <2>1, <2>2, <2>3
           DEF Host, Capture, CaptureFails, Status, ReadForecasts, ledgers
<1>5. ASSUME NEW p \in Proc, OpenSubstrate(p) \/ Call(p) \/ Continue(p) \/ Crash(p)
      PROVE  Step
    BY <1>5 DEF OpenSubstrate, Call, StartProcess, ReadForecasts, Crash, Continue,
                ReadEvidence, ReadOutcomes, ResolveOne, SweepOne, ResolveNothing,
                ResolveFails, SweepNothing, SweepFails, EmitFails, StartSweep,
                FinishProcess, ledgers
<1>6. CASE UNCHANGED vars
    BY <1>6 DEF vars
<1> QED
    BY <1>4, <1>5, <1>6 DEF Next

LEMMA EvidenceSteps ==
    ASSUME [Next]_vars
    PROVE  \/ UNCHANGED evidence
           \/ \E r \in Evidence :
                /\ EvidenceRule(Range(evidence), r)
                /\ evidence' = Append(evidence, r)
<1>1. \A r : Winners(r) = {} => EvidenceRule(Range(evidence), r)
    BY DEF Winners, EvidenceRule
<1>2. CASE UNCHANGED vars
    BY <1>2 DEF vars
<1>3. ASSUME NEW p \in Proc, Host(p)
      PROVE  \/ UNCHANGED evidence
             \/ \E r \in Evidence :
                  /\ EvidenceRule(Range(evidence), r)
                  /\ evidence' = Append(evidence, r)
    <2>1. ASSUME NEW r \in Evidence, NEW reset, Capture(p, r, reset) \/ CaptureFails(p, r)
          PROVE  \/ UNCHANGED evidence
                 \/ EvidenceRule(Range(evidence), r) /\ evidence' = Append(evidence, r)
        BY <1>1, <2>1 DEF Capture, CaptureFails
    <2>2. CASE \/ \E f \in Forecast, reset \in Resets :
                     Author(p, f, reset) \/ AmendExposure(p, f, reset)
               \/ \E r : ForecastAppendFails(p, r)
               \/ \E reset \in Resets : Status(p, reset)
        BY <2>2 DEF Author, AmendExposure, ForecastAppendFails, Status, ReadForecasts, ledgers
    <2> QED
        BY <1>3, <2>1, <2>2 DEF Host
<1>4. ASSUME NEW p \in Proc, OpenSubstrate(p) \/ Call(p) \/ Continue(p) \/ Crash(p)
      PROVE  UNCHANGED evidence
    BY <1>4 DEF OpenSubstrate, Call, StartProcess, ReadForecasts, Crash, Continue,
                ReadEvidence, ReadOutcomes, ResolveOne, SweepOne, ResolveNothing,
                ResolveFails, SweepNothing, SweepFails, EmitFails, StartSweep,
                FinishProcess, ledgers
<1> QED
    BY <1>2, <1>3, <1>4 DEF Next

LEMMA ToSetIsRange ==
    ASSUME NEW log
    PROVE  /\ ForecastLog!ToSet(log) = Range(log)
           /\ EvidenceLog!ToSet(log) = Range(log)
           /\ OutcomeLog!ToSet(log) = Range(log)
    BY DEF ForecastLog!ToSet, EvidenceLog!ToSet, OutcomeLog!ToSet, Range

\* Substrate uses each of its ledgers as the durable log that Ledger implements: every
\* step of every process appends one record that the rule of that ledger admits after
\* all records before it, or leaves the ledger alone.
THEOREM LogsRefined == Spec => ImplementsLogs
<1>1. Init => ForecastLog!Init /\ EvidenceLog!Init /\ OutcomeLog!Init
    BY DEF Init, ForecastLog!Init, EvidenceLog!Init, OutcomeLog!Init
<1>2. IInv /\ [Next]_vars => [ForecastLog!Next]_<<forecasts, 0>>
    <2> SUFFICES ASSUME IInv, [Next]_vars, ~UNCHANGED forecasts
                 PROVE  ForecastLog!Grow
        BY DEF ForecastLog!Next
    <2>1. PICK r \in ForecastRecord : /\ ForecastRule(Range(forecasts), r)
                                     /\ forecasts' = Append(forecasts, r)
        BY ForecastSteps
    <2>2. \A f \in Forecast : Declared(f) # <<>>
        BY DEF Declared
    <2>3. ForecastRule(Range(forecasts) \ {<<>>}, r)
        BY <2>1, <2>2 DEF ForecastRule
    <2> QED
        BY <2>1, <2>3, ToSetIsRange DEF ForecastLog!Grow, ForecastRecord
<1>3. IInv /\ [Next]_vars => [EvidenceLog!Next]_<<evidence, 0>>
    <2> SUFFICES ASSUME [Next]_vars, ~UNCHANGED evidence
                 PROVE  EvidenceLog!Grow
        BY DEF EvidenceLog!Next
    <2>1. PICK r \in Evidence : /\ EvidenceRule(Range(evidence), r)
                               /\ evidence' = Append(evidence, r)
        BY EvidenceSteps
    <2>2. EvidenceRule(Range(evidence) \ {None}, r)
        BY <2>1 DEF EvidenceRule
    <2> QED
        BY <2>1, <2>2, ToSetIsRange DEF EvidenceLog!Grow
<1>4. IInv /\ [Next]_vars => [OutcomeLog!Next]_<<outcomes, 0>>
    <2> SUFFICES ASSUME IInv, [Next]_vars, ~UNCHANGED outcomes
                 PROVE  OutcomeLog!Grow
        BY DEF OutcomeLog!Next
    <2>1. PICK o \in Outcome : TransitionAllowed(o) /\ outcomes' = Append(outcomes, o)
        BY OutcomeSteps DEF OutcomeStep
    <2>2. OutcomeRule(Range(outcomes) \ {None}, o)
        BY <2>1 DEF TransitionAllowed, OutcomesOf, OutcomeRule
    <2> QED
        BY <2>1, <2>2, ToSetIsRange DEF OutcomeLog!Grow
<1> QED
    BY <1>1, <1>2, <1>3, <1>4, Invariant, PTL
       DEF Spec, ImplementsLogs, ForecastLog!Spec, EvidenceLog!Spec, OutcomeLog!Spec

-----------------------------------------------------------------------------
(* Outcomes and their grounds.                                             *)

\* What a step writes to the outcome ledger: the score of an observation that may settle
\* a forecast in the queue, or, in the sweep, the closure of one.
Emission ==
    \/ UNCHANGED outcomes
    \/ /\ UNCHANGED <<forecasts, evidence>>
       /\ \E p \in Proc : \E f \in queue[p] :
            \/ \E i \in Candidates(p, f) : outcomes' = Append(outcomes, Scored(p, f, i))
            \/ pc[p] = "sweep" /\ outcomes' = Append(outcomes, Closure(p, f))

LEMMA Emissions ==
    ASSUME IInv, [Next]_vars
    PROVE  Emission
<1>1. CASE UNCHANGED vars
    BY <1>1 DEF vars, Emission
<1>2. ASSUME NEW p \in Proc, Host(p) \/ OpenSubstrate(p) \/ Call(p) \/ Crash(p)
      PROVE  Emission
    BY <1>2 DEF Host, Author, AmendExposure, ForecastAppendFails, Capture, CaptureFails,
                Status, OpenSubstrate, Call, StartProcess, ReadForecasts, Crash, ledgers,
                Emission
<1>3. ASSUME NEW p \in Proc, Continue(p)
      PROVE  Emission
    <2>1. queue[p] \subseteq Forecast
        BY DEF IInv, ControlOK
    <2>2. ASSUME NEW f \in queue[p], NEW reset, ResolveOne(p, f, reset) \/ ResolveFails(p, f)
          PROVE  Emission
        <3>1. Min(Candidates(p, f)) \in Candidates(p, f)
            BY <2>1, <2>2, FirstCandidate DEF ResolveOne, ResolveFails
        <3> QED
            BY <2>2, <3>1 DEF ResolveOne, ResolveFails, Emit, EmitFails, Emission
    <2>3. ASSUME NEW f \in queue[p], NEW reset, SweepOne(p, f, reset) \/ SweepFails(p, f)
          PROVE  Emission
        BY <2>3 DEF SweepOne, SweepFails, Emit, EmitFails, Emission
    <2> QED
        BY <1>3, <2>2, <2>3
           DEF Continue, ReadEvidence, ReadOutcomes, ResolveNothing, SweepNothing,
               StartSweep, FinishProcess, ledgers, Emission
<1> QED
    BY <1>1, <1>2, <1>3 DEF Next

LEMMA RangeAppend ==
    ASSUME NEW S, NEW s \in Seq(S), NEW e
    PROVE  Range(Append(s, e)) = Range(s) \cup {e}
<1>1. s \in Seq(S \cup {e}) /\ e \in S \cup {e}
    OBVIOUS
<1>2. /\ Len(s) \in Nat /\ DOMAIN s = 1 .. Len(s)
      /\ DOMAIN Append(s, e) = 1 .. Len(s) + 1
      /\ Append(s, e)[Len(s) + 1] = e
      /\ \A i \in 1 .. Len(s) : Append(s, e)[i] = s[i]
    BY <1>1, AppendProperties, LenProperties
<1>3. 1 .. Len(s) + 1 = (1 .. Len(s)) \cup {Len(s) + 1}
    BY <1>2
<1> QED
    BY <1>2, <1>3 DEF Range

\* No step takes a record from the forecasts or the evidence.
LEMMA RecordsStay ==
    ASSUME IInv, [Next]_vars
    PROVE  /\ \A r : Holds(forecasts, r) => Holds(forecasts', r)
           /\ Range(evidence) \subseteq Range(evidence')
<1>1. forecasts \in Seq(ForecastRecord) /\ evidence \in Seq(Evidence)
    BY DEF IInv, LedgersOK
<1>2. Range(forecasts) \subseteq Range(forecasts')
    BY <1>1, ForecastSteps, RangeAppend
<1>3. Range(evidence) \subseteq Range(evidence')
    BY <1>1, EvidenceSteps, RangeAppend
<1> QED
    BY <1>2, <1>3, HoldsIs

\* What process() works on has been authored.
QueueDeclared == \A p \in Proc : \A f \in queue[p] : Holds(forecasts, Declared(f))

LEMMA QueueStaysDeclared ==
    ASSUME IInv, QueueDeclared, [Next]_vars
    PROVE  QueueDeclared'
<1>1. CASE UNCHANGED vars
    BY <1>1 DEF vars, QueueDeclared
<1>2. ASSUME NEW p \in Proc, OpenSubstrate(p) \/ Host(p) \/ Call(p) \/ Continue(p) \/ Crash(p)
      PROVE  QueueDeclared'
    <2>1. \A r : Holds(forecasts, r) => Holds(forecasts', r)
        BY <1>2, RecordsStay DEF Next
    <2>2. ASSUME NEW new \in SUBSET Forecast, queue' = [queue EXCEPT ![p] = new],
                 \A f \in new : Holds(forecasts, Declared(f))
          PROVE  QueueDeclared'
        BY <2>1, <2>2 DEF QueueDeclared, IInv, ControlOK
    <2>3. CASE UNCHANGED queue
        BY <2>1, <2>3 DEF QueueDeclared
    <2>4. \A f \in mem[p].known : f \in Forecast /\ Holds(forecasts, Declared(f))
        BY DEF IInv, MemoriesOK, Sound, MemoryOK, Memory
    <2>5. queue[p] \subseteq Forecast /\ \A f \in queue[p] : Holds(forecasts, Declared(f))
        BY DEF QueueDeclared, IInv, ControlOK
    <2>6. CASE OpenSubstrate(p) \/ Host(p) \/ Call(p)
        BY <2>3, <2>6 DEF OpenSubstrate, Host, Author, AmendExposure, ForecastAppendFails,
                          Capture, CaptureFails, Status, Call, StartProcess, ReadForecasts
    <2>7. CASE Crash(p)
        <3>1. PICK none \in SUBSET Forecast : none = {} /\ queue' = [queue EXCEPT ![p] = none]
            BY <2>7 DEF Crash
        <3>2. \A f \in none : Holds(forecasts, Declared(f))
            BY <3>1
        <3> QED
            BY <2>2, <3>1, <3>2
    <2>8. ASSUME NEW reset, ReadOutcomes(p, reset)
          PROVE  QueueDeclared'
        <3>1. PICK merged :
                /\ Sound(merged, forecasts, evidence)
                /\ queue' = queue \/ queue' = [queue EXCEPT ![p] = merged.dirty]
            BY <2>8, ReadOutcomesMerges
        <3>2. /\ merged.dirty \in SUBSET Forecast
              /\ \A f \in merged.dirty : Holds(forecasts, Declared(f))
            BY <3>1 DEF Sound, MemoryOK, Memory
        <3> QED
            BY <2>2, <2>3, <3>1, <3>2
    <2>9. ASSUME NEW f \in queue[p], NEW reset,
                 \/ ResolveOne(p, f, reset) \/ SweepOne(p, f, reset)
                 \/ ResolveNothing(p, f) \/ ResolveFails(p, f)
                 \/ SweepNothing(p, f) \/ SweepFails(p, f)
          PROVE  QueueDeclared'
        <3>1. \/ queue' = [queue EXCEPT ![p] = queue[p] \ {f}]
              \/ queue' = [queue EXCEPT ![p] = queue[p]]
              \/ queue' = [queue EXCEPT ![p] = {}]
            BY <2>9 DEF ResolveOne, SweepOne, ResolveNothing, ResolveFails, SweepNothing,
                        SweepFails, EmitFails, Return
        <3> QED
            BY <2>2, <2>5, <3>1
    <2>10. CASE StartSweep(p)
        BY <2>2, <2>4, <2>10 DEF StartSweep
    <2>11. CASE FinishProcess(p)
        BY <2>2, <2>11 DEF FinishProcess, Return
    <2>12. ASSUME NEW reset, ReadEvidence(p, reset)
           PROVE  QueueDeclared'
        BY <2>3, <2>12 DEF ReadEvidence
    <2> QED
        BY <1>2, <2>6, <2>7, <2>8, <2>9, <2>10, <2>11, <2>12 DEF Continue
<1> QED
    BY <1>1, <1>2 DEF Next

\* An outcome has its ground in the given records.
Grounded(o, fs, es) ==
    /\ Declared(o.forecast) \in fs
    /\ o.by # None =>
         \E e \in es :
             /\ Admissible(o.forecast, e)
             /\ o.by = <<e.source, e.id>>
             /\ o.hit = (e.value \in Terms[o.forecast].holds)
    /\ o.settled /\ o.by = None =>
         /\ ~o.hit
         /\ Terms[o.forecast].observable \in Informative
         /\ \E s \in es :
              /\ s.kind = "seal" /\ s.complete
              /\ s.subject = Terms[o.forecast].subject
              /\ s.source \in Sources[Terms[o.forecast].observable]
              /\ Terms[o.forecast].created < s.sealed
              /\ \A q \in 1 .. s.final :
                   \E e \in es : e.kind = "observation" /\ Stream(e) = Stream(s) /\ e.seq = q

LEMMA GroundedIs ==
    OutcomesGrounded <=>
        \A o \in Range(outcomes) : Grounded(o, Range(forecasts), Range(evidence))
    BY HoldsIs DEF OutcomesGrounded, Grounded

LEMMA GroundStays ==
    ASSUME NEW fs, NEW fs2, fs \subseteq fs2, NEW es, NEW es2, es \subseteq es2,
           NEW o, Grounded(o, fs, es)
    PROVE  Grounded(o, fs2, es2)
    BY DEF Grounded

LEMMA ScoreGrounded ==
    ASSUME IInv, QueueDeclared, NEW p \in Proc, NEW f \in queue[p], NEW i \in Candidates(p, f)
    PROVE  /\ Scored(p, f, i) \in Outcome
           /\ Grounded(Scored(p, f, i), Range(forecasts), Range(evidence))
<1>1. f \in Forecast /\ Declared(f) \in Range(forecasts)
    BY HoldsIs DEF QueueDeclared, IInv, ControlOK
<1>2. i \in 1 .. Len(evidence) /\ evidence[i] \in Observation
    BY <1>1, CandidatesType
<1>3. evidence[i] \in Range(evidence) /\ Admissible(f, evidence[i])
    BY <1>2, LenProperties DEF Candidates, Range, IInv, LedgersOK
<1>4. Scored(p, f, i).by # None
    BY <1>2, SubstrateAssumption DEF Scored
<1> QED
    BY <1>1, <1>3, <1>4, ScoredType DEF Scored, Grounded

LEMMA ClosureGrounded ==
    ASSUME IInv, QueueDeclared, NEW p \in Proc, NEW f \in queue[p]
    PROVE  /\ Closure(p, f) \in Outcome
           /\ Grounded(Closure(p, f), Range(forecasts), Range(evidence))
<1>1. f \in Forecast /\ Declared(f) \in Range(forecasts)
    BY HoldsIs DEF QueueDeclared, IInv, ControlOK
<1>2. CASE Terms[f].observable \in Informative /\ StreamComplete(p, f)
    <2>1. \A i \in mem[p].seen : evidence[i] \in Range(evidence)
        BY Of, LenProperties DEF Sound, MemoryOK, Range, IInv, LedgersOK
    <2>2. PICK i \in mem[p].seen :
            LET s == evidence[i]
                slots == {j \in mem[p].seen : evidence[j].kind = "observation"
                                               /\ Stream(evidence[j]) = Stream(s)}
            IN  /\ s.kind = "seal" /\ s.complete
                /\ s.subject = Terms[f].subject
                /\ s.source \in Sources[Terms[f].observable]
                /\ Terms[f].created < s.sealed
                /\ {evidence[j].seq : j \in slots} = 1 .. s.final
        BY <1>2 DEF StreamComplete
    <2>3. ASSUME NEW q \in 1 .. evidence[i].final
          PROVE  \E e \in Range(evidence) :
                     /\ e.kind = "observation" /\ Stream(e) = Stream(evidence[i]) /\ e.seq = q
        <3>1. PICK j \in mem[p].seen : /\ evidence[j].kind = "observation"
                                      /\ Stream(evidence[j]) = Stream(evidence[i])
                                      /\ evidence[j].seq = q
            BY <2>2
        <3> QED
            BY <2>1, <3>1
    <2>4. Closure(p, f) = [forecast |-> f, settled |-> TRUE, hit |-> FALSE, by |-> None,
                           eligible |-> Blind(p, f)]
        BY <1>2 DEF Closure
    <2> DEFINE o == Closure(p, f)
    <2>5. o.forecast = f /\ o.by = None /\ ~o.hit
        BY <2>4
    <2>6. o \in Outcome
        BY <1>1, ClosureType
    <2> HIDE DEF o
    <2>7. Grounded(o, Range(forecasts), Range(evidence))
        BY <1>1, <1>2, <2>1, <2>2, <2>3, <2>5 DEF Grounded
    <2> QED
        BY <2>6, <2>7 DEF o
<1>3. CASE ~(Terms[f].observable \in Informative /\ StreamComplete(p, f))
    <2>1. Closure(p, f) = [forecast |-> f, settled |-> FALSE, hit |-> FALSE, by |-> None,
                           eligible |-> FALSE]
        BY <1>3 DEF Closure
    <2> DEFINE o == Closure(p, f)
    <2>2. o.forecast = f /\ o.by = None /\ ~o.settled
        BY <2>1
    <2>3. o \in Outcome
        BY <1>1, ClosureType
    <2> HIDE DEF o
    <2>4. Grounded(o, Range(forecasts), Range(evidence))
        BY <1>1, <2>2 DEF Grounded
    <2> QED
        BY <2>3, <2>4 DEF o
<1> QED
    BY <1>2, <1>3

\* Whatever fails, and whenever: an outcome is of an authored forecast, a verdict says what
\* an admissible observation says, and a MISS by absence has a complete seal and
\* something in each of its slots behind it.
THEOREM OutcomesAreGrounded == Spec => []OutcomesGrounded
<1>1. Init => QueueDeclared /\ OutcomesGrounded
    BY DEF Init, QueueDeclared, OutcomesGrounded, Range
<1>2. IInv /\ QueueDeclared /\ OutcomesGrounded /\ [Next]_vars
      => QueueDeclared' /\ OutcomesGrounded'
    <2> SUFFICES ASSUME IInv, QueueDeclared, OutcomesGrounded, [Next]_vars
                 PROVE  \A o \in Range(outcomes') :
                            Grounded(o, Range(forecasts'), Range(evidence'))
        BY QueueStaysDeclared, HoldsIs DEF OutcomesGrounded, Grounded
    <2>1. /\ Range(forecasts) \subseteq Range(forecasts')
          /\ Range(evidence) \subseteq Range(evidence')
        BY RecordsStay, HoldsIs
    <2>2. \A o \in Range(outcomes) : Grounded(o, Range(forecasts'), Range(evidence'))
        BY <2>1, GroundedIs, GroundStays
    <2>3. ASSUME NEW o, Grounded(o, Range(forecasts), Range(evidence)),
                 outcomes' = Append(outcomes, o)
          PROVE  \A x \in Range(outcomes') : Grounded(x, Range(forecasts'), Range(evidence'))
        <3>1. Range(outcomes') = Range(outcomes) \cup {o}
            BY <2>3, RangeAppend DEF IInv, LedgersOK
        <3> QED
            BY <2>1, <2>2, <2>3, <3>1, GroundStays
    <2> QED
        BY <2>2, <2>3, Emissions, ScoreGrounded, ClosureGrounded DEF Emission
<1> QED
    BY <1>1, <1>2, Invariant, PTL DEF Spec

-----------------------------------------------------------------------------
(* What instances report is on record.                                     *)

\* Every forecast m reports something of has an outcome in the ledger.
Recorded(m, ol) ==
    \A f \in Forecast : m.out[f] # None => \E i \in DOMAIN ol : ol[i].forecast = f

LEMMA RecordedSame ==
    ASSUME NEW m1, NEW m2, m1.out = m2.out, NEW ol, Recorded(m2, ol)
    PROVE  Recorded(m1, ol)
    BY DEF Recorded

LEMMA BlankRecorded == \A ol : Recorded(Blank, ol)
    BY DEF Blank, Recorded

LEMMA ForecastsRecorded ==
    ASSUME NEW m \in Memory, NEW log, NEW n, NEW ol, Recorded(m, ol)
    PROVE  Recorded(MergeForecasts(m, log, n), ol)
<1> DEFINE new == {f \in Forecast : \E i \in n + 1 .. Len(log) : log[i] = Declared(f)}
                    \ m.known
           exposed == {f \in m.known \cup new :
                         \E i \in n + 1 .. Len(log) : log[i] = Amended(f)}
           out == [f \in Forecast |-> FoldExposure(exposed, m.out[f])]
           cursor == [f \in Forecast |-> IF f \in new THEN 0 ELSE m.cursor[f]]
           mm == MergeForecasts(m, log, n)
<1>1. mm = [m EXCEPT !.known = @ \cup new, !.amended = @ \cup exposed, !.out = out,
                     !.cursor = cursor, !.dirty = @ \cup new]
    BY DEF MergeForecasts
<1>2. \A f \in Forecast : out[f] # None => m.out[f] # None
    BY DEF FoldExposure
<1> HIDE DEF new, exposed, out, cursor, mm
<1>3. mm.out = out
    BY <1>1 DEF Memory
<1> QED
    BY <1>2, <1>3 DEF Recorded, mm

LEMMA EvidenceRecorded ==
    ASSUME NEW m \in Memory, NEW log, NEW n, NEW ol, Recorded(m, ol)
    PROVE  Recorded(MergeEvidence(m, log, n), ol)
<1> DEFINE seen == m.seen \cup (n + 1 .. Len(log))
           dirty == m.dirty \cup {f \in m.known :
                        /\ Open(m, f)
                        /\ \E i \in n + 1 .. Len(log) : About(f, log[i])}
<1>1. MergeEvidence(m, log, n) = [m EXCEPT !.seen = seen, !.dirty = dirty]
    BY DEF MergeEvidence
<1> HIDE DEF seen, dirty
<1>2. MergeEvidence(m, log, n).out = m.out
    BY <1>1 DEF Memory
<1> QED
    BY <1>2, RecordedSame

LEMMA OutcomesRecorded ==
    ASSUME NEW m \in Memory, NEW ol \in Seq(Outcome), NEW n \in Nat, Recorded(m, ol)
    PROVE  Recorded(MergeOutcomes(m, ol, n), ol)
<1> DEFINE new(f) == {i \in n + 1 .. Len(ol) : ol[i].forecast = f}
           out == [f \in Forecast |-> IF f \in m.known
                                      THEN FoldExposure(m.amended, Adopt(m.out[f], ol, new(f)))
                                      ELSE m.out[f]]
           left == {f \in m.dirty : out[f] # None => ~out[f].settled}
           mm == MergeOutcomes(m, ol, n)
<1>1. mm = [m EXCEPT !.out = out, !.dirty = left]
    BY DEF MergeOutcomes
<1>2. ASSUME NEW f \in Forecast, out[f] # None
      PROVE  \E i \in DOMAIN ol : ol[i].forecast = f
    <2>1. DOMAIN ol = 1 .. Len(ol) /\ Len(ol) \in Nat
        BY LenProperties
    <2>2. CASE m.out[f] # None
        BY <2>2 DEF Recorded
    <2>3. CASE m.out[f] = None
        <3>1. new(f) # {}
            BY <1>2, <2>3 DEF FoldExposure, Adopt
        <3>2. PICK i \in n + 1 .. Len(ol) : ol[i].forecast = f
            BY <3>1
        <3> QED
            BY <2>1, <3>2
    <2> QED
        BY <2>2, <2>3
<1> HIDE DEF out, left, mm
<1>3. mm.out = out
    BY <1>1 DEF Memory
<1> QED
    BY <1>2, <1>3 DEF Recorded, mm

LEMMA RebuiltRecorded ==
    ASSUME NEW fl \in Seq(ForecastRecord), NEW el \in Seq(Evidence), NEW ol \in Seq(Outcome)
    PROVE  Recorded(Rebuilt(fl, el, ol), ol)
<1> DEFINE m1 == MergeForecasts(Blank, fl, 0)
           m2 == MergeEvidence(m1, el, 0)
<1>1. Sound(Blank, fl, el) /\ Sound(m1, fl, el) /\ Sound(m2, fl, el)
    BY BlankOK, MergeForecastsOK, MergeEvidenceOK
<1>2. Blank \in Memory /\ m1 \in Memory /\ m2 \in Memory
    BY <1>1 DEF Sound, MemoryOK
<1>3. Recorded(m1, ol)
    BY <1>2, BlankRecorded, ForecastsRecorded
<1>4. Recorded(m2, ol)
    BY <1>2, <1>3, EvidenceRecorded
<1> QED
    BY <1>2, <1>4, OutcomesRecorded DEF Rebuilt

\* Nor does a taint, a new queue or a cursor make a difference.
LEMMA TouchedRecorded ==
    ASSUME NEW m \in Memory, NEW ol, Recorded(m, ol), NEW x
    PROVE  /\ Recorded([m EXCEPT !.dirty = x], ol)
           /\ Recorded([m EXCEPT !.cursor = x], ol)
           /\ Recorded([m EXCEPT !.invalid = x], ol)
    BY DEF Memory, Recorded

AllRecorded == \A p \in Proc : Recorded(mem[p], outcomes)

LEMMA RecordedStays ==
    ASSUME IInv, IInv', AllRecorded, [Next]_vars
    PROVE  AllRecorded'
<1>1. CASE UNCHANGED vars
    BY <1>1 DEF vars, AllRecorded, Recorded
<1>2. ASSUME NEW p \in Proc, OpenSubstrate(p) \/ Host(p) \/ Call(p) \/ Continue(p) \/ Crash(p)
      PROVE  AllRecorded'
    <2>1. /\ LedgersOK /\ LedgersOK' /\ mem \in [Proc -> Memory]
          /\ mem[p] \in Memory /\ mark[p] \in MarkType
        BY Of DEF IInv, MemoriesOK
    <2>2. /\ mark[p].forecasts \in 0 .. Len(forecasts)
          /\ mark[p].evidence \in 0 .. Len(evidence)
          /\ mark[p].outcomes \in Nat
        BY <2>1, Of, Lengths DEF MarkOK, MarkType
    <2>3. ASSUME NEW m, Recorded(m, outcomes)
          PROVE  Recorded(m, outcomes')
        <3>1. OutcomeStep
            BY <1>2, OutcomeSteps DEF Next
        <3>2. ASSUME NEW o \in Outcome, outcomes' = Append(outcomes, o)
              PROVE  \A i \in DOMAIN outcomes : i \in DOMAIN outcomes' /\ outcomes'[i] = outcomes[i]
            <4>1. outcomes \in Seq(Outcome)
                BY <2>1 DEF LedgersOK
            <4>2. /\ Len(outcomes) \in Nat /\ DOMAIN outcomes = 1 .. Len(outcomes)
                  /\ DOMAIN outcomes' = 1 .. Len(outcomes) + 1
                  /\ \A i \in 1 .. Len(outcomes) : outcomes'[i] = outcomes[i]
                BY <3>2, <4>1, AppendProperties, LenProperties
            <4> QED
                BY <4>2
        <3> QED
            BY <2>3, <3>1, <3>2 DEF OutcomeStep, Recorded
    <2>4. ASSUME NEW m, Recorded(m, outcomes'), mem' = [mem EXCEPT ![p] = m]
          PROVE  AllRecorded'
        <3>1. \A q \in Proc : Recorded(mem'[q], outcomes')
            BY <2>1, <2>3, <2>4 DEF AllRecorded
        <3> QED
            BY <3>1 DEF AllRecorded, Recorded
    <2>5. Recorded(mem[p], outcomes) /\ Recorded(mem[p], outcomes')
        BY <2>3 DEF AllRecorded
    <2>6. ASSUME UNCHANGED mem
          PROVE  AllRecorded'
        <3>1. mem' = [mem EXCEPT ![p] = mem[p]]
            BY <2>1, <2>6
        <3> QED
            BY <2>4, <2>5, <3>1
    <2>7. \A log, n : /\ Recorded(MergeForecasts(mem[p], log, n), outcomes')
                     /\ Recorded(MergeEvidence(mem[p], log, n), outcomes')
                     /\ Recorded(MergeForecasts(Blank, log, n), outcomes')
        <3>1. Blank \in Memory
            BY DEF Blank, Memory
        <3> QED
            BY <2>1, <2>5, <3>1, BlankRecorded, ForecastsRecorded, EvidenceRecorded
    <2>8. ASSUME NEW f \in Forecast, NEW reset, Author(p, f, reset) \/ AmendExposure(p, f, reset)
          PROVE  AllRecorded'
        <3>1. FollowForecasts(p, reset) /\ UNCHANGED <<evidence, outcomes>>
            BY <2>8 DEF Author, AmendExposure
        <3>2. CASE reset
            BY <2>1, <2>4, <3>1, <3>2, RebuiltRecorded DEF FollowForecasts, LedgersOK
        <3>3. CASE ~reset
            BY <2>1, <2>4, <2>7, <3>1, <3>3 DEF FollowForecasts
        <3> QED
            BY <3>2, <3>3
    <2>9. ASSUME NEW r, ForecastAppendFails(p, r)
          PROVE  AllRecorded'
        BY <2>1, <2>4, <2>7, <2>9 DEF ForecastAppendFails
    <2>10. ASSUME NEW r, NEW reset, Capture(p, r, reset)
           PROVE  AllRecorded'
        <3>1. ASSUME NEW m \in Memory, Recorded(m, outcomes'),
                     \/ mem' = [mem EXCEPT ![p] = m]
                     \/ \E x : mem' = [mem EXCEPT ![p] = [m EXCEPT !.invalid = x]]
              PROVE  AllRecorded'
            BY <2>4, <3>1, TouchedRecorded
        <3> DEFINE m0 == IF reset THEN Rebuilt(forecasts, evidence', outcomes')
                         ELSE MergeEvidence(mem[p], evidence', mark[p].evidence)
        <3>2. Recorded(m0, outcomes') /\ m0 \in Memory
            <4>1. CASE reset
                <5>1. forecasts \in Seq(ForecastRecord) /\ evidence' \in Seq(Evidence)
                      /\ outcomes' \in Seq(Outcome)
                    BY <2>1 DEF LedgersOK
                <5>2. Sound(Rebuilt(forecasts, evidence', outcomes'), forecasts, evidence')
                    BY <5>1, RebuiltOK
                <5> QED
                    BY <4>1, <5>1, <5>2, RebuiltRecorded DEF Sound, MemoryOK
            <4>2. CASE ~reset
                <5>1. Sound(mem[p], forecasts, evidence)
                    BY Of
                <5>2. Sound(mem[p], forecasts, evidence')
                    <6>1. evidence' \in Seq(Evidence) /\ evidence \in Seq(Evidence)
                        BY <2>1 DEF LedgersOK
                    <6>2. Len(evidence) <= Len(evidence')
                        <7>1. evidence' = evidence \/ evidence' = Append(evidence, r)
                            BY <2>10 DEF Capture
                        <7>2. Len(evidence) \in Nat /\ Len(evidence') \in Nat
                            BY <6>1, LenProperties
                        <7>3. Len(Append(evidence, r)) = Len(evidence) + 1
                            BY <6>1
                        <7> QED
                            BY <7>1, <7>2, <7>3
                    <6> QED
                        BY <5>1, <6>1, <6>2, SoundGrows
                <5>3. Sound(MergeEvidence(mem[p], evidence', mark[p].evidence),
                            forecasts, evidence')
                    BY <2>1, <5>2, MergeEvidenceOK DEF LedgersOK, MarkType
                <5> QED
                    BY <2>7, <4>2, <5>3 DEF Sound, MemoryOK
            <4> QED
                BY <4>1, <4>2
        <3>3. \/ mem' = [mem EXCEPT ![p] = m0]
              \/ \E x : mem' = [mem EXCEPT ![p] = [m0 EXCEPT !.invalid = x]]
            BY <2>1, <2>10 DEF Capture
        <3> HIDE DEF m0
        <3> QED
            BY <3>1, <3>2, <3>3
    <2>11. ASSUME NEW call, NEW time, NEW reset, ReadForecasts(p, call, time, reset)
           PROVE  AllRecorded'
        BY <2>1, <2>4, <2>7, <2>11 DEF ReadForecasts
    <2>12. ASSUME NEW reset, ReadEvidence(p, reset)
           PROVE  AllRecorded'
        <3> DEFINE known == SubSeq(forecasts, 1, mark[p].forecasts)
        <3>1. MergeForecasts(Blank, known, 0) \in Memory
            <4>1. known \in Seq(ForecastRecord)
                BY <2>1, <2>2, PrefixHolds DEF LedgersOK
            <4> HIDE DEF known
            <4>2. evidence \in Seq(Evidence)
                BY <2>1 DEF LedgersOK
            <4>3. Sound(MergeForecasts(Blank, known, 0), known, evidence)
                BY <4>1, <4>2, BlankOK, MergeForecastsOK
            <4> QED
                BY <4>3 DEF Sound, MemoryOK
        <3>2. Recorded(MergeEvidence(MergeForecasts(Blank, known, 0), evidence, 0), outcomes')
            BY <2>7, <3>1, EvidenceRecorded
        <3> QED
            BY <2>1, <2>4, <2>7, <2>12, <3>2 DEF ReadEvidence
    <2>13. ASSUME NEW reset, ReadOutcomes(p, reset)
           PROVE  AllRecorded'
        <3> DEFINE fl == SubSeq(forecasts, 1, mark[p].forecasts)
                   el == SubSeq(evidence, 1, mark[p].evidence)
                   merged == IF reset THEN Rebuilt(fl, el, outcomes)
                             ELSE MergeOutcomes(mem[p], outcomes, mark[p].outcomes)
        <3>1. outcomes \in Seq(Outcome) /\ outcomes' = outcomes
            BY <2>1, <2>13 DEF LedgersOK, ReadOutcomes, ledgers
        <3>2. merged \in Memory /\ Recorded(merged, outcomes)
            <4>1. CASE reset
                <5>1. fl \in Seq(ForecastRecord) /\ el \in Seq(Evidence)
                    BY <2>1, <2>2, PrefixHolds DEF LedgersOK
                <5> HIDE DEF fl, el
                <5>2. /\ Sound(Rebuilt(fl, el, outcomes), fl, el)
                      /\ Recorded(Rebuilt(fl, el, outcomes), outcomes)
                    BY <3>1, <5>1, RebuiltOK, RebuiltRecorded
                <5> QED
                    BY <4>1, <5>2 DEF Sound, MemoryOK
            <4>2. CASE ~reset
                <5>1. Sound(MergeOutcomes(mem[p], outcomes, mark[p].outcomes), forecasts, evidence)
                    BY <2>2, <3>1, Of, MergeOutcomesOK
                <5> QED
                    BY <2>1, <2>2, <2>5, <3>1, <4>2, <5>1, OutcomesRecorded DEF Sound, MemoryOK
            <4> QED
                BY <4>1, <4>2
        <3>3. \/ mem' = [mem EXCEPT ![p] = merged]
              \/ mem' = [mem EXCEPT ![p] = [merged EXCEPT !.dirty = {}]]
            BY <2>13 DEF ReadOutcomes
        <3> HIDE DEF merged
        <3> QED
            BY <2>4, <3>1, <3>2, <3>3, TouchedRecorded
    <2>14. ASSUME NEW f \in queue[p], NEW reset, ResolveOne(p, f, reset) \/ SweepOne(p, f, reset)
           PROVE  AllRecorded'
        <3> DEFINE after == MemoryAfterEmit(p, reset)
        <3>1. /\ forecasts \in Seq(ForecastRecord) /\ evidence \in Seq(Evidence)
              /\ outcomes' \in Seq(Outcome) /\ Sound(mem[p], forecasts, evidence)
            BY <2>1, Of DEF LedgersOK
        <3>2. after \in Memory /\ Recorded(after, outcomes')
            <4>1. CASE reset
                BY <3>1, <4>1, RebuiltOK, RebuiltRecorded DEF MemoryAfterEmit, Sound, MemoryOK
            <4>2. CASE ~reset
                <5>1. Sound(MergeOutcomes(mem[p], outcomes', mark[p].outcomes), forecasts, evidence)
                    BY <2>2, <3>1, MergeOutcomesOK
                <5> QED
                    BY <2>1, <2>2, <2>5, <3>1, <4>2, <5>1, OutcomesRecorded
                       DEF MemoryAfterEmit, Sound, MemoryOK
            <4> QED
                BY <4>1, <4>2
        <3>3. \/ mem' = [mem EXCEPT ![p] = after]
              \/ \E i : mem' = [mem EXCEPT ![p] = [after EXCEPT !.cursor[f] = i]]
            BY <2>14 DEF ResolveOne, SweepOne
        <3> HIDE DEF after
        <3>4. ASSUME NEW i, mem' = [mem EXCEPT ![p] = [after EXCEPT !.cursor[f] = i]]
              PROVE  AllRecorded'
            <4> DEFINE x == [after.cursor EXCEPT ![f] = i]
            <4>1. mem' = [mem EXCEPT ![p] = [after EXCEPT !.cursor = x]]
                BY <3>4
            <4> HIDE DEF x
            <4> QED
                BY <2>4, <3>2, <4>1, TouchedRecorded
        <3> QED
            BY <2>4, <3>2, <3>3, <3>4
    <2>15. ASSUME NEW f \in queue[p], ResolveNothing(p, f)
           PROVE  AllRecorded'
        <3> DEFINE x == [mem[p].cursor EXCEPT ![f] = IF Open(mem[p], f)
                                                     THEN mark[p].evidence ELSE @]
        <3>1. mem' = [mem EXCEPT ![p] = [mem[p] EXCEPT !.cursor = x]]
            BY <2>1, <2>15 DEF ResolveNothing
        <3> HIDE DEF x
        <3> QED
            BY <2>1, <2>4, <2>5, <3>1, TouchedRecorded
    <2>16. CASE Crash(p)
        BY <2>4, <2>16, BlankRecorded DEF Crash
    <2>17. ASSUME \/ \E r : CaptureFails(p, r)
                  \/ \E f \in queue[p] :
                       ResolveFails(p, f) \/ SweepNothing(p, f) \/ SweepFails(p, f)
                  \/ StartSweep(p) \/ FinishProcess(p)
           PROVE  AllRecorded'
        BY <2>6, <2>17 DEF CaptureFails, ResolveFails, SweepNothing, SweepFails, EmitFails,
                           StartSweep, FinishProcess
    <2>18. CASE Host(p)
        BY <2>8, <2>9, <2>10, <2>11, <2>17, <2>18 DEF Host, Status
    <2>19. CASE OpenSubstrate(p) \/ Call(p)
        BY <2>11, <2>19 DEF OpenSubstrate, Call, StartProcess
    <2>20. CASE Continue(p)
        BY <2>12, <2>13, <2>14, <2>15, <2>17, <2>20 DEF Continue
    <2> QED
        BY <1>2, <2>16, <2>18, <2>19, <2>20
<1> QED
    BY <1>1, <1>2 DEF Next

-----------------------------------------------------------------------------
(* What the sweep leaves behind.                                           *)

\* An expired forecast that the sweep is through with has an outcome.
Swept ==
    \A p \in Proc : pc[p] = "sweep" =>
        \A f \in mem[p].known : at[p] > Terms[f].horizon =>
            f \in queue[p] \/ OutcomesOf(f) # {}

LEMMA OutcomesStay ==
    ASSUME IInv, [Next]_vars
    PROVE  \A f : OutcomesOf(f) \subseteq OutcomesOf(f)'
<1>1. Range(outcomes) \subseteq Range(outcomes')
    BY OutcomeSteps, RangeAppend DEF OutcomeStep, IInv, LedgersOK
<1> QED
    BY <1>1 DEF OutcomesOf

\* Whether it was appended or turned away, there is one of the same forecast.
LEMMA EmittedIsThere ==
    ASSUME IInv, NEW p, NEW o \in Outcome, Emit(p, o)
    PROVE  OutcomesOf(o.forecast)' # {}
<1>1. CASE outcomes' = Append(outcomes, o)
    <2>1. Range(outcomes') = Range(outcomes) \cup {o}
        BY <1>1, RangeAppend DEF IInv, LedgersOK
    <2> QED
        BY <2>1 DEF OutcomesOf
<1>2. CASE UNCHANGED outcomes /\ OutcomesOf(o.forecast) # {}
    BY <1>2 DEF OutcomesOf
<1> QED
    BY <1>1, <1>2 DEF Emit, TransitionAllowed

\* Only the sweep's own steps lead into it or go on with it.
LEMMA SweepSteps ==
    ASSUME IInv, NEW p \in Proc, pc'[p] = "sweep",
           OpenSubstrate(p) \/ Host(p) \/ Call(p) \/ Continue(p) \/ Crash(p)
    PROVE  \/ StartSweep(p)
           \/ \E f \in queue[p] : SweepNothing(p, f)
           \/ \E f \in queue[p], reset \in Rebuilds : SweepOne(p, f, reset)
<1>1. /\ pc \in [Proc -> {"closed", "idle", "evidence", "outcomes", "resolve", "sweep"}]
      /\ goal[p] \in {"idle", "resolve"}
    BY DEF IInv, ControlOK
<1>2. CASE OpenSubstrate(p) \/ Host(p) \/ Call(p) \/ Crash(p)
    BY <1>1, <1>2 DEF OpenSubstrate, Host, Author, AmendExposure, ForecastAppendFails,
                      Capture, CaptureFails, Status, Call, StartProcess, ReadForecasts, Crash
<1>3. CASE Continue(p)
    <2>1. ASSUME \/ \E reset \in Resets : ReadEvidence(p, reset) \/ ReadOutcomes(p, reset)
                 \/ \E f \in queue[p], reset \in Rebuilds : ResolveOne(p, f, reset)
                 \/ \E f \in queue[p] : ResolveNothing(p, f) \/ ResolveFails(p, f)
                                        \/ SweepFails(p, f)
                 \/ FinishProcess(p)
          PROVE  pc'[p] # "sweep"
        BY <1>1, <2>1 DEF ReadEvidence, ReadOutcomes, ResolveOne, ResolveNothing, ResolveFails,
                          SweepFails, EmitFails, FinishProcess, Return
    <2> QED
        BY <1>3, <2>1 DEF Continue
<1> QED
    BY <1>2, <1>3

\* A process leaves the others alone.
LEMMA OthersStay ==
    ASSUME IInv, NEW p \in Proc, NEW q \in Proc, q # p,
           OpenSubstrate(p) \/ Host(p) \/ Call(p) \/ Continue(p) \/ Crash(p)
    PROVE  mem'[q] = mem[q] /\ pc'[q] = pc[q] /\ at'[q] = at[q] /\ queue'[q] = queue[q]
<1>1. /\ mem \in [Proc -> Memory]
      /\ DOMAIN pc = Proc /\ DOMAIN at = Proc /\ DOMAIN queue = Proc
    BY DEF IInv, ControlOK, MemoriesOK
<1>2. CASE OpenSubstrate(p) \/ Call(p) \/ Crash(p)
    BY <1>1, <1>2 DEF OpenSubstrate, Call, StartProcess, ReadForecasts, Crash
<1>3. CASE Host(p)
    BY <1>1, <1>3 DEF Host, Author, AmendExposure, FollowForecasts, ForecastAppendFails,
                      Capture, CaptureFails, Status, ReadForecasts
<1>4. CASE Continue(p)
    <2>1. ASSUME NEW f \in queue[p], NEW reset, ResolveOne(p, f, reset) \/ SweepOne(p, f, reset)
          PROVE  mem'[q] = mem[q] /\ pc'[q] = pc[q] /\ at'[q] = at[q] /\ queue'[q] = queue[q]
        BY <1>1, <2>1 DEF ResolveOne, SweepOne, Return
    <2>2. ASSUME NEW f \in queue[p],
                 \/ ResolveNothing(p, f) \/ ResolveFails(p, f)
                 \/ SweepNothing(p, f) \/ SweepFails(p, f)
          PROVE  mem'[q] = mem[q] /\ pc'[q] = pc[q] /\ at'[q] = at[q] /\ queue'[q] = queue[q]
        BY <1>1, <2>2 DEF ResolveNothing, ResolveFails, SweepNothing, SweepFails, EmitFails, Return
    <2>3. ASSUME \/ \E reset \in Resets : ReadEvidence(p, reset) \/ ReadOutcomes(p, reset)
                 \/ StartSweep(p) \/ FinishProcess(p)
          PROVE  mem'[q] = mem[q] /\ pc'[q] = pc[q] /\ at'[q] = at[q] /\ queue'[q] = queue[q]
        BY <1>1, <2>3 DEF ReadEvidence, ReadOutcomes, StartSweep, FinishProcess, Return
    <2> QED
        BY <1>4, <2>1, <2>2, <2>3 DEF Continue
<1> QED
    BY <1>2, <1>3, <1>4

LEMMA SweptStays ==
    ASSUME IInv, AllRecorded, Swept, [Next]_vars
    PROVE  Swept'
<1>1. \A f : OutcomesOf(f) \subseteq OutcomesOf(f)'
    BY OutcomesStay
<1>2. CASE UNCHANGED vars
    BY <1>2 DEF vars, Swept, OutcomesOf
<1>3. ASSUME NEW p \in Proc, OpenSubstrate(p) \/ Host(p) \/ Call(p) \/ Continue(p) \/ Crash(p)
      PROVE  Swept'
    <2>1. ControlOK /\ ControlOK' /\ mem \in [Proc -> Memory] /\ mem[p].known \subseteq Forecast
        BY <1>3, NextOK DEF Next, IInv, MemoriesOK, Memory
    <2>2. ASSUME NEW q \in Proc, q # p, pc'[q] = "sweep",
                 NEW f \in mem'[q].known, at'[q] > Terms[f].horizon
          PROVE  f \in queue'[q] \/ OutcomesOf(f)' # {}
        <3>1. mem'[q] = mem[q] /\ pc'[q] = pc[q] /\ at'[q] = at[q] /\ queue'[q] = queue[q]
            BY <1>3, <2>1, <2>2, OthersStay
        <3> QED
            BY <1>1, <2>2, <3>1 DEF Swept
    <2>3. ASSUME pc'[p] = "sweep", NEW f \in mem'[p].known, at'[p] > Terms[f].horizon
          PROVE  f \in queue'[p] \/ OutcomesOf(f)' # {}
        <3>1. CASE StartSweep(p)
            BY <2>1, <2>3, <3>1 DEF StartSweep, ControlOK
        <3>2. ASSUME NEW g \in queue[p], SweepNothing(p, g)
              PROVE  f \in queue'[p] \/ OutcomesOf(f)' # {}
            <4>1. /\ mem'[p] = mem[p] /\ at'[p] = at[p] /\ queue'[p] = queue[p] \ {g}
                  /\ pc[p] = "sweep" /\ g \in Forecast
                BY <2>1, <3>2 DEF SweepNothing, ControlOK
            <4>2. mem[p].out[g] # None
                BY <3>2 DEF SweepNothing, Due, Open
            <4>3. OutcomesOf(g) # {}
                BY <4>1, <4>2 DEF AllRecorded, Recorded, OutcomesOf, Range
            <4> QED
                BY <1>1, <2>3, <4>1, <4>3 DEF Swept
        <3>3. ASSUME NEW g \in queue[p], NEW reset, SweepOne(p, g, reset)
              PROVE  f \in queue'[p] \/ OutcomesOf(f)' # {}
            <4>1. pc[p] = "sweep" /\ g \in Forecast /\ Emit(p, Closure(p, g))
                BY <2>1, <3>3 DEF SweepOne, ControlOK
            <4>2. Closure(p, g) \in Outcome /\ Closure(p, g).forecast = g
                BY <4>1, ClosureType
            <4>3. OutcomesOf(g)' # {}
                BY <4>1, <4>2, EmittedIsThere
            <4>4. /\ mem'[p].known = mem[p].known /\ at'[p] = at[p]
                  /\ queue'[p] = queue[p] \ {g}
                <5>1. mem'[p] = MemoryAfterEmit(p, reset)
                    BY <2>1, <3>3 DEF SweepOne
                <5>2. MemoryAfterEmit(p, reset).known = mem[p].known
                    BY <2>1, <2>3, <3>3 DEF SweepOne, Return, ControlOK
                <5> QED
                    BY <2>1, <3>3, <5>1, <5>2 DEF SweepOne, ControlOK
            <4> QED
                BY <1>1, <2>3, <4>1, <4>3, <4>4 DEF Swept
        <3> QED
            BY <1>3, <2>3, <3>1, <3>2, <3>3, SweepSteps
    <2> QED
        BY <2>2, <2>3 DEF Swept
<1> QED
    BY <1>2, <1>3 DEF Next

\* Whatever fails, and however many processes are at it: process() does not come to its
\* end before every forecast it knows whose horizon has passed has an outcome in the ledger.
THEOREM NoSilenceIsLost == Spec => []SilenceRecorded
<1>1. Init => AllRecorded /\ Swept
    BY BlankRecorded DEF Init, AllRecorded, Swept
<1>2. IInv /\ IInv' /\ AllRecorded /\ Swept /\ [Next]_vars => AllRecorded' /\ Swept'
    BY RecordedStays, SweptStays
<1>3. Swept => SilenceRecorded
    BY DEF Swept, SilenceRecorded
<1> QED
    BY <1>1, <1>2, <1>3, Invariant, PTL DEF Spec

-----------------------------------------------------------------------------
(* Expiry.                                                                 *)

\* The sweep works on forecasts whose horizon has passed.
Overdue ==
    \A p \in Proc : pc[p] = "sweep" => \A f \in queue[p] : at[p] > Terms[f].horizon

LEMMA OverdueStays ==
    ASSUME IInv, Overdue, [Next]_vars
    PROVE  Overdue'
<1>1. CASE UNCHANGED vars
    BY <1>1 DEF vars, Overdue
<1>2. ASSUME NEW p \in Proc, OpenSubstrate(p) \/ Host(p) \/ Call(p) \/ Continue(p) \/ Crash(p)
      PROVE  Overdue'
    <2>1. ASSUME NEW q \in Proc, q # p, pc'[q] = "sweep", NEW f \in queue'[q]
          PROVE  at'[q] > Terms[f].horizon
        BY <1>2, <2>1, OthersStay DEF Overdue
    <2>2. ASSUME pc'[p] = "sweep", NEW f \in queue'[p]
          PROVE  at'[p] > Terms[f].horizon
        <3>1. CASE StartSweep(p)
            BY <2>2, <3>1 DEF StartSweep, IInv, ControlOK
        <3>2. ASSUME NEW g \in queue[p], SweepNothing(p, g)
              PROVE  at'[p] > Terms[f].horizon
            BY <2>2, <3>2 DEF SweepNothing, Overdue, IInv, ControlOK
        <3>3. ASSUME NEW g \in queue[p], NEW reset, SweepOne(p, g, reset)
              PROVE  at'[p] > Terms[f].horizon
            <4>1. pc[p] = "sweep" /\ at'[p] = at[p] /\ queue'[p] = queue[p] \ {g}
                BY <2>2, <3>3 DEF SweepOne, Return, IInv, ControlOK
            <4> QED
                BY <2>2, <4>1 DEF Overdue
        <3> QED
            BY <1>2, <2>2, <3>1, <3>2, <3>3, SweepSteps
    <2> QED
        BY <2>1, <2>2 DEF Overdue
<1> QED
    BY <1>1, <1>2 DEF Next

\* Whatever fails, an outcome that names no observation is of a forecast whose horizon had
\* passed when the process() that wrote it was called.
THEOREM ClosuresAreLate == Spec => ClosedWhenOver
<1> DEFINE Late ==
        \A i \in DOMAIN outcomes' \ DOMAIN outcomes :
            LET o == outcomes'[i]
            IN  o.by = None => \E p \in Proc : pc[p] = "sweep" /\ at[p] > Terms[o.forecast].horizon
<1>1. Init => Overdue
    BY DEF Init, Overdue
<1>2. IInv /\ Overdue /\ [Next]_vars => Overdue'
    BY OverdueStays
<1>3. IInv /\ Overdue /\ [Next]_vars => Late
    <2> SUFFICES ASSUME IInv, Overdue, [Next]_vars,
                        NEW i \in DOMAIN outcomes' \ DOMAIN outcomes, outcomes'[i].by = None
                 PROVE  \E p \in Proc : /\ pc[p] = "sweep"
                                        /\ at[p] > Terms[outcomes'[i].forecast].horizon
        OBVIOUS
    <2>0. PICK p \in Proc : \E f \in queue[p] :
            \/ \E j \in Candidates(p, f) : outcomes' = Append(outcomes, Scored(p, f, j))
            \/ pc[p] = "sweep" /\ outcomes' = Append(outcomes, Closure(p, f))
        BY Emissions DEF Emission
    <2>1. PICK f \in queue[p] :
            \/ \E j \in Candidates(p, f) : outcomes' = Append(outcomes, Scored(p, f, j))
            \/ pc[p] = "sweep" /\ outcomes' = Append(outcomes, Closure(p, f))
        BY <2>0
    <2>2. f \in Forecast /\ outcomes \in Seq(Outcome)
        BY DEF IInv, ControlOK, LedgersOK
    <2>3. ASSUME NEW o \in Outcome, outcomes' = Append(outcomes, o)
          PROVE  outcomes'[i] = o
        <3>1. /\ Len(outcomes) \in Nat /\ DOMAIN outcomes = 1 .. Len(outcomes)
              /\ DOMAIN outcomes' = 1 .. Len(outcomes) + 1
              /\ outcomes'[Len(outcomes) + 1] = o
            BY <2>2, <2>3, AppendProperties, LenProperties
        <3> QED
            BY <3>1
    <2>4. ASSUME NEW j \in Candidates(p, f), outcomes' = Append(outcomes, Scored(p, f, j))
          PROVE  FALSE
        <3>1. outcomes'[i] = Scored(p, f, j)
            BY <2>2, <2>3, <2>4, ScoredType
        <3>2. evidence[j] \in Observation
            BY <2>2, <2>4, CandidatesType
        <3>3. Scored(p, f, j).by # None
            BY <3>2, SubstrateAssumption DEF Scored
        <3> QED
            BY <3>1, <3>3
    <2>5. CASE pc[p] = "sweep" /\ outcomes' = Append(outcomes, Closure(p, f))
        <3>1. outcomes'[i].forecast = f
            BY <2>2, <2>3, <2>5, ClosureType
        <3> QED
            BY <2>5, <3>1 DEF Overdue
    <2> QED
        BY <2>1, <2>4, <2>5
<1> QED
    BY <1>1, <1>2, <1>3, Invariant, PTL DEF Spec, ClosedWhenOver
=============================================================================
