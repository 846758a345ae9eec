-------------------------------- MODULE Host0 --------------------------------
(***************************************************************************)
(* The autonomous CI host (src/hanish/adapters/ci.py, ci_cli.py and        *)
(* ci_receipt.py): one job authors a forecast, one job per plan leg        *)
(* uploads a report, an aggregator turns the reports into evidence,        *)
(* resolves the forecast and records the run, and an exporter promotes a   *)
(* verified run directory to a receipt.  An aggregator that failed or      *)
(* crashed may be run again, in a directory of its own, on whatever        *)
(* reports have arrived since: each member of Run is one such execution.   *)
(*                                                                         *)
(* Each append to a ledger is a step, so that a crash or an I/O error      *)
(* falls between any two.  The substrate inside the aggregator is used by  *)
(* one process on one forecast; what process() decides is the operator     *)
(* Judgement here, and module Substrate has it in full.                    *)
(*                                                                         *)
(* Abstractions.  An identity stands for the five coordinates of a         *)
(* workflow attempt, a plan digest for the plan; slot, interpreter and     *)
(* commands of a report are those its plan gives the leg, since            *)
(* write_leg_report takes them from there and refuses another interpreter. *)
(***************************************************************************)
EXTENDS Naturals, Sequences, FiniteSets

CONSTANTS
    Run,            \* executions of the aggregator, an output directory each
    Path,           \* where uploaded reports are downloaded to
    Leg,            \* leg names
    PlanLegs,       \* per plan digest: its legs, in slot order
    RepositoryPlan, \* the digest of the plan in the checkout
    Forecasts,      \* the forecast artifacts the authoring job may produce
    Reports,        \* the reports the jobs may write
    AtTimes,        \* the times the aggregator may be run at
    Window,         \* from a forecast's creation to its horizon
    None,           \* no artifact, aggregation, outcome or record
    Malformed,      \* a report that does not parse
    Faults          \* "crash", "io"

VARIABLES
    artifact,       \* the forecast artifact
    inbox,          \* the downloaded reports, by path
    pc,             \* what each aggregator is doing
    agg,            \* its CIAggregation
    sent,           \* how many of its events it has captured
    ok,             \* capture_ok
    evidence,       \* its evidence ledger
    read,           \* how much of it its substrate has read
    known,          \* the positions it has merged
    outcome,        \* its outcome ledger, of one record at most
    record,         \* aggregation.json and the inventory written after it
    receipts        \* the promoted receipts

inputs == <<artifact, inbox>>
vars == <<artifact, inbox, pc, agg, sent, ok, evidence, read, known, outcome,
          record, receipts>>

Plan == DOMAIN PlanLegs
LegsOf(d) == {PlanLegs[d][i] : i \in DOMAIN PlanLegs[d]}
AggregateSlot(d) == Len(PlanLegs[d]) + 1

ASSUME Host0Assumption ==
    /\ \A d \in Plan : /\ PlanLegs[d] \in Seq(Leg)
                       /\ \A i, j \in DOMAIN PlanLegs[d] :
                            PlanLegs[d][i] = PlanLegs[d][j] => i = j
    /\ RepositoryPlan \in Plan
    /\ \A f \in Forecasts : f.created \in Nat
    /\ AtTimes \subseteq Nat
    /\ Window \in Nat

\* Lines of an evidence ledger; what the aggregator makes of the reports.
Line == [kind : {"leg", "aggregate", "seal"}, slot : Nat, value : BOOLEAN]
CIAggregation ==
    [at : AtTimes, complete : BOOLEAN,
     reports : UNION {[legs -> Reports] : legs \in SUBSET LegsOf(RepositoryPlan)}]

Init ==
    /\ artifact = None
    /\ inbox = [p \in {} |-> Malformed]
    /\ pc = [r \in Run |-> "idle"]
    /\ agg = [r \in Run |-> None]
    /\ sent = [r \in Run |-> 0]
    /\ ok = [r \in Run |-> TRUE]
    /\ evidence = [r \in Run |-> <<>>]
    /\ read = [r \in Run |-> 0]
    /\ known = [r \in Run |-> {}]
    /\ outcome = [r \in Run |-> None]
    /\ record = [r \in Run |-> None]
    /\ receipts = {}

-----------------------------------------------------------------------------
(* From step outcomes to one aggregate.                                    *)

\* Mutated form: what a failing prerequisite step leaves is a product failure.
ClassifyAnyFailure(s) ==
    IF "cancelled" \in {s.checkout, s.setup, s.install, s.gate} THEN "cancelled"
    ELSE IF {s.checkout, s.setup, s.install, s.gate} = {"success"} THEN "passed"
    ELSE "failed"

\* classify_leg_outcome.
Classify(s) ==
    IF "cancelled" \in {s.checkout, s.setup, s.install, s.gate} THEN "cancelled"
    ELSE IF {s.checkout, s.setup, s.install} # {"success"} THEN "infrastructure"
    ELSE IF s.gate = "success" THEN "passed"
    ELSE IF s.gate = "failure" THEN "failed"
    ELSE "infrastructure"

Passed(report) == Classify(report.steps) = "passed"
Product(report) == Classify(report.steps) \in {"passed", "failed"}

Parsed(box) == {p \in DOMAIN box : box[p] # Malformed}
Candidates(box, leg) == {p \in Parsed(box) : box[p].leg = leg}

\* Mutated form: of several reports of a leg an acceptable one will do.
AcceptAny(box, leg, id, d, t) ==
    {p \in Candidates(box, leg) :
       /\ box[p].identity = id
       /\ box[p].plan = d
       /\ box[p].created <= t
       /\ box[p].whole
       /\ Product(box[p])}

\* The path of leg's report, if it is the only one and nothing is wrong with it.
Accept(box, leg, id, d, t) ==
    {p \in Candidates(box, leg) :
       /\ Candidates(box, leg) = {p}
       /\ box[p].identity = id
       /\ box[p].plan = d
       /\ box[p].created <= t
       /\ box[p].whole
       /\ Product(box[p])}

\* aggregate_reports: the accepted reports by leg, and whether nothing is amiss.
Aggregation(box, id, d, t) ==
    LET accepted == {leg \in LegsOf(d) : Accept(box, leg, id, d, t) # {}}
    IN  [at |-> t,
         reports |-> [leg \in accepted |->
                        box[CHOOSE p \in Accept(box, leg, id, d, t) : TRUE]],
         complete |-> /\ accepted = LegsOf(d)
                      /\ Parsed(box) = DOMAIN box
                      /\ \A p \in Parsed(box) : box[p].leg \in LegsOf(d)]

AllPassed(a) == \A leg \in DOMAIN a.reports : Passed(a.reports[leg])

LegEvent(slot, value) == [kind |-> "leg", slot |-> slot, value |-> value]
AggregateEvent(d, value) ==
    [kind |-> "aggregate", slot |-> AggregateSlot(d), value |-> value]
SealOver(d, complete) ==
    [kind |-> "seal", slot |-> AggregateSlot(d), value |-> complete]

\* The i-th of a set of slots.
Nth(slots, i) == CHOOSE s \in slots : Cardinality({q \in slots : q < s}) = i - 1

\* The events of an aggregation: the accepted legs by slot, then the aggregate.
Events(a, d) ==
    LET slots == {i \in DOMAIN PlanLegs[d] : PlanLegs[d][i] \in DOMAIN a.reports}
        legs == [i \in 1 .. Cardinality(slots) |->
                   LegEvent(Nth(slots, i), Passed(a.reports[PlanLegs[d][Nth(slots, i)]]))]
    IN  IF a.complete THEN Append(legs, AggregateEvent(d, AllPassed(a))) ELSE legs

-----------------------------------------------------------------------------
(* The jobs.                                                               *)

\* What is there of an artifact: all of it, all that aggregate() reads of it, with
\* some other file cut short, or too little even for that.
Parts == {"all", "readable", "too little"}

\* author_forecast.  A job that dies on the way leaves part of an artifact.
AuthorForecast(f, parts) ==
    /\ artifact = None
    /\ parts = "all" \/ "crash" \in Faults
    /\ artifact' = [forecast |-> f, parts |-> parts]
    /\ UNCHANGED <<inbox, pc, agg, sent, ok, evidence, read, known, outcome, record,
                   receipts>>

Deliver(p, body) ==
    /\ p \notin DOMAIN inbox
    /\ inbox' = [q \in DOMAIN inbox \cup {p} |-> IF q = p THEN body ELSE inbox[q]]
    /\ UNCHANGED <<artifact, pc, agg, sent, ok, evidence, read, known, outcome, record,
                   receipts>>

\* write_leg_report, whose upload no other upload overwrites.
WriteReport(p, report) ==
    /\ report.leg \in LegsOf(report.plan)
    /\ Deliver(p, report)

DeliverMalformed(p) == Deliver(p, Malformed)

-----------------------------------------------------------------------------
(* The aggregator.                                                         *)

\* aggregate() raises: no artifact it could read and copy, or another plan's.
RefuseArtifact(r) ==
    /\ pc[r] = "idle"
    /\ artifact # None =>
         artifact.parts = "too little" \/ artifact.forecast.plan # RepositoryPlan
    /\ pc' = [pc EXCEPT ![r] = "stopped"]
    /\ UNCHANGED <<inputs, agg, sent, ok, evidence, read, known, outcome, record,
                   receipts>>

\* aggregate(), up to the first capture: of the artifact it parses only the
\* identity and the plan, and copies the rest as it is.
StartAggregate(r, t) ==
    /\ pc[r] = "idle"
    /\ artifact # None
    /\ artifact.parts # "too little"
    /\ artifact.forecast.plan = RepositoryPlan
    /\ pc' = [pc EXCEPT ![r] = "capturing"]
    /\ agg' = [agg EXCEPT ![r] =
                 Aggregation(inbox, artifact.forecast.identity, RepositoryPlan, t)]
    /\ UNCHANGED <<inputs, sent, ok, evidence, read, known, outcome, record, receipts>>

\* One capture(): the append synchronizes, writes, and merges what it read.
CaptureKept(r, line) ==
    /\ evidence' = [evidence EXCEPT ![r] = Append(@, line)]
    /\ read' = [read EXCEPT ![r] = Len(evidence[r]) + 1]
    /\ known' = [known EXCEPT ![r] = @ \cup (read[r] + 1 .. Len(evidence[r]) + 1)]
    /\ UNCHANGED ok

\* Mutated form: the append moves its watermark before the line is written.
CaptureFailedPast(r, line) ==
    /\ "io" \in Faults
    /\ evidence' \in {evidence, [evidence EXCEPT ![r] = Append(@, line)]}
    /\ read' = [read EXCEPT ![r] = Len(evidence[r]) + 1]
    /\ ok' = [ok EXCEPT ![r] = FALSE]
    /\ UNCHANGED known

\* It raised after the synchronization, before or after the line reached the
\* file: capture() returns False, and the lines it had read are not merged.
CaptureFailed(r, line) ==
    /\ "io" \in Faults
    /\ evidence' \in {evidence, [evidence EXCEPT ![r] = Append(@, line)]}
    /\ read' = [read EXCEPT ![r] = Len(evidence[r])]
    /\ ok' = [ok EXCEPT ![r] = FALSE]
    /\ UNCHANGED known

CaptureEvent(r) ==
    /\ pc[r] = "capturing"
    /\ sent[r] < Len(Events(agg[r], RepositoryPlan))
    /\ sent' = [sent EXCEPT ![r] = @ + 1]
    /\ LET line == Events(agg[r], RepositoryPlan)[sent[r] + 1]
       IN  CaptureKept(r, line) \/ CaptureFailed(r, line)
    /\ UNCHANGED <<inputs, pc, agg, outcome, record, receipts>>

\* Mutated form: the seal vouches for the reports whatever became of the captures.
SealValueUnchecked(r) == agg[r].complete

\* final_complete, as the seal has it.
SealValue(r) == agg[r].complete /\ ok[r]

CaptureSeal(r) ==
    /\ pc[r] = "capturing"
    /\ sent[r] = Len(Events(agg[r], RepositoryPlan))
    /\ pc' = [pc EXCEPT ![r] = "processing"]
    /\ LET line == SealOver(RepositoryPlan, SealValue(r))
       IN  CaptureKept(r, line) \/ CaptureFailed(r, line)
    /\ UNCHANGED <<inputs, agg, sent, outcome, record, receipts>>

\* The stream of the aggregate: sealed complete, with every slot accounted for.
StreamComplete(lines) ==
    /\ SealOver(RepositoryPlan, TRUE) \in lines
    /\ \A slot \in 1 .. AggregateSlot(RepositoryPlan) :
         \E line \in lines : line.kind # "seal" /\ line.slot = slot

InWindow(f, t) == f.created < t /\ t <= f.created + Window

\* Mutated form: a stream without a verdict resolves to MISS past the horizon.
JudgementUnsealed(f, t, lines) ==
    LET verdicts == {line \in lines : line.kind = "aggregate"}
    IN  IF verdicts # {} /\ InWindow(f, t)
        THEN [settled |-> TRUE, hit |-> \E v \in verdicts : v.value, observed |-> TRUE]
        ELSE IF t <= f.created + Window THEN None
        ELSE [settled |-> TRUE, hit |-> FALSE, observed |-> FALSE]

\* process(at): the aggregate in time, or absence from a complete stream past
\* the horizon, or a provisional closure.
Judgement(f, t, lines) ==
    LET verdicts == {line \in lines : line.kind = "aggregate"}
    IN  IF verdicts # {} /\ InWindow(f, t)
        THEN [settled |-> TRUE, hit |-> \E v \in verdicts : v.value, observed |-> TRUE]
        ELSE IF t <= f.created + Window THEN None
        ELSE [settled |-> StreamComplete(lines), hit |-> FALSE, observed |-> FALSE]

\* process(), which returns normally when the outcome could not be appended.
Process(r) ==
    /\ pc[r] = "processing"
    /\ pc' = [pc EXCEPT ![r] = "recording"]
    /\ LET merged == known[r] \cup (read[r] + 1 .. Len(evidence[r]))
           o == Judgement(artifact.forecast, agg[r].at, {evidence[r][i] : i \in merged})
       IN  /\ known' = [known EXCEPT ![r] = merged]
           /\ outcome' \in {[outcome EXCEPT ![r] = x] :
                              x \in {o} \cup (IF "io" \in Faults THEN {None} ELSE {})}
    /\ read' = [read EXCEPT ![r] = Len(evidence[r])]
    /\ UNCHANGED <<inputs, agg, sent, ok, evidence, record, receipts>>

\* aggregation.json and the inventory; IncompleteAggregation is raised after
\* them, so that the files do not depend on it.
Record(r) ==
    /\ pc[r] = "recording"
    /\ pc' = [pc EXCEPT ![r] = "stopped"]
    /\ record' = [record EXCEPT ![r] =
                    [complete |-> agg[r].complete, captured |-> agg[r].complete /\ ok[r]]]
    /\ UNCHANGED <<inputs, agg, sent, ok, evidence, read, known, outcome, receipts>>

CrashAggregator(r) ==
    /\ "crash" \in Faults
    /\ pc[r] \in {"capturing", "processing", "recording"}
    /\ pc' = [pc EXCEPT ![r] = "stopped"]
    /\ UNCHANGED <<inputs, agg, sent, ok, evidence, read, known, outcome, record,
                   receipts>>

-----------------------------------------------------------------------------
(* The exporter.                                                           *)

\* What the stored reports aggregate to, once more.
Again(r) ==
    Aggregation(agg[r].reports, artifact.forecast.identity, RepositoryPlan, agg[r].at)

\* _verify_payload_semantics: the record claims completeness, and the reports agree.
RecordHolds(r) ==
    /\ record[r] # None
    /\ record[r].complete
    /\ record[r].captured
    /\ Again(r).complete

\* The evidence is what these reports call for, sealed.
EvidenceReplays(r) ==
    evidence[r] = Append(Events(Again(r), RepositoryPlan), SealOver(RepositoryPlan, TRUE))

\* Mutated form: any settled outcome is taken for the one the reports call for.
OutcomeAsFound(r) == outcome[r] # None /\ outcome[r].settled

\* So is the outcome, and the aggregate was there in time.
OutcomeReplays(r) ==
    /\ outcome[r] = [settled |-> TRUE, hit |-> AllPassed(Again(r)), observed |-> TRUE]
    /\ InWindow(artifact.forecast, agg[r].at)

\* The verification parses all that was copied from the artifact.
Verified(r) ==
    /\ RecordHolds(r)
    /\ artifact.parts = "all"
    /\ EvidenceReplays(r)
    /\ OutcomeReplays(r)

\* export_receipt: the rename of a staged copy.  The verification after it
\* finds the same files, and an export that meets its receipt returns it.
Export(r) ==
    /\ Verified(r)
    /\ receipts' = receipts \cup {[run |-> r, identity |-> artifact.forecast.identity,
                                   hit |-> outcome[r].hit]}
    /\ UNCHANGED <<inputs, pc, agg, sent, ok, evidence, read, known, outcome, record>>

-----------------------------------------------------------------------------
Jobs ==
    \/ \E f \in Forecasts, parts \in Parts : AuthorForecast(f, parts)
    \/ \E p \in Path, report \in Reports : WriteReport(p, report)
    \/ \E p \in Path : DeliverMalformed(p)

Aggregator(r) ==
    \/ RefuseArtifact(r)
    \/ \E t \in AtTimes : StartAggregate(r, t)
    \/ CaptureEvent(r)
    \/ CaptureSeal(r)
    \/ Process(r)
    \/ Record(r)
    \/ CrashAggregator(r)

Next == Jobs \/ \E r \in Run : Aggregator(r) \/ Export(r)

Spec == Init /\ [][Next]_vars

-----------------------------------------------------------------------------
(* Properties.                                                             *)

\* Every variable has its type; a substrate has read no further than its ledger
\* reaches, and has merged nothing it has not read.
TypeOK ==
    /\ artifact \in [forecast : Forecasts, parts : Parts] \cup {None}
    /\ inbox \in UNION {[paths -> Reports \cup {Malformed}] : paths \in SUBSET Path}
    /\ pc \in [Run -> {"idle", "capturing", "processing", "recording", "stopped"}]
    /\ agg \in [Run -> CIAggregation \cup {None}]
    /\ sent \in [Run -> 0 .. AggregateSlot(RepositoryPlan)]
    /\ ok \in [Run -> BOOLEAN]
    /\ evidence \in [Run -> Seq(Line)]
    /\ read \in [Run -> Nat]
    /\ known \in [Run -> SUBSET Nat]
    /\ outcome \in [Run -> [settled : BOOLEAN, hit : BOOLEAN, observed : BOOLEAN]
                           \cup {None}]
    /\ record \in [Run -> [complete : BOOLEAN, captured : BOOLEAN] \cup {None}]
    /\ receipts \subseteq [run : Run, identity : {f.identity : f \in Forecasts},
                            hit : BOOLEAN]
    /\ \A r \in Run :
         /\ pc[r] \in {"capturing", "processing", "recording"} => agg[r] \in CIAggregation
         /\ read[r] <= Len(evidence[r])
         /\ known[r] \subseteq 1 .. read[r]

\* The product ran to an answer: nothing before the gate failed.
Ran(report, answer) ==
    /\ {report.steps.checkout, report.steps.setup, report.steps.install} = {"success"}
    /\ report.steps.gate = answer

\* What this attempt's jobs said of leg, of all that was delivered.
Said(leg, answer) ==
    \E p \in Parsed(inbox) :
      /\ inbox[p].leg = leg
      /\ inbox[p].identity = artifact.forecast.identity
      /\ inbox[p].plan = RepositoryPlan
      /\ Ran(inbox[p], answer)

\* A complete seal in the ledger vouches for evidence that is all there, one line
\* for each slot and in slot order, whatever capture failed or was retried before
\* it (ci_cli.py aggregate, capture_ok).
SealHonest ==
    \A r \in Run : \A i \in DOMAIN evidence[r] :
      evidence[r][i] = SealOver(RepositoryPlan, TRUE) =>
        /\ i = AggregateSlot(RepositoryPlan) + 1
        /\ \A slot \in 1 .. i - 1 : evidence[r][slot].slot = slot

\* A missing, foreign, cancelled or infrastructure-failed report never becomes a
\* verdict: a settled outcome means that every leg of this attempt ran
\* its gate, that every gate succeeded if it is a HIT, and that some gate failed
\* if it is a MISS somebody observed (ci.py aggregate_reports).
VerdictJustified ==
    \A r \in Run : outcome[r] # None =>
      (outcome[r].settled =>
        /\ \A leg \in LegsOf(RepositoryPlan) :
             Said(leg, "success") \/ (~outcome[r].hit /\ Said(leg, "failure"))
        /\ outcome[r].observed /\ ~outcome[r].hit =>
             \E leg \in LegsOf(RepositoryPlan) : Said(leg, "failure"))

\* A MISS by absence means that the aggregation came too late, never that something
\* was missing: the reports of all legs were there, every event of theirs and the
\* aggregate has its line in the ledger, and the seal over them says so.  A capture
\* that failed leaves the outcome provisional (ci_cli.py aggregate, substrate.py
\* _stream_complete and _sweep_expired).
AbsenceIsLateness ==
    \A r \in Run : outcome[r] # None =>
      (outcome[r].settled /\ ~outcome[r].observed =>
        /\ agg[r].complete
        /\ agg[r].at > artifact.forecast.created + Window
        /\ evidence[r] = Append(Events(agg[r], RepositoryPlan),
                                SealOver(RepositoryPlan, TRUE)))

\* However often an attempt is aggregated, and whatever arrives in between, its
\* receipts carry one verdict (ci.py aggregate_reports, ci_receipt.py).
ReceiptsAgree ==
    \A x, y \in receipts : x.identity = y.identity => x.hit = y.hit

\* A receipt of a MISS has a failed gate behind it: the MISS that a late
\* aggregation draws from the absence of timely evidence is never promoted
\* (ci_receipt.py _verify_payload_semantics).
ReceiptTrue ==
    \A x \in receipts :
      ~x.hit => \E leg \in LegsOf(RepositoryPlan) : Said(leg, "failure")
=============================================================================
