------------------------------ MODULE Substrate ------------------------------
(***************************************************************************)
(* The resolution substrate (src/hanish/present/substrate.py) as several   *)
(* processes use it: each holds one Substrate instance over the same three *)
(* ledgers - forecasts and their exposure amendments, evidence, outcomes - *)
(* and derives its memory from what it has read of them.                   *)
(*                                                                         *)
(* A ledger operation is one step here: it runs under the ledger's lock    *)
(* and takes effect at its write (module Ledger, LedgerRefines).  What a   *)
(* process does between two ledger operations touches only its own memory  *)
(* and belongs to the step of the operation before it.                     *)
(*                                                                         *)
(* Abstractions.                                                           *)
(*   - A forecast has one payload, and so has an amendment: the code also  *)
(*     appends amendments of one forecast that differ, and the first one   *)
(*     has exposed it already.                                             *)
(*   - author and amend_exposure synchronize the forecast ledger before    *)
(*     the append; that is part of the append's step, which reads under    *)
(*     the lock whatever came in between.  A refused call only             *)
(*     synchronizes, as Author of a forecast that exists does here.        *)
(*   - The rebuild after a reset reads the two other ledgers one after the *)
(*     other; outside the synchronization of all three (ReadForecasts,     *)
(*     ReadEvidence, ReadOutcomes) it is one step with the operation that  *)
(*     found the reset.                                                    *)
(*   - Times are naturals; the health counters are not kept; a value       *)
(*     compares with a threshold by membership in the set of values that   *)
(*     make it hold.                                                       *)
(*   - Observables are declared at construction, as every host does.       *)
(***************************************************************************)
EXTENDS Naturals, Sequences, FiniteSets, FiniteSetsExt, Functions

CONSTANTS
    Proc,           \* processes, one Substrate instance each
    Forecast,       \* forecast ids
    Terms,          \* the claim and the resolution contract of each
    Observation,    \* observation events hosts may capture
    Seal,           \* completeness seals hosts may capture
    Sources,        \* per observable: the sources that may emit it
    Informative,    \* the observables whose absence is informative
    AtTimes,        \* the times process() is called with
    None,           \* no outcome, no epoch, no observation
    Resets,         \* may a ledger find its file replaced, or touched by an
                    \* instance that opens it?  {FALSE} or BOOLEAN
    Rebuilds,       \* the same, at an append of process()
    Faults          \* "crash", and "io" for appends that raise

VARIABLES
    forecasts,      \* the forecast ledger
    evidence,       \* the evidence ledger
    outcomes,       \* the outcome ledger
    pc,             \* what each process is doing
    goal,           \* the call a synchronization is part of
    at,             \* the time of the process() call
    mark,           \* how far each process has read each ledger
    mem,            \* its derived state
    queue           \* the forecasts process() has yet to look at

ledgers == <<forecasts, evidence, outcomes>>
vars == <<forecasts, evidence, outcomes, pc, goal, at, mark, mem, queue>>

Evidence == Observation \cup Seal

Outcome ==
    [forecast : Forecast, settled : BOOLEAN, hit : BOOLEAN,
     by : {<<o.source, o.id>> : o \in Observation} \cup {None}, eligible : BOOLEAN]
OutcomeOf(f) == {o \in Outcome : o.forecast = f}

ASSUME SubstrateAssumption ==
    /\ \A f \in Forecast :
         /\ Terms[f].created \in Nat
         /\ Terms[f].horizon \in Nat
         /\ Terms[f].blind \in BOOLEAN
    /\ \A o \in Observation : o.kind = "observation"
    /\ \A o \in Observation : <<o.source, o.id>> # None
    /\ \A s \in Seal : s.kind = "seal"
    /\ Resets \subseteq BOOLEAN /\ Rebuilds \subseteq BOOLEAN
    /\ AtTimes \subseteq Nat
    /\ None \notin Outcome

\* The derived state of an instance that has read nothing.
Blank ==
    [known |-> {},                          \* forecasts
     amended |-> {},                        \* exposed by an amendment
     seen |-> {},                           \* positions of the ingested evidence
     invalid |-> {},                        \* _sequence_invalid
     out |-> [f \in Forecast |-> None],     \* the adopted outcome
     cursor |-> [f \in Forecast |-> 0],     \* _cursor_by_forecast
     dirty |-> {}]

Unread == [forecasts |-> 0, evidence |-> 0, outcomes |-> 0]

Declared(f) == <<"forecast", f>>
Amended(f) == <<"amendment", f>>
Holds(log, r) == \E i \in DOMAIN log : log[i] = r

Init ==
    /\ forecasts = <<>>
    /\ evidence = <<>>
    /\ outcomes = <<>>
    /\ pc = [p \in Proc |-> "closed"]
    /\ goal = [p \in Proc |-> "idle"]
    /\ at = [p \in Proc |-> 0]
    /\ mark = [p \in Proc |-> Unread]
    /\ mem = [p \in Proc |-> Blank]
    /\ queue = [p \in Proc |-> {}]

-----------------------------------------------------------------------------
(* Folding ledger tails into the derived state.                            *)

\* Nothing final is known of f.
Open(m, f) == m.out[f] # None => ~m.out[f].settled

\* Eligibility can only stay or become false.
FoldExposure(exposed, o) ==
    IF o = None THEN None
    ELSE [o EXCEPT !.eligible = @ /\ Terms[o.forecast].blind /\ o.forecast \notin exposed]

\* Mutated form: an amendment leaves the outcome adopted earlier as it was.
MergeForecastsOnly(m, log, from) ==
    LET new == {f \in Forecast : \E i \in from + 1 .. Len(log) : log[i] = Declared(f)}
                 \ m.known
        exposed == {f \in m.known \cup new :
                      \E i \in from + 1 .. Len(log) : log[i] = Amended(f)}
    IN  [m EXCEPT !.known = @ \cup new,
                  !.amended = @ \cup exposed,
                  !.cursor = [f \in Forecast |-> IF f \in new THEN 0 ELSE @[f]],
                  !.dirty = @ \cup new]

\* _merge_forecast_tail: register the new forecasts, then apply the amendments.
MergeForecasts(m, log, from) ==
    LET new == {f \in Forecast : \E i \in from + 1 .. Len(log) : log[i] = Declared(f)}
                 \ m.known
        exposed == {f \in m.known \cup new :
                      \E i \in from + 1 .. Len(log) : log[i] = Amended(f)}
    IN  [m EXCEPT !.known = @ \cup new,
                  !.amended = @ \cup exposed,
                  !.out = [f \in Forecast |-> FoldExposure(exposed, @[f])],
                  !.cursor = [f \in Forecast |-> IF f \in new THEN 0 ELSE @[f]],
                  !.dirty = @ \cup new]

About(f, e) ==
    /\ e.kind = "observation"
    /\ e.subject = Terms[f].subject
    /\ e.observable = Terms[f].observable

\* Mutated form: the index of watchers is not consulted.
MergeEvidenceUnwatched(m, log, from) ==
    [m EXCEPT !.seen = @ \cup (from + 1 .. Len(log)),
              !.dirty = @ \cup {f \in Forecast :
                                  \E i \in from + 1 .. Len(log) : About(f, log[i])}]

\* Mutated form: a provisional closure is taken for final.
MergeEvidenceFinal(m, log, from) ==
    [m EXCEPT !.seen = @ \cup (from + 1 .. Len(log)),
              !.dirty = @ \cup {f \in m.known :
                                  /\ m.out[f] = None
                                  /\ \E i \in from + 1 .. Len(log) : About(f, log[i])}]

\* _merge_evidence_tail: an observation makes the open forecasts about it dirty.
MergeEvidence(m, log, from) ==
    [m EXCEPT !.seen = @ \cup (from + 1 .. Len(log)),
              !.dirty = @ \cup {f \in m.known :
                                  /\ Open(m, f)
                                  /\ \E i \in from + 1 .. Len(log) : About(f, log[i])}]

\* Mutated form: whatever came first is kept.
AdoptFirst(old, log, new) ==
    IF old # None \/ new = {} THEN old ELSE log[Min(new)]

\* The first settled outcome wins; before that the first provisional one counts.
Adopt(old, log, new) ==
    LET settled == {i \in new : log[i].settled}
    IN  IF old # None /\ old.settled THEN old
        ELSE IF settled # {} THEN log[Min(settled)]
        ELSE IF old = None /\ new # {} THEN log[Min(new)]
        ELSE old

\* _merge_outcome_tail: records of forecasts that are not known are passed over.
MergeOutcomes(m, log, from) ==
    LET adopted(f) ==
            Adopt(m.out[f], log, {i \in from + 1 .. Len(log) : log[i].forecast = f})
        out == [f \in Forecast |-> IF f \in m.known
                                   THEN FoldExposure(m.amended, adopted(f))
                                   ELSE m.out[f]]
    IN  [m EXCEPT !.out = out,
                  !.dirty = {f \in @ : out[f] # None => ~out[f].settled}]

\* _rebuild: everything from the beginning of the three ledgers.
Rebuilt(fl, el, ol) ==
    MergeOutcomes(MergeEvidence(MergeForecasts(Blank, fl, 0), el, 0), ol, 0)

AllRead(fl, el, ol) ==
    [forecasts |-> Len(fl), evidence |-> Len(el), outcomes |-> Len(ol)]

-----------------------------------------------------------------------------
(* Authoring.                                                              *)

\* The forecast ledger was read up to its end and its tail merged, or the ledger
\* found itself replaced and everything is rebuilt.
FollowForecasts(p, reset) ==
    IF reset
    THEN /\ mem' = [mem EXCEPT ![p] = Rebuilt(forecasts', evidence, outcomes)]
         /\ mark' = [mark EXCEPT ![p] = AllRead(forecasts', evidence, outcomes)]
    ELSE /\ mem' = [mem EXCEPT ![p] =
                      MergeForecasts(@, forecasts', mark[p].forecasts)]
         /\ mark' = [mark EXCEPT ![p].forecasts = Len(forecasts')]

\* author: an id that exists already is refused, whoever authored it.
Author(p, f, reset) ==
    /\ pc[p] = "idle"
    /\ forecasts' = IF Holds(forecasts, Declared(f)) THEN forecasts
                    ELSE Append(forecasts, Declared(f))
    /\ FollowForecasts(p, reset)
    /\ UNCHANGED <<evidence, outcomes, pc, goal, at, queue>>

\* amend_exposure: only of a known forecast that was structurally blind, once.
AmendExposure(p, f, reset) ==
    /\ pc[p] = "idle"
    /\ forecasts' = IF Holds(forecasts, Amended(f)) THEN forecasts
                    ELSE Append(forecasts, Amended(f))
    /\ FollowForecasts(p, reset)
    /\ f \in mem'[p].known
    /\ Terms[f].blind
    /\ UNCHANGED <<evidence, outcomes, pc, goal, at, queue>>

\* The append raises.  What its ledger read under the lock, beyond what the call
\* had synchronized before, is never merged; the record may have been written.
ForecastAppendFails(p, r) ==
    /\ "io" \in Faults
    /\ pc[p] = "idle"
    /\ ~Holds(forecasts, r)
    /\ \E n \in mark[p].forecasts .. Len(forecasts) :
         mem' = [mem EXCEPT ![p] =
                   MergeForecasts(@, SubSeq(forecasts, 1, n), mark[p].forecasts)]
    /\ \E f \in Forecast :
         \/ r = Declared(f)
         \/ r = Amended(f) /\ f \in mem'[p].known /\ Terms[f].blind
    /\ mark' = [mark EXCEPT ![p].forecasts = Len(forecasts)]
    /\ forecasts' \in {forecasts, Append(forecasts, r)}
    /\ UNCHANGED <<evidence, outcomes, pc, goal, at, queue>>

-----------------------------------------------------------------------------
(* Capture.                                                                *)

\* What the once-only check compares: one observation per source and id, one seal
\* per source and epoch.
SameIdentity(r, s) ==
    /\ r.kind = s.kind
    /\ r.source = s.source
    /\ IF r.kind = "observation" THEN r.id = s.id ELSE r.epoch = s.epoch

Stream(r) == <<r.source, r.epoch, r.subject>>
StreamsOf(rs) == {Stream(r) : r \in {x \in rs : x.epoch # None}}

\* Mutated form: only the same record again is the same identity.
WinnersSame(r) == {s \in Range(evidence) : s = r}

\* The records that hold r's identity in the ledger; at most one.
Winners(r) == {s \in Range(evidence) : SameIdentity(s, r)}

WellFormed(r) ==
    r.kind = "observation" /\ Sources[r.observable] # {} => r.source \in Sources[r.observable]

\* Mutated form: what was appended by others since the last call is passed over.
CaptureOwn(p, r, reset) ==
    /\ pc[p] = "idle"
    /\ WellFormed(r)
    /\ evidence' = IF Winners(r) = {} THEN Append(evidence, r) ELSE evidence
    /\ mem' = [mem EXCEPT ![p] = MergeEvidence(@, evidence', Len(evidence))]
    /\ mark' = [mark EXCEPT ![p].evidence = Len(evidence')]
    /\ UNCHANGED <<forecasts, outcomes, pc, goal, at, queue>>

\* capture: the first record of an identity is appended.  A different one makes
\* both streams invalid - in the memory of this process.
Capture(p, r, reset) ==
    LET conflict == Winners(r) \ {r} # {}
        taint(m) == IF conflict
                    THEN [m EXCEPT !.invalid = @ \cup StreamsOf({r} \cup Winners(r))]
                    ELSE m
    IN  /\ pc[p] = "idle"
        /\ WellFormed(r)
        /\ evidence' = IF Winners(r) = {} THEN Append(evidence, r) ELSE evidence
        /\ IF reset
           THEN /\ mem' = [mem EXCEPT ![p] = taint(Rebuilt(forecasts, evidence', outcomes))]
                /\ mark' = [mark EXCEPT ![p] = AllRead(forecasts, evidence', outcomes)]
           ELSE /\ mem' = [mem EXCEPT ![p] =
                             taint(MergeEvidence(@, evidence', mark[p].evidence))]
                /\ mark' = [mark EXCEPT ![p].evidence = Len(evidence')]
        /\ UNCHANGED <<forecasts, outcomes, pc, goal, at, queue>>

\* The append raises, capture answers False: the tail it had read is not merged.
CaptureFails(p, r) ==
    /\ "io" \in Faults
    /\ pc[p] = "idle"
    /\ WellFormed(r)
    /\ Winners(r) = {}
    /\ evidence' \in {evidence, Append(evidence, r)}
    /\ mark' = [mark EXCEPT ![p].evidence = Len(evidence)]
    /\ UNCHANGED <<forecasts, outcomes, pc, goal, at, mem, queue>>

-----------------------------------------------------------------------------
(* Synchronization: the three ledgers one after the other, for open,       *)
(* process() and status().  A reset starts over from what has been read.   *)

ReadForecasts(p, call, time, reset) ==
    /\ goal' = [goal EXCEPT ![p] = call]
    /\ at' = [at EXCEPT ![p] = time]
    /\ pc' = [pc EXCEPT ![p] = "evidence"]
    /\ IF reset
       THEN /\ mem' = [mem EXCEPT ![p] = MergeForecasts(Blank, forecasts, 0)]
            /\ mark' = [mark EXCEPT ![p] = [Unread EXCEPT !.forecasts = Len(forecasts)]]
       ELSE /\ mem' = [mem EXCEPT ![p] =
                         MergeForecasts(@, forecasts, mark[p].forecasts)]
            /\ mark' = [mark EXCEPT ![p].forecasts = Len(forecasts)]
    /\ UNCHANGED <<ledgers, queue>>

OpenSubstrate(p) == pc[p] = "closed" /\ ReadForecasts(p, "idle", 0, TRUE)

StartProcess(p, reset) ==
    /\ pc[p] = "idle"
    /\ \E time \in AtTimes : ReadForecasts(p, "resolve", time, reset)

Status(p, reset) == pc[p] = "idle" /\ ReadForecasts(p, "idle", 0, reset)

ReadEvidence(p, reset) ==
    /\ pc[p] = "evidence"
    /\ pc' = [pc EXCEPT ![p] = "outcomes"]
    /\ LET known == SubSeq(forecasts, 1, mark[p].forecasts)
       IN  IF reset
           THEN /\ mem' = [mem EXCEPT ![p] =
                             MergeEvidence(MergeForecasts(Blank, known, 0), evidence, 0)]
                /\ mark' = [mark EXCEPT ![p] = [forecasts |-> @.forecasts,
                                                evidence |-> Len(evidence), outcomes |-> 0]]
           ELSE /\ mem' = [mem EXCEPT ![p] =
                             MergeEvidence(@, evidence, mark[p].evidence)]
                /\ mark' = [mark EXCEPT ![p].evidence = Len(evidence)]
    /\ UNCHANGED <<ledgers, goal, at, queue>>

\* The last one; process() then takes over what is dirty.
ReadOutcomes(p, reset) ==
    LET merged ==
          IF reset
          THEN Rebuilt(SubSeq(forecasts, 1, mark[p].forecasts),
                       SubSeq(evidence, 1, mark[p].evidence), outcomes)
          ELSE MergeOutcomes(mem[p], outcomes, mark[p].outcomes)
    IN  /\ pc[p] = "outcomes"
        /\ pc' = [pc EXCEPT ![p] = goal[p]]
        /\ mark' = [mark EXCEPT ![p].outcomes = Len(outcomes)]
        /\ IF goal[p] = "resolve"
           THEN /\ mem' = [mem EXCEPT ![p] = [merged EXCEPT !.dirty = {}]]
                /\ queue' = [queue EXCEPT ![p] = merged.dirty]
           ELSE /\ mem' = [mem EXCEPT ![p] = merged]
                /\ UNCHANGED queue
        /\ UNCHANGED <<ledgers, goal, at>>

-----------------------------------------------------------------------------
(* Emission: the transition rule is consulted under the outcome ledger's   *)
(* lock, on every record there is of the forecast.                         *)

OutcomesOf(f) == {o \in Range(outcomes) : o.forecast = f}

\* Mutated form: only the provisional records are looked at.
TransitionAllowedUnsettled(o) ==
    \/ o.settled
    \/ OutcomesOf(o.forecast) = {}

\* _outcome_transition_allowed: nothing follows a settled outcome, and only a
\* settled one follows a provisional one.
TransitionAllowed(o) ==
    \/ OutcomesOf(o.forecast) = {}
    \/ o.settled /\ \A other \in OutcomesOf(o.forecast) : ~other.settled

\* compare_and_append, and the merge of the outcome tail it returns.
Emit(p, o) ==
    outcomes' = IF o \notin OutcomesOf(o.forecast) /\ TransitionAllowed(o)
                THEN Append(outcomes, o) ELSE outcomes

MemoryAfterEmit(p, reset) ==
    IF reset THEN Rebuilt(forecasts, evidence, outcomes')
    ELSE MergeOutcomes(mem[p], outcomes', mark[p].outcomes)

MarkAfterEmit(p, reset) ==
    IF reset THEN AllRead(forecasts, evidence, outcomes')
    ELSE [mark[p] EXCEPT !.outcomes = Len(outcomes')]

\* process() returns: its locals are gone.
Return(p) ==
    /\ pc' = [pc EXCEPT ![p] = "idle"]
    /\ goal' = [goal EXCEPT ![p] = "idle"]
    /\ at' = [at EXCEPT ![p] = 0]
    /\ queue' = [queue EXCEPT ![p] = {}]

\* The exception ends process(): the rest of the queue is forgotten, the outcome
\* may have been written, and the tail that was read under the lock is not merged.
EmitFails(p, o) ==
    /\ "io" \in Faults
    /\ o \notin OutcomesOf(o.forecast) /\ TransitionAllowed(o)
    /\ outcomes' \in {outcomes, Append(outcomes, o)}
    /\ mark' = [mark EXCEPT ![p].outcomes = Len(outcomes)]
    /\ Return(p)
    /\ UNCHANGED <<forecasts, evidence, mem>>

-----------------------------------------------------------------------------
(* Resolution from evidence.                                               *)

\* The observation may settle the forecast: valid, and in its window.
Admissible(f, e) ==
    /\ About(f, e)
    /\ e.validity \in Terms[f].accepts
    /\ Terms[f].created < e.arrived
    /\ e.arrived <= Terms[f].horizon

\* Positions past the cursor that may settle f.
Candidates(p, f) ==
    {i \in mem[p].seen : i > mem[p].cursor[f] /\ Admissible(f, evidence[i])}

Blind(p, f) == Terms[f].blind /\ f \notin mem[p].amended

\* _score
Scored(p, f, i) ==
    [forecast |-> f, settled |-> TRUE, hit |-> evidence[i].value \in Terms[f].holds,
     by |-> <<evidence[i].source, evidence[i].id>>, eligible |-> Blind(p, f)]

\* Nothing to compare, or nothing left to decide.
ResolveNothing(p, f) ==
    /\ pc[p] = "resolve" /\ f \in queue[p]
    /\ Open(mem[p], f) => Candidates(p, f) = {}
    /\ mem' = [mem EXCEPT ![p].cursor[f] =
                 IF Open(mem[p], f) THEN mark[p].evidence ELSE @]
    /\ queue' = [queue EXCEPT ![p] = @ \ {f}]
    /\ UNCHANGED <<ledgers, pc, goal, at, mark>>

\* Mutated form: the latest admissible observation is taken.
ResolveLatest(p, f, reset) ==
    /\ pc[p] = "resolve" /\ f \in queue[p]
    /\ Open(mem[p], f) /\ Candidates(p, f) # {}
    /\ LET i == Max(Candidates(p, f))
           after == MemoryAfterEmit(p, reset)
       IN  /\ Emit(p, Scored(p, f, i))
           /\ mem' = [mem EXCEPT ![p] = [after EXCEPT !.cursor[f] = i]]
           /\ mark' = [mark EXCEPT ![p] = MarkAfterEmit(p, reset)]
           /\ queue' = [queue EXCEPT ![p] =
                          IF after.out[f] # None => after.out[f].settled THEN @ \ {f} ELSE @]
    /\ UNCHANGED <<forecasts, evidence, pc, goal, at>>

\* The first admissible observation past the cursor; on to the next one only if
\* the forecast is still provisionally closed afterwards.
ResolveOne(p, f, reset) ==
    /\ pc[p] = "resolve" /\ f \in queue[p]
    /\ Open(mem[p], f) /\ Candidates(p, f) # {}
    /\ LET i == Min(Candidates(p, f))
           after == MemoryAfterEmit(p, reset)
       IN  /\ Emit(p, Scored(p, f, i))
           /\ mem' = [mem EXCEPT ![p] = [after EXCEPT !.cursor[f] = i]]
           /\ mark' = [mark EXCEPT ![p] = MarkAfterEmit(p, reset)]
           /\ queue' = [queue EXCEPT ![p] =
                          IF after.out[f] # None => after.out[f].settled THEN @ \ {f} ELSE @]
    /\ UNCHANGED <<forecasts, evidence, pc, goal, at>>

ResolveFails(p, f) ==
    /\ pc[p] = "resolve" /\ f \in queue[p]
    /\ Open(mem[p], f) /\ Candidates(p, f) # {}
    /\ EmitFails(p, Scored(p, f, Min(Candidates(p, f))))

-----------------------------------------------------------------------------
(* Expiry.                                                                 *)

\* The channel of f's observable sealed a stream about its subject after the claim,
\* and every slot of that stream was received exactly once.
StreamComplete(p, f) ==
    \E i \in mem[p].seen :
        LET s == evidence[i]
            slots == {j \in mem[p].seen :
                        evidence[j].kind = "observation" /\ Stream(evidence[j]) = Stream(s)}
        IN  /\ s.kind = "seal" /\ s.complete
            /\ s.subject = Terms[f].subject
            /\ s.source \in Sources[Terms[f].observable]
            /\ Terms[f].created < s.sealed
            /\ Stream(s) \notin mem[p].invalid
            /\ Cardinality(slots) = s.final
            /\ {evidence[j].seq : j \in slots} = 1 .. s.final

\* Mutated form: silence on a channel that promises a value is a MISS.
ClosureUnsealed(p, f) ==
    [forecast |-> f, settled |-> Terms[f].observable \in Informative, hit |-> FALSE,
     by |-> None, eligible |-> Blind(p, f)]

\* Absence is a MISS only where the channel promised a value and is complete.
Closure(p, f) ==
    IF Terms[f].observable \in Informative /\ StreamComplete(p, f)
    THEN [forecast |-> f, settled |-> TRUE, hit |-> FALSE, by |-> None,
          eligible |-> Blind(p, f)]
    ELSE [forecast |-> f, settled |-> FALSE, hit |-> FALSE, by |-> None,
          eligible |-> FALSE]

\* Mutated form: a forecast expires at its horizon, when evidence may still come in.
StartSweepAtHorizon(p) ==
    /\ pc[p] = "resolve" /\ queue[p] = {}
    /\ pc' = [pc EXCEPT ![p] = "sweep"]
    /\ queue' = [queue EXCEPT ![p] = {f \in mem[p].known : at[p] >= Terms[f].horizon}]
    /\ UNCHANGED <<ledgers, goal, at, mark, mem>>

StartSweep(p) ==
    /\ pc[p] = "resolve" /\ queue[p] = {}
    /\ pc' = [pc EXCEPT ![p] = "sweep"]
    /\ queue' = [queue EXCEPT ![p] = {f \in mem[p].known : at[p] > Terms[f].horizon}]
    /\ UNCHANGED <<ledgers, goal, at, mark, mem>>

\* Is there something to say about an expired forecast?
Due(p, f) ==
    /\ Open(mem[p], f)
    /\ mem[p].out[f] # None => Closure(p, f).settled

SweepNothing(p, f) ==
    /\ pc[p] = "sweep" /\ f \in queue[p]
    /\ ~Due(p, f)
    /\ queue' = [queue EXCEPT ![p] = @ \ {f}]
    /\ UNCHANGED <<ledgers, pc, goal, at, mark, mem>>

\* Mutated form: a provisional closure is reported but not stored.
SweepQuietly(p, f, reset) ==
    /\ pc[p] = "sweep" /\ f \in queue[p]
    /\ Due(p, f)
    /\ queue' = [queue EXCEPT ![p] = @ \ {f}]
    /\ IF Closure(p, f).settled
       THEN /\ Emit(p, Closure(p, f))
            /\ mem' = [mem EXCEPT ![p] = MemoryAfterEmit(p, reset)]
            /\ mark' = [mark EXCEPT ![p] = MarkAfterEmit(p, reset)]
       ELSE UNCHANGED <<outcomes, mem, mark>>
    /\ UNCHANGED <<forecasts, evidence, pc, goal, at>>

\* A rebuild in the middle that finds another number of forecasts ends the sweep:
\* the dictionary it iterates over has changed size.
SweepOne(p, f, reset) ==
    LET after == MemoryAfterEmit(p, reset)
    IN  /\ pc[p] = "sweep" /\ f \in queue[p]
        /\ Due(p, f)
        /\ Emit(p, Closure(p, f))
        /\ mem' = [mem EXCEPT ![p] = after]
        /\ mark' = [mark EXCEPT ![p] = MarkAfterEmit(p, reset)]
        /\ IF after.known = mem[p].known
           THEN queue' = [queue EXCEPT ![p] = @ \ {f}] /\ UNCHANGED <<pc, goal, at>>
           ELSE Return(p)
        /\ UNCHANGED <<forecasts, evidence>>

SweepFails(p, f) ==
    /\ pc[p] = "sweep" /\ f \in queue[p]
    /\ Due(p, f)
    /\ EmitFails(p, Closure(p, f))

FinishProcess(p) ==
    /\ pc[p] = "sweep" /\ queue[p] = {}
    /\ Return(p)
    /\ UNCHANGED <<ledgers, mark, mem>>

\* The process ends, between two ledger operations; its memory is gone.
Crash(p) ==
    /\ "crash" \in Faults
    /\ pc[p] # "closed"
    /\ pc' = [pc EXCEPT ![p] = "closed"]
    /\ goal' = [goal EXCEPT ![p] = "idle"]
    /\ at' = [at EXCEPT ![p] = 0]
    /\ mark' = [mark EXCEPT ![p] = Unread]
    /\ mem' = [mem EXCEPT ![p] = Blank]
    /\ queue' = [queue EXCEPT ![p] = {}]
    /\ UNCHANGED ledgers

-----------------------------------------------------------------------------
Host(p) ==
    \/ \E f \in Forecast, reset \in Resets :
         Author(p, f, reset) \/ AmendExposure(p, f, reset)
    \/ \E f \in Forecast :
         ForecastAppendFails(p, Declared(f)) \/ ForecastAppendFails(p, Amended(f))
    \/ \E r \in Evidence, reset \in Resets : Capture(p, r, reset)
    \/ \E r \in Evidence : CaptureFails(p, r)
    \/ \E reset \in Resets : Status(p, reset)

\* A call that has begun goes on.
Continue(p) ==
    \/ \E reset \in Resets : ReadEvidence(p, reset) \/ ReadOutcomes(p, reset)
    \/ \E f \in queue[p], reset \in Rebuilds : ResolveOne(p, f, reset) \/ SweepOne(p, f, reset)
    \/ \E f \in queue[p] :
         \/ ResolveNothing(p, f) \/ ResolveFails(p, f)
         \/ SweepNothing(p, f) \/ SweepFails(p, f)
    \/ StartSweep(p)
    \/ FinishProcess(p)

Call(p) == \E reset \in Resets : StartProcess(p, reset)

Next == \E p \in Proc : OpenSubstrate(p) \/ Host(p) \/ Call(p) \/ Continue(p) \/ Crash(p)

Spec == Init /\ [][Next]_vars

\* Calls run to their end; hosts open their substrate and call process() again and
\* again, whatever else they call in between.
Fairness ==
    \A p \in Proc :
        /\ WF_vars(Continue(p))
        /\ WF_vars(OpenSubstrate(p))
        /\ SF_vars(Call(p))

FairSpec == Spec /\ Fairness
-----------------------------------------------------------------------------
(* Properties.                                                             *)

Memory ==
    [known : SUBSET Forecast, amended : SUBSET Forecast, seen : SUBSET Nat,
     invalid : SUBSET StreamsOf(Evidence), out : [Forecast -> Outcome \cup {None}],
     cursor : [Forecast -> Nat], dirty : SUBSET Forecast]

\* What an instance can hold, given the ledgers.
MemoryOK(m, fl, el) ==
    /\ m \in Memory
    /\ \A f \in m.known : Holds(fl, Declared(f))
    /\ m.amended \subseteq m.known
    /\ m.dirty \subseteq m.known
    /\ m.seen \subseteq 1 .. Len(el)
    /\ \A f \in Forecast : m.cursor[f] <= Len(el)
    /\ \A f \in Forecast : m.out[f] # None => f \in m.known /\ m.out[f].forecast = f

TypeOK ==
    /\ forecasts \in Seq({Declared(f) : f \in Forecast} \cup {Amended(f) : f \in Forecast})
    /\ evidence \in Seq(Evidence)
    /\ outcomes \in Seq(Outcome)
    /\ pc \in [Proc -> {"closed", "idle", "evidence", "outcomes", "resolve", "sweep"}]
    /\ goal \in [Proc -> {"idle", "resolve"}]
    /\ at \in [Proc -> Nat]
    /\ mark \in [Proc -> [forecasts : Nat, evidence : Nat, outcomes : Nat]]
    /\ \A p \in Proc :
         /\ mark[p].forecasts <= Len(forecasts)
         /\ mark[p].evidence <= Len(evidence)
         /\ mark[p].outcomes <= Len(outcomes)
    /\ mem \in [Proc -> Memory]
    /\ \A p \in Proc : MemoryOK(mem[p], forecasts, evidence)
    /\ queue \in [Proc -> SUBSET Forecast]

\* A verdict names the FIRST admissible observation of the forecast in the evidence
\* ledger, whichever process emitted it and however much of the ledger it had read
\* by then, and says what that observation says.
FirstValidTerminal ==
    \A o \in Range(outcomes) : o.by # None =>
        \E i \in DOMAIN evidence :
            /\ Admissible(o.forecast, evidence[i])
            /\ \A j \in 1 .. i - 1 : ~Admissible(o.forecast, evidence[j])
            /\ o.by = <<evidence[i].source, evidence[i].id>>
            /\ o.hit = (evidence[i].value \in Terms[o.forecast].holds)

\* Absence becomes a MISS only for a channel that promises a value, and only at a
\* point of the evidence ledger where the channel's stream was sealed, every slot
\* of it had been received exactly once, and nothing admissible had arrived.
MissJustified ==
    \A o \in Range(outcomes) : o.settled /\ o.by = None =>
        /\ Terms[o.forecast].observable \in Informative
        /\ \E n \in 0 .. Len(evidence) :
             /\ \A j \in 1 .. n : ~Admissible(o.forecast, evidence[j])
             /\ \E i \in 1 .. n :
                  /\ evidence[i].kind = "seal" /\ evidence[i].complete
                  /\ evidence[i].subject = Terms[o.forecast].subject
                  /\ evidence[i].source \in Sources[Terms[o.forecast].observable]
                  /\ \A q \in 1 .. evidence[i].final :
                       \E j \in 1 .. n :
                         /\ evidence[j].kind = "observation"
                         /\ Stream(evidence[j]) = Stream(evidence[i])
                         /\ evidence[j].seq = q
                         /\ \A k \in 1 .. n :
                              /\ evidence[k].kind = "observation"
                              /\ Stream(evidence[k]) = Stream(evidence[i])
                              /\ evidence[k].seq = q
                              => k = j

\* What is left of the two when appends raise, ledgers are found replaced in the middle
\* of process(), and processes die and come back: every outcome is of an authored
\* forecast, every verdict says what an admissible observation of it says, and every
\* MISS by absence rests on a complete seal with something in every slot.
OutcomesGrounded ==
    \A o \in Range(outcomes) :
        /\ Holds(forecasts, Declared(o.forecast))
        /\ o.by # None =>
             \E e \in Range(evidence) :
                 /\ Admissible(o.forecast, e)
                 /\ o.by = <<e.source, e.id>>
                 /\ o.hit = (e.value \in Terms[o.forecast].holds)
        /\ o.settled /\ o.by = None =>
             /\ ~o.hit
             /\ Terms[o.forecast].observable \in Informative
             /\ \E s \in Range(evidence) :
                  /\ s.kind = "seal" /\ s.complete
                  /\ s.subject = Terms[o.forecast].subject
                  /\ s.source \in Sources[Terms[o.forecast].observable]
                  /\ Terms[o.forecast].created < s.sealed
                  /\ \A q \in 1 .. s.final :
                       \E e \in Range(evidence) :
                           e.kind = "observation" /\ Stream(e) = Stream(s) /\ e.seq = q

\* What an instance reports of a forecast is the outcome the ledger it has read
\* makes authoritative: never a provisional closure that was superseded, never an
\* outcome that lost.
LastOutcome(f, n) ==
    Max({i \in 1 .. n : outcomes[i].forecast = f})
ReportsAuthoritative ==
    \A p \in Proc, f \in Forecast : mem[p].out[f] # None =>
        LET o == outcomes[LastOutcome(f, mark[p].outcomes)]
        IN  mem[p].out[f] = FoldExposure(mem[p].amended, o)

\* No instance counts as calibration data an outcome of a forecast that it knows was
\* exposed: not when the amendment came first, not when the outcome did, and not
\* when another process, which did not know yet, called it eligible.
ExposedNeverEligible ==
    \A p \in Proc, f \in Forecast :
        mem[p].out[f] # None /\ mem[p].out[f].eligible
        => Terms[f].blind /\ f \notin mem[p].amended

\* The outcome of a forecast, as the ledger has it.
Board ==
    [f \in Forecast |->
       IF \E o \in OutcomesOf(f) : o.settled
       THEN CHOOSE o \in OutcomesOf(f) : o.settled
       ELSE IF OutcomesOf(f) # {} THEN CHOOSE o \in OutcomesOf(f) : TRUE
       ELSE None]

ProvisionalOf(f) == {o \in OutcomeOf(f) : ~o.settled}
SettledOf(f) == {o \in OutcomeOf(f) : o.settled}

\* However many processes sweep and resolve, crash and come back, a forecast is
\* closed at most once and settled at most once, for good.
ForecastBoard == INSTANCE Scoreboard
                   WITH board <- Board, Nothing <- None,
                        Provisional <- ProvisionalOf, Settled <- SettledOf
ImplementsScoreboard == ForecastBoard!Spec

\* The three ledgers are the durable logs that module Ledger implements, each with the
\* admission rule of the call that appends to it: an amendment follows its forecast and
\* neither is there twice, an identity is taken once, and outcomes follow each other as
\* the transition rule has it.  No line is lost here, and none is anything but a record.
ForecastRule(log, r) ==
    r \notin log /\ \A f \in Forecast : r = Amended(f) => Declared(f) \in log
EvidenceRule(log, r) == \A s \in log : ~SameIdentity(s, r)
OutcomeRule(log, o) ==
    LET earlier == {other \in log : other.forecast = o.forecast}
    IN  earlier # {} => o.settled /\ \A other \in earlier : ~other.settled

ForecastLog == INSTANCE DurableLog
                 WITH log <- forecasts, durable <- 0, Mark <- <<>>, Restorable <- FALSE,
                      Admit <- ForecastRule,
                      Entry <- {Declared(f) : f \in Forecast} \cup {Amended(f) : f \in Forecast}
EvidenceLog == INSTANCE DurableLog
                 WITH log <- evidence, durable <- 0, Mark <- None, Restorable <- FALSE,
                      Admit <- EvidenceRule, Entry <- Evidence
OutcomeLog == INSTANCE DurableLog
                WITH log <- outcomes, durable <- 0, Mark <- None, Restorable <- FALSE,
                     Admit <- OutcomeRule, Entry <- Outcome
ImplementsLogs == ForecastLog!Spec /\ EvidenceLog!Spec /\ OutcomeLog!Spec

\* No evidence gets lost: but for the loop in which process() resolves what it took over,
\* whatever an instance has read that may settle a forecast has settled it, in the ledger,
\* or has it marked for the next process().
EvidenceKept ==
    \A p \in Proc : pc[p] # "resolve" =>
        \A f \in mem[p].known :
            (\E i \in 1 .. mark[p].evidence : Admissible(f, evidence[i])) =>
                (\E o \in OutcomesOf(f) : o.settled) \/ f \in mem[p].dirty

\* No silence goes unrecorded: when process() has come to its end, every forecast it knew
\* has an outcome in the ledger if its horizon had passed, whatever failed before, and
\* whoever else was at it.
SilenceRecorded ==
    \A p \in Proc : pc[p] = "sweep" /\ queue[p] = {} =>
        \A f \in mem[p].known : at[p] > Terms[f].horizon => OutcomesOf(f) # {}

\* Nothing is closed for want of an observation that may still come in time: such an
\* outcome, provisional or not, comes from a process() past the forecast's horizon, and
\* never at it.
ClosedWhenOver ==
    [][\A i \in DOMAIN outcomes' \ DOMAIN outcomes :
         LET o == outcomes'[i]
         IN  o.by = None => \E p \in Proc : pc[p] = "sweep" /\ at[p] > Terms[o.forecast].horizon
      ]_vars

\* Liveness.  Once a forecast and an observation that may settle it are in the
\* ledgers, the forecast is settled, even if it was provisionally closed before.
EvidenceSettles ==
    \A f \in Forecast :
        /\ Holds(forecasts, Declared(f))
        /\ \E e \in Range(evidence) : Admissible(f, e)
        ~> \E o \in OutcomesOf(f) : o.settled

\* Every forecast is closed in the end: silence gets a record, too.
EveryForecastCloses ==
    \A f \in Forecast : Holds(forecasts, Declared(f)) ~> OutcomesOf(f) # {}

\* An instance that is not in the middle of a call reports what it would report if
\* it were opened anew on what it has read: "restart is free".
RestartReports ==
    \A p \in Proc : pc[p] = "idle" =>
        mem[p].out = Rebuilt(SubSeq(forecasts, 1, mark[p].forecasts),
                             SubSeq(evidence, 1, mark[p].evidence),
                             SubSeq(outcomes, 1, mark[p].outcomes)).out

\* What does hold of it: such an instance knows the same forecasts, amendments and
\* evidence as one opened anew on what it has read, and whatever it reports, the other
\* reports as well.
RestartAgrees ==
    \A p \in Proc : pc[p] = "idle" =>
        LET fresh == Rebuilt(SubSeq(forecasts, 1, mark[p].forecasts),
                             SubSeq(evidence, 1, mark[p].evidence),
                             SubSeq(outcomes, 1, mark[p].outcomes))
        IN  /\ mem[p].known = fresh.known
            /\ mem[p].amended = fresh.amended
            /\ mem[p].seen = fresh.seen
            /\ \A f \in Forecast : mem[p].out[f] # None => mem[p].out[f] = fresh.out[f]

\* The same of the streams it holds to be invalid.
RestartStreams ==
    \A p \in Proc : pc[p] = "idle" =>
        mem[p].invalid = Rebuilt(SubSeq(forecasts, 1, mark[p].forecasts),
                                 SubSeq(evidence, 1, mark[p].evidence),
                                 SubSeq(outcomes, 1, mark[p].outcomes)).invalid
=============================================================================
