----------------------------- MODULE Host0Proofs -----------------------------
(***************************************************************************)
(* Theorems about Host0, for every plan, every set of reports and times,   *)
(* every number of aggregator executions and of uploads.                   *)
(***************************************************************************)
EXTENDS Host0, NaturalsInduction, WellFoundedInduction, FiniteSetTheorems, TLAPS

-----------------------------------------------------------------------------
(* The inductive invariant.                                                *)

Required == LegsOf(RepositoryPlan)
Active(r) == pc[r] \in {"capturing", "processing", "recording"}

\* The aggregations that say something: under way or on record, and complete.
Counted(r) == (Active(r) \/ record[r] # None) /\ agg[r].complete

\* p holds what an aggregation may accept from leg, in this attempt.
Answers(p, leg) ==
    /\ p \in Parsed(inbox)
    /\ inbox[p].leg = leg
    /\ inbox[p].identity = artifact.forecast.identity
    /\ inbox[p].plan = RepositoryPlan
    /\ Product(inbox[p])

\* An execution that has not begun has done nothing; one that has had an artifact.
Begun ==
    \A r \in Run :
      /\ pc[r] = "idle" => /\ sent[r] = 0 /\ ok[r] /\ evidence[r] = <<>>
                           /\ record[r] = None
      /\ pc[r] \in {"idle", "capturing"} => outcome[r] = None
      /\ Active(r) \/ record[r] # None \/ outcome[r] # None => artifact # None
      /\ record[r] # None => pc[r] = "stopped"
      /\ record[r] # None => record[r].complete = agg[r].complete

\* A complete aggregation has an answer of every leg, from what was delivered.
Heard ==
    \A r \in Run : Counted(r) =>
      \E reports \in [Required -> Reports] :
        /\ agg[r].reports = reports
        /\ \A leg \in Required :
             \E p \in Path : Answers(p, leg) /\ reports[leg] = inbox[p]

\* Two complete aggregations have the same ones.
Same ==
    \A r, s \in Run : Counted(r) /\ Counted(s) => agg[r].reports = agg[s].reports

\* The lines of an execution under way: nothing but the aggregation's events while
\* it captures them, all of them so far if every capture succeeded, and a complete
\* seal only after all of them.
Keeps(r) ==
    /\ \A i \in DOMAIN evidence[r] :
         /\ evidence[r][i].kind = "aggregate" =>
              agg[r].complete /\ evidence[r][i].value = AllPassed(agg[r])
         /\ evidence[r][i] = SealOver(RepositoryPlan, TRUE) =>
              /\ agg[r].complete
              /\ evidence[r] = Append(Events(agg[r], RepositoryPlan),
                                      SealOver(RepositoryPlan, TRUE))
    /\ pc[r] = "capturing" =>
         /\ \A i \in DOMAIN evidence[r] : evidence[r][i].kind # "seal"
         /\ ok[r] => /\ Len(evidence[r]) = sent[r]
                     /\ sent[r] <= Len(Events(agg[r], RepositoryPlan))
                     /\ \A i \in 1 .. sent[r] :
                          evidence[r][i] = Events(agg[r], RepositoryPlan)[i]

Faithful == \A r \in Run : Active(r) => Keeps(r)

\* A receipt has its run on record.
Promoted ==
    \A x \in receipts :
      record[x.run] # None /\ agg[x.run].complete /\ x.hit = AllPassed(agg[x.run])

IInv ==
    /\ TypeOK /\ Begun /\ Heard /\ Same /\ Faithful
    /\ SealHonest /\ VerdictJustified /\ AbsenceIsLateness /\ Promoted
-----------------------------------------------------------------------------
(* Slots and events.                                                       *)

LEMMA LeastOf ==
    ASSUME NEW S \in SUBSET Nat, S # {}
    PROVE  \E x \in S : \A y \in S : x <= y
<1> DEFINE LT == {ss \in Nat \X Nat : ss[1] < ss[2]}
<1>1. OpToRel(<, Nat) = LT
    BY Zenon DEF OpToRel
<1>2. IsWellFoundedOn(LT, Nat)
    BY <1>1, NatLessThanWellFounded
<1>3. PICK x \in S : \A y \in S : ~(<<y, x>> \in LT)
    <2> HIDE DEF LT
    <2> QED
        BY <1>2, WFMin
<1>4. ASSUME NEW y \in S PROVE x <= y
    <2>1. x \in Nat /\ y \in Nat
        OBVIOUS
    <2>2. y < x => <<y, x>> \in LT
        BY <2>1
    <2> QED
        BY <1>3, <2>1, <2>2
<1> QED
    BY <1>4

Below(S, n) == Cardinality({q \in S : q < n})

\* Among the slots of a finite set, every rank is taken.
LEMMA RankTaken ==
    ASSUME NEW S \in SUBSET Nat, IsFiniteSet(S)
    PROVE  \A i \in 1 .. Cardinality(S) : \E s \in S : Below(S, s) = i - 1
<1> DEFINE Missing == {i \in 1 .. Cardinality(S) : \A s \in S : Below(S, s) # i - 1}
<1>0. Cardinality(S) \in Nat
    BY FS_CardinalityType
<1> SUFFICES ASSUME Missing # {} PROVE FALSE
    OBVIOUS
<1>1. Missing \in SUBSET Nat
    BY <1>0
<1>2. PICK i \in Missing : \A j \in Missing : i <= j
    <2> HIDE DEF Missing
    <2> QED
        BY <1>1, LeastOf
<1>3. i \in 1 .. Cardinality(S) /\ \A s \in S : Below(S, s) # i - 1
    OBVIOUS
<1>4. i # 1
    <2> SUFFICES ASSUME i = 1 PROVE FALSE
        OBVIOUS
    <2>1. S # {}
        BY <1>0, <1>3, FS_EmptySet
    <2>2. PICK x \in S : \A y \in S : x <= y
        BY <2>1, LeastOf
    <2>3. {q \in S : q < x} = {}
        <3>1. \A q \in S : q \in Nat /\ x \in Nat /\ x <= q
            BY <2>2
        <3>2. \A q \in S : ~(q < x)
            BY <3>1
        <3> QED
            BY <3>2
    <2>4. Below(S, x) = 0
        BY <2>3, FS_EmptySet DEF Below
    <2> QED
        BY <1>3, <2>4
<1>5. i - 1 \in 1 .. Cardinality(S) /\ i - 1 \notin Missing
    BY <1>0, <1>2, <1>3, <1>4
<1>6. PICK s \in S : Below(S, s) = i - 2
    BY <1>3, <1>5
<1> DEFINE upTo == {q \in S : q <= s}
           above == {q \in S : q > s}
<1>7. upTo = {q \in S : q < s} \cup {s} /\ s \notin {q \in S : q < s}
    <2>1. \A q \in S : q \in Nat /\ s \in Nat
        OBVIOUS
    <2>2. \A q \in S : (q <= s <=> q < s \/ q = s) /\ ~(s < s)
        BY <2>1
    <2> QED
        BY <2>2
<1>8. IsFiniteSet({q \in S : q < s})
    BY FS_Subset
<1>9. Cardinality(upTo) = i - 1
    <2>1. PICK T : T = {q \in S : q < s}
        OBVIOUS
    <2>2. Cardinality(T \cup {s}) = Cardinality(T) + 1
        BY <1>7, <1>8, <2>1, FS_AddElement
    <2>3. Cardinality(T) = i - 2
        BY <1>6, <2>1 DEF Below
    <2>4. i \in Nat
        BY <1>0, <1>3
    <2> QED
        BY <1>7, <2>1, <2>2, <2>3, <2>4
<1>10. above # {}
    <2> SUFFICES ASSUME above = {} PROVE FALSE
        OBVIOUS
    <2>1. upTo = S
        <3>1. \A q \in S : q \in Nat /\ s \in Nat
            OBVIOUS
        <3>2. \A q \in S : q <= s
            BY <3>1
        <3> QED
            BY <3>2
    <2> QED
        BY <1>0, <1>3, <1>9, <2>1
<1>11. PICK x \in above : \A y \in above : x <= y
    <2>1. above \in SUBSET Nat
        OBVIOUS
    <2> HIDE DEF above
    <2> QED
        BY <1>10, <2>1, LeastOf
<1>12. {q \in S : q < x} = upTo
    <2>1. x \in S /\ x > s
        OBVIOUS
    <2>2. ASSUME NEW q \in S, q < x PROVE q <= s
        BY <1>11, <2>1, <2>2
    <2>3. ASSUME NEW q \in S, q <= s PROVE q < x
        BY <2>1, <2>3
    <2> QED
        BY <2>2, <2>3
<1>13. Below(S, x) = i - 1
    BY <1>9, <1>12 DEF Below
<1> QED
    BY <1>3, <1>13

LEMMA PlanOK ==
    /\ PlanLegs[RepositoryPlan] \in Seq(Leg)
    /\ Len(PlanLegs[RepositoryPlan]) \in Nat
    /\ DOMAIN PlanLegs[RepositoryPlan] = 1 .. Len(PlanLegs[RepositoryPlan])
    /\ AggregateSlot(RepositoryPlan) = Len(PlanLegs[RepositoryPlan]) + 1
    /\ Required = {PlanLegs[RepositoryPlan][i] : i \in 1 .. Len(PlanLegs[RepositoryPlan])}
<1>1. PlanLegs[RepositoryPlan] \in Seq(Leg)
    BY Host0Assumption
<1> QED
    BY <1>1 DEF AggregateSlot, Required, LegsOf

\* Nth returns what it says.
LEMMA NthOK ==
    ASSUME NEW n \in Nat, NEW slots \in SUBSET (1 .. n), NEW i \in 1 .. Cardinality(slots)
    PROVE  Nth(slots, i) \in slots /\ Below(slots, Nth(slots, i)) = i - 1
<1>1. IsFiniteSet(1 .. n)
    BY FS_Interval
<1>2. IsFiniteSet(slots)
    BY <1>1, FS_Subset, Zenon
<1>2a. slots \in SUBSET Nat
    OBVIOUS
<1>3. \E s \in slots : Cardinality({q \in slots : q < s}) = i - 1
    BY <1>2, <1>2a, RankTaken DEF Below
<1> QED
    BY <1>3 DEF Nth, Below

\* If every slot is there, the i-th is i.
LEMMA NthOfAll ==
    ASSUME NEW n \in Nat, NEW i \in 1 .. n
    PROVE  Cardinality(1 .. n) = n /\ Nth(1 .. n, i) = i
<1>1. Cardinality(1 .. n) = n
    BY FS_Interval
<1>2. PICK s : s = Nth(1 .. n, i)
    OBVIOUS
<1>3. s \in 1 .. n /\ Below(1 .. n, s) = i - 1
    BY <1>1, <1>2, NthOK
<1>4. {q \in 1 .. n : q < s} = 1 .. s - 1
    BY <1>3
<1>5. Cardinality(1 .. s - 1) = s - 1
    BY <1>3, FS_Interval
<1>6. Cardinality({q \in 1 .. n : q < s}) = i - 1
    BY <1>3 DEF Below
<1>7. s = i
    <2>1. Cardinality({q \in 1 .. n : q < s}) = s - 1
        BY <1>4, <1>5, Zenon
    <2>2. s - 1 = i - 1
        BY <1>6, <2>1
    <2> QED
        BY <1>3, <2>2
<1> QED
    BY <1>1, <1>2, <1>7

LEMMA SlotsOK ==
    ASSUME NEW D
    PROVE  LET d == RepositoryPlan
               slots == {i \in DOMAIN PlanLegs[d] : PlanLegs[d][i] \in D}
           IN  /\ slots \in SUBSET (1 .. Len(PlanLegs[d]))
               /\ Cardinality(slots) \in 0 .. Len(PlanLegs[d])
               /\ D = Required => slots = 1 .. Len(PlanLegs[d])
<1> DEFINE n == Len(PlanLegs[RepositoryPlan])
           slots == {i \in DOMAIN PlanLegs[RepositoryPlan] : PlanLegs[RepositoryPlan][i] \in D}
<1>1. slots \in SUBSET (1 .. n) /\ (D = Required => slots = 1 .. n)
    BY PlanOK
<1>2. n \in Nat
    BY PlanOK
<1>3. IsFiniteSet(1 .. n) /\ Cardinality(1 .. n) = n
    BY <1>2, FS_Interval
<1>4. IsFiniteSet(slots) /\ Cardinality(slots) <= n
    BY <1>1, <1>3, FS_Subset
<1>5. Cardinality(slots) \in Nat
    BY <1>4, FS_CardinalityType
<1> QED
    BY <1>1, <1>2, <1>4, <1>5

\* What capture is given: at most one line per slot, no seal, and the aggregate only
\* of a complete aggregation.  Of those, one line for each slot, in order.
LEMMA EventsOK ==
    ASSUME NEW a \in CIAggregation
    PROVE  LET es == Events(a, RepositoryPlan)
           IN  /\ es \in Seq(Line)
               /\ Len(es) \in 0 .. AggregateSlot(RepositoryPlan)
               /\ \A i \in 1 .. Len(es) :
                    /\ es[i].kind # "seal"
                    /\ es[i].kind = "aggregate" =>
                         a.complete /\ es[i].value = AllPassed(a)
               /\ a.complete /\ DOMAIN a.reports = Required =>
                    /\ Len(es) = AggregateSlot(RepositoryPlan)
                    /\ \A i \in 1 .. Len(es) : es[i].slot = i
<1> DEFINE plan == PlanLegs[RepositoryPlan]
           n == Len(plan)
           slots == {i \in DOMAIN plan : plan[i] \in DOMAIN a.reports}
           m == Cardinality(slots)
           legs == [i \in 1 .. m |->
                      LegEvent(Nth(slots, i), Passed(a.reports[plan[Nth(slots, i)]]))]
           last == AggregateEvent(RepositoryPlan, AllPassed(a))
<1>1. n \in Nat /\ AggregateSlot(RepositoryPlan) = n + 1
    BY PlanOK
<1>2. slots \in SUBSET (1 .. n) /\ m \in 0 .. n
    BY SlotsOK
<1>3. Events(a, RepositoryPlan) = IF a.complete THEN Append(legs, last) ELSE legs
    BY DEF Events
<1>4. ASSUME NEW i \in 1 .. m PROVE Nth(slots, i) \in Nat
    <2> HIDE DEF slots, n
    <2>1. Nth(slots, i) \in slots
        BY <1>1, <1>2, NthOK
    <2>2. Nth(slots, i) \in 1 .. n
        BY <1>2, <2>1
    <2> QED
        BY <1>1, <2>2
<1>5. \A i \in 1 .. m : legs[i] \in Line /\ legs[i].kind = "leg"
                         /\ legs[i].slot = Nth(slots, i)
    BY <1>4 DEF LegEvent, Line, Passed
<1>6. legs \in Seq(Line) /\ Len(legs) = m
    <2>1. legs = [i \in 1 .. m |-> legs[i]]
        OBVIOUS
    <2>2. m \in Nat
        BY <1>2
    <2> HIDE DEF legs, m
    <2>3. legs \in [1 .. m -> Line]
        BY <1>5, <2>1
    <2> QED
        BY <2>2, <2>3
<1>7. last \in Line /\ last.kind = "aggregate" /\ last.slot = n + 1
      /\ last.value = AllPassed(a)
    BY <1>1 DEF AggregateEvent, AllPassed, Line
<1>8. DOMAIN a.reports = Required => m = n /\ \A i \in 1 .. m : Nth(slots, i) = i
    <2> SUFFICES ASSUME DOMAIN a.reports = Required
                 PROVE  m = n /\ \A i \in 1 .. m : Nth(slots, i) = i
        OBVIOUS
    <2>1. slots = 1 .. n
        BY SlotsOK
    <2>2. \A i \in 1 .. n : Cardinality(1 .. n) = n /\ Nth(1 .. n, i) = i
        BY <1>1, NthOfAll
    <2>3. Cardinality(1 .. n) = n
        BY <1>1, FS_Interval
    <2> HIDE DEF slots, n
    <2> QED
        BY <2>1, <2>2, <2>3
<1>9. a.complete \in BOOLEAN
    BY DEF CIAggregation
<1> HIDE DEF legs, last, n, m, slots
<1>10. CASE a.complete
    <2>1. Events(a, RepositoryPlan) = Append(legs, last)
        BY <1>3, <1>10
    <2>2. /\ Append(legs, last) \in Seq(Line)
          /\ Len(Append(legs, last)) = m + 1
          /\ \A i \in 1 .. m : Append(legs, last)[i] = legs[i]
          /\ Append(legs, last)[m + 1] = last
        BY <1>2, <1>6, <1>7
    <2>3. \A i \in 1 .. m + 1 : i \in 1 .. m \/ i = m + 1
        BY <1>1, <1>2
    <2> QED
        BY <1>1, <1>2, <1>5, <1>7, <1>8, <1>10, <2>1, <2>2, <2>3
<1>11. CASE ~a.complete
    BY <1>1, <1>2, <1>3, <1>5, <1>6, <1>11
<1> QED
    BY <1>9, <1>10, <1>11

-----------------------------------------------------------------------------
(* Aggregating what was delivered.                                         *)

\* A complete aggregation holds of each leg its only report, which is acceptable.
LEMMA AggregationOK ==
    ASSUME NEW box \in UNION {[paths -> Reports \cup {Malformed}] : paths \in SUBSET Path},
           NEW id, NEW t \in AtTimes
    PROVE  LET a == Aggregation(box, id, RepositoryPlan, t)
           IN  /\ a \in CIAggregation
               /\ a.complete =>
                    /\ a.reports \in [Required -> Reports]
                    /\ \A leg \in Required :
                         \E p \in Path :
                           /\ Candidates(box, leg) = {p}
                           /\ box[p].identity = id /\ box[p].plan = RepositoryPlan
                           /\ Product(box[p])
                           /\ a.reports[leg] = box[p]
<1> DEFINE Acc(leg) == Accept(box, leg, id, RepositoryPlan, t)
           accepted == {leg \in LegsOf(RepositoryPlan) : Acc(leg) # {}}
           reports == [leg \in accepted |-> box[CHOOSE p \in Acc(leg) : TRUE]]
           a == Aggregation(box, id, RepositoryPlan, t)
<1>1. /\ a.at = t /\ a.reports = reports /\ a.complete \in BOOLEAN
      /\ a = [at |-> a.at, reports |-> a.reports, complete |-> a.complete]
      /\ a.complete => accepted = Required
    BY DEF Aggregation, Required
<1>2. ASSUME NEW leg \in accepted
      PROVE  \E p \in Path :
               /\ Candidates(box, leg) = {p}
               /\ box[p] \in Reports
               /\ box[p].identity = id /\ box[p].plan = RepositoryPlan
               /\ Product(box[p])
               /\ reports[leg] = box[p]
    <2>1. PICK p : p = CHOOSE q \in Acc(leg) : TRUE
        OBVIOUS
    <2>2. p \in Acc(leg)
        BY <2>1
    <2>3. p \in Path /\ box[p] \in Reports
        BY <2>2 DEF Accept, Candidates, Parsed
    <2> QED
        BY <2>1, <2>2, <2>3 DEF Accept
<1>3. reports \in [accepted -> Reports]
    BY <1>2
<1>4. a \in CIAggregation
    BY <1>1, <1>3 DEF CIAggregation
<1> HIDE DEF accepted, reports, a
<1> QED
    BY <1>1, <1>2, <1>3, <1>4 DEF a
-----------------------------------------------------------------------------
(* Invariance.  Each action, for the parts it can disturb.                 *)

Others == <<pc, agg, sent, ok, evidence, read, known, outcome, record, receipts>>

LEMMA InitOK == Init => IInv
<1> SUFFICES ASSUME Init PROVE IInv
    OBVIOUS
<1>1. TypeOK
    <2>1. inbox \in [{} -> Reports \cup {Malformed}] /\ {} \in SUBSET Path
        BY DEF Init
    <2>2. 0 \in 0 .. AggregateSlot(RepositoryPlan)
        BY PlanOK
    <2>3. <<>> \in Seq(Line) /\ Len(<<>>) = 0
        OBVIOUS
    <2>4. inbox \in UNION {[paths -> Reports \cup {Malformed}] : paths \in SUBSET Path}
        BY <2>1
    <2>5. /\ artifact \in [forecast : Forecasts, parts : Parts] \cup {None}
          /\ pc \in [Run -> {"idle", "capturing", "processing", "recording", "stopped"}]
          /\ agg \in [Run -> CIAggregation \cup {None}]
          /\ sent \in [Run -> 0 .. AggregateSlot(RepositoryPlan)]
          /\ ok \in [Run -> BOOLEAN]
          /\ evidence \in [Run -> Seq(Line)]
          /\ read \in [Run -> Nat]
          /\ known \in [Run -> SUBSET Nat]
        BY <2>2, <2>3 DEF Init
    <2>6. /\ outcome \in [Run -> [settled : BOOLEAN, hit : BOOLEAN, observed : BOOLEAN]
                                 \cup {None}]
          /\ record \in [Run -> [complete : BOOLEAN, captured : BOOLEAN] \cup {None}]
          /\ receipts \subseteq [run : Run, identity : {f.identity : f \in Forecasts},
                                  hit : BOOLEAN]
        BY DEF Init
    <2>7. ASSUME NEW r \in Run
          PROVE  /\ pc[r] = "idle"
                 /\ read[r] <= Len(evidence[r])
                 /\ known[r] \subseteq 1 .. read[r]
        BY <2>3 DEF Init
    <2> QED
        BY <2>4, <2>5, <2>6, <2>7 DEF TypeOK
<1>2. Begun /\ Heard /\ Same /\ Faithful
    BY DEF Init, Begun, Heard, Same, Faithful, Counted, Active
<1>3. SealHonest /\ VerdictJustified /\ AbsenceIsLateness /\ Promoted
    BY DEF Init, SealHonest, VerdictJustified, AbsenceIsLateness, Promoted
<1> QED
    BY <1>1, <1>2, <1>3 DEF IInv

\* What was said stays said, and answers stay answers.
LEMMA InboxGrows ==
    ASSUME TypeOK, NEW p \in Path, NEW body \in Reports \cup {Malformed}, Deliver(p, body)
    PROVE  /\ inbox' \in UNION {[paths -> Reports \cup {Malformed}] : paths \in SUBSET Path}
           /\ \A q, leg : Answers(q, leg) => Answers(q, leg)' /\ inbox'[q] = inbox[q]
           /\ \A leg, answer : Said(leg, answer) => Said(leg, answer)'
<1>1. PICK paths \in SUBSET Path : inbox \in [paths -> Reports \cup {Malformed}]
    BY DEF TypeOK
<1>2. /\ inbox' \in [paths \cup {p} -> Reports \cup {Malformed}]
      /\ paths \cup {p} \in SUBSET Path
    BY <1>1 DEF Deliver
<1>3. \A q \in DOMAIN inbox : q \in DOMAIN inbox' /\ inbox'[q] = inbox[q]
    BY <1>1 DEF Deliver
<1>4. artifact' = artifact
    BY DEF Deliver
<1>5. \A q, leg : Answers(q, leg) => Answers(q, leg)' /\ inbox'[q] = inbox[q]
    BY <1>3, <1>4 DEF Answers, Parsed
<1>6. \A leg, answer : Said(leg, answer) => Said(leg, answer)'
    BY <1>3, <1>4 DEF Said, Parsed
<1> QED
    BY <1>2, <1>5, <1>6

\* What an execution has written, while another one or only its record changes.
LEMMA KeepsKept ==
    ASSUME NEW r \in Run, Keeps(r), agg'[r] = agg[r], evidence'[r] = evidence[r],
           sent'[r] = sent[r], ok'[r] = ok[r], pc'[r] = "capturing" => pc[r] = "capturing"
    PROVE  Keeps(r)'
BY DEF Keeps, AllPassed

\* The jobs touch neither an execution nor what it has concluded.
LEMMA JobsOK == IInv /\ Jobs => IInv'
<1> SUFFICES ASSUME IInv, Jobs PROVE IInv'
    OBVIOUS
<1>1. CASE \E f \in Forecasts, parts \in Parts : AuthorForecast(f, parts)
    <2>1. PICK f \in Forecasts, parts \in Parts : AuthorForecast(f, parts)
        BY <1>1
    <2>2. /\ artifact = None /\ UNCHANGED <<inbox, Others>>
          /\ artifact' \in [forecast : Forecasts, parts : Parts]
        BY <2>1 DEF AuthorForecast, Others
    <2>3. TypeOK'
        BY <2>2 DEF IInv, TypeOK, Others
    <2>4. \A r \in Run : ~Active(r) /\ record[r] = None /\ outcome[r] = None
        BY <2>2 DEF IInv, Begun
    <2>5. \A r \in Run : ~Active(r)' /\ record'[r] = None /\ outcome'[r] = None
        BY <2>2, <2>4 DEF Active, Others
    <2>6. Begun'
        BY <2>2, <2>5 DEF IInv, Begun, Active, Others
    <2>7. Heard' /\ Same' /\ Faithful' /\ VerdictJustified' /\ AbsenceIsLateness'
        BY <2>5 DEF Heard, Same, Faithful, Counted, VerdictJustified, AbsenceIsLateness
    <2>8. SealHonest' /\ Promoted'
        BY <2>2 DEF IInv, SealHonest, Promoted, Others
    <2> QED
        BY <2>3, <2>6, <2>7, <2>8 DEF IInv
<1>2. ASSUME NEW p \in Path, NEW body \in Reports \cup {Malformed}, Deliver(p, body)
      PROVE  IInv'
    <2>1. UNCHANGED <<artifact, Others>>
        BY <1>2 DEF Deliver, Others
    <2>2. /\ inbox' \in UNION {[paths -> Reports \cup {Malformed}] : paths \in SUBSET Path}
          /\ \A q, leg : Answers(q, leg) => Answers(q, leg)' /\ inbox'[q] = inbox[q]
          /\ \A leg, answer : Said(leg, answer) => Said(leg, answer)'
        BY <1>2, InboxGrows DEF IInv
    <2>3. TypeOK'
        BY <2>1, <2>2 DEF IInv, TypeOK, Others
    <2>4. \A r \in Run : (Active(r)' <=> Active(r)) /\ (Counted(r)' <=> Counted(r))
        BY <2>1 DEF Active, Counted, Others
    <2>5. Begun' /\ Same' /\ SealHonest' /\ Promoted'
        BY <2>1, <2>4 DEF IInv, Begun, Same, SealHonest, Promoted, Others
    <2>5a. Faithful'
        BY <2>1, <2>4, KeepsKept DEF IInv, Faithful, Others
    <2>6. Heard'
        <3> SUFFICES ASSUME NEW r \in Run, Counted(r)
                     PROVE  \E reports \in [Required -> Reports] :
                              /\ agg'[r].reports = reports
                              /\ \A leg \in Required :
                                   \E q \in Path : Answers(q, leg)' /\ reports[leg] = inbox'[q]
            BY <2>4 DEF Heard
        <3> QED
            BY <2>1, <2>2 DEF IInv, Heard, Others
    <2>7. VerdictJustified' /\ AbsenceIsLateness'
        BY <2>1, <2>2 DEF IInv, VerdictJustified, AbsenceIsLateness, Others
    <2> QED
        BY <2>3, <2>5, <2>5a, <2>6, <2>7 DEF IInv
<1>3. CASE \E p \in Path, report \in Reports : WriteReport(p, report)
    BY <1>2, <1>3 DEF WriteReport
<1>4. CASE \E p \in Path : DeliverMalformed(p)
    BY <1>2, <1>4 DEF DeliverMalformed
<1> QED
    BY <1>1, <1>3, <1>4 DEF Jobs

\* A complete aggregation that counts has heard every leg, and its verdict is theirs.
LEMMA AnsweredOK ==
    ASSUME Heard, NEW r \in Run, Counted(r)
    PROVE  /\ DOMAIN agg[r].reports = Required
           /\ \A leg \in Required :
                Said(leg, "success") \/ (~AllPassed(agg[r]) /\ Said(leg, "failure"))
           /\ ~AllPassed(agg[r]) => \E leg \in Required : Said(leg, "failure")
<1>1. PICK reports \in [Required -> Reports] :
        /\ agg[r].reports = reports
        /\ \A leg \in Required : \E p \in Path : Answers(p, leg) /\ reports[leg] = inbox[p]
    BY DEF Heard
<1>2. ASSUME NEW leg \in Required
      PROVE  /\ Passed(reports[leg]) => Said(leg, "success")
             /\ ~Passed(reports[leg]) => Said(leg, "failure")
    <2>1. PICK p \in Path : Answers(p, leg) /\ reports[leg] = inbox[p]
        BY <1>1
    <2>2. Classify(inbox[p].steps) = "passed" => Ran(inbox[p], "success")
        BY DEF Classify, Ran
    <2>3. Classify(inbox[p].steps) = "failed" => Ran(inbox[p], "failure")
        BY DEF Classify, Ran
    <2> QED
        BY <2>1, <2>2, <2>3 DEF Answers, Product, Passed, Said
<1>3. AllPassed(agg[r]) <=> \A leg \in Required : Passed(reports[leg])
    BY <1>1 DEF AllPassed
<1> QED
    BY <1>1, <1>2, <1>3

\* What an execution has heard it keeps, unless it aggregates or records.
LEMMA HeardKept ==
    ASSUME Heard, Same, UNCHANGED <<inputs, agg>>, \A r \in Run : Counted(r)' => Counted(r)
    PROVE  Heard' /\ Same'
<1>1. Same'
    BY DEF Same
<1>2. \A p, leg : Answers(p, leg)' <=> Answers(p, leg)
    BY DEF Answers, Parsed, inputs
<1>3. Heard'
    <2> SUFFICES ASSUME NEW r \in Run, Counted(r)
                 PROVE  \E reports \in [Required -> Reports] :
                          /\ agg'[r].reports = reports
                          /\ \A leg \in Required :
                               \E p \in Path : Answers(p, leg)' /\ reports[leg] = inbox'[p]
        BY DEF Heard
    <2> QED
        BY <1>2 DEF Heard, inputs
<1> QED
    BY <1>1, <1>3

LEMMA StoppingOK ==
    ASSUME IInv, NEW r \in Run, pc' = [pc EXCEPT ![r] = "stopped"],
           UNCHANGED <<inputs, agg, sent, ok, evidence, read, known, outcome, record,
                       receipts>>
    PROVE  IInv'
<1>1. TypeOK'
    BY DEF IInv, TypeOK, inputs
<1>2. \A s \in Run : /\ Active(s)' => Active(s) /\ pc'[s] = pc[s]
                     /\ pc'[s] \in {"idle", "capturing"} => pc'[s] = pc[s]
                     /\ pc[s] = "stopped" => pc'[s] = "stopped"
                     /\ Counted(s)' => Counted(s)
    BY DEF IInv, TypeOK, Active, Counted
<1>3. Begun'
    BY <1>2 DEF IInv, Begun, inputs
<1>4. Heard' /\ Same'
    BY <1>2, HeardKept DEF IInv
<1>5. Faithful'
    BY <1>2, KeepsKept DEF IInv, Faithful
<1>6. SealHonest' /\ VerdictJustified' /\ Promoted'
    BY DEF IInv, SealHonest, VerdictJustified, Promoted, Said, Parsed, inputs
<1>7. AbsenceIsLateness'
    BY DEF IInv, AbsenceIsLateness, inputs
<1> QED
    BY <1>1, <1>3, <1>4, <1>5, <1>6, <1>7 DEF IInv

\* A second aggregation hears what a first one heard: the only report of each leg.
LEMMA StartAggregateOK ==
    ASSUME IInv, NEW r \in Run, NEW t \in AtTimes, StartAggregate(r, t)
    PROVE  IInv'
<1> DEFINE a == Aggregation(inbox, artifact.forecast.identity, RepositoryPlan, t)
<1>0. /\ a \in CIAggregation
      /\ a.complete =>
           /\ a.reports \in [Required -> Reports]
           /\ \A leg \in Required :
                \E p \in Path :
                  /\ Candidates(inbox, leg) = {p}
                  /\ inbox[p].identity = artifact.forecast.identity
                  /\ inbox[p].plan = RepositoryPlan
                  /\ Product(inbox[p])
                  /\ a.reports[leg] = inbox[p]
    <2>1. inbox \in UNION {[paths -> Reports \cup {Malformed}] : paths \in SUBSET Path}
        BY DEF IInv, TypeOK
    <2>2. PICK box \in UNION {[paths -> Reports \cup {Malformed}] : paths \in SUBSET Path} :
            box = inbox
        BY <2>1
    <2>3. PICK id : id = artifact.forecast.identity
        OBVIOUS
    <2>4. a = Aggregation(box, id, RepositoryPlan, t)
        BY <2>2, <2>3
    <2> HIDE DEF a
    <2> QED
        BY <2>2, <2>3, <2>4, AggregationOK
<1>1. /\ pc[r] = "idle" /\ artifact # None
      /\ pc' = [pc EXCEPT ![r] = "capturing"] /\ agg' = [agg EXCEPT ![r] = a]
      /\ UNCHANGED <<inputs, sent, ok, evidence, read, known, outcome, record, receipts>>
    BY DEF StartAggregate
<1> HIDE DEF a
<1>2. TypeOK'
    <2>1. pc' \in [Run -> {"idle", "capturing", "processing", "recording", "stopped"}]
        BY <1>1 DEF IInv, TypeOK
    <2>2. agg' \in [Run -> CIAggregation \cup {None}]
        BY <1>0, <1>1 DEF IInv, TypeOK
    <2>3. ASSUME NEW s \in Run, pc'[s] \in {"capturing", "processing", "recording"}
          PROVE  agg'[s] \in CIAggregation
        BY <1>0, <1>1, <2>3 DEF IInv, TypeOK
    <2>4. /\ artifact' \in [forecast : Forecasts, parts : Parts] \cup {None}
          /\ inbox' \in UNION {[paths -> Reports \cup {Malformed}] : paths \in SUBSET Path}
        BY <1>1 DEF IInv, TypeOK, inputs
    <2>5. /\ sent' \in [Run -> 0 .. AggregateSlot(RepositoryPlan)]
          /\ ok' \in [Run -> BOOLEAN]
          /\ evidence' \in [Run -> Seq(Line)]
          /\ read' \in [Run -> Nat]
          /\ known' \in [Run -> SUBSET Nat]
        BY <1>1 DEF IInv, TypeOK
    <2>6. /\ outcome' \in [Run -> [settled : BOOLEAN, hit : BOOLEAN, observed : BOOLEAN]
                                  \cup {None}]
          /\ record' \in [Run -> [complete : BOOLEAN, captured : BOOLEAN] \cup {None}]
          /\ receipts' \subseteq [run : Run, identity : {f.identity : f \in Forecasts},
                                   hit : BOOLEAN]
        BY <1>1 DEF IInv, TypeOK
    <2>7. \A s \in Run : read'[s] <= Len(evidence'[s]) /\ known'[s] \subseteq 1 .. read'[s]
        BY <1>1 DEF IInv, TypeOK
    <2> QED
        BY <2>1, <2>2, <2>3, <2>4, <2>5, <2>6, <2>7 DEF TypeOK
<1>3. /\ pc'[r] = "capturing" /\ agg'[r] = a
      /\ \A s \in Run : s # r => pc'[s] = pc[s] /\ agg'[s] = agg[s]
      /\ sent[r] = 0 /\ ok[r] /\ evidence[r] = <<>> /\ record[r] = None
    BY <1>1 DEF IInv, TypeOK, Begun
<1>4. Begun'
    BY <1>1, <1>3 DEF IInv, Begun, Active, inputs
<1>5. \A s \in Run : s # r => (Counted(s)' <=> Counted(s)) /\ (Active(s)' <=> Active(s))
    BY <1>1, <1>3 DEF Counted, Active
<1>6. Counted(r)' => a.complete
    BY <1>3 DEF Counted
<1>7. \A p, leg : Answers(p, leg)' <=> Answers(p, leg)
    BY <1>1 DEF Answers, Parsed, inputs
<1>8. ASSUME NEW p, NEW leg, Candidates(inbox, leg) = {p}
      PROVE  p \in Parsed(inbox) /\ inbox[p].leg = leg
    BY <1>8 DEF Candidates
<1>9. a.complete => \A leg \in Required : \E p \in Path :
                      /\ Candidates(inbox, leg) = {p} /\ Answers(p, leg)
                      /\ a.reports[leg] = inbox[p]
    BY <1>0, <1>8 DEF Answers
<1>10. Heard'
    <2> SUFFICES ASSUME NEW s \in Run, Counted(s)'
                 PROVE  \E reports \in [Required -> Reports] :
                          /\ agg'[s].reports = reports
                          /\ \A leg \in Required :
                               \E p \in Path : Answers(p, leg) /\ reports[leg] = inbox[p]
        BY <1>1, <1>7 DEF Heard, inputs
    <2>1. CASE s = r
        BY <1>0, <1>3, <1>6, <1>9, <2>1
    <2>2. CASE s # r
        BY <1>3, <1>5, <2>2 DEF IInv, Heard
    <2> QED
        BY <2>1, <2>2
<1>11. ASSUME NEW s \in Run, s # r, Counted(s), a.complete
       PROVE  agg[s].reports = a.reports
    <2>1. PICK reports \in [Required -> Reports] :
            /\ agg[s].reports = reports
            /\ \A leg \in Required :
                 \E p \in Path : Answers(p, leg) /\ reports[leg] = inbox[p]
        BY <1>11 DEF IInv, Heard
    <2>2. ASSUME NEW leg \in Required PROVE reports[leg] = a.reports[leg]
        <3>1. PICK p \in Path : Answers(p, leg) /\ reports[leg] = inbox[p]
            BY <2>1
        <3>2. PICK q \in Path : Candidates(inbox, leg) = {q} /\ a.reports[leg] = inbox[q]
            BY <1>9, <1>11
        <3>3. p \in Candidates(inbox, leg)
            BY <3>1 DEF Answers, Candidates
        <3> QED
            BY <3>1, <3>2, <3>3
    <2>3. a.reports \in [Required -> Reports]
        BY <1>0, <1>11
    <2> QED
        BY <2>1, <2>2, <2>3
<1>12. Same'
    <2> SUFFICES ASSUME NEW s \in Run, NEW q \in Run, Counted(s)', Counted(q)'
                 PROVE  agg'[s].reports = agg'[q].reports
        BY DEF Same
    <2>1. CASE s = r /\ q = r
        BY <2>1
    <2>2. CASE s = r /\ q # r
        BY <1>3, <1>5, <1>6, <1>11, <2>2
    <2>3. CASE s # r /\ q = r
        BY <1>3, <1>5, <1>6, <1>11, <2>3
    <2>4. CASE s # r /\ q # r
        BY <1>3, <1>5, <2>4 DEF IInv, Same
    <2> QED
        BY <2>1, <2>2, <2>3, <2>4
<1>13. Faithful'
    <2>1. Keeps(r)'
        <3>1. Len(Events(a, RepositoryPlan)) \in 0 .. AggregateSlot(RepositoryPlan)
            BY <1>0, EventsOK
        <3>2. AggregateSlot(RepositoryPlan) \in Nat
            BY PlanOK
        <3>3. evidence'[r] = <<>> /\ sent'[r] = 0
            BY <1>1, <1>3
        <3>4. DOMAIN evidence'[r] = {} /\ Len(evidence'[r]) = 0
            BY <3>3
        <3>5. 0 <= Len(Events(a, RepositoryPlan))
            BY <3>1, <3>2
        <3>6. \A i \in 1 .. sent'[r] : FALSE
            BY <3>3
        <3> QED
            BY <1>3, <3>3, <3>4, <3>5, <3>6 DEF Keeps
    <2>2. ASSUME NEW s \in Run, s # r, Active(s)' PROVE Keeps(s)'
        BY <1>1, <1>3, <1>5, <2>2, KeepsKept DEF IInv, Faithful
    <2> QED
        BY <2>1, <2>2 DEF Faithful
<1>14. SealHonest' /\ VerdictJustified'
    BY <1>1 DEF IInv, SealHonest, VerdictJustified, Said, Parsed, inputs
<1>14a. AbsenceIsLateness'
    BY <1>1, <1>3 DEF IInv, Begun, AbsenceIsLateness, inputs
<1>15. Promoted'
    <2> SUFFICES ASSUME NEW x \in receipts
                 PROVE  /\ record[x.run] # None /\ agg'[x.run].complete
                        /\ x.hit = AllPassed(agg'[x.run])
        BY <1>1 DEF Promoted
    <2>1. x.run \in Run /\ record[x.run] # None
        BY DEF IInv, TypeOK, Promoted
    <2> QED
        BY <1>3, <2>1 DEF IInv, Promoted
<1> QED
    BY <1>2, <1>4, <1>10, <1>12, <1>13, <1>14, <1>14a, <1>15 DEF IInv

\* One capture, kept or failed: what it adds, if anything, is its line.
LEMMA CaptureOK ==
    ASSUME TypeOK, NEW r \in Run, NEW line \in Line,
           CaptureKept(r, line) \/ CaptureFailed(r, line)
    PROVE  /\ evidence' \in [Run -> Seq(Line)]
           /\ read' \in [Run -> Nat] /\ known' \in [Run -> SUBSET Nat]
           /\ ok' \in [Run -> BOOLEAN]
           /\ \A s \in Run : read'[s] <= Len(evidence'[s]) /\ known'[s] \subseteq 1 .. read'[s]
           /\ \A s \in Run : s # r => evidence'[s] = evidence[s] /\ ok'[s] = ok[s]
           /\ evidence'[r] = evidence[r] \/ evidence'[r] = Append(evidence[r], line)
           /\ ok'[r] => ok[r] /\ evidence'[r] = Append(evidence[r], line)
<1>1. /\ evidence[r] \in Seq(Line) /\ Len(evidence[r]) \in Nat /\ read[r] \in Nat
      /\ read[r] <= Len(evidence[r]) /\ known[r] \subseteq 1 .. read[r]
    BY DEF TypeOK
<1>2. /\ Append(evidence[r], line) \in Seq(Line)
      /\ Len(Append(evidence[r], line)) = Len(evidence[r]) + 1
    BY <1>1
<1>3. CASE CaptureKept(r, line)
    <2>1. /\ evidence' = [evidence EXCEPT ![r] = Append(evidence[r], line)]
          /\ read' = [read EXCEPT ![r] = Len(evidence[r]) + 1]
          /\ known' = [known EXCEPT ![r] =
                         known[r] \cup (read[r] + 1 .. Len(evidence[r]) + 1)]
          /\ ok' = ok
        BY <1>3 DEF CaptureKept
    <2>2. evidence' \in [Run -> Seq(Line)] /\ read' \in [Run -> Nat] /\ ok' \in [Run -> BOOLEAN]
        BY <1>1, <1>2, <2>1 DEF TypeOK
    <2>3. known[r] \cup (read[r] + 1 .. Len(evidence[r]) + 1) \in SUBSET Nat
        BY <1>1
    <2>4. known' \in [Run -> SUBSET Nat]
        BY <2>1, <2>3 DEF TypeOK
    <2>5. known[r] \cup (read[r] + 1 .. Len(evidence[r]) + 1)
            \subseteq 1 .. Len(evidence[r]) + 1
        BY <1>1
    <2>6. \A s \in Run : s # r => /\ evidence'[s] = evidence[s] /\ ok'[s] = ok[s]
                                  /\ read'[s] = read[s] /\ known'[s] = known[s]
        BY <2>1 DEF TypeOK
    <2>7. /\ evidence'[r] = Append(evidence[r], line) /\ read'[r] = Len(evidence[r]) + 1
          /\ known'[r] = known[r] \cup (read[r] + 1 .. Len(evidence[r]) + 1)
        BY <2>1 DEF TypeOK
    <2>8. ASSUME NEW s \in Run
          PROVE  read'[s] <= Len(evidence'[s]) /\ known'[s] \subseteq 1 .. read'[s]
        <3>1. CASE s = r
            BY <1>1, <1>2, <2>5, <2>7, <3>1
        <3>2. CASE s # r
            BY <2>6, <3>2 DEF TypeOK
        <3> QED
            BY <3>1, <3>2
    <2> QED
        BY <2>1, <2>2, <2>4, <2>6, <2>7, <2>8
<1>4. CASE CaptureFailed(r, line)
    <2>1. /\ \/ evidence' = evidence
             \/ evidence' = [evidence EXCEPT ![r] = Append(evidence[r], line)]
          /\ read' = [read EXCEPT ![r] = Len(evidence[r])]
          /\ ok' = [ok EXCEPT ![r] = FALSE]
          /\ known' = known
        BY <1>4 DEF CaptureFailed
    <2>2. read' \in [Run -> Nat] /\ ok' \in [Run -> BOOLEAN] /\ known' \in [Run -> SUBSET Nat]
        BY <1>1, <2>1 DEF TypeOK
    <2>3. evidence' \in [Run -> Seq(Line)]
        BY <1>2, <2>1 DEF TypeOK
    <2>4. \A s \in Run : s # r => /\ evidence'[s] = evidence[s] /\ ok'[s] = ok[s]
                                  /\ read'[s] = read[s] /\ known'[s] = known[s]
        BY <2>1 DEF TypeOK
    <2>5. /\ evidence'[r] = evidence[r] \/ evidence'[r] = Append(evidence[r], line)
          /\ read'[r] = Len(evidence[r]) /\ known'[r] = known[r] /\ ~ok'[r]
        BY <2>1 DEF TypeOK
    <2>6. ASSUME NEW s \in Run
          PROVE  read'[s] <= Len(evidence'[s]) /\ known'[s] \subseteq 1 .. read'[s]
        <3>1. CASE s = r
            <4>1. read'[s] <= Len(evidence'[s])
                BY <1>1, <1>2, <2>5, <3>1
            <4>2. known'[s] \subseteq 1 .. read'[s]
                BY <1>1, <2>5, <3>1
            <4> QED
                BY <4>1, <4>2
        <3>2. CASE s # r
            BY <2>4, <3>2 DEF TypeOK
        <3> QED
            BY <3>1, <3>2
    <2> QED
        BY <2>2, <2>3, <2>4, <2>5, <2>6
<1> QED
    BY <1>3, <1>4

\* What SealHonest says of one ledger; a line after it keeps that true.
Honest(lines) ==
    \A i \in DOMAIN lines :
      lines[i] = SealOver(RepositoryPlan, TRUE) =>
        /\ i = AggregateSlot(RepositoryPlan) + 1
        /\ \A slot \in 1 .. i - 1 : lines[slot].slot = slot

LEMMA HonestKept ==
    ASSUME NEW lines \in Seq(Line), NEW line \in Line, Honest(lines),
           line = SealOver(RepositoryPlan, TRUE) =>
             /\ Len(lines) = AggregateSlot(RepositoryPlan)
             /\ \A slot \in 1 .. Len(lines) : lines[slot].slot = slot
    PROVE  Honest(Append(lines, line))
<1> DEFINE more == Append(lines, line)
<1>1. PICK n \in Nat : n = Len(lines)
    OBVIOUS
<1>2. /\ DOMAIN lines = 1 .. n /\ DOMAIN more = 1 .. n + 1
      /\ \A i \in 1 .. n : more[i] = lines[i]
      /\ more[n + 1] = line
    BY <1>1
<1> HIDE DEF more
<1> SUFFICES ASSUME NEW i \in 1 .. n + 1, more[i] = SealOver(RepositoryPlan, TRUE)
             PROVE  /\ i = AggregateSlot(RepositoryPlan) + 1
                    /\ \A slot \in 1 .. i - 1 : more[slot].slot = slot
    BY <1>2 DEF more, Honest
<1>3. CASE i \in 1 .. n
    <2>1. \A slot \in 1 .. i - 1 : more[slot] = lines[slot]
        BY <1>2, <1>3
    <2> QED
        BY <1>2, <1>3, <2>1 DEF Honest
<1>4. CASE i = n + 1
    <2>1. more[i] = line
        BY <1>2, <1>4
    <2>2. n = AggregateSlot(RepositoryPlan) /\ \A slot \in 1 .. n : lines[slot].slot = slot
        BY <1>1, <2>1
    <2>3. i - 1 = n
        BY <1>4
    <2> QED
        BY <1>2, <1>4, <2>2, <2>3
<1> QED
    BY <1>3, <1>4

\* SealHonest, after a capture that may have added line to r's ledger.
LEMMA SealHonestKept ==
    ASSUME SealHonest, NEW r \in Run, NEW line \in Line, evidence[r] \in Seq(Line),
           \A s \in Run : s # r => evidence'[s] = evidence[s],
           evidence'[r] = evidence[r] \/ evidence'[r] = Append(evidence[r], line),
           line = SealOver(RepositoryPlan, TRUE) =>
             /\ Len(evidence[r]) = AggregateSlot(RepositoryPlan)
             /\ \A slot \in 1 .. Len(evidence[r]) : evidence[r][slot].slot = slot
    PROVE  SealHonest'
<1>1. SealHonest <=> \A s \in Run : Honest(evidence[s])
    BY DEF SealHonest, Honest
<1>2. SealHonest' <=> \A s \in Run : Honest(evidence'[s])
    BY DEF SealHonest, Honest
<1>3. PICK lines \in Seq(Line) : lines = evidence[r]
    OBVIOUS
<1>4. Honest(lines) /\ Honest(Append(lines, line))
    BY <1>1, <1>3, HonestKept
<1>5. ASSUME NEW s \in Run PROVE Honest(evidence'[s])
    <2>1. CASE s = r
        BY <1>3, <1>4, <2>1
    <2>2. CASE s # r
        BY <1>1, <2>2
    <2> QED
        BY <2>1, <2>2
<1> QED
    BY <1>2, <1>5

LEMMA CaptureEventOK ==
    ASSUME IInv, NEW r \in Run, CaptureEvent(r)
    PROVE  IInv'
<1>1. PICK es : es = Events(agg[r], RepositoryPlan)
    OBVIOUS
<1>2. PICK n : n = sent[r]
    OBVIOUS
<1>3. PICK line : line = es[n + 1]
    OBVIOUS
<1>4. /\ pc[r] = "capturing" /\ n < Len(es) /\ sent' = [sent EXCEPT ![r] = n + 1]
      /\ CaptureKept(r, line) \/ CaptureFailed(r, line)
      /\ UNCHANGED <<inputs, pc, agg, outcome, record, receipts>>
    BY <1>1, <1>2, <1>3 DEF CaptureEvent
<1>5. /\ es \in Seq(Line) /\ Len(es) \in 0 .. AggregateSlot(RepositoryPlan)
      /\ AggregateSlot(RepositoryPlan) \in Nat /\ n \in 0 .. AggregateSlot(RepositoryPlan)
      /\ \A i \in 1 .. Len(es) :
           /\ es[i].kind # "seal"
           /\ es[i].kind = "aggregate" => agg[r].complete /\ es[i].value = AllPassed(agg[r])
    <2>1. PICK a \in CIAggregation : a = agg[r]
        BY <1>4 DEF IInv, TypeOK
    <2>2. AggregateSlot(RepositoryPlan) \in Nat /\ n \in 0 .. AggregateSlot(RepositoryPlan)
        BY <1>2, PlanOK DEF IInv, TypeOK
    <2>3. es = Events(a, RepositoryPlan) /\ (AllPassed(a) <=> AllPassed(agg[r]))
        BY <1>1, <2>1
    <2>4. AllPassed(a) = AllPassed(agg[r])
        BY <2>1
    <2> QED
        BY <2>1, <2>2, <2>3, <2>4, EventsOK
<1>6. /\ n + 1 \in 1 .. Len(es) /\ line \in Line /\ line.kind # "seal"
      /\ line.kind = "aggregate" => agg[r].complete /\ line.value = AllPassed(agg[r])
    BY <1>3, <1>4, <1>5
<1>7. /\ evidence' \in [Run -> Seq(Line)]
      /\ read' \in [Run -> Nat] /\ known' \in [Run -> SUBSET Nat]
      /\ ok' \in [Run -> BOOLEAN]
      /\ \A s \in Run : read'[s] <= Len(evidence'[s]) /\ known'[s] \subseteq 1 .. read'[s]
      /\ \A s \in Run : s # r => evidence'[s] = evidence[s] /\ ok'[s] = ok[s]
      /\ evidence'[r] = evidence[r] \/ evidence'[r] = Append(evidence[r], line)
      /\ ok'[r] => ok[r] /\ evidence'[r] = Append(evidence[r], line)
    BY <1>4, <1>6, CaptureOK DEF IInv
<1>8. sent' \in [Run -> 0 .. AggregateSlot(RepositoryPlan)]
    <2>1. n + 1 \in 0 .. AggregateSlot(RepositoryPlan)
        BY <1>4, <1>5
    <2> QED
        BY <1>4, <2>1 DEF IInv, TypeOK
<1>9. sent'[r] = n + 1 /\ \A s \in Run : s # r => sent'[s] = sent[s]
    BY <1>4 DEF IInv, TypeOK
<1>10. TypeOK'
    BY <1>4, <1>7, <1>8 DEF IInv, TypeOK, inputs
<1>11. Begun'
    BY <1>4, <1>7, <1>9 DEF IInv, Begun, Active, inputs
<1>12. Heard' /\ Same'
    BY <1>4, HeardKept DEF IInv, Counted, Active
<1>13. evidence[r] \in Seq(Line) /\ Keeps(r)
    BY <1>4 DEF IInv, TypeOK, Faithful, Active
<1>14. line # SealOver(RepositoryPlan, TRUE)
    BY <1>6 DEF SealOver
<1>15. /\ Len(evidence[r]) \in Nat /\ DOMAIN evidence[r] = 1 .. Len(evidence[r])
       /\ Len(Append(evidence[r], line)) = Len(evidence[r]) + 1
       /\ DOMAIN Append(evidence[r], line) = 1 .. Len(evidence[r]) + 1
       /\ \A i \in 1 .. Len(evidence[r]) : Append(evidence[r], line)[i] = evidence[r][i]
       /\ Append(evidence[r], line)[Len(evidence[r]) + 1] = line
    BY <1>6, <1>13
<1>16. Keeps(r)'
    <2>1. agg'[r] = agg[r] /\ (AllPassed(agg'[r]) = AllPassed(agg[r]))
        BY <1>4
    <2>2. ASSUME NEW i \in DOMAIN evidence'[r]
          PROVE  evidence'[r][i] = line
                 \/ (i \in DOMAIN evidence[r] /\ evidence'[r][i] = evidence[r][i])
        BY <1>7, <1>15
    <2>3. ASSUME NEW i \in DOMAIN evidence'[r]
          PROVE  /\ evidence'[r][i].kind = "aggregate" =>
                      agg[r].complete /\ evidence'[r][i].value = AllPassed(agg[r])
                 /\ evidence'[r][i] # SealOver(RepositoryPlan, TRUE)
                 /\ evidence'[r][i].kind # "seal"
        BY <1>4, <1>6, <1>13, <1>14, <2>2 DEF Keeps, SealOver
    <2>4. ASSUME ok'[r]
          PROVE  /\ Len(evidence'[r]) = n + 1 /\ n + 1 <= Len(es)
                 /\ \A i \in 1 .. n + 1 : evidence'[r][i] = es[i]
        <3>1. /\ Len(evidence[r]) = n
              /\ \A i \in 1 .. n : evidence[r][i] = es[i]
            BY <1>1, <1>2, <1>4, <1>7, <1>13, <2>4 DEF Keeps
        <3>2. evidence'[r] = Append(evidence[r], line)
            BY <1>7, <2>4
        <3>3. \A i \in 1 .. n + 1 : i \in 1 .. n \/ i = n + 1
            BY <1>5
        <3> QED
            BY <1>3, <1>6, <1>15, <3>1, <3>2, <3>3
    <2> QED
        BY <1>1, <1>9, <2>1, <2>3, <2>4 DEF Keeps
<1>17. ASSUME NEW s \in Run, s # r, Active(s)' PROVE Keeps(s)'
    <2>1. Active(s) /\ Keeps(s)
        BY <1>4, <1>17 DEF IInv, Faithful, Active
    <2> QED
        BY <1>4, <1>7, <1>9, <1>17, <2>1, KeepsKept
<1>18. Faithful'
    BY <1>16, <1>17 DEF Faithful
<1>19. SealHonest'
    BY <1>6, <1>7, <1>13, <1>14, SealHonestKept DEF IInv
<1>20. VerdictJustified' /\ Promoted'
    BY <1>4 DEF IInv, VerdictJustified, Promoted, Said, Parsed, AllPassed, inputs
<1>21. AbsenceIsLateness'
    BY <1>4, <1>7 DEF IInv, Begun, AbsenceIsLateness, inputs
<1> QED
    BY <1>10, <1>11, <1>12, <1>18, <1>19, <1>20, <1>21 DEF IInv

\* A seal written complete follows one line per slot: no capture had failed.
LEMMA CaptureSealOK ==
    ASSUME IInv, NEW r \in Run, CaptureSeal(r)
    PROVE  IInv'
<1>1. PICK line : line = SealOver(RepositoryPlan, SealValue(r))
    OBVIOUS
<1>2. /\ pc[r] = "capturing" /\ pc' = [pc EXCEPT ![r] = "processing"]
      /\ sent[r] = Len(Events(agg[r], RepositoryPlan))
      /\ CaptureKept(r, line) \/ CaptureFailed(r, line)
      /\ UNCHANGED <<inputs, agg, sent, outcome, record, receipts>>
    BY <1>1 DEF CaptureSeal
<1>3. PICK a \in CIAggregation : a = agg[r]
    BY <1>2 DEF IInv, TypeOK
<1>4. evidence[r] \in Seq(Line) /\ Keeps(r) /\ ok[r] \in BOOLEAN /\ a.complete \in BOOLEAN
    BY <1>2 DEF IInv, TypeOK, Faithful, Active, CIAggregation
<1>5. /\ line \in Line /\ line.kind = "seal"
      /\ line = SealOver(RepositoryPlan, TRUE) => a.complete /\ ok[r]
    <2>1. SealValue(r) \in BOOLEAN /\ (SealValue(r) <=> a.complete /\ ok[r])
        BY <1>3, <1>4 DEF SealValue
    <2>2. AggregateSlot(RepositoryPlan) \in Nat
        BY PlanOK
    <2> QED
        BY <1>1, <2>1, <2>2 DEF SealOver, Line
<1>6. /\ evidence' \in [Run -> Seq(Line)]
      /\ read' \in [Run -> Nat] /\ known' \in [Run -> SUBSET Nat]
      /\ ok' \in [Run -> BOOLEAN]
      /\ \A s \in Run : read'[s] <= Len(evidence'[s]) /\ known'[s] \subseteq 1 .. read'[s]
      /\ \A s \in Run : s # r => evidence'[s] = evidence[s] /\ ok'[s] = ok[s]
      /\ evidence'[r] = evidence[r] \/ evidence'[r] = Append(evidence[r], line)
      /\ ok'[r] => ok[r] /\ evidence'[r] = Append(evidence[r], line)
    BY <1>2, <1>5, CaptureOK DEF IInv
<1>7. /\ pc'[r] = "processing" /\ \A s \in Run : s # r => pc'[s] = pc[s]
    BY <1>2 DEF IInv, TypeOK
<1>8. TypeOK'
    <2>1. pc' \in [Run -> {"idle", "capturing", "processing", "recording", "stopped"}]
        BY <1>2 DEF IInv, TypeOK
    <2>2. \A s \in Run : pc'[s] \in {"capturing", "processing", "recording"} =>
                           agg'[s] \in CIAggregation
        BY <1>2, <1>7 DEF IInv, TypeOK
    <2> QED
        BY <1>2, <1>6, <2>1, <2>2 DEF IInv, TypeOK, inputs
<1>9. Begun'
    BY <1>2, <1>6, <1>7 DEF IInv, Begun, Active, inputs
<1>10. Heard' /\ Same'
    BY <1>2, <1>7, HeardKept DEF IInv, Counted, Active
<1>11. Keeps(r)'
    <2>1. ASSUME NEW i \in DOMAIN evidence'[r]
          PROVE  evidence'[r][i] = line
                 \/ (i \in DOMAIN evidence[r] /\ evidence'[r][i] = evidence[r][i])
        <3>1. /\ Len(evidence[r]) \in Nat /\ DOMAIN evidence[r] = 1 .. Len(evidence[r])
              /\ DOMAIN Append(evidence[r], line) = 1 .. Len(evidence[r]) + 1
              /\ \A j \in 1 .. Len(evidence[r]) : Append(evidence[r], line)[j] = evidence[r][j]
              /\ Append(evidence[r], line)[Len(evidence[r]) + 1] = line
            BY <1>4, <1>5
        <3> QED
            BY <1>6, <3>1
    <2>2. agg'[r] = agg[r] /\ AllPassed(agg'[r]) = AllPassed(agg[r])
        BY <1>2
    <2>3. ASSUME NEW i \in DOMAIN evidence'[r], evidence'[r][i].kind = "aggregate"
          PROVE  agg[r].complete /\ evidence'[r][i].value = AllPassed(agg[r])
        BY <1>3, <1>4, <1>5, <2>1, <2>3 DEF Keeps
    <2>4. ASSUME NEW i \in DOMAIN evidence'[r],
                 evidence'[r][i] = SealOver(RepositoryPlan, TRUE)
          PROVE  /\ agg[r].complete
                 /\ evidence'[r] = Append(Events(agg[r], RepositoryPlan),
                                          SealOver(RepositoryPlan, TRUE))
        <3>1. \A j \in DOMAIN evidence[r] : evidence[r][j] # SealOver(RepositoryPlan, TRUE)
            BY <1>2, <1>4 DEF Keeps, SealOver
        <3>2. evidence'[r][i] = line
            BY <2>1, <2>4, <3>1
        <3>3. a.complete /\ ok[r] /\ line = SealOver(RepositoryPlan, TRUE)
            BY <1>5, <2>4, <3>2
        <3>4. evidence'[r] = Append(evidence[r], line)
            BY <1>6, <2>4, <3>1
        <3>5. PICK es : es = Events(a, RepositoryPlan)
            OBVIOUS
        <3>6. es \in Seq(Line)
            BY <3>5, EventsOK
        <3>7. Len(evidence[r]) = Len(es) /\ \A j \in 1 .. Len(es) : evidence[r][j] = es[j]
            BY <1>2, <1>3, <1>4, <3>3, <3>5 DEF Keeps
        <3>8. evidence[r] = es
            BY <1>4, <3>6, <3>7
        <3> QED
            BY <1>3, <3>3, <3>4, <3>5, <3>8
    <2> QED
        BY <1>7, <2>2, <2>3, <2>4 DEF Keeps
<1>12. ASSUME NEW s \in Run, s # r, Active(s)' PROVE Keeps(s)'
    <2>1. Active(s) /\ Keeps(s)
        BY <1>7, <1>12 DEF IInv, Faithful, Active
    <2> QED
        BY <1>2, <1>6, <1>7, <1>12, <2>1, KeepsKept
<1>13. Faithful'
    BY <1>11, <1>12 DEF Faithful
<1>14. line = SealOver(RepositoryPlan, TRUE) =>
         /\ Len(evidence[r]) = AggregateSlot(RepositoryPlan)
         /\ \A slot \in 1 .. Len(evidence[r]) : evidence[r][slot].slot = slot
    <2> SUFFICES ASSUME a.complete, ok[r]
                 PROVE  /\ Len(evidence[r]) = AggregateSlot(RepositoryPlan)
                        /\ \A slot \in 1 .. Len(evidence[r]) : evidence[r][slot].slot = slot
        BY <1>5
    <2>1. Counted(r)
        BY <1>2, <1>3 DEF Counted, Active
    <2>2. DOMAIN a.reports = Required
        BY <1>3, <2>1, AnsweredOK DEF IInv
    <2>3. PICK es : es = Events(a, RepositoryPlan)
        OBVIOUS
    <2>4. Len(es) = AggregateSlot(RepositoryPlan) /\ \A i \in 1 .. Len(es) : es[i].slot = i
        BY <2>2, <2>3, EventsOK
    <2>5. /\ Len(evidence[r]) = sent[r]
          /\ \A i \in 1 .. sent[r] : evidence[r][i] = es[i]
        BY <1>2, <1>3, <1>4, <2>3 DEF Keeps
    <2>6. sent[r] = Len(es)
        BY <1>2, <1>3, <2>3
    <2> QED
        BY <2>4, <2>5, <2>6
<1>15. SealHonest'
    BY <1>4, <1>5, <1>6, <1>14, SealHonestKept DEF IInv
<1>16. VerdictJustified' /\ Promoted'
    BY <1>2 DEF IInv, VerdictJustified, Promoted, Said, Parsed, AllPassed, inputs
<1>17. AbsenceIsLateness'
    BY <1>2, <1>6 DEF IInv, Begun, AbsenceIsLateness, inputs
<1> QED
    BY <1>8, <1>9, <1>10, <1>13, <1>15, <1>16, <1>17 DEF IInv

\* A settled judgement over the lines of an execution is what its reports say.
LEMMA JudgementOK ==
    ASSUME IInv, NEW r \in Run, Active(r),
           NEW lines \in SUBSET {evidence[r][i] : i \in DOMAIN evidence[r]},
           NEW o, o = Judgement(artifact.forecast, agg[r].at, lines)
    PROVE  /\ o \in [settled : BOOLEAN, hit : BOOLEAN, observed : BOOLEAN] \cup {None}
           /\ o # None /\ o.settled =>
                /\ \A leg \in Required :
                     Said(leg, "success") \/ (~o.hit /\ Said(leg, "failure"))
                /\ o.observed /\ ~o.hit => \E leg \in Required : Said(leg, "failure")
                /\ ~o.observed =>
                     /\ agg[r].complete
                     /\ agg[r].at > artifact.forecast.created + Window
                     /\ evidence[r] = Append(Events(agg[r], RepositoryPlan),
                                             SealOver(RepositoryPlan, TRUE))
<1> DEFINE verdicts == {line \in lines : line.kind = "aggregate"}
<1>1. \A line \in lines :
        /\ line.kind = "aggregate" => agg[r].complete /\ line.value = AllPassed(agg[r])
        /\ line = SealOver(RepositoryPlan, TRUE) =>
             /\ agg[r].complete
             /\ evidence[r] = Append(Events(agg[r], RepositoryPlan),
                                     SealOver(RepositoryPlan, TRUE))
    <2>1. Keeps(r)
        BY DEF IInv, Faithful
    <2> QED
        BY <2>1 DEF Keeps
<1>2. agg[r].complete =>
        /\ \A leg \in Required :
             Said(leg, "success") \/ (~AllPassed(agg[r]) /\ Said(leg, "failure"))
        /\ ~AllPassed(agg[r]) => \E leg \in Required : Said(leg, "failure")
    BY AnsweredOK DEF IInv, Counted
<1>3. CASE verdicts # {} /\ InWindow(artifact.forecast, agg[r].at)
    <2>1. o = [settled |-> TRUE, hit |-> \E v \in verdicts : v.value, observed |-> TRUE]
        BY <1>3 DEF Judgement
    <2>2. agg[r].complete /\ (o.hit <=> AllPassed(agg[r])) /\ o.observed
        <3>1. o.observed /\ o.hit = (\E v \in verdicts : v.value)
            BY <2>1
        <3>2. PICK v \in verdicts : TRUE
            BY <1>3
        <3>3. agg[r].complete /\ \A w \in verdicts : w.value = AllPassed(agg[r])
            BY <1>1, <3>2
        <3>4. (\E w \in verdicts : w.value) <=> AllPassed(agg[r])
            <4> HIDE DEF verdicts
            <4> QED
                BY <3>2, <3>3, Zenon
        <3> QED
            BY <3>1, <3>3, <3>4
    <2>3. o \in [settled : BOOLEAN, hit : BOOLEAN, observed : BOOLEAN]
        BY <2>1
    <2> QED
        BY <1>2, <2>2, <2>3
<1>4. CASE ~(verdicts # {} /\ InWindow(artifact.forecast, agg[r].at))
    <2>1. CASE agg[r].at <= artifact.forecast.created + Window
        <3>1. o = None
            BY <1>4, <2>1 DEF Judgement
        <3> QED
            BY <3>1
    <2>2. CASE ~(agg[r].at <= artifact.forecast.created + Window)
        <3>1. o = [settled |-> StreamComplete(lines), hit |-> FALSE, observed |-> FALSE]
            BY <1>4, <2>2 DEF Judgement
        <3>2. o.settled = StreamComplete(lines) /\ o.hit = FALSE /\ o.observed = FALSE
            BY <3>1
        <3>3. StreamComplete(lines) =>
                /\ agg[r].complete
                /\ evidence[r] = Append(Events(agg[r], RepositoryPlan),
                                        SealOver(RepositoryPlan, TRUE))
            BY <1>1 DEF StreamComplete
        <3>4. StreamComplete(lines) \in BOOLEAN
            BY DEF StreamComplete
        <3>5. o \in [settled : BOOLEAN, hit : BOOLEAN, observed : BOOLEAN]
            BY <3>1, <3>4
        <3>6. o.settled => \A leg \in Required : Said(leg, "success") \/ Said(leg, "failure")
            BY <1>2, <3>2, <3>3
        <3>7. agg[r].at > artifact.forecast.created + Window
            <4>1. artifact # None /\ agg[r].at \in Nat
                BY Host0Assumption DEF IInv, Begun, TypeOK, Active, CIAggregation
            <4>2. artifact.forecast.created \in Nat /\ Window \in Nat
                BY <4>1, Host0Assumption DEF IInv, TypeOK
            <4> QED
                BY <2>2, <4>1, <4>2
        <3> QED
            BY <3>2, <3>3, <3>5, <3>6, <3>7
    <2> QED
        BY <2>1, <2>2
<1> QED
    BY <1>3, <1>4

LEMMA ProcessOK ==
    ASSUME IInv, NEW r \in Run, Process(r)
    PROVE  IInv'
<1> DEFINE merged == known[r] \cup (read[r] + 1 .. Len(evidence[r]))
           lines == {evidence[r][i] : i \in merged}
           o == Judgement(artifact.forecast, agg[r].at, lines)
<1>1. /\ pc[r] = "processing" /\ pc' = [pc EXCEPT ![r] = "recording"]
      /\ known' = [known EXCEPT ![r] = merged]
      /\ read' = [read EXCEPT ![r] = Len(evidence[r])]
      /\ UNCHANGED <<inputs, agg, sent, ok, evidence, record, receipts>>
      /\ \/ outcome' = [outcome EXCEPT ![r] = o]
         \/ outcome' = [outcome EXCEPT ![r] = None]
    BY DEF Process
<1>2. /\ evidence[r] \in Seq(Line) /\ Len(evidence[r]) \in Nat
      /\ DOMAIN evidence[r] = 1 .. Len(evidence[r])
      /\ read[r] \in Nat /\ read[r] <= Len(evidence[r]) /\ known[r] \subseteq 1 .. read[r]
    BY DEF IInv, TypeOK
<1>3. merged \subseteq 1 .. Len(evidence[r])
    BY <1>2
<1>4. Active(r)
    BY <1>1 DEF Active
<1>5. /\ o \in [settled : BOOLEAN, hit : BOOLEAN, observed : BOOLEAN] \cup {None}
      /\ o # None /\ o.settled =>
           /\ \A leg \in Required :
                Said(leg, "success") \/ (~o.hit /\ Said(leg, "failure"))
           /\ o.observed /\ ~o.hit => \E leg \in Required : Said(leg, "failure")
           /\ ~o.observed =>
                /\ agg[r].complete
                /\ agg[r].at > artifact.forecast.created + Window
                /\ evidence[r] = Append(Events(agg[r], RepositoryPlan),
                                        SealOver(RepositoryPlan, TRUE))
    <2>1. PICK ls \in SUBSET {evidence[r][i] : i \in DOMAIN evidence[r]} : ls = lines
        <3> HIDE DEF merged
        <3> QED
            BY <1>2, <1>3
    <2>2. PICK x : x = o
        OBVIOUS
    <2>3. x = Judgement(artifact.forecast, agg[r].at, ls)
        BY <2>1, <2>2
    <2> HIDE DEF o
    <2> QED
        BY <1>4, <2>2, <2>3, JudgementOK
<1>6. PICK x \in {o, None} : outcome' = [outcome EXCEPT ![r] = x]
    BY <1>1
<1> HIDE DEF o, merged, lines
<1>7. /\ x \in [settled : BOOLEAN, hit : BOOLEAN, observed : BOOLEAN] \cup {None}
      /\ x # None /\ x.settled =>
           /\ \A leg \in Required :
                Said(leg, "success") \/ (~x.hit /\ Said(leg, "failure"))
           /\ x.observed /\ ~x.hit => \E leg \in Required : Said(leg, "failure")
           /\ ~x.observed =>
                /\ agg[r].complete
                /\ agg[r].at > artifact.forecast.created + Window
                /\ evidence[r] = Append(Events(agg[r], RepositoryPlan),
                                        SealOver(RepositoryPlan, TRUE))
    BY <1>5
<1>8. /\ pc'[r] = "recording" /\ outcome'[r] = x
      /\ \A s \in Run : s # r => pc'[s] = pc[s] /\ outcome'[s] = outcome[s]
    BY <1>1, <1>6 DEF IInv, TypeOK
<1>9. TypeOK'
    <2>1. /\ pc' \in [Run -> {"idle", "capturing", "processing", "recording", "stopped"}]
          /\ known' \in [Run -> SUBSET Nat] /\ read' \in [Run -> Nat]
        <3>1. merged \in SUBSET Nat
            BY <1>2, <1>3
        <3> QED
            BY <1>1, <1>2, <3>1 DEF IInv, TypeOK
    <2>2. outcome' \in [Run -> [settled : BOOLEAN, hit : BOOLEAN, observed : BOOLEAN]
                               \cup {None}]
        BY <1>6, <1>7 DEF IInv, TypeOK
    <2>3. ASSUME NEW s \in Run
          PROVE  /\ pc'[s] \in {"capturing", "processing", "recording"} =>
                      agg'[s] \in CIAggregation
                 /\ read'[s] <= Len(evidence'[s]) /\ known'[s] \subseteq 1 .. read'[s]
        <3>1. CASE s = r
            <4>1. /\ agg'[r] \in CIAggregation /\ evidence'[r] = evidence[r]
                  /\ read'[r] = Len(evidence[r]) /\ known'[r] = merged
                BY <1>1 DEF IInv, TypeOK
            <4> QED
                BY <1>2, <1>3, <3>1, <4>1
        <3>2. CASE s # r
            BY <1>1, <3>2 DEF IInv, TypeOK
        <3> QED
            BY <3>1, <3>2
    <2> QED
        BY <1>1, <2>1, <2>2, <2>3 DEF IInv, TypeOK, inputs
<1>10. Begun'
    BY <1>1, <1>4, <1>8 DEF IInv, Begun, Active, inputs
<1>11. Heard' /\ Same'
    BY <1>1, <1>8, HeardKept DEF IInv, Counted, Active
<1>12. Faithful'
    <2> SUFFICES ASSUME NEW s \in Run, Active(s)' PROVE Keeps(s)'
        BY DEF Faithful
    <2>1. Active(s) /\ Keeps(s) /\ (pc'[s] = "capturing" => pc[s] = "capturing")
        BY <1>4, <1>8 DEF IInv, Faithful, Active
    <2> QED
        BY <1>1, <2>1, KeepsKept
<1>13. SealHonest' /\ Promoted'
    BY <1>1 DEF IInv, SealHonest, Promoted, AllPassed
<1>14. VerdictJustified'
    <2>1. \A leg, answer : Said(leg, answer)' <=> Said(leg, answer)
        BY <1>1 DEF Said, Parsed, inputs
    <2> QED
        BY <1>7, <1>8, <2>1 DEF IInv, VerdictJustified, Required
<1>15. AbsenceIsLateness'
    BY <1>1, <1>7, <1>8 DEF IInv, AbsenceIsLateness, inputs
<1> QED
    BY <1>9, <1>10, <1>11, <1>12, <1>13, <1>14, <1>15 DEF IInv

LEMMA RecordOK ==
    ASSUME IInv, NEW r \in Run, Record(r)
    PROVE  IInv'
<1>1. PICK x : x = [complete |-> agg[r].complete, captured |-> agg[r].complete /\ ok[r]]
    OBVIOUS
<1>2. /\ pc[r] = "recording" /\ pc' = [pc EXCEPT ![r] = "stopped"]
      /\ record' = [record EXCEPT ![r] = x]
      /\ UNCHANGED <<inputs, agg, sent, ok, evidence, read, known, outcome, receipts>>
    BY <1>1 DEF Record
<1>3. x \in [complete : BOOLEAN, captured : BOOLEAN] /\ x.complete = agg[r].complete
    <2>1. agg[r].complete \in BOOLEAN /\ ok[r] \in BOOLEAN
        BY <1>2 DEF IInv, TypeOK, CIAggregation
    <2> QED
        BY <1>1, <2>1
<1>4. /\ pc'[r] = "stopped" /\ record'[r] = x /\ record[r] = None
      /\ \A s \in Run : s # r => pc'[s] = pc[s] /\ record'[s] = record[s]
    BY <1>2 DEF IInv, TypeOK, Begun
<1>5. TypeOK'
    <2>1. /\ pc' \in [Run -> {"idle", "capturing", "processing", "recording", "stopped"}]
          /\ record' \in [Run -> [complete : BOOLEAN, captured : BOOLEAN] \cup {None}]
        BY <1>2, <1>3 DEF IInv, TypeOK
    <2>2. \A s \in Run : pc'[s] \in {"capturing", "processing", "recording"} =>
                           agg'[s] \in CIAggregation
        BY <1>2, <1>4 DEF IInv, TypeOK
    <2> QED
        BY <1>2, <2>1, <2>2 DEF IInv, TypeOK, inputs
<1>6. Begun'
    BY <1>2, <1>3, <1>4 DEF IInv, Begun, Active, inputs
<1>7. Heard' /\ Same'
    BY <1>2, <1>4, HeardKept DEF IInv, Counted, Active
<1>8. Faithful'
    <2> SUFFICES ASSUME NEW s \in Run, Active(s)' PROVE Keeps(s)'
        BY DEF Faithful
    <2>1. Active(s) /\ Keeps(s) /\ pc'[s] = pc[s]
        BY <1>4 DEF IInv, Faithful, Active
    <2> QED
        BY <1>2, <2>1, KeepsKept
<1>9. SealHonest' /\ VerdictJustified' /\ AbsenceIsLateness'
    BY <1>2 DEF IInv, SealHonest, VerdictJustified, AbsenceIsLateness, Said, Parsed, inputs
<1>10. Promoted'
    <2> SUFFICES ASSUME NEW y \in receipts
                 PROVE  /\ record'[y.run] # None /\ agg[y.run].complete
                        /\ y.hit = AllPassed(agg[y.run])
        BY <1>2 DEF Promoted, AllPassed
    <2>1. y.run \in Run /\ record[y.run] # None
        BY DEF IInv, TypeOK, Promoted
    <2> QED
        BY <1>4, <2>1 DEF IInv, Promoted
<1> QED
    BY <1>5, <1>6, <1>7, <1>8, <1>9, <1>10 DEF IInv

\* The stored reports aggregate to themselves: each names the leg it is stored under.
LEMMA AgainOK ==
    ASSUME IInv, NEW r \in Run, Counted(r), Again(r).complete
    PROVE  Again(r).reports = agg[r].reports
<1>1. PICK box \in [Required -> Reports] :
        /\ agg[r].reports = box
        /\ \A leg \in Required : \E p \in Path : Answers(p, leg) /\ box[leg] = inbox[p]
    BY DEF IInv, Heard
<1>2. \A leg \in Required : box[leg].leg = leg
    BY <1>1 DEF Answers
<1> DEFINE Acc(leg) == Accept(box, leg, artifact.forecast.identity, RepositoryPlan, agg[r].at)
           accepted == {leg \in LegsOf(RepositoryPlan) : Acc(leg) # {}}
           reports == [leg \in accepted |-> box[CHOOSE p \in Acc(leg) : TRUE]]
<1>3. Again(r).reports = reports /\ accepted = Required
    BY <1>1 DEF Again, Aggregation, Required
<1>4. ASSUME NEW leg \in Required, NEW p \in Acc(leg) PROVE p = leg
    BY <1>1, <1>2, <1>4 DEF Accept, Candidates, Parsed
<1>5. ASSUME NEW leg \in accepted PROVE reports[leg] = box[leg]
    <2>1. (CHOOSE p \in Acc(leg) : TRUE) \in Acc(leg)
        OBVIOUS
    <2> QED
        BY <1>3, <1>4, <2>1
<1>6. reports = [leg \in accepted |-> box[leg]]
    BY <1>5
<1> HIDE DEF accepted, reports
<1> QED
    BY <1>1, <1>3, <1>6

LEMMA ExportOK ==
    ASSUME IInv, NEW r \in Run, Export(r)
    PROVE  IInv'
<1>1. PICK x : x = [run |-> r, identity |-> artifact.forecast.identity,
                    hit |-> outcome[r].hit]
    OBVIOUS
<1>2. /\ Verified(r) /\ receipts' = receipts \cup {x}
      /\ UNCHANGED <<inputs, pc, agg, sent, ok, evidence, read, known, outcome, record>>
    BY <1>1 DEF Export
<1>3. /\ record[r] # None /\ agg[r].complete /\ Again(r).complete /\ artifact # None
      /\ outcome[r] = [settled |-> TRUE, hit |-> AllPassed(Again(r)), observed |-> TRUE]
    BY <1>2 DEF Verified, RecordHolds, OutcomeReplays, IInv, Begun
<1>4. Again(r).reports = agg[r].reports
    BY <1>3, AgainOK DEF Counted
<1>5. x.run = r /\ x.hit = AllPassed(agg[r])
    <2>1. AllPassed(Again(r)) = AllPassed(agg[r])
        BY <1>4 DEF AllPassed
    <2> QED
        BY <1>1, <1>3, <2>1
<1>6. x \in [run : Run, identity : {f.identity : f \in Forecasts}, hit : BOOLEAN]
    <2>1. artifact.forecast \in Forecasts
        BY <1>3 DEF IInv, TypeOK
    <2>2. outcome[r].hit \in BOOLEAN
        BY <1>3 DEF AllPassed
    <2> QED
        BY <1>1, <2>1, <2>2
<1>7. TypeOK'
    BY <1>2, <1>6 DEF IInv, TypeOK, inputs
<1>8. Begun'
    BY <1>2 DEF IInv, Begun, Active, inputs
<1>9. Heard' /\ Same'
    BY <1>2, HeardKept DEF IInv, Counted, Active
<1>10. Faithful'
    <2> SUFFICES ASSUME NEW s \in Run, Active(s)' PROVE Keeps(s)'
        BY DEF Faithful
    <2>1. Active(s) /\ Keeps(s)
        BY <1>2 DEF IInv, Faithful, Active
    <2> QED
        BY <1>2, <2>1, KeepsKept
<1>11. SealHonest' /\ VerdictJustified' /\ AbsenceIsLateness'
    BY <1>2 DEF IInv, SealHonest, VerdictJustified, AbsenceIsLateness, Said, Parsed, inputs
<1>12. Promoted'
    BY <1>2, <1>3, <1>5 DEF IInv, Promoted, AllPassed
<1> QED
    BY <1>7, <1>8, <1>9, <1>10, <1>11, <1>12 DEF IInv

LEMMA StutterOK == IInv /\ UNCHANGED vars => IInv'
<1> SUFFICES ASSUME IInv, UNCHANGED vars PROVE IInv'
    OBVIOUS
<1>1. TypeOK' /\ Begun'
    BY DEF IInv, TypeOK, Begun, Active, vars
<1>2. Heard' /\ Same'
    BY HeardKept DEF IInv, Counted, Active, inputs, vars
<1>3. Faithful'
    BY KeepsKept DEF IInv, Faithful, Active, vars
<1>4. SealHonest' /\ VerdictJustified' /\ AbsenceIsLateness' /\ Promoted'
    BY DEF IInv, SealHonest, VerdictJustified, AbsenceIsLateness, Promoted, Said, Parsed,
           AllPassed, vars
<1> QED
    BY <1>1, <1>2, <1>3, <1>4 DEF IInv

LEMMA Invariance == Spec => []IInv
<1>1. IInv /\ [Next]_vars => IInv'
    <2> SUFFICES ASSUME IInv, [Next]_vars PROVE IInv'
        OBVIOUS
    <2>1. CASE Jobs
        BY <2>1, JobsOK
    <2>2. ASSUME NEW r \in Run, Aggregator(r) PROVE IInv'
        <3>1. CASE RefuseArtifact(r)
            BY <3>1, StoppingOK DEF RefuseArtifact
        <3>2. CASE \E t \in AtTimes : StartAggregate(r, t)
            BY <3>2, StartAggregateOK
        <3>3. CASE CaptureEvent(r)
            BY <3>3, CaptureEventOK
        <3>4. CASE CaptureSeal(r)
            BY <3>4, CaptureSealOK
        <3>5. CASE Process(r)
            BY <3>5, ProcessOK
        <3>6. CASE Record(r)
            BY <3>6, RecordOK
        <3>7. CASE CrashAggregator(r)
            BY <3>7, StoppingOK DEF CrashAggregator
        <3> QED
            BY <2>2, <3>1, <3>2, <3>3, <3>4, <3>5, <3>6, <3>7 DEF Aggregator
    <2>3. CASE \E r \in Run : Export(r)
        BY <2>3, ExportOK
    <2>4. CASE UNCHANGED vars
        BY <2>4, StutterOK
    <2> QED
        BY <2>1, <2>2, <2>3, <2>4 DEF Next
<1> QED
    BY <1>1, InitOK, PTL DEF Spec

-----------------------------------------------------------------------------
(* What the runs check, for every value of the constants.                  *)

\* Every variable keeps its type, and no substrate is ahead of its ledger.
THEOREM TypeCorrect == Spec => []TypeOK
<1>1. IInv => TypeOK
    BY DEF IInv
<1> QED
    BY <1>1, Invariance, PTL

\* No seal vouches for evidence that is not there (ci_cli.py aggregate, capture_ok).
THEOREM SealsAreHonest == Spec => []SealHonest
<1>1. IInv => SealHonest
    BY DEF IInv
<1> QED
    BY <1>1, Invariance, PTL

\* No settled outcome comes of anything but an answer from every leg
\* (ci.py aggregate_reports).
THEOREM VerdictsAreJustified == Spec => []VerdictJustified
<1>1. IInv => VerdictJustified
    BY DEF IInv
<1> QED
    BY <1>1, Invariance, PTL

\* A MISS by absence is concluded from all the evidence, too late, and never for want
\* of some: a complete seal has nothing but the aggregation's events before it
\* (substrate.py _stream_complete, ci_cli.py aggregate).
THEOREM AbsencesAreLateness == Spec => []AbsenceIsLateness
<1>1. IInv => AbsenceIsLateness
    BY DEF IInv
<1> QED
    BY <1>1, Invariance, PTL

\* However many executions of the aggregator there are, the receipts of an attempt
\* agree: two complete aggregations accepted the same reports.
THEOREM ReceiptsAreOne == Spec => []ReceiptsAgree
<1>1. IInv => ReceiptsAgree
    <2> SUFFICES ASSUME IInv, NEW x \in receipts, NEW y \in receipts PROVE x.hit = y.hit
        BY DEF ReceiptsAgree
    <2>1. /\ x.run \in Run /\ y.run \in Run /\ Counted(x.run) /\ Counted(y.run)
          /\ x.hit = AllPassed(agg[x.run]) /\ y.hit = AllPassed(agg[y.run])
        BY DEF IInv, TypeOK, Promoted, Counted
    <2>2. agg[x.run].reports = agg[y.run].reports
        BY <2>1 DEF IInv, Same
    <2> QED
        BY <2>1, <2>2 DEF AllPassed
<1> QED
    BY <1>1, Invariance, PTL

\* A receipt of a MISS has a failed gate behind it, never an absence.
THEOREM ReceiptsAreTrue == Spec => []ReceiptTrue
<1>1. IInv => ReceiptTrue
    <2> SUFFICES ASSUME IInv, NEW x \in receipts, ~x.hit
                 PROVE  \E leg \in Required : Said(leg, "failure")
        BY DEF ReceiptTrue, Required
    <2>1. x.run \in Run /\ Counted(x.run) /\ ~AllPassed(agg[x.run])
        BY DEF IInv, TypeOK, Promoted, Counted
    <2> QED
        BY <2>1, AnsweredOK DEF IInv
<1> QED
    BY <1>1, Invariance, PTL
=============================================================================
