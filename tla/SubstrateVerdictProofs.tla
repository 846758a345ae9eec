----------------------- MODULE SubstrateVerdictProofs -----------------------
(***************************************************************************)
(* What the outcomes of Substrate say, for every number of processes and   *)
(* every set of forecasts, observations and seals, with crashes and        *)
(* replaced ledgers, as long as no append raises: an append that raises    *)
(* leaves a tail read and never merged, and none of this holds any more.   *)
(***************************************************************************)
EXTENDS SubstrateProofs, FiniteSetTheorems

-----------------------------------------------------------------------------
(* What an instance owes to the ledgers it has read: m is its memory, k its *)
(* marks, q the forecasts process() still has to resolve.                   *)

\* The forecast has an outcome that is final.
Final(ol, f) == \E i \in DOMAIN ol : ol[i].forecast = f /\ ol[i].settled

\* Nothing admissible among the first n records.
Quiet(el, f, n) == \A j \in 1 .. n : ~Admissible(f, el[j])

\* The last outcome of f among the first n is the i-th.
IsLast(ol, f, i, n) ==
    /\ i \in 1 .. n
    /\ ol[i].forecast = f
    /\ \A j \in i + 1 .. n : ol[j].forecast # f

\* Evidence is merged without a gap.
SeenAll(m, k) == m.seen = 1 .. k.evidence

\* A cursor passes over nothing that could have settled an open forecast.
CursorsJustified(m, el, ol) ==
    \A f \in Forecast : Final(ol, f) \/ Quiet(el, f, m.cursor[f])

\* Every open forecast with admissible evidence is to be looked at.
NothingForgotten(m, k, q, el, ol) ==
    \A f \in m.known : Final(ol, f) \/ f \in m.dirty \cup q \/ Quiet(el, f, k.evidence)

\* An adopted outcome is the last one the instance has read.
OutFollows(m, k, ol) ==
    \A f \in Forecast : m.out[f] # None =>
        \E i \in 1 .. k.outcomes :
            IsLast(ol, f, i, k.outcomes) /\ m.out[f] = FoldExposure(m.amended, ol[i])

Accurate(m, k, q, el, ol) ==
    /\ SeenAll(m, k)
    /\ CursorsJustified(m, el, ol)
    /\ NothingForgotten(m, k, q, el, ol)
    /\ OutFollows(m, k, ol)

\* A forecast has one outcome, or a provisional one and then a settled one.
OneOrTwo(ol) ==
    \A i, j \in DOMAIN ol :
        i < j /\ ol[i].forecast = ol[j].forecast => ~ol[i].settled /\ ol[j].settled

\* t continues s.
Continues(s, t) == Len(s) <= Len(t) /\ \A i \in 1 .. Len(s) : t[i] = s[i]

LEMMA ContinuesSelf ==
    ASSUME NEW S, NEW s \in Seq(S)
    PROVE  Continues(s, s)
<1>1. Len(s) \in Nat
    BY LenProperties
<1> QED
    BY <1>1 DEF Continues

LEMMA ContinuesAppend ==
    ASSUME NEW S, NEW s \in Seq(S), NEW e \in S
    PROVE  Continues(s, Append(s, e))
<1>1. /\ Len(s) \in Nat /\ Len(Append(s, e)) = Len(s) + 1
      /\ \A i \in 1 .. Len(s) : Append(s, e)[i] = s[i]
    BY AppendProperties, LenProperties
<1> QED
    BY <1>1 DEF Continues

LEMMA FinalGrows ==
    ASSUME NEW s \in Seq(Outcome), NEW t \in Seq(Outcome), Continues(s, t),
           NEW f, Final(s, f)
    PROVE  Final(t, f)
<1>1. /\ Len(s) \in Nat /\ Len(t) \in Nat /\ Len(s) <= Len(t)
      /\ DOMAIN s = 1 .. Len(s) /\ DOMAIN t = 1 .. Len(t)
      /\ \A i \in 1 .. Len(s) : t[i] = s[i]
    BY LenProperties DEF Continues
<1>2. PICK i \in 1 .. Len(s) : s[i].forecast = f /\ s[i].settled
    BY <1>1 DEF Final
<1>3. i \in DOMAIN t /\ t[i] = s[i]
    BY <1>1
<1> QED
    BY <1>2, <1>3 DEF Final

LEMMA QuietGrows ==
    ASSUME NEW s \in Seq(Evidence), NEW t, Continues(s, t),
           NEW f, NEW n \in 0 .. Len(s), Quiet(s, f, n)
    PROVE  Quiet(t, f, n)
<1>1. Len(s) \in Nat
    BY LenProperties
<1>2. \A j \in 1 .. n : t[j] = s[j]
    BY <1>1 DEF Continues
<1> QED
    BY <1>2 DEF Quiet

LEMMA LastGrows ==
    ASSUME NEW s \in Seq(Outcome), NEW t, Continues(s, t),
           NEW f, NEW n \in 0 .. Len(s), NEW i, IsLast(s, f, i, n)
    PROVE  IsLast(t, f, i, n) /\ t[i] = s[i]
<1>1. Len(s) \in Nat /\ i \in 1 .. n
    BY LenProperties DEF IsLast
<1>2. \A j \in 1 .. n : t[j] = s[j]
    BY <1>1 DEF Continues
<1>3. \A j \in i + 1 .. n : j \in 1 .. n
    BY <1>1
<1> QED
    BY <1>1, <1>2, <1>3 DEF IsLast

\* Ledgers that grow take nothing from an instance's account.
LEMMA AccurateGrows ==
    ASSUME NEW el \in Seq(Evidence), NEW ol \in Seq(Outcome),
           NEW el2 \in Seq(Evidence), NEW ol2 \in Seq(Outcome),
           Continues(el, el2), Continues(ol, ol2),
           NEW fl, NEW m, Sound(m, fl, el),
           NEW fn, NEW k, MarkOK(k, fn, Len(el), Len(ol)),
           NEW q, Accurate(m, k, q, el, ol)
    PROVE  Accurate(m, k, q, el2, ol2)
<1>1. Len(el) \in Nat /\ Len(ol) \in Nat
    BY LenProperties
<1>2. k.evidence \in 0 .. Len(el) /\ k.outcomes \in 0 .. Len(ol)
    BY <1>1 DEF MarkOK, MarkType
<1>3. \A f \in Forecast : m.cursor[f] \in 0 .. Len(el)
    BY <1>1 DEF Sound, MemoryOK, Memory
<1>4. CursorsJustified(m, el2, ol2)
    BY <1>3, FinalGrows, QuietGrows DEF Accurate, CursorsJustified
<1>5. NothingForgotten(m, k, q, el2, ol2)
    BY <1>2, FinalGrows, QuietGrows DEF Accurate, NothingForgotten
<1>6. OutFollows(m, k, ol2)
    <2>1. ASSUME NEW f \in Forecast, m.out[f] # None
          PROVE  \E i \in 1 .. k.outcomes :
                     /\ IsLast(ol2, f, i, k.outcomes)
                     /\ m.out[f] = FoldExposure(m.amended, ol2[i])
        <3>1. PICK i \in 1 .. k.outcomes :
                  IsLast(ol, f, i, k.outcomes) /\ m.out[f] = FoldExposure(m.amended, ol[i])
            BY <2>1 DEF Accurate, OutFollows
        <3>2. IsLast(ol2, f, i, k.outcomes) /\ ol2[i] = ol[i]
            BY <1>2, <3>1, LastGrows
        <3> QED
            BY <3>1, <3>2
    <2> QED
        BY <2>1 DEF OutFollows
<1> QED
    BY <1>4, <1>5, <1>6 DEF Accurate

LEMMA BlankAccurate ==
    ASSUME NEW el, NEW ol, NEW k, k.evidence = 0, NEW q
    PROVE  Accurate(Blank, k, q, el, ol)
<1>1. /\ Blank.seen = {} /\ Blank.known = {}
      /\ \A f \in Forecast : Blank.cursor[f] = 0 /\ Blank.out[f] = None
    BY DEF Blank
<1>2. SeenAll(Blank, k)
    BY <1>1 DEF SeenAll
<1>3. CursorsJustified(Blank, el, ol)
    BY <1>1 DEF CursorsJustified, Quiet
<1>4. NothingForgotten(Blank, k, q, el, ol) /\ OutFollows(Blank, k, ol)
    BY <1>1 DEF NothingForgotten, OutFollows
<1> QED
    BY <1>2, <1>3, <1>4 DEF Accurate

-----------------------------------------------------------------------------
(* Folding a tail keeps the account.                                       *)

\* Two amendments fold like one.
LEMMA FoldTwice ==
    ASSUME NEW a, NEW b, NEW o \in Outcome
    PROVE  FoldExposure(b, FoldExposure(a, o)) = FoldExposure(a \cup b, o)
<1> DEFINE e == o.eligible /\ Terms[o.forecast].blind /\ o.forecast \notin a
           oo == [o EXCEPT !.eligible = e]
<1>1. o # None /\ o.eligible \in BOOLEAN /\ o.forecast \in Forecast
    BY SubstrateAssumption DEF Outcome
<1>2. e \in BOOLEAN
    BY <1>1
<1>3. FoldExposure(a, o) = oo
    BY <1>1 DEF FoldExposure
<1>4. oo \in Outcome /\ oo.forecast = o.forecast /\ oo.eligible = e
    <2> HIDE DEF e
    <2> QED
        BY <1>2 DEF Outcome
<1>5. oo # None
    BY <1>4, SubstrateAssumption
<1>6. FoldExposure(b, oo)
        = [oo EXCEPT !.eligible = oo.eligible /\ Terms[oo.forecast].blind /\ oo.forecast \notin b]
    BY <1>5 DEF FoldExposure
<1> DEFINE e1 == oo.eligible /\ Terms[oo.forecast].blind /\ oo.forecast \notin b
           e2 == o.eligible /\ Terms[o.forecast].blind /\ o.forecast \notin a \cup b
<1>7. e1 = e2
    BY <1>4
<1>8. FoldExposure(a \cup b, o) = [o EXCEPT !.eligible = e2]
    BY <1>1 DEF FoldExposure
<1>9. [oo EXCEPT !.eligible = e2] = [o EXCEPT !.eligible = e2]
    <2> HIDE DEF e, e2
    <2> QED
        BY <1>2 DEF Outcome
<1> QED
    BY <1>3, <1>6, <1>7, <1>8, <1>9

\* What an adopted outcome says of the ledger.
LEMMA AdoptedFinal ==
    ASSUME NEW ol \in Seq(Outcome), NEW fl, NEW el, NEW m, Sound(m, fl, el),
           NEW fn, NEW en, NEW k, MarkOK(k, fn, en, Len(ol)), OutFollows(m, k, ol),
           NEW f \in Forecast, m.out[f] # None, m.out[f].settled
    PROVE  Final(ol, f)
<1>1. PICK i \in 1 .. k.outcomes :
          IsLast(ol, f, i, k.outcomes) /\ m.out[f] = FoldExposure(m.amended, ol[i])
    BY DEF OutFollows
<1>2. Len(ol) \in Nat /\ DOMAIN ol = 1 .. Len(ol)
    BY LenProperties
<1>3. i \in DOMAIN ol /\ ol[i] \in Outcome
    BY <1>2 DEF MarkOK, MarkType
<1>4. ol[i].settled
    BY <1>1, <1>3, FoldType, SubstrateAssumption
<1> QED
    BY <1>1, <1>3, <1>4 DEF Final, IsLast

LEMMA MergeForecastsAccurate ==
    ASSUME NEW log, NEW n, NEW el \in Seq(Evidence), NEW ol \in Seq(Outcome),
           NEW fl, NEW m, Sound(m, fl, el),
           NEW fn, NEW k, MarkOK(k, fn, Len(el), Len(ol)), NEW q, Accurate(m, k, q, el, ol),
           NEW k2, k2.evidence = k.evidence, k2.outcomes = k.outcomes
    PROVE  Accurate(MergeForecasts(m, log, n), k2, q, el, ol)
<1> DEFINE new == {f \in Forecast : \E i \in n + 1 .. Len(log) : log[i] = Declared(f)}
                    \ m.known
           exposed == {f \in m.known \cup new :
                         \E i \in n + 1 .. Len(log) : log[i] = Amended(f)}
           mm == MergeForecasts(m, log, n)
<1>1. m \in Memory
    BY DEF MemoryOK, Sound
<1>2. mm = [m EXCEPT !.known = @ \cup new,
                     !.amended = @ \cup exposed,
                     !.out = [f \in Forecast |-> FoldExposure(exposed, m.out[f])],
                     !.cursor = [f \in Forecast |-> IF f \in new THEN 0 ELSE m.cursor[f]],
                     !.dirty = @ \cup new]
    BY <1>1 DEF MergeForecasts, Memory
<1> HIDE DEF new, exposed, mm
<1>3. /\ mm.known = m.known \cup new
      /\ mm.amended = m.amended \cup exposed
      /\ mm.seen = m.seen
      /\ \A f \in Forecast : mm.out[f] = FoldExposure(exposed, m.out[f])
      /\ \A f \in Forecast : mm.cursor[f] = IF f \in new THEN 0 ELSE m.cursor[f]
      /\ mm.dirty = m.dirty \cup new
    BY <1>1, <1>2 DEF Memory
<1>4. SeenAll(mm, k2)
    BY <1>3 DEF Accurate, SeenAll
<1>5. CursorsJustified(mm, el, ol)
    <2>1. \A f : Quiet(el, f, 0)
        BY DEF Quiet
    <2> QED
        BY <1>3, <2>1 DEF Accurate, CursorsJustified
<1>6. NothingForgotten(mm, k2, q, el, ol)
    BY <1>3 DEF Accurate, NothingForgotten
<1>7. OutFollows(mm, k2, ol)
    <2>1. ASSUME NEW f \in Forecast, mm.out[f] # None
          PROVE  \E i \in 1 .. k.outcomes :
                     /\ IsLast(ol, f, i, k.outcomes)
                     /\ mm.out[f] = FoldExposure(mm.amended, ol[i])
        <3>1. m.out[f] # None
            BY <1>3, <2>1 DEF FoldExposure
        <3>2. PICK i \in 1 .. k.outcomes :
                  IsLast(ol, f, i, k.outcomes) /\ m.out[f] = FoldExposure(m.amended, ol[i])
            BY <3>1 DEF Accurate, OutFollows
        <3>3. ol[i] \in Outcome
            BY LenProperties DEF MarkOK, MarkType
        <3>4. mm.out[f] = FoldExposure(mm.amended, ol[i])
            BY <1>3, <3>2, <3>3, FoldTwice
        <3> QED
            BY <3>2, <3>4
    <2> QED
        BY <2>1 DEF OutFollows
<1> QED
    BY <1>4, <1>5, <1>6, <1>7 DEF Accurate, mm

LEMMA MergeEvidenceAccurate ==
    ASSUME NEW log \in Seq(Evidence), NEW el \in Seq(Evidence), Continues(log, el),
           NEW ol \in Seq(Outcome), NEW fl, NEW m, Sound(m, fl, el),
           NEW fn, NEW k, MarkOK(k, fn, Len(log), Len(ol)), NEW q, Accurate(m, k, q, el, ol),
           NEW k2, k2.evidence = Len(log), k2.outcomes = k.outcomes
    PROVE  Accurate(MergeEvidence(m, log, k.evidence), k2, q, el, ol)
<1> DEFINE dirty == m.dirty \cup {f \in m.known :
                        /\ Open(m, f)
                        /\ \E i \in k.evidence + 1 .. Len(log) : About(f, log[i])}
           mm == MergeEvidence(m, log, k.evidence)
<1>1. m \in Memory
    BY DEF MemoryOK, Sound
<1>2. mm = [m EXCEPT !.seen = @ \cup (k.evidence + 1 .. Len(log)), !.dirty = dirty]
    BY <1>1 DEF MergeEvidence, Memory
<1> HIDE DEF dirty, mm
<1>3. /\ mm.known = m.known /\ mm.amended = m.amended
      /\ mm.seen = m.seen \cup (k.evidence + 1 .. Len(log))
      /\ mm.out = m.out /\ mm.cursor = m.cursor /\ mm.dirty = dirty
    BY <1>1, <1>2 DEF Memory
<1>4. /\ Len(log) \in Nat /\ k.evidence \in 0 .. Len(log)
      /\ Len(el) \in Nat /\ Len(log) <= Len(el)
      /\ \A i \in 1 .. Len(log) : el[i] = log[i]
    BY LenProperties DEF MarkOK, MarkType, Continues
<1>5. SeenAll(mm, k2)
    BY <1>3, <1>4 DEF Accurate, SeenAll
<1>6. CursorsJustified(mm, el, ol)
    BY <1>3 DEF Accurate, CursorsJustified
<1>7. NothingForgotten(mm, k2, q, el, ol)
    <2>1. ASSUME NEW f \in m.known, ~Final(ol, f), f \notin dirty \cup q
          PROVE  Quiet(el, f, Len(log))
        <3>1. f \in Forecast /\ f \notin m.dirty
            BY <1>1, <2>1 DEF Memory, dirty
        <3>2. Quiet(el, f, k.evidence)
            BY <2>1, <3>1 DEF Accurate, NothingForgotten
        <3>3. Open(m, f)
            <4>1. MarkOK(k, fn, Len(el), Len(ol))
                BY <1>4 DEF MarkOK, MarkType
            <4> QED
                BY <2>1, <3>1, <4>1, AdoptedFinal DEF Open, Accurate
        <3>4. \A i \in k.evidence + 1 .. Len(log) : ~About(f, log[i])
            BY <2>1, <3>3 DEF dirty
        <3>5. ASSUME NEW j \in 1 .. Len(log) PROVE ~Admissible(f, el[j])
            <4>1. CASE j <= k.evidence
                BY <1>4, <3>2, <4>1 DEF Quiet
            <4>2. CASE ~(j <= k.evidence)
                <5>1. j \in k.evidence + 1 .. Len(log)
                    BY <1>4, <4>2
                <5> QED
                    BY <1>4, <3>4, <5>1 DEF Admissible
            <4> QED
                BY <4>1, <4>2
        <3> QED
            BY <3>5 DEF Quiet
    <2> QED
        BY <1>3, <2>1 DEF NothingForgotten
<1>8. OutFollows(mm, k2, ol)
    BY <1>3 DEF Accurate, OutFollows
<1> QED
    BY <1>5, <1>6, <1>7, <1>8 DEF Accurate, mm

\* The outcomes of f after the first n.
Later(ol, f, n) == {i \in n + 1 .. Len(ol) : ol[i].forecast = f}

\* Nothing is adopted yet, or the last of the first n, exposed or not.
Follows(old, ol, f, n) ==
    \/ old = None
    \/ \E i \in 1 .. n : \E a : IsLast(ol, f, i, n) /\ old = FoldExposure(a, ol[i])

AdoptsLast(old, ol, f, n) ==
    \/ Adopt(old, ol, Later(ol, f, n)) = old /\ (old # None => Later(ol, f, n) = {})
    \/ \E i \in Later(ol, f, n) :
           IsLast(ol, f, i, Len(ol)) /\ Adopt(old, ol, Later(ol, f, n)) = ol[i]

\* After a tail the last outcome there is is adopted, or nothing has changed.
LEMMA AdoptLast ==
    ASSUME NEW ol \in Seq(Outcome), OneOrTwo(ol), NEW f, NEW n \in 0 .. Len(ol),
           NEW old, Follows(old, ol, f, n)
    PROVE  AdoptsLast(old, ol, f, n)
<1> SUFFICES ASSUME NEW new, new = {i \in n + 1 .. Len(ol) : ol[i].forecast = f}
             PROVE  \/ Adopt(old, ol, new) = old /\ (old # None => new = {})
                    \/ \E i \in new : IsLast(ol, f, i, Len(ol)) /\ Adopt(old, ol, new) = ol[i]
    BY DEF AdoptsLast, Later
<1>1. /\ Len(ol) \in Nat /\ DOMAIN ol = 1 .. Len(ol)
      /\ \A i \in 1 .. Len(ol) : ol[i] \in Outcome /\ ol[i].settled \in BOOLEAN
    <2>1. /\ Len(ol) \in Nat /\ DOMAIN ol = 1 .. Len(ol)
          /\ \A i \in 1 .. Len(ol) : ol[i] \in Outcome
        BY LenProperties
    <2>2. \A o \in Outcome : o.settled \in BOOLEAN
        BY DEF Outcome
    <2> QED
        BY <2>1, <2>2
<1>2. new \in SUBSET Nat /\ new \subseteq 1 .. Len(ol)
    BY <1>1
<1>3. \A i, j \in new : i < j => ~ol[i].settled /\ ol[j].settled
    BY <1>1, <1>2 DEF OneOrTwo
<1> DEFINE settled == {i \in new : ol[i].settled}
<1>4. ASSUME NEW i \in new, ol[i].settled
      PROVE  IsLast(ol, f, i, Len(ol))
    <2>1. \A j \in i + 1 .. Len(ol) : j \in 1 .. Len(ol) /\ i < j
        BY <1>1, <1>2
    <2>2. \A j \in i + 1 .. Len(ol) : ol[j].forecast # f
        BY <1>1, <1>2, <1>4, <2>1 DEF OneOrTwo
    <2> QED
        BY <1>2, <2>2 DEF IsLast
<1>5. CASE old = None
    <2>1. CASE settled # {}
        <3>1. Min(settled) \in settled
            BY <1>2, <2>1, FirstPosition
        <3>2. Adopt(old, ol, new) = ol[Min(settled)]
            BY <1>5, <2>1 DEF Adopt
        <3> QED
            BY <1>4, <3>1, <3>2
    <2>2. CASE settled = {} /\ new # {}
        <3>1. Min(new) \in new
            BY <1>2, <2>2, FirstPosition
        <3>2. Adopt(old, ol, new) = ol[Min(new)]
            BY <1>5, <2>2 DEF Adopt
        <3>3. \A j \in Min(new) + 1 .. Len(ol) : j \notin new
            BY <1>1, <1>2, <1>3, <2>2, <3>1
        <3>4. \A j \in Min(new) + 1 .. Len(ol) : ol[j].forecast # f
            BY <1>1, <1>2, <3>1, <3>3
        <3>5. IsLast(ol, f, Min(new), Len(ol))
            BY <1>2, <3>1, <3>4 DEF IsLast
        <3> QED
            BY <3>1, <3>2, <3>5
    <2>3. CASE new = {}
        <3>1. Adopt(old, ol, new) = old
            BY <1>5, <2>3 DEF Adopt
        <3> QED
            BY <1>5, <3>1
    <2> QED
        BY <2>1, <2>2, <2>3
<1>6. CASE old # None
    <2>1. PICK i \in 1 .. n : \E a : IsLast(ol, f, i, n) /\ old = FoldExposure(a, ol[i])
        BY <1>6 DEF Follows
    <2>2. i \in 1 .. Len(ol) /\ ol[i].forecast = f /\ old.settled = ol[i].settled
        <3>1. i \in 1 .. Len(ol) /\ ol[i] \in Outcome
            BY <1>1
        <3> QED
            BY <2>1, <3>1, FoldType, SubstrateAssumption DEF IsLast
    <2>3. \A j \in new : ~ol[i].settled /\ ol[j].settled
        BY <1>1, <1>2, <2>2 DEF OneOrTwo
    <2>4. CASE new = {}
        <3>1. Adopt(old, ol, new) = old
            BY <2>4 DEF Adopt
        <3> QED
            BY <2>4, <3>1
    <2>5. CASE new # {}
        <3>1. settled # {} /\ ~old.settled
            BY <2>2, <2>3, <2>5
        <3>2. Min(settled) \in settled
            BY <1>2, <3>1, FirstPosition
        <3>3. Adopt(old, ol, new) = ol[Min(settled)]
            BY <1>6, <3>1 DEF Adopt
        <3> QED
            BY <1>4, <3>2, <3>3
    <2> QED
        BY <2>4, <2>5
<1> QED
    BY <1>5, <1>6

LEMMA MergeOutcomesAccurate ==
    ASSUME NEW el, NEW ol \in Seq(Outcome), OneOrTwo(ol),
           NEW fl, NEW el0, NEW m, Sound(m, fl, el0),
           NEW fn, NEW en, NEW k, MarkOK(k, fn, en, Len(ol)), NEW q, Accurate(m, k, q, el, ol),
           NEW k2, k2.evidence = k.evidence, k2.outcomes = Len(ol)
    PROVE  Accurate(MergeOutcomes(m, ol, k.outcomes), k2, q, el, ol)
<1> DEFINE new(f) == Later(ol, f, k.outcomes)
           out == [f \in Forecast |-> IF f \in m.known
                                      THEN FoldExposure(m.amended, Adopt(m.out[f], ol, new(f)))
                                      ELSE m.out[f]]
           dirty == {f \in m.dirty : out[f] # None => ~out[f].settled}
           mm == MergeOutcomes(m, ol, k.outcomes)
<1>1. m \in Memory
    BY DEF MemoryOK, Sound
<1>2. mm = [m EXCEPT !.out = out, !.dirty = dirty]
    BY <1>1 DEF MergeOutcomes, Memory, Later
<1>3. Len(ol) \in Nat /\ k.outcomes \in 0 .. Len(ol) /\ DOMAIN ol = 1 .. Len(ol)
      /\ \A i \in 1 .. Len(ol) : ol[i] \in Outcome
    <2>1. Len(ol) \in Nat /\ DOMAIN ol = 1 .. Len(ol)
          /\ \A i \in 1 .. Len(ol) : ol[i] \in Outcome
        BY LenProperties
    <2> QED
        BY <2>1 DEF MarkOK, MarkType
<1>4. \A f \in Forecast : f \notin m.known => m.out[f] = None
    BY DEF Sound, MemoryOK
<1>5. ASSUME NEW f \in Forecast, out[f] # None
      PROVE  \E i \in 1 .. Len(ol) :
                 IsLast(ol, f, i, Len(ol)) /\ out[f] = FoldExposure(m.amended, ol[i])
    <2>1. f \in m.known
        BY <1>4, <1>5
    <2>2. out[f] = FoldExposure(m.amended, Adopt(m.out[f], ol, new(f)))
        BY <2>1
    <2>3. \/ m.out[f] = None
          \/ \E i \in 1 .. k.outcomes : \E a :
                 IsLast(ol, f, i, k.outcomes) /\ m.out[f] = FoldExposure(a, ol[i])
        BY DEF Accurate, OutFollows
    <2>4. \/ /\ Adopt(m.out[f], ol, new(f)) = m.out[f]
             /\ m.out[f] # None => new(f) = {}
          \/ \E i \in new(f) : /\ IsLast(ol, f, i, Len(ol))
                               /\ Adopt(m.out[f], ol, new(f)) = ol[i]
        <3>1. Follows(m.out[f], ol, f, k.outcomes)
            BY <2>3 DEF Follows
        <3>2. AdoptsLast(m.out[f], ol, f, k.outcomes)
            BY <1>3, <3>1, AdoptLast
        <3> QED
            BY <3>2 DEF AdoptsLast
    <2>5. CASE /\ Adopt(m.out[f], ol, new(f)) = m.out[f]
               /\ m.out[f] # None => new(f) = {}
        <3>1. out[f] = FoldExposure(m.amended, m.out[f])
            BY <2>2, <2>5
        <3>2. m.out[f] # None
            BY <1>5, <3>1 DEF FoldExposure
        <3>3. PICK i \in 1 .. k.outcomes :
                  IsLast(ol, f, i, k.outcomes) /\ m.out[f] = FoldExposure(m.amended, ol[i])
            BY <3>2 DEF Accurate, OutFollows
        <3>4. new(f) = {} /\ i \in 1 .. Len(ol)
            BY <1>3, <2>5, <3>2
        <3>5. \A j \in k.outcomes + 1 .. Len(ol) : ol[j].forecast # f
            BY <3>4 DEF Later
        <3>6. \A j \in i + 1 .. Len(ol) : j \in i + 1 .. k.outcomes \/ j \in k.outcomes + 1 .. Len(ol)
            BY <1>3, <3>4
        <3>7. IsLast(ol, f, i, Len(ol))
            BY <3>3, <3>4, <3>5, <3>6 DEF IsLast
        <3>8. FoldExposure(m.amended, FoldExposure(m.amended, ol[i]))
                = FoldExposure(m.amended, ol[i])
            <4>1. m.amended \cup m.amended = m.amended
                OBVIOUS
            <4> QED
                BY <1>3, <3>4, <4>1, FoldTwice
        <3> HIDE DEF out
        <3> QED
            BY <3>1, <3>3, <3>4, <3>7, <3>8
    <2>6. CASE \E i \in new(f) : /\ IsLast(ol, f, i, Len(ol))
                                 /\ Adopt(m.out[f], ol, new(f)) = ol[i]
        <3>1. PICK i \in new(f) : /\ IsLast(ol, f, i, Len(ol))
                                  /\ Adopt(m.out[f], ol, new(f)) = ol[i]
            BY <2>6
        <3>2. i \in 1 .. Len(ol)
            BY <3>1 DEF IsLast
        <3> HIDE DEF out
        <3> QED
            BY <2>2, <3>1, <3>2
    <2> QED
        BY <2>4, <2>5, <2>6
<1> HIDE DEF out, dirty, mm
<1>6. /\ mm.known = m.known /\ mm.amended = m.amended
      /\ mm.seen = m.seen /\ mm.cursor = m.cursor
      /\ mm.out = out /\ mm.dirty = dirty
    BY <1>1, <1>2 DEF Memory
<1>7. SeenAll(mm, k2) /\ CursorsJustified(mm, el, ol)
    BY <1>6 DEF Accurate, SeenAll, CursorsJustified
<1>8. NothingForgotten(mm, k2, q, el, ol)
    <2>1. ASSUME NEW f \in m.known, f \in m.dirty, f \notin dirty PROVE Final(ol, f)
        <3>1. f \in Forecast /\ out[f] # None /\ out[f].settled
            BY <1>1, <2>1 DEF dirty, Memory
        <3>2. PICK i \in 1 .. Len(ol) :
                  IsLast(ol, f, i, Len(ol)) /\ out[f] = FoldExposure(m.amended, ol[i])
            BY <1>5, <3>1
        <3>3. ol[i].settled
            BY <1>3, <3>1, <3>2, FoldType, SubstrateAssumption
        <3> QED
            BY <1>3, <3>2, <3>3 DEF Final, IsLast
    <2> QED
        BY <1>6, <2>1 DEF Accurate, NothingForgotten
<1>9. OutFollows(mm, k2, ol)
    BY <1>5, <1>6 DEF OutFollows
<1> QED
    BY <1>7, <1>8, <1>9 DEF Accurate, mm

LEMMA RebuiltAccurate ==
    ASSUME NEW fl \in Seq(ForecastRecord),
           NEW log \in Seq(Evidence), NEW el \in Seq(Evidence), Continues(log, el),
           NEW ol \in Seq(Outcome), OneOrTwo(ol),
           NEW k, k.evidence = Len(log), k.outcomes = Len(ol), NEW q
    PROVE  Accurate(Rebuilt(fl, log, ol), k, q, el, ol)
<1>1. Len(log) \in Nat /\ Len(el) \in Nat /\ Len(ol) \in Nat /\ Len(log) <= Len(el)
    BY LenProperties DEF Continues
<1> DEFINE k1 == [forecasts |-> 0, evidence |-> Len(log), outcomes |-> 0]
           m1 == MergeForecasts(Blank, fl, 0)
           m2 == MergeEvidence(m1, log, 0)
<1>2. /\ Unread.evidence = 0 /\ Unread.outcomes = 0
      /\ MarkOK(Unread, 0, Len(log), Len(ol)) /\ MarkOK(Unread, 0, Len(el), Len(ol))
      /\ MarkOK(k1, 0, Len(log), Len(ol))
    BY <1>1 DEF Unread, MarkOK, MarkType
<1>3. Accurate(Blank, Unread, q, el, ol)
    BY <1>2, BlankAccurate
<1>4. Sound(Blank, fl, el) /\ Sound(Blank, fl, log)
    BY BlankOK
<1>5. Accurate(m1, Unread, q, el, ol)
    BY <1>2, <1>3, <1>4, MergeForecastsAccurate
<1>6. Sound(m1, fl, el) /\ Sound(m1, fl, log)
    BY <1>4, MergeForecastsOK
<1>7. Accurate(m2, k1, q, el, ol)
    <2> HIDE DEF m1
    <2>1. Accurate(MergeEvidence(m1, log, Unread.evidence), k1, q, el, ol)
        <3>1. k1.evidence = Len(log) /\ k1.outcomes = Unread.outcomes
            BY <1>2
        <3> HIDE DEF k1
        <3> QED
            BY <1>2, <1>5, <1>6, <3>1, MergeEvidenceAccurate
    <2> QED
        BY <1>2, <2>1
<1>8. Sound(m2, fl, log)
    BY <1>6, MergeEvidenceOK
<1>9. Accurate(MergeOutcomes(m2, ol, 0), k, q, el, ol)
    <2>1. k.evidence = k1.evidence /\ k1.outcomes = 0
        OBVIOUS
    <2> HIDE DEF m2, k1
    <2>2. Accurate(MergeOutcomes(m2, ol, k1.outcomes), k, q, el, ol)
        BY <1>2, <1>7, <1>8, <2>1, MergeOutcomesAccurate
    <2> QED
        BY <2>1, <2>2
<1> QED
    BY <1>9 DEF Rebuilt

LEMMA TaintAccurate ==
    ASSUME NEW m \in Memory, NEW streams, NEW k, NEW q, NEW el, NEW ol,
           Accurate(m, k, q, el, ol)
    PROVE  Accurate([m EXCEPT !.invalid = @ \cup streams], k, q, el, ol)
<1> DEFINE mm == [m EXCEPT !.invalid = @ \cup streams]
<1>1. /\ mm.known = m.known /\ mm.amended = m.amended /\ mm.seen = m.seen
      /\ mm.out = m.out /\ mm.cursor = m.cursor /\ mm.dirty = m.dirty
    BY DEF Memory
<1> HIDE DEF mm
<1>2. Accurate(mm, k, q, el, ol)
    BY <1>1 DEF Accurate, SeenAll, CursorsJustified, NothingForgotten, OutFollows
<1> QED
    BY <1>2 DEF mm

\* What is dirty is owed as well when process() has taken it over.
LEMMA TakenOver ==
    ASSUME NEW m \in Memory, NEW k, NEW el, NEW ol, Accurate(m, k, {}, el, ol)
    PROVE  Accurate([m EXCEPT !.dirty = {}], k, m.dirty, el, ol)
<1> DEFINE mm == [m EXCEPT !.dirty = {}]
<1>1. /\ mm.known = m.known /\ mm.amended = m.amended /\ mm.seen = m.seen
      /\ mm.out = m.out /\ mm.cursor = m.cursor /\ mm.dirty = {}
    BY DEF Memory
<1> HIDE DEF mm
<1>2. Accurate(mm, k, m.dirty, el, ol)
    BY <1>1 DEF Accurate, SeenAll, CursorsJustified, NothingForgotten, OutFollows
<1> QED
    BY <1>2 DEF mm

\* A cursor moves, and nothing more is owed to its forecast.
LEMMA CursorAccurate ==
    ASSUME NEW m \in Memory, NEW k, NEW q, NEW el, NEW ol, Accurate(m, k, q, el, ol),
           NEW f \in Forecast, NEW n, Final(ol, f) \/ Quiet(el, f, n),
           NEW q2, q \ {f} \subseteq q2, f \in q2 \/ Final(ol, f) \/ Quiet(el, f, k.evidence)
    PROVE  Accurate([m EXCEPT !.cursor[f] = n], k, q2, el, ol)
<1> DEFINE mm == [m EXCEPT !.cursor[f] = n]
<1>1. /\ mm.known = m.known /\ mm.amended = m.amended /\ mm.seen = m.seen
      /\ mm.out = m.out /\ mm.dirty = m.dirty
      /\ \A g \in Forecast : mm.cursor[g] = IF g = f THEN n ELSE m.cursor[g]
    BY DEF Memory
<1> HIDE DEF mm
<1>2. SeenAll(mm, k) /\ OutFollows(mm, k, ol)
    BY <1>1 DEF Accurate, SeenAll, OutFollows
<1>3. CursorsJustified(mm, el, ol)
    BY <1>1 DEF Accurate, CursorsJustified
<1>4. NothingForgotten(mm, k, q2, el, ol)
    BY <1>1 DEF Accurate, NothingForgotten
<1> QED
    BY <1>2, <1>3, <1>4 DEF Accurate, mm

-----------------------------------------------------------------------------
(* The outcome ledger has one outcome of a forecast, or two.               *)

Shape == OneOrTwo(outcomes)

LEMMA ShapeMoves ==
    ASSUME outcomes \in Seq(Outcome), Shape, OutcomeStep
    PROVE  Shape'
<1>1. CASE UNCHANGED outcomes
    BY <1>1 DEF Shape, OneOrTwo
<1>2. ASSUME NEW o \in Outcome, TransitionAllowed(o), outcomes' = Append(outcomes, o)
      PROVE  Shape'
    <2>1. Len(outcomes) \in Nat /\ DOMAIN outcomes = 1 .. Len(outcomes)
        BY LenProperties
    <2>2. /\ DOMAIN outcomes' = 1 .. Len(outcomes) + 1
          /\ outcomes'[Len(outcomes) + 1] = o
          /\ \A i \in 1 .. Len(outcomes) : outcomes'[i] = outcomes[i]
        BY <1>2, <2>1, AppendProperties, LenProperties
    <2>3. ASSUME NEW i \in 1 .. Len(outcomes), outcomes[i].forecast = o.forecast
          PROVE  ~outcomes[i].settled /\ o.settled
        <3>1. outcomes[i] \in OutcomesOf(o.forecast)
            BY <2>1, <2>3 DEF OutcomesOf, Range
        <3> QED
            BY <1>2, <3>1 DEF TransitionAllowed
    <2>4. ASSUME NEW i \in DOMAIN outcomes', NEW j \in DOMAIN outcomes', i < j,
                 outcomes'[i].forecast = outcomes'[j].forecast
          PROVE  ~outcomes'[i].settled /\ outcomes'[j].settled
        <3>1. i \in 1 .. Len(outcomes)
            BY <2>1, <2>2, <2>4
        <3>2. CASE j \in 1 .. Len(outcomes)
            BY <2>1, <2>2, <2>4, <3>1, <3>2 DEF Shape, OneOrTwo
        <3>3. CASE j = Len(outcomes) + 1
            BY <2>2, <2>3, <2>4, <3>1, <3>3
        <3> QED
            BY <2>1, <2>2, <3>2, <3>3
    <2> QED
        BY <2>4 DEF Shape, OneOrTwo
<1> QED
    BY <1>1, <1>2 DEF OutcomeStep

LEMMA OutcomesContinue ==
    ASSUME outcomes \in Seq(Outcome), OutcomeStep
    PROVE  Continues(outcomes, outcomes')
    BY ContinuesSelf, ContinuesAppend DEF OutcomeStep

-----------------------------------------------------------------------------
(* Every instance's account is in order.                                   *)

\* What process() has taken over and not looked at.
Pending(p) == IF pc[p] = "resolve" THEN queue[p] ELSE {}

View(p) == Accurate(mem[p], mark[p], Pending(p), evidence, outcomes)

Views == \A p \in Proc : View(p)

\* The ledgers go on, and only p moves.
OnlyMoves(p) ==
    /\ Continues(evidence, evidence')
    /\ Continues(outcomes, outcomes')
    /\ \A q \in Proc : q # p => /\ mem'[q] = mem[q]
                                /\ mark'[q] = mark[q]
                                /\ Pending(q)' = Pending(q)

\* The account of a process that does not move stays in order, and so does that of
\* the one that moves, as far as the ledgers are concerned.
LEMMA ViewStays ==
    ASSUME IInv, LedgersOK', NEW p \in Proc, View(p),
           Continues(evidence, evidence'), Continues(outcomes, outcomes')
    PROVE  Accurate(mem[p], mark[p], Pending(p), evidence', outcomes')
<1>1. /\ Sound(mem[p], forecasts, evidence)
      /\ MarkOK(mark[p], Len(forecasts), Len(evidence), Len(outcomes))
    BY Of
<1>2. LedgersOK
    BY DEF IInv
<1> QED
    BY <1>1, <1>2, AccurateGrows DEF LedgersOK, View

LEMMA OneViewMoves ==
    ASSUME IInv, LedgersOK', Views, NEW p \in Proc, OnlyMoves(p), View(p)'
    PROVE  Views'
<1>1. ASSUME NEW q \in Proc, q # p PROVE View(q)'
    <2>1. Accurate(mem[q], mark[q], Pending(q), evidence', outcomes')
        BY ViewStays DEF Views, OnlyMoves
    <2> QED
        BY <1>1, <2>1 DEF View, OnlyMoves
<1> QED
    BY <1>1 DEF Views

\* The variables of the processes, as functions.
LEMMA OfAll ==
    ASSUME IInv
    PROVE  /\ mem \in [Proc -> Memory] /\ mark \in [Proc -> MarkType]
           /\ pc \in [Proc -> {"closed", "idle", "evidence", "outcomes", "resolve", "sweep"}]
           /\ queue \in [Proc -> SUBSET Forecast]
    BY DEF IInv, ControlOK, MarksOK, MemoriesOK

\* The forecast ledger was followed.
LEMMA FollowViews ==
    ASSUME IInv, IInv', Shape, Views, NEW p \in Proc, NEW reset,
           FollowForecasts(p, reset), pc[p] = "idle",
           UNCHANGED <<evidence, outcomes, pc, queue>>
    PROVE  Views'
<1>1. LedgersOK /\ LedgersOK'
    BY DEF IInv
<1>2. Continues(evidence, evidence') /\ Continues(outcomes, outcomes')
    BY <1>1, ContinuesSelf DEF LedgersOK
<1>3. OnlyMoves(p)
    BY <1>2, OfAll DEF OnlyMoves, Pending, FollowForecasts
<1>4. Pending(p) = {} /\ Pending(p)' = {}
    BY DEF Pending
<1>5. Accurate(mem'[p], mark'[p], {}, evidence, outcomes)
    <2>1. CASE reset
        <3>1. /\ mem'[p] = Rebuilt(forecasts', evidence, outcomes)
              /\ mark'[p] = AllRead(forecasts', evidence, outcomes)
            BY <2>1, OfAll DEF FollowForecasts
        <3>2. /\ mark'[p].evidence = Len(evidence) /\ mark'[p].outcomes = Len(outcomes)
            BY <3>1 DEF AllRead
        <3>3. Continues(evidence, evidence)
            BY <1>1, ContinuesSelf DEF LedgersOK
        <3> QED
            BY <1>1, <3>1, <3>2, <3>3, RebuiltAccurate DEF LedgersOK, Shape
    <2>2. CASE ~reset
        <3>1. /\ mem'[p] = MergeForecasts(mem[p], forecasts', mark[p].forecasts)
              /\ mark'[p].evidence = mark[p].evidence /\ mark'[p].outcomes = mark[p].outcomes
            BY <2>2, OfAll DEF FollowForecasts, MarkType
        <3>2. Accurate(mem[p], mark[p], {}, evidence, outcomes)
            BY <1>4 DEF Views, View
        <3>3. /\ Sound(mem[p], forecasts, evidence)
              /\ MarkOK(mark[p], Len(forecasts), Len(evidence), Len(outcomes))
            BY Of
        <3> QED
            BY <1>1, <3>1, <3>2, <3>3, MergeForecastsAccurate DEF LedgersOK
    <2> QED
        BY <2>1, <2>2
<1>6. View(p)'
    BY <1>4, <1>5 DEF View
<1> QED
    BY <1>1, <1>3, <1>6, OneViewMoves

LEMMA CaptureViews ==
    ASSUME IInv, IInv', Shape, Views, NEW p \in Proc, NEW r \in Evidence, NEW reset,
           Capture(p, r, reset)
    PROVE  Views'
<1>1. LedgersOK /\ LedgersOK'
    BY DEF IInv
<1>2. Continues(evidence, evidence') /\ Continues(outcomes, outcomes')
    BY <1>1, ContinuesSelf, ContinuesAppend DEF LedgersOK, Capture
<1>3. OnlyMoves(p)
    BY <1>2, OfAll DEF OnlyMoves, Pending, Capture
<1>4. Pending(p) = {} /\ Pending(p)' = {}
    BY DEF Pending, Capture
<1>5. PICK m, streams : /\ Accurate(m, mark'[p], {}, evidence', outcomes) /\ m \in Memory
                        /\ \/ mem'[p] = m
                           \/ mem'[p] = [m EXCEPT !.invalid = @ \cup streams]
    <2>1. CASE reset
        <3> DEFINE m == Rebuilt(forecasts, evidence', outcomes)
        <3>1. /\ \/ mem'[p] = m
                 \/ mem'[p] = [m EXCEPT !.invalid = @ \cup StreamsOf({r} \cup Winners(r))]
              /\ mark'[p] = AllRead(forecasts, evidence', outcomes)
            BY <2>1, OfAll DEF Capture
        <3>2. mark'[p].evidence = Len(evidence') /\ mark'[p].outcomes = Len(outcomes)
            BY <3>1 DEF AllRead
        <3>3. Continues(evidence', evidence') /\ UNCHANGED outcomes
            BY <1>1, ContinuesSelf DEF LedgersOK, Capture
        <3>4. Accurate(m, mark'[p], {}, evidence', outcomes)
            BY <1>1, <3>2, <3>3, RebuiltAccurate DEF LedgersOK, Shape
        <3>5. m \in Memory
            BY <1>1, RebuiltOK DEF LedgersOK, Sound, MemoryOK
        <3> HIDE DEF m
        <3> QED
            BY <3>1, <3>4, <3>5
    <2>2. CASE ~reset
        <3> DEFINE m == MergeEvidence(mem[p], evidence', mark[p].evidence)
        <3>1. /\ \/ mem'[p] = m
                 \/ mem'[p] = [m EXCEPT !.invalid = @ \cup StreamsOf({r} \cup Winners(r))]
              /\ mark'[p].evidence = Len(evidence') /\ mark'[p].outcomes = mark[p].outcomes
            <4>1. /\ mem' = [mem EXCEPT ![p] =
                               IF Winners(r) \ {r} # {}
                               THEN [m EXCEPT !.invalid = @ \cup StreamsOf({r} \cup Winners(r))]
                               ELSE m]
                  /\ mark' = [mark EXCEPT ![p] = [mark[p] EXCEPT !.evidence = Len(evidence')]]
                BY <2>2, OfAll DEF Capture
            <4> HIDE DEF m
            <4> QED
                BY <4>1, OfAll DEF MarkType
        <3>2. Accurate(mem[p], mark[p], {}, evidence', outcomes)
            <4>1. Accurate(mem[p], mark[p], {}, evidence', outcomes')
                BY <1>1, <1>2, <1>4, ViewStays DEF Views
            <4> QED
                BY <4>1 DEF Capture
        <3>3. /\ Continues(evidence', evidence')
              /\ Len(evidence) \in Nat /\ Len(evidence') \in Nat /\ Len(evidence) <= Len(evidence')
            BY <1>1, <1>2, ContinuesSelf, LenProperties DEF LedgersOK, Continues
        <3>4. Sound(mem[p], forecasts, evidence')
            BY <1>1, <3>3, Of, SoundGrows DEF LedgersOK
        <3>5. MarkOK(mark[p], Len(forecasts), Len(evidence'), Len(outcomes))
            BY <3>3, Of DEF MarkOK, MarkType
        <3>6. Accurate(m, mark'[p], {}, evidence', outcomes)
            BY <1>1, <3>1, <3>2, <3>3, <3>4, <3>5, MergeEvidenceAccurate DEF LedgersOK
        <3>7. m \in Memory
            <4>1. mark[p].evidence \in Nat
                BY OfAll DEF MarkType
            <4>2. Sound(m, forecasts, evidence')
                BY <1>1, <3>4, <4>1, MergeEvidenceOK DEF LedgersOK
            <4> QED
                BY <4>2 DEF Sound, MemoryOK
        <3> HIDE DEF m
        <3> QED
            BY <3>1, <3>6, <3>7
    <2> QED
        BY <2>1, <2>2
<1>6. View(p)'
    <2>1. Accurate(mem'[p], mark'[p], {}, evidence', outcomes)
        <3>1. CASE mem'[p] = m
            BY <1>5, <3>1 DEF Capture
        <3>2. CASE mem'[p] = [m EXCEPT !.invalid = @ \cup streams]
            <4>1. Accurate([m EXCEPT !.invalid = @ \cup streams], mark'[p], {},
                           evidence', outcomes)
                BY <1>5, TaintAccurate
            <4> QED
                BY <3>2, <4>1
        <3> QED
            BY <1>5, <3>1, <3>2
    <2> QED
        BY <1>4, <2>1 DEF View, Capture
<1> QED
    BY <1>1, <1>3, <1>6, OneViewMoves

-----------------------------------------------------------------------------
(* Synchronization.                                                        *)

LEMMA SameLedgersContinue ==
    ASSUME LedgersOK, UNCHANGED ledgers
    PROVE  LedgersOK' /\ Continues(evidence, evidence') /\ Continues(outcomes, outcomes')
    BY ContinuesSelf DEF LedgersOK, ledgers

LEMMA ReadForecastsViews ==
    ASSUME IInv, Views, NEW p \in Proc, NEW call, NEW time, NEW reset,
           ReadForecasts(p, call, time, reset), pc[p] \in {"closed", "idle"}
    PROVE  Views'
<1>1. LedgersOK /\ UNCHANGED ledgers /\ evidence' = evidence /\ outcomes' = outcomes
    BY DEF IInv, ReadForecasts, ledgers
<1>2. OnlyMoves(p)
    BY <1>1, OfAll, SameLedgersContinue DEF OnlyMoves, Pending, ReadForecasts
<1>3. Pending(p) = {} /\ Pending(p)' = {}
    BY OfAll DEF Pending, ReadForecasts
<1>4. Accurate(mem'[p], mark'[p], {}, evidence, outcomes)
    <2>1. CASE reset
        <3>1. /\ mem'[p] = MergeForecasts(Blank, forecasts, 0)
              /\ mark'[p] = [Unread EXCEPT !.forecasts = Len(forecasts)]
            BY <2>1, OfAll DEF ReadForecasts
        <3>2. /\ mark'[p].evidence = Unread.evidence /\ mark'[p].outcomes = Unread.outcomes
              /\ Unread.evidence = 0
            BY <3>1 DEF Unread
        <3>3. Accurate(Blank, Unread, {}, evidence, outcomes)
            BY <3>2, BlankAccurate
        <3>4. Sound(Blank, forecasts, evidence)
            BY <1>1, BlankOK DEF LedgersOK
        <3>5. MarkOK(Unread, 0, Len(evidence), Len(outcomes))
            BY <1>1, Lengths, MarkStarts
        <3>6. Accurate(MergeForecasts(Blank, forecasts, 0), mark'[p], {}, evidence, outcomes)
            BY <1>1, <3>2, <3>3, <3>4, <3>5, MergeForecastsAccurate DEF LedgersOK
        <3> QED
            BY <3>1, <3>6
    <2>2. CASE ~reset
        <3>1. /\ mem'[p] = MergeForecasts(mem[p], forecasts, mark[p].forecasts)
              /\ mark'[p].evidence = mark[p].evidence /\ mark'[p].outcomes = mark[p].outcomes
            BY <2>2, OfAll DEF ReadForecasts, MarkType
        <3>2. Accurate(mem[p], mark[p], {}, evidence, outcomes)
            BY <1>3 DEF Views, View
        <3>3. /\ Sound(mem[p], forecasts, evidence)
              /\ MarkOK(mark[p], Len(forecasts), Len(evidence), Len(outcomes))
            BY Of
        <3> QED
            BY <1>1, <3>1, <3>2, <3>3, MergeForecastsAccurate DEF LedgersOK
    <2> QED
        BY <2>1, <2>2
<1>5. View(p)'
    BY <1>1, <1>3, <1>4 DEF View
<1> QED
    BY <1>1, <1>2, <1>5, SameLedgersContinue, OneViewMoves

LEMMA ReadEvidenceViews ==
    ASSUME IInv, Views, NEW p \in Proc, NEW reset, ReadEvidence(p, reset)
    PROVE  Views'
<1>1. LedgersOK /\ UNCHANGED ledgers /\ evidence' = evidence /\ outcomes' = outcomes
    BY DEF IInv, ReadEvidence, ledgers
<1>2. OnlyMoves(p)
    BY <1>1, OfAll, SameLedgersContinue DEF OnlyMoves, Pending, ReadEvidence
<1>3. Pending(p) = {} /\ Pending(p)' = {}
    BY OfAll DEF Pending, ReadEvidence
<1>4. /\ Continues(evidence, evidence)
      /\ Len(forecasts) \in Nat /\ Len(evidence) \in Nat /\ Len(outcomes) \in Nat
    BY <1>1, ContinuesSelf, Lengths DEF LedgersOK
<1>5. Accurate(mem'[p], mark'[p], {}, evidence, outcomes)
    <2>1. CASE reset
        <3> DEFINE known == SubSeq(forecasts, 1, mark[p].forecasts)
                   m == MergeForecasts(Blank, known, 0)
        <3>1. /\ mem'[p] = MergeEvidence(m, evidence, 0)
              /\ mark'[p] = [forecasts |-> mark[p].forecasts,
                             evidence |-> Len(evidence), outcomes |-> 0]
            BY <2>1, OfAll DEF ReadEvidence
        <3>2. mark[p].forecasts \in 0 .. Len(forecasts)
            BY <1>4, Of DEF MarkOK, MarkType
        <3>3. known \in Seq(ForecastRecord) /\ \A r : Holds(known, r) => Holds(forecasts, r)
            BY <1>1, <3>2, PrefixHolds DEF LedgersOK
        <3> HIDE DEF known
        <3>4. Unread.evidence = 0 /\ Unread.outcomes = 0
            BY DEF Unread
        <3>5. Sound(Blank, forecasts, evidence)
            BY <1>1, BlankOK DEF LedgersOK
        <3>6. Sound(m, forecasts, evidence)
            BY <1>1, <3>3, <3>5, MergeForecastsOK DEF LedgersOK
        <3>7. MarkOK(Unread, 0, Len(evidence), Len(outcomes))
            BY <1>4, MarkStarts
        <3>8. Accurate(m, Unread, {}, evidence, outcomes)
            BY <1>1, <3>4, <3>5, <3>7, BlankAccurate, MergeForecastsAccurate DEF LedgersOK
        <3> HIDE DEF m
        <3>9. Accurate(MergeEvidence(m, evidence, Unread.evidence), mark'[p], {},
                       evidence, outcomes)
            BY <1>1, <1>4, <3>1, <3>4, <3>6, <3>7, <3>8, MergeEvidenceAccurate DEF LedgersOK
        <3> QED
            BY <3>1, <3>4, <3>9
    <2>2. CASE ~reset
        <3>1. /\ mem'[p] = MergeEvidence(mem[p], evidence, mark[p].evidence)
              /\ mark'[p].evidence = Len(evidence) /\ mark'[p].outcomes = mark[p].outcomes
            BY <2>2, OfAll DEF ReadEvidence, MarkType
        <3>2. Accurate(mem[p], mark[p], {}, evidence, outcomes)
            BY <1>3 DEF Views, View
        <3> QED
            BY <1>1, <1>4, <3>1, <3>2, Of, MergeEvidenceAccurate DEF LedgersOK
    <2> QED
        BY <2>1, <2>2
<1>6. View(p)'
    BY <1>1, <1>3, <1>5 DEF View
<1> QED
    BY <1>1, <1>2, <1>6, SameLedgersContinue, OneViewMoves

LEMMA PrefixContinues ==
    ASSUME NEW S, NEW s \in Seq(S), NEW n \in 0 .. Len(s)
    PROVE  Continues(SubSeq(s, 1, n), s)
<1>1. /\ Len(SubSeq(s, 1, n)) = n /\ Len(s) \in Nat
      /\ \A i \in 1 .. n : SubSeq(s, 1, n)[i] = s[i]
    OBVIOUS
<1> QED
    BY <1>1 DEF Continues

LEMMA ReadOutcomesViews ==
    ASSUME IInv, Shape, Views, NEW p \in Proc, NEW reset, ReadOutcomes(p, reset)
    PROVE  Views'
<1>1. LedgersOK /\ UNCHANGED ledgers /\ evidence' = evidence /\ outcomes' = outcomes
    BY DEF IInv, ReadOutcomes, ledgers
<1>2. OnlyMoves(p)
    BY <1>1, OfAll, SameLedgersContinue DEF OnlyMoves, Pending, ReadOutcomes
<1>3. Pending(p) = {} /\ goal[p] \in {"idle", "resolve"}
    BY DEF Pending, ReadOutcomes, IInv, ControlOK
<1>4. Len(forecasts) \in Nat /\ Len(evidence) \in Nat /\ Len(outcomes) \in Nat
    BY <1>1, Lengths
<1>5. mark'[p].evidence = mark[p].evidence /\ mark'[p].outcomes = Len(outcomes)
    BY OfAll DEF ReadOutcomes, MarkType
<1>6. PICK merged :
        /\ merged \in Memory
        /\ Accurate(merged, mark'[p], {}, evidence, outcomes)
        /\ IF goal[p] = "resolve"
           THEN mem'[p] = [merged EXCEPT !.dirty = {}] /\ queue'[p] = merged.dirty
           ELSE mem'[p] = merged
    <2>1. CASE reset
        <3> DEFINE fl == SubSeq(forecasts, 1, mark[p].forecasts)
                   el == SubSeq(evidence, 1, mark[p].evidence)
                   merged == Rebuilt(fl, el, outcomes)
        <3>1. IF goal[p] = "resolve"
              THEN mem'[p] = [merged EXCEPT !.dirty = {}] /\ queue'[p] = merged.dirty
              ELSE mem'[p] = merged
            BY <2>1, OfAll DEF ReadOutcomes
        <3>2. mark[p].forecasts \in 0 .. Len(forecasts) /\ mark[p].evidence \in 0 .. Len(evidence)
            BY <1>4, Of DEF MarkOK, MarkType
        <3>3. fl \in Seq(ForecastRecord)
            BY <1>1, <3>2, PrefixHolds DEF LedgersOK
        <3>4. el \in Seq(Evidence) /\ Len(el) = mark[p].evidence /\ Continues(el, evidence)
            BY <1>1, <3>2, PrefixHolds, PrefixContinues DEF LedgersOK
        <3> HIDE DEF fl, el
        <3>5. Accurate(merged, mark'[p], {}, evidence, outcomes)
            BY <1>1, <1>5, <3>3, <3>4, RebuiltAccurate DEF LedgersOK, Shape
        <3>6. merged \in Memory
            BY <1>1, <3>3, <3>4, RebuiltOK DEF LedgersOK, Sound, MemoryOK
        <3> HIDE DEF merged
        <3> QED
            BY <3>1, <3>5, <3>6
    <2>2. CASE ~reset
        <3> DEFINE merged == MergeOutcomes(mem[p], outcomes, mark[p].outcomes)
        <3>1. IF goal[p] = "resolve"
              THEN mem'[p] = [merged EXCEPT !.dirty = {}] /\ queue'[p] = merged.dirty
              ELSE mem'[p] = merged
            BY <2>2, OfAll DEF ReadOutcomes
        <3>2. Accurate(mem[p], mark[p], {}, evidence, outcomes)
            BY <1>3 DEF Views, View
        <3>3. Accurate(merged, mark'[p], {}, evidence, outcomes)
            BY <1>1, <1>5, <3>2, Of, MergeOutcomesAccurate DEF LedgersOK, Shape
        <3>4. merged \in Memory
            <4>1. mark[p].outcomes \in Nat
                BY OfAll DEF MarkType
            <4>2. Sound(merged, forecasts, evidence)
                BY <1>1, <4>1, Of, MergeOutcomesOK DEF LedgersOK
            <4> QED
                BY <4>2 DEF Sound, MemoryOK
        <3> HIDE DEF merged
        <3> QED
            BY <3>1, <3>3, <3>4
    <2> QED
        BY <2>1, <2>2
<1>7. Accurate(mem'[p], mark'[p], Pending(p)', evidence, outcomes)
    <2>1. CASE goal[p] = "resolve"
        <3>1. Pending(p)' = merged.dirty
            BY <1>6, <2>1, OfAll DEF Pending, ReadOutcomes
        <3> QED
            BY <1>6, <2>1, <3>1, TakenOver
    <2>2. CASE goal[p] = "idle"
        <3>1. Pending(p)' = {}
            BY <2>2, OfAll DEF Pending, ReadOutcomes
        <3> QED
            BY <1>6, <2>2, <3>1
    <2> QED
        BY <1>3, <2>1, <2>2
<1>8. View(p)'
    BY <1>1, <1>7 DEF View
<1> QED
    BY <1>1, <1>2, <1>8, SameLedgersContinue, OneViewMoves

-----------------------------------------------------------------------------
(* Emission.                                                               *)

\* After an emission the account is in order, whatever was owed before.
LEMMA AccurateAfterEmit ==
    ASSUME IInv, Shape', Views, NEW p \in Proc, NEW reset,
           outcomes' \in Seq(Outcome), Continues(outcomes, outcomes'),
           UNCHANGED <<forecasts, evidence>>
    PROVE  /\ Accurate(MemoryAfterEmit(p, reset), MarkAfterEmit(p, reset), Pending(p),
                       evidence, outcomes')
           /\ MemoryAfterEmit(p, reset) \in Memory
<1>1. /\ LedgersOK /\ Sound(mem[p], forecasts, evidence)
      /\ MarkOK(mark[p], Len(forecasts), Len(evidence), Len(outcomes))
      /\ mark[p] \in MarkType /\ mark[p].outcomes \in Nat
    BY Of DEF IInv, MarkType
<1>2. /\ Len(forecasts) \in Nat /\ Len(evidence) \in Nat /\ Len(outcomes) \in Nat
      /\ Len(outcomes') \in Nat /\ Len(outcomes) <= Len(outcomes')
    BY <1>1, Lengths, LenProperties DEF Continues
<1>3. Continues(evidence, evidence)
    BY <1>1, ContinuesSelf DEF LedgersOK
<1>4. CASE reset
    <2> DEFINE m == Rebuilt(forecasts, evidence, outcomes')
               k == AllRead(forecasts, evidence, outcomes')
    <2>1. k.evidence = Len(evidence) /\ k.outcomes = Len(outcomes')
        BY DEF AllRead
    <2> HIDE DEF k
    <2>2. Accurate(m, k, Pending(p), evidence, outcomes')
        BY <1>1, <1>3, <2>1, RebuiltAccurate DEF LedgersOK, Shape
    <2>3. m \in Memory
        BY <1>1, RebuiltOK DEF LedgersOK, Sound, MemoryOK
    <2> QED
        BY <1>4, <2>2, <2>3 DEF MemoryAfterEmit, MarkAfterEmit, k
<1>5. CASE ~reset
    <2> DEFINE m == MergeOutcomes(mem[p], outcomes', mark[p].outcomes)
               k == [mark[p] EXCEPT !.outcomes = Len(outcomes')]
    <2>1. k.evidence = mark[p].evidence /\ k.outcomes = Len(outcomes')
        BY <1>1 DEF MarkType
    <2> HIDE DEF k
    <2>2. Accurate(mem[p], mark[p], Pending(p), evidence, outcomes')
        <3>1. Accurate(mem[p], mark[p], Pending(p), evidence, outcomes)
            BY DEF Views, View
        <3> QED
            BY <1>1, <1>3, <3>1, AccurateGrows DEF LedgersOK
    <2>3. MarkOK(mark[p], Len(forecasts), Len(evidence), Len(outcomes'))
        BY <1>1, <1>2 DEF MarkOK, MarkType
    <2>4. Accurate(m, k, Pending(p), evidence, outcomes')
        BY <1>1, <2>1, <2>2, <2>3, MergeOutcomesAccurate DEF LedgersOK, Shape
    <2>5. m \in Memory
        <3>1. Sound(m, forecasts, evidence)
            BY <1>1, MergeOutcomesOK
        <3> QED
            BY <3>1 DEF Sound, MemoryOK
    <2> QED
        BY <1>5, <2>4, <2>5 DEF MemoryAfterEmit, MarkAfterEmit, k
<1> QED
    BY <1>4, <1>5

\* Final is what the transition rule looks at.
LEMMA FinalIs ==
    ASSUME NEW f
    PROVE  Final(outcomes, f) <=> \E o \in OutcomesOf(f) : o.settled
    BY DEF Final, OutcomesOf, Range

\* A settled outcome is written, or there is one already.
LEMMA SettledEmitted ==
    ASSUME outcomes \in Seq(Outcome), NEW o \in Outcome, o.settled, NEW p, Emit(p, o)
    PROVE  Final(outcomes', o.forecast)
<1>1. CASE o \notin OutcomesOf(o.forecast) /\ TransitionAllowed(o)
    <2>1. outcomes' = Append(outcomes, o)
        BY <1>1 DEF Emit
    <2>2. Len(outcomes) + 1 \in DOMAIN outcomes' /\ outcomes'[Len(outcomes) + 1] = o
        BY <2>1, AppendProperties, LenProperties
    <2> QED
        BY <2>2 DEF Final
<1>2. CASE ~(o \notin OutcomesOf(o.forecast) /\ TransitionAllowed(o))
    <2>1. outcomes' = outcomes
        BY <1>2 DEF Emit
    <2>2. \E other \in OutcomesOf(o.forecast) : other.settled
        BY <1>2 DEF TransitionAllowed
    <2> QED
        BY <2>1, <2>2, FinalIs
<1> QED
    BY <1>1, <1>2

\* What the first candidate is: the first admissible observation there is, for a
\* forecast without a final outcome.
LEMMA CandidateIsFirst ==
    ASSUME IInv, Views, NEW p \in Proc, NEW f \in Forecast, Candidates(p, f) # {},
           ~Final(outcomes, f), NEW i, i = Min(Candidates(p, f))
    PROVE  /\ i \in 1 .. Len(evidence)
           /\ Admissible(f, evidence[i])
           /\ \A j \in 1 .. i - 1 : ~Admissible(f, evidence[j])
<1>1. /\ i \in Candidates(p, f) /\ i \in 1 .. Len(evidence)
      /\ Candidates(p, f) \in SUBSET Nat
    BY FirstCandidate, CandidatesType
<1>2. \A j \in Candidates(p, f) : i <= j
    BY <1>1, FirstPosition
<1>3. /\ i \in mem[p].seen /\ mem[p].seen = 1 .. mark[p].evidence
      /\ Quiet(evidence, f, mem[p].cursor[f])
    BY <1>1 DEF Candidates, Views, View, Accurate, SeenAll, CursorsJustified
<1>4. mark[p].evidence \in Nat /\ mem[p].cursor[f] \in Nat
    BY OfAll DEF MarkType, Memory
<1>5. ASSUME NEW j \in 1 .. i - 1, Admissible(f, evidence[j]) PROVE FALSE
    <2>1. j \in 1 .. mark[p].evidence /\ j < i
        BY <1>1, <1>3, <1>4
    <2>2. CASE j <= mem[p].cursor[f]
        BY <1>3, <1>4, <1>5, <2>1, <2>2 DEF Quiet
    <2>3. CASE ~(j <= mem[p].cursor[f])
        <3>1. j \in Candidates(p, f)
            BY <1>3, <1>4, <1>5, <2>1, <2>3 DEF Candidates
        <3> QED
            BY <1>1, <1>2, <2>1, <3>1
    <2> QED
        BY <2>2, <2>3
<1>6. Admissible(f, evidence[i])
    BY <1>1 DEF Candidates
<1> QED
    BY <1>1, <1>5, <1>6

LEMMA ResolveOneViews ==
    ASSUME IInv, IInv', Shape', Views, OutcomeStep, NEW p \in Proc, NEW f \in Forecast,
           NEW reset, ResolveOne(p, f, reset)
    PROVE  Views' /\ Final(outcomes', f)
<1>1. LedgersOK /\ LedgersOK' /\ evidence' = evidence /\ UNCHANGED <<forecasts, evidence>>
    BY DEF IInv, ResolveOne
<1>2. PICK i : i = Min(Candidates(p, f)) /\ i \in Candidates(p, f)
    BY FirstCandidate DEF ResolveOne
<1>3. Scored(p, f, i) \in Outcome /\ Scored(p, f, i).forecast = f /\ Scored(p, f, i).settled
    BY <1>2, ScoredType DEF Scored
<1>4. Emit(p, Scored(p, f, i))
    BY <1>2 DEF ResolveOne
<1>5. Final(outcomes', f)
    BY <1>1, <1>3, <1>4, SettledEmitted DEF LedgersOK
<1>6. Continues(evidence, evidence') /\ Continues(outcomes, outcomes')
    BY <1>1, ContinuesSelf, OutcomesContinue DEF LedgersOK
<1>7. OnlyMoves(p)
    BY <1>6, OfAll DEF OnlyMoves, Pending, ResolveOne
<1> DEFINE after == MemoryAfterEmit(p, reset)
<1>8. /\ Accurate(after, MarkAfterEmit(p, reset), Pending(p), evidence, outcomes')
      /\ after \in Memory
    BY <1>1, <1>6, AccurateAfterEmit DEF LedgersOK
<1> HIDE DEF after
<1>9. /\ mem'[p] = [after EXCEPT !.cursor[f] = i] /\ mark'[p] = MarkAfterEmit(p, reset)
      /\ Pending(p) \ {f} \subseteq Pending(p)'
    BY <1>2, OfAll DEF ResolveOne, Pending, after
<1>10. View(p)'
    <2>1. Accurate([after EXCEPT !.cursor[f] = i], MarkAfterEmit(p, reset), Pending(p)',
                   evidence, outcomes')
        BY <1>5, <1>8, <1>9, CursorAccurate
    <2> QED
        BY <1>1, <1>9, <2>1 DEF View
<1> QED
    BY <1>1, <1>5, <1>7, <1>10, OneViewMoves

LEMMA SweepOneViews ==
    ASSUME IInv, IInv', Shape', Views, OutcomeStep, NEW p \in Proc, NEW f \in Forecast,
           NEW reset, SweepOne(p, f, reset)
    PROVE  Views'
<1>1. LedgersOK /\ LedgersOK' /\ evidence' = evidence /\ UNCHANGED <<forecasts, evidence>>
    BY DEF IInv, SweepOne
<1>2. Continues(evidence, evidence') /\ Continues(outcomes, outcomes')
    BY <1>1, ContinuesSelf, OutcomesContinue DEF LedgersOK
<1>3. OnlyMoves(p)
    BY <1>2, OfAll DEF OnlyMoves, Pending, SweepOne, Return
<1>4. /\ Accurate(MemoryAfterEmit(p, reset), MarkAfterEmit(p, reset), Pending(p),
                  evidence, outcomes')
    BY <1>1, <1>2, AccurateAfterEmit DEF LedgersOK
<1>5. mem'[p] = MemoryAfterEmit(p, reset) /\ mark'[p] = MarkAfterEmit(p, reset)
    BY OfAll DEF SweepOne
<1>6. Pending(p) = {} /\ Pending(p)' = {}
    BY OfAll DEF SweepOne, Pending, Return
<1>7. View(p)'
    BY <1>1, <1>4, <1>5, <1>6 DEF View
<1> QED
    BY <1>1, <1>3, <1>7, OneViewMoves

-----------------------------------------------------------------------------
(* The other steps of process(), and the end of it.                        *)

LEMMA ResolveNothingViews ==
    ASSUME IInv, Views, NEW p \in Proc, NEW f \in Forecast, ResolveNothing(p, f)
    PROVE  Views'
<1>1. /\ LedgersOK /\ UNCHANGED ledgers /\ evidence' = evidence /\ outcomes' = outcomes
      /\ mem[p] \in Memory /\ mark[p] \in MarkType
    BY Of DEF IInv, ResolveNothing, ledgers
<1>2. OnlyMoves(p)
    BY <1>1, OfAll, SameLedgersContinue DEF OnlyMoves, Pending, ResolveNothing
<1>3. Accurate(mem[p], mark[p], queue[p], evidence, outcomes)
    BY DEF Views, View, Pending, ResolveNothing
<1>4. /\ Pending(p)' = queue[p] \ {f} /\ mark'[p] = mark[p]
      /\ mem'[p] = [mem[p] EXCEPT !.cursor[f] =
                      IF Open(mem[p], f) THEN mark[p].evidence ELSE mem[p].cursor[f]]
    BY OfAll DEF ResolveNothing, Pending, Memory
<1>5. Final(outcomes, f) \/ (Open(mem[p], f) /\ Quiet(evidence, f, mark[p].evidence))
    <2>1. CASE ~Open(mem[p], f)
        <3>1. /\ Sound(mem[p], forecasts, evidence)
              /\ MarkOK(mark[p], Len(forecasts), Len(evidence), Len(outcomes))
            BY Of
        <3>2. OutFollows(mem[p], mark[p], outcomes)
            BY <1>3 DEF Accurate
        <3> QED
            BY <1>1, <2>1, <3>1, <3>2, AdoptedFinal DEF LedgersOK, Open
    <2>2. CASE Open(mem[p], f)
        <3>1. Candidates(p, f) = {}
            BY <2>2 DEF ResolveNothing
        <3>2. mem[p].seen = 1 .. mark[p].evidence
            BY <1>3 DEF Accurate, SeenAll
        <3>3. mark[p].evidence \in Nat /\ mem[p].cursor[f] \in Nat
            BY <1>1 DEF MarkType, Memory
        <3>4. ASSUME Quiet(evidence, f, mem[p].cursor[f]), NEW j \in 1 .. mark[p].evidence
              PROVE  ~Admissible(f, evidence[j])
            <4>1. CASE j <= mem[p].cursor[f]
                BY <3>3, <3>4, <4>1 DEF Quiet
            <4>2. CASE ~(j <= mem[p].cursor[f])
                BY <3>1, <3>2, <3>3, <4>2 DEF Candidates
            <4> QED
                BY <4>1, <4>2
        <3> QED
            BY <1>3, <2>2, <3>4 DEF Accurate, CursorsJustified, Quiet
    <2> QED
        BY <2>1, <2>2
<1>6. View(p)'
    <2> DEFINE n == IF Open(mem[p], f) THEN mark[p].evidence ELSE mem[p].cursor[f]
               q2 == queue[p] \ {f}
    <2>1. Final(outcomes, f) \/ Quiet(evidence, f, n)
        BY <1>5
    <2>2. Final(outcomes, f) \/ Quiet(evidence, f, mark[p].evidence)
        BY <1>5
    <2>3. queue[p] \ {f} \subseteq q2
        OBVIOUS
    <2> HIDE DEF n, q2
    <2>4. Accurate([mem[p] EXCEPT !.cursor[f] = n], mark[p], q2, evidence, outcomes)
        BY <1>1, <1>3, <2>1, <2>2, <2>3, CursorAccurate
    <2> QED
        BY <1>1, <1>4, <2>4 DEF View, n, q2
<1> QED
    BY <1>1, <1>2, <1>6, SameLedgersContinue, OneViewMoves

\* A step that moves nothing but control: nothing is owed before, nor afterwards.
LEMMA ControlViews ==
    ASSUME IInv, Views, NEW p \in Proc,
           \/ StartSweep(p)
           \/ \E f \in Forecast : SweepNothing(p, f)
           \/ FinishProcess(p)
    PROVE  Views'
<1>1. /\ LedgersOK /\ UNCHANGED ledgers /\ evidence' = evidence /\ outcomes' = outcomes
      /\ mem' = mem /\ mark' = mark
    BY DEF IInv, StartSweep, SweepNothing, FinishProcess, ledgers
<1>2. OnlyMoves(p)
    BY <1>1, OfAll, SameLedgersContinue
       DEF OnlyMoves, Pending, StartSweep, SweepNothing, FinishProcess, Return
<1>3. Pending(p) = {} /\ Pending(p)' = {}
    BY OfAll DEF Pending, StartSweep, SweepNothing, FinishProcess, Return
<1>4. View(p)'
    BY <1>1, <1>3 DEF Views, View
<1> QED
    BY <1>1, <1>2, <1>4, SameLedgersContinue, OneViewMoves

LEMMA CrashViews ==
    ASSUME IInv, Views, NEW p \in Proc, Crash(p)
    PROVE  Views'
<1>1. /\ LedgersOK /\ UNCHANGED ledgers
    BY DEF IInv, Crash
<1>2. OnlyMoves(p)
    BY <1>1, OfAll, SameLedgersContinue DEF OnlyMoves, Pending, Crash
<1>3. mem'[p] = Blank /\ mark'[p] = Unread /\ Unread.evidence = 0
    BY OfAll DEF Crash, Unread
<1>4. View(p)'
    BY <1>3, BlankAccurate DEF View
<1> QED
    BY <1>1, <1>2, <1>4, SameLedgersContinue, OneViewMoves

LEMMA HostViews ==
    ASSUME "io" \notin Faults, IInv, IInv', Shape, Views, NEW p \in Proc, Host(p)
    PROVE  Views'
<1>1. CASE \E f \in Forecast, reset \in Resets :
             Author(p, f, reset) \/ AmendExposure(p, f, reset)
    BY <1>1, FollowViews DEF Author, AmendExposure
<1>2. CASE \E r \in Evidence, reset \in Resets : Capture(p, r, reset)
    BY <1>2, CaptureViews
<1>3. CASE \E reset \in Resets : Status(p, reset)
    BY <1>3, ReadForecastsViews DEF Status
<1> QED
    BY <1>1, <1>2, <1>3 DEF Host, ForecastAppendFails, CaptureFails

LEMMA ContinueViews ==
    ASSUME "io" \notin Faults, IInv, IInv', Shape, Shape', Views, OutcomeStep,
           NEW p \in Proc, Continue(p)
    PROVE  Views'
<1>1. queue[p] \subseteq Forecast
    BY DEF IInv, ControlOK
<1>2. CASE \E reset \in Resets : ReadEvidence(p, reset) \/ ReadOutcomes(p, reset)
    BY <1>2, ReadEvidenceViews, ReadOutcomesViews
<1>3. CASE \E f \in queue[p], reset \in Rebuilds :
             ResolveOne(p, f, reset) \/ SweepOne(p, f, reset)
    BY <1>1, <1>3, ResolveOneViews, SweepOneViews
<1>4. CASE \E f \in queue[p] : ResolveNothing(p, f)
    BY <1>1, <1>4, ResolveNothingViews
<1>5. CASE StartSweep(p) \/ (\E f \in queue[p] : SweepNothing(p, f)) \/ FinishProcess(p)
    BY <1>1, <1>5, ControlViews
<1> QED
    BY <1>2, <1>3, <1>4, <1>5 DEF Continue, ResolveFails, SweepFails, EmitFails

LEMMA NextViews ==
    ASSUME "io" \notin Faults, IInv, IInv', Shape, Shape', Views, OutcomeStep, [Next]_vars
    PROVE  Views'
<1>1. CASE UNCHANGED vars
    BY <1>1 DEF Views, View, Pending, vars
<1>2. CASE Next
    <2>1. PICK p \in Proc : OpenSubstrate(p) \/ Host(p) \/ Call(p) \/ Continue(p) \/ Crash(p)
        BY <1>2 DEF Next
    <2>2. CASE OpenSubstrate(p)
        BY <2>2, ReadForecastsViews DEF OpenSubstrate
    <2>3. CASE Host(p)
        BY <2>3, HostViews
    <2>4. CASE Call(p)
        BY <2>4, ReadForecastsViews DEF Call, StartProcess
    <2>5. CASE Continue(p)
        BY <2>5, ContinueViews
    <2>6. CASE Crash(p)
        BY <2>6, CrashViews
    <2> QED
        BY <2>1, <2>2, <2>3, <2>4, <2>5, <2>6
<1> QED
    BY <1>1, <1>2

\* The invariant of the theorems below.
VInv == IInv /\ Shape /\ Views

LEMMA InitViews == Init => VInv
<1> SUFFICES ASSUME Init PROVE VInv
    OBVIOUS
<1>1. IInv
    BY InitOK
<1>2. Shape
    BY DEF Init, Shape, OneOrTwo
<1>3. ASSUME NEW p \in Proc PROVE View(p)
    <2>1. mem[p] = Blank /\ mark[p].evidence = 0
        BY DEF Init, Unread
    <2> QED
        BY <2>1, BlankAccurate DEF View
<1> QED
    BY <1>1, <1>2, <1>3 DEF VInv, Views

LEMMA StepViews ==
    ASSUME "io" \notin Faults, VInv, [Next]_vars
    PROVE  VInv' /\ OutcomeStep
<1>1. IInv' /\ OutcomeStep
    BY NextOK, OutcomeSteps DEF VInv
<1>2. Shape'
    BY <1>1, ShapeMoves DEF VInv, IInv, LedgersOK
<1> QED
    BY <1>1, <1>2, NextViews DEF VInv

LEMMA InvariantViews ==
    ASSUME "io" \notin Faults
    PROVE  Spec => []VInv
    BY InitViews, StepViews, PTL DEF Spec

\* What an instance reports of a forecast is the outcome that the ledger it has read
\* makes authoritative: it never goes on reporting a provisional closure once it has
\* read what superseded it, nor an outcome that lost.
THEOREM ReportsAreAuthoritative ==
    ASSUME "io" \notin Faults
    PROVE  Spec => []ReportsAuthoritative
<1>1. ASSUME VInv, NEW p \in Proc, NEW f \in Forecast, mem[p].out[f] # None
      PROVE  mem[p].out[f] = FoldExposure(mem[p].amended,
                                          outcomes[LastOutcome(f, mark[p].outcomes)])
    <2>1. PICK i \in 1 .. mark[p].outcomes :
              /\ IsLast(outcomes, f, i, mark[p].outcomes)
              /\ mem[p].out[f] = FoldExposure(mem[p].amended, outcomes[i])
        BY <1>1 DEF VInv, Views, View, Accurate, OutFollows
    <2>2. mark[p].outcomes \in Nat
        BY <1>1, OfAll DEF VInv, MarkType
    <2> DEFINE S == {j \in 1 .. mark[p].outcomes : outcomes[j].forecast = f}
    <2>3. i \in S
        BY <2>1 DEF IsLast
    <2>4. \A j \in S : j <= i
        BY <2>1, <2>2 DEF IsLast
    <2>5. \A x \in S : (\A j \in S : x >= j) => x = i
        BY <2>2, <2>3, <2>4
    <2>6. Max(S) = i
        BY <2>2, <2>3, <2>4, <2>5 DEF Max
    <2> QED
        BY <2>1, <2>6 DEF LastOutcome
<1>2. VInv => ReportsAuthoritative
    BY <1>1 DEF ReportsAuthoritative
<1> QED
    BY <1>2, InvariantViews, PTL

\* What an instance has read and what may settle a forecast is not lost: when it is not
\* resolving, it has settled the forecast, or will look at it again.
THEOREM NoEvidenceIsLost ==
    ASSUME "io" \notin Faults
    PROVE  Spec => []EvidenceKept
<1>1. ASSUME VInv, NEW p \in Proc, pc[p] # "resolve", NEW f \in mem[p].known,
             NEW i \in 1 .. mark[p].evidence, Admissible(f, evidence[i])
      PROVE  (\E o \in OutcomesOf(f) : o.settled) \/ f \in mem[p].dirty
    <2>1. NothingForgotten(mem[p], mark[p], {}, evidence, outcomes)
        BY <1>1 DEF VInv, Views, View, Pending, Accurate
    <2>2. ~Quiet(evidence, f, mark[p].evidence)
        BY <1>1 DEF Quiet
    <2>3. Final(outcomes, f) \/ f \in mem[p].dirty
        BY <2>1, <2>2 DEF NothingForgotten
    <2> QED
        BY <2>3 DEF Final, OutcomesOf, Range
<1>2. VInv => EvidenceKept
    BY <1>1 DEF EvidenceKept
<1> QED
    BY <1>2, InvariantViews, PTL

-----------------------------------------------------------------------------
(* Verdicts from evidence.                                                 *)

\* A verdict is right, given the evidence ledger.
FirstValid(o, el) ==
    o.by # None =>
        \E i \in DOMAIN el :
            /\ Admissible(o.forecast, el[i])
            /\ \A j \in 1 .. i - 1 : ~Admissible(o.forecast, el[j])
            /\ o.by = <<el[i].source, el[i].id>>
            /\ o.hit = (el[i].value \in Terms[o.forecast].holds)

LEMMA FirstValidGrows ==
    ASSUME NEW s \in Seq(Evidence), NEW t \in Seq(Evidence), Continues(s, t),
           NEW o, FirstValid(o, s)
    PROVE  FirstValid(o, t)
<1>1. /\ Len(s) \in Nat /\ Len(t) \in Nat /\ Len(s) <= Len(t)
      /\ DOMAIN s = 1 .. Len(s) /\ DOMAIN t = 1 .. Len(t)
      /\ \A i \in 1 .. Len(s) : t[i] = s[i]
    BY LenProperties DEF Continues
<1>2. ASSUME o.by # None
      PROVE  \E i \in DOMAIN t :
                 /\ Admissible(o.forecast, t[i])
                 /\ \A j \in 1 .. i - 1 : ~Admissible(o.forecast, t[j])
                 /\ o.by = <<t[i].source, t[i].id>>
                 /\ o.hit = (t[i].value \in Terms[o.forecast].holds)
    <2>1. PICK i \in 1 .. Len(s) :
              /\ Admissible(o.forecast, s[i])
              /\ \A j \in 1 .. i - 1 : ~Admissible(o.forecast, s[j])
              /\ o.by = <<s[i].source, s[i].id>>
              /\ o.hit = (s[i].value \in Terms[o.forecast].holds)
        BY <1>1, <1>2 DEF FirstValid
    <2>2. i \in DOMAIN t /\ t[i] = s[i] /\ \A j \in 1 .. i - 1 : t[j] = s[j]
        BY <1>1
    <2> QED
        BY <2>1, <2>2
<1> QED
    BY <1>2 DEF FirstValid

\* What a step writes to the outcome ledger: nothing, a score of the first admissible
\* observation, or the closure of an expired forecast.
Writes ==
    \/ UNCHANGED outcomes
    \/ /\ UNCHANGED evidence
       /\ \E p \in Proc, f \in Forecast : \E i :
            /\ ~Final(outcomes, f)
            /\ Candidates(p, f) # {} /\ i = Min(Candidates(p, f))
            /\ Scored(p, f, i) \in Outcome
            /\ outcomes' = Append(outcomes, Scored(p, f, i))
    \/ /\ UNCHANGED evidence
       /\ \E p \in Proc : \E f \in queue[p] :
            /\ pc[p] = "sweep"
            /\ TransitionAllowed(Closure(p, f))
            /\ outcomes' = Append(outcomes, Closure(p, f))

LEMMA StepWrites ==
    ASSUME "io" \notin Faults, IInv, [Next]_vars
    PROVE  Writes
<1>1. CASE UNCHANGED vars
    BY <1>1 DEF vars, Writes
<1>2. CASE Next
    <2>1. PICK p \in Proc : OpenSubstrate(p) \/ Host(p) \/ Call(p) \/ Continue(p) \/ Crash(p)
        BY <1>2 DEF Next
    <2>2. queue[p] \subseteq Forecast
        BY DEF IInv, ControlOK
    <2>3. CASE OpenSubstrate(p) \/ Call(p) \/ Crash(p)
        BY <2>3 DEF OpenSubstrate, Call, StartProcess, ReadForecasts, Crash, ledgers, Writes
    <2>4. CASE Host(p)
        BY <2>4 DEF Host, Author, AmendExposure, ForecastAppendFails, Capture, CaptureFails,
                    Status, ReadForecasts, ledgers, Writes
    <2>5. ASSUME NEW f \in queue[p], NEW reset, ResolveOne(p, f, reset)
          PROVE  Writes
        <3>1. PICK i : i = Min(Candidates(p, f)) /\ i \in Candidates(p, f)
            BY <2>2, <2>5, FirstCandidate DEF ResolveOne
        <3>2. Scored(p, f, i) \in Outcome /\ Scored(p, f, i).forecast = f
              /\ Scored(p, f, i).settled
            BY <2>2, <3>1, ScoredType DEF Scored
        <3>3. Emit(p, Scored(p, f, i)) /\ Candidates(p, f) # {} /\ UNCHANGED evidence
            BY <2>5, <3>1 DEF ResolveOne
        <3>4. CASE outcomes' = outcomes
            BY <3>4 DEF Writes
        <3>5. CASE /\ outcomes' = Append(outcomes, Scored(p, f, i))
                   /\ TransitionAllowed(Scored(p, f, i))
            <4>1. ~Final(outcomes, f)
                BY <3>2, <3>5, FinalIs DEF TransitionAllowed
            <4>2. f \in Forecast
                BY <2>2
            <4> QED
                BY <3>1, <3>2, <3>3, <3>5, <4>1, <4>2 DEF Writes
        <3> QED
            BY <3>3, <3>4, <3>5 DEF Emit
    <2>6. ASSUME NEW f \in queue[p], NEW reset, SweepOne(p, f, reset)
          PROVE  Writes
        <3>1. Emit(p, Closure(p, f)) /\ pc[p] = "sweep" /\ UNCHANGED evidence
            BY <2>6 DEF SweepOne
        <3>2. Closure(p, f).forecast = f
            BY <2>2, ClosureType
        <3> QED
            BY <3>1 DEF Emit, Writes
    <2>7. ASSUME \/ \E reset \in Resets : ReadEvidence(p, reset) \/ ReadOutcomes(p, reset)
                 \/ \E f \in queue[p] : ResolveNothing(p, f) \/ SweepNothing(p, f)
                 \/ StartSweep(p) \/ FinishProcess(p)
          PROVE  Writes
        BY <2>7 DEF ReadEvidence, ReadOutcomes, ResolveNothing, SweepNothing, StartSweep,
                    FinishProcess, ledgers, Writes
    <2>8. CASE Continue(p)
        BY <2>5, <2>6, <2>7, <2>8 DEF Continue, ResolveFails, SweepFails, EmitFails
    <2> QED
        BY <2>1, <2>3, <2>4, <2>8
<1> QED
    BY <1>1, <1>2

\* The evidence ledger goes on in every step.
LEMMA EvidenceContinues ==
    ASSUME IInv, [Next]_vars
    PROVE  Continues(evidence, evidence')
<1>1. evidence \in Seq(Evidence)
    BY DEF IInv, LedgersOK
<1>2. evidence' = evidence \/ \E r \in Evidence : evidence' = Append(evidence, r)
    <2>1. CASE UNCHANGED vars
        BY <2>1 DEF vars
    <2>2. ASSUME NEW p \in Proc, Host(p)
          PROVE  evidence' = evidence \/ \E r \in Evidence : evidence' = Append(evidence, r)
        BY <2>2 DEF Host, Author, AmendExposure, ForecastAppendFails, Capture, CaptureFails,
                    Status, ReadForecasts, ledgers
    <2>3. ASSUME NEW p \in Proc, OpenSubstrate(p) \/ Call(p) \/ Continue(p) \/ Crash(p)
          PROVE  evidence' = evidence
        BY <2>3 DEF OpenSubstrate, Call, StartProcess, ReadForecasts, Crash, Continue,
                    ReadEvidence, ReadOutcomes, ResolveOne, SweepOne, ResolveNothing,
                    ResolveFails, SweepNothing, SweepFails, EmitFails, StartSweep,
                    FinishProcess, ledgers
    <2> QED
        BY <2>1, <2>2, <2>3 DEF Next
<1> QED
    BY <1>1, <1>2, ContinuesSelf, ContinuesAppend

\* The outcomes after a step.
LEMMA OutcomesAfter ==
    ASSUME outcomes \in Seq(Outcome), NEW o \in Outcome, outcomes' = Append(outcomes, o)
    PROVE  Range(outcomes') = Range(outcomes) \cup {o}
<1>1. /\ Len(outcomes) \in Nat /\ DOMAIN outcomes = 1 .. Len(outcomes)
      /\ DOMAIN outcomes' = 1 .. Len(outcomes) + 1
      /\ outcomes'[Len(outcomes) + 1] = o
      /\ \A i \in 1 .. Len(outcomes) : outcomes'[i] = outcomes[i]
    BY AppendProperties, LenProperties
<1>2. 1 .. Len(outcomes) + 1 = (1 .. Len(outcomes)) \cup {Len(outcomes) + 1}
    BY <1>1
<1> QED
    BY <1>1, <1>2 DEF Range

LEMMA VerdictsStay ==
    ASSUME "io" \notin Faults, VInv, [Next]_vars, FirstValidTerminal
    PROVE  FirstValidTerminal'
<1>1. /\ IInv /\ evidence \in Seq(Evidence) /\ evidence' \in Seq(Evidence)
      /\ outcomes \in Seq(Outcome)
    BY StepViews DEF VInv, IInv, LedgersOK
<1>2. Continues(evidence, evidence')
    BY <1>1, EvidenceContinues
<1>3. \A o \in Range(outcomes) : FirstValid(o, evidence')
    <2>1. \A o \in Range(outcomes) : FirstValid(o, evidence)
        BY DEF FirstValidTerminal, FirstValid
    <2> QED
        BY <1>1, <1>2, <2>1, FirstValidGrows
<1>4. ASSUME NEW o \in Outcome, outcomes' = Append(outcomes, o), FirstValid(o, evidence')
      PROVE  \A x \in Range(outcomes') : FirstValid(x, evidence')
    BY <1>1, <1>3, <1>4, OutcomesAfter
<1>5. \A x \in Range(outcomes') : FirstValid(x, evidence')
    <2>1. CASE UNCHANGED outcomes
        BY <1>3, <2>1
    <2>2. ASSUME UNCHANGED evidence, NEW p \in Proc, NEW f \in Forecast, NEW i,
                 ~Final(outcomes, f), Candidates(p, f) # {}, i = Min(Candidates(p, f)),
                 Scored(p, f, i) \in Outcome, outcomes' = Append(outcomes, Scored(p, f, i))
          PROVE  \A x \in Range(outcomes') : FirstValid(x, evidence')
        <3>1. /\ i \in 1 .. Len(evidence)
              /\ Admissible(f, evidence[i])
              /\ \A j \in 1 .. i - 1 : ~Admissible(f, evidence[j])
            BY <1>1, <2>2, CandidateIsFirst DEF VInv
        <3>2. DOMAIN evidence = 1 .. Len(evidence)
            BY <1>1, LenProperties
        <3>3. FirstValid(Scored(p, f, i), evidence)
            BY <3>1, <3>2 DEF FirstValid, Scored
        <3> QED
            BY <1>4, <2>2, <3>3
    <2>3. ASSUME UNCHANGED evidence, NEW p \in Proc, NEW f \in queue[p],
                 outcomes' = Append(outcomes, Closure(p, f))
          PROVE  \A x \in Range(outcomes') : FirstValid(x, evidence')
        <3>1. f \in Forecast
            BY <1>1 DEF IInv, ControlOK
        <3>2. Closure(p, f).by = None
            BY DEF Closure
        <3>3. FirstValid(Closure(p, f), evidence')
            BY <3>2 DEF FirstValid
        <3> QED
            BY <1>4, <2>3, <3>1, <3>3, ClosureType
    <2> QED
        BY <1>1, <2>1, <2>2, <2>3, StepWrites DEF Writes
<1> QED
    BY <1>5 DEF FirstValidTerminal, FirstValid

\* Whichever process emits a verdict, and however much of the evidence the others had
\* read by then: it names the first admissible observation in the evidence ledger and
\* says what that observation says.
THEOREM VerdictsAreFirstValid ==
    ASSUME "io" \notin Faults
    PROVE  Spec => []FirstValidTerminal
<1>1. Init => FirstValidTerminal
    BY DEF Init, FirstValidTerminal, Range
<1>2. VInv /\ [Next]_vars /\ FirstValidTerminal => FirstValidTerminal'
    BY VerdictsStay
<1> QED
    BY <1>1, <1>2, InvariantViews, PTL DEF Spec

-----------------------------------------------------------------------------
(* Absence.                                                                *)

\* Between a synchronization and the end of process() nothing new becomes dirty, and
\* the sweep looks at forecasts that are known.  An append that finds its ledger
\* replaced would break this: everything is rebuilt, and what is dirty then is not
\* resolved.
TakenOverAll(p) ==
    /\ pc[p] \in {"resolve", "sweep"} => mem[p].dirty = {}
    /\ pc[p] = "sweep" => queue[p] \subseteq mem[p].known

AllTakenOver == \A p \in Proc : TakenOverAll(p)

LEMMA MergeOutcomesFields ==
    ASSUME NEW m \in Memory, NEW ol, NEW n
    PROVE  /\ MergeOutcomes(m, ol, n).known = m.known
           /\ MergeOutcomes(m, ol, n).dirty \subseteq m.dirty
<1> DEFINE adopted(f) ==
               Adopt(m.out[f], ol, {i \in n + 1 .. Len(ol) : ol[i].forecast = f})
           out == [f \in Forecast |-> IF f \in m.known
                                      THEN FoldExposure(m.amended, adopted(f))
                                      ELSE m.out[f]]
           dirty == {f \in m.dirty : out[f] # None => ~out[f].settled}
<1>1. MergeOutcomes(m, ol, n) = [m EXCEPT !.out = out, !.dirty = dirty]
    BY DEF MergeOutcomes
<1>2. dirty \subseteq m.dirty
    OBVIOUS
<1> HIDE DEF out, dirty
<1> QED
    BY <1>1, <1>2 DEF Memory

LEMMA OneTakesOver ==
    ASSUME AllTakenOver, NEW p \in Proc, TakenOverAll(p)',
           \A q \in Proc : q # p => mem'[q] = mem[q] /\ pc'[q] = pc[q] /\ queue'[q] = queue[q]
    PROVE  AllTakenOver'
    BY DEF AllTakenOver, TakenOverAll

LEMMA TakenOverStays ==
    ASSUME "io" \notin Faults, TRUE \notin Rebuilds, IInv, [Next]_vars, AllTakenOver
    PROVE  AllTakenOver'
<1>1. CASE UNCHANGED vars
    BY <1>1 DEF AllTakenOver, TakenOverAll, vars
<1>2. CASE Next
    <2>1. PICK p \in Proc : OpenSubstrate(p) \/ Host(p) \/ Call(p) \/ Continue(p) \/ Crash(p)
        BY <1>2 DEF Next
    <2>2. queue[p] \subseteq Forecast /\ TakenOverAll(p) /\ goal[p] \in {"idle", "resolve"}
        BY DEF IInv, ControlOK, AllTakenOver
    <2>3. CASE OpenSubstrate(p) \/ Call(p)
        BY <2>3, OfAll, OneTakesOver
           DEF OpenSubstrate, Call, StartProcess, ReadForecasts, TakenOverAll
    <2>4. CASE Crash(p)
        BY <2>4, OfAll, OneTakesOver DEF Crash, TakenOverAll
    <2>5. CASE Host(p)
        <3> DEFINE Calls == /\ pc'[p] \in {"idle", "evidence"}
                            /\ \A q \in Proc : q # p => /\ mem'[q] = mem[q]
                                                        /\ pc'[q] = pc[q]
                                                        /\ queue'[q] = queue[q]
        <3>1. Calls
            <4>1. ASSUME NEW f \in Forecast, NEW reset,
                         Author(p, f, reset) \/ AmendExposure(p, f, reset)
                  PROVE  Calls
                BY <4>1, OfAll DEF Author, AmendExposure, FollowForecasts
            <4>2. ASSUME NEW r \in Evidence, NEW reset, Capture(p, r, reset)
                  PROVE  Calls
                BY <4>2, OfAll DEF Capture
            <4>3. ASSUME NEW reset, Status(p, reset)
                  PROVE  Calls
                BY <4>3, OfAll DEF Status, ReadForecasts
            <4> QED
                BY <2>5, <4>1, <4>2, <4>3 DEF Host, ForecastAppendFails, CaptureFails
        <3> QED
            BY <3>1, OneTakesOver DEF TakenOverAll
    <2>6. CASE Continue(p)
        <3>1. \A reset \in Rebuilds : reset = FALSE
            BY SubstrateAssumption
        <3>2. ASSUME NEW reset, ReadEvidence(p, reset)
              PROVE  AllTakenOver'
            BY <3>2, OfAll, OneTakesOver DEF ReadEvidence, TakenOverAll
        <3>3. ASSUME NEW reset, ReadOutcomes(p, reset)
              PROVE  AllTakenOver'
            <4>1. goal[p] = "resolve" => \E merged : mem'[p] = [merged EXCEPT !.dirty = {}]
                BY <3>3, OfAll DEF ReadOutcomes
            <4>2. pc'[p] = goal[p]
                BY <3>3, OfAll DEF ReadOutcomes
            <4>3. \A q \in Proc : q # p => /\ mem'[q] = mem[q]
                                           /\ pc'[q] = pc[q] /\ queue'[q] = queue[q]
                BY <3>3, OfAll DEF ReadOutcomes
            <4>4. TakenOverAll(p)'
                <5>1. mem'[p] \in Memory
                    BY NextOK DEF IInv, MemoriesOK
                <5>2. "dirty" \in DOMAIN mem'[p]
                    BY <5>1 DEF Memory
                <5>3. ASSUME goal[p] = "resolve" PROVE mem'[p].dirty = {}
                    <6>1. PICK merged : mem'[p] = [merged EXCEPT !.dirty = {}]
                        BY <4>1, <5>3
                    <6>2. "dirty" \in DOMAIN merged
                        BY <5>2, <6>1
                    <6> QED
                        BY <6>1, <6>2
                <5> QED
                    BY <2>2, <4>2, <5>3 DEF TakenOverAll
            <4> QED
                BY <4>3, <4>4, OneTakesOver
        <3>4. ASSUME NEW f \in queue[p], ResolveOne(p, f, FALSE)
              PROVE  AllTakenOver'
            <4> DEFINE after == MergeOutcomes(mem[p], outcomes', mark[p].outcomes)
            <4>1. PICK i : mem'[p] = [after EXCEPT !.cursor[f] = i]
                BY <3>4, OfAll DEF ResolveOne, MemoryAfterEmit
            <4>2. after.dirty \subseteq mem[p].dirty
                BY OfAll, MergeOutcomesFields
            <4>3. pc'[p] = "resolve" /\ pc[p] = "resolve"
                BY <3>4, OfAll DEF ResolveOne
            <4>4. \A q \in Proc : q # p => /\ mem'[q] = mem[q]
                                           /\ pc'[q] = pc[q] /\ queue'[q] = queue[q]
                BY <3>4, OfAll DEF ResolveOne
            <4> HIDE DEF after
            <4>5. mem'[p].dirty = after.dirty
                BY <4>1
            <4>6. TakenOverAll(p)'
                BY <2>2, <4>2, <4>3, <4>5 DEF TakenOverAll
            <4> QED
                BY <4>4, <4>6, OneTakesOver
        <3>5. ASSUME NEW f \in queue[p], SweepOne(p, f, FALSE)
              PROVE  AllTakenOver'
            <4> DEFINE after == MergeOutcomes(mem[p], outcomes', mark[p].outcomes)
            <4>1. mem'[p] = after
                BY <3>5, OfAll DEF SweepOne, MemoryAfterEmit
            <4>2. after.dirty \subseteq mem[p].dirty /\ after.known = mem[p].known
                BY OfAll, MergeOutcomesFields
            <4> HIDE DEF after
            <4>3. /\ pc[p] = "sweep"
                  /\ \/ pc'[p] = "idle"
                     \/ pc'[p] = "sweep" /\ queue'[p] \subseteq queue[p]
                  /\ \A q \in Proc : q # p => pc'[q] = pc[q] /\ queue'[q] = queue[q]
                BY <3>5, OfAll DEF SweepOne, Return
            <4>4. \A q \in Proc : q # p => mem'[q] = mem[q]
                BY <3>5, OfAll DEF SweepOne
            <4>5. TakenOverAll(p)'
                BY <2>2, <4>1, <4>2, <4>3 DEF TakenOverAll
            <4> QED
                BY <4>3, <4>4, <4>5, OneTakesOver
        <3>6. ASSUME NEW f \in queue[p], ResolveNothing(p, f)
              PROVE  AllTakenOver'
            <4>1. /\ pc'[p] = "resolve" /\ pc[p] = "resolve"
                  /\ mem'[p].dirty = mem[p].dirty
                  /\ \A q \in Proc : q # p => /\ mem'[q] = mem[q]
                                              /\ pc'[q] = pc[q] /\ queue'[q] = queue[q]
                BY <3>6, OfAll DEF ResolveNothing, Memory
            <4> QED
                BY <2>2, <4>1, OneTakesOver DEF TakenOverAll
        <3>7. ASSUME \/ StartSweep(p)
                     \/ \E f \in queue[p] : SweepNothing(p, f)
                     \/ FinishProcess(p)
              PROVE  AllTakenOver'
            <4>1. /\ mem' = mem
                  /\ \/ pc'[p] = "idle"
                     \/ /\ pc'[p] = "sweep" /\ pc[p] \in {"resolve", "sweep"}
                        /\ \/ queue'[p] \subseteq mem[p].known
                           \/ pc[p] = "sweep" /\ queue'[p] \subseteq queue[p]
                  /\ \A q \in Proc : q # p => pc'[q] = pc[q] /\ queue'[q] = queue[q]
                BY <3>7, OfAll DEF StartSweep, SweepNothing, FinishProcess, Return
            <4> QED
                BY <2>2, <4>1, OneTakesOver DEF TakenOverAll
        <3> QED
            BY <2>6, <3>1, <3>2, <3>3, <3>4, <3>5, <3>6, <3>7
               DEF Continue, ResolveFails, SweepFails, EmitFails
    <2> QED
        BY <2>1, <2>3, <2>4, <2>5, <2>6
<1> QED
    BY <1>1, <1>2

\* Positions whose numbers are all different, and cover 1 to their count.
LEMMA SlotsDiffer ==
    ASSUME NEW n \in Nat, NEW S \in SUBSET (1 .. n), NEW number \in [S -> 1 .. Cardinality(S)],
           \A q \in 1 .. Cardinality(S) : \E j \in S : number[j] = q
    PROVE  \A j, k \in S : number[j] = number[k] => j = k
<1>1. IsFiniteSet(S)
    <2>1. IsFiniteSet(1 .. n)
        BY FS_Interval
    <2> QED
        BY <2>1, FS_Subset
<1>2. Cardinality(S) \in Nat
    BY <1>1, FS_CardinalityType
<1> DEFINE c == Cardinality(S)
<1>3. number \in Surjection(S, 1 .. c)
    BY DEF Surjection
<1>4. Cardinality(1 .. c) = c
    BY <1>2, FS_Interval
<1>5. number \in Injection(S, 1 .. c)
    <2> HIDE DEF c
    <2> QED
        BY <1>1, <1>3, <1>4, FS_Surjection DEF c
<1> QED
    BY <1>5 DEF Injection, IsInjective

\* Nothing admissible among the first n records, and in them the stream of a seal that
\* answers for f is complete.
Silent(f, el, n) ==
    /\ \A j \in 1 .. n : ~Admissible(f, el[j])
    /\ \E i \in 1 .. n :
         /\ el[i].kind = "seal" /\ el[i].complete
         /\ el[i].subject = Terms[f].subject
         /\ el[i].source \in Sources[Terms[f].observable]
         /\ \A q \in 1 .. el[i].final :
              \E j \in 1 .. n :
                /\ el[j].kind = "observation"
                /\ Stream(el[j]) = Stream(el[i])
                /\ el[j].seq = q
                /\ \A k \in 1 .. n :
                     /\ el[k].kind = "observation"
                     /\ Stream(el[k]) = Stream(el[i])
                     /\ el[k].seq = q
                     => k = j

\* A miss by absence is right, given the evidence ledger.
Absent(o, el) ==
    o.settled /\ o.by = None =>
        /\ Terms[o.forecast].observable \in Informative
        /\ \E n \in 0 .. Len(el) : Silent(o.forecast, el, n)

LEMMA SilentGrows ==
    ASSUME NEW s, NEW t, NEW n, \A i \in 1 .. n : t[i] = s[i], NEW f, Silent(f, s, n)
    PROVE  Silent(f, t, n)
<1>1. PICK i \in 1 .. n :
         /\ s[i].kind = "seal" /\ s[i].complete
         /\ s[i].subject = Terms[f].subject
         /\ s[i].source \in Sources[Terms[f].observable]
         /\ \A q \in 1 .. s[i].final :
              \E j \in 1 .. n :
                /\ s[j].kind = "observation"
                /\ Stream(s[j]) = Stream(s[i])
                /\ s[j].seq = q
                /\ \A k \in 1 .. n :
                     /\ s[k].kind = "observation"
                     /\ Stream(s[k]) = Stream(s[i])
                     /\ s[k].seq = q
                     => k = j
    BY DEF Silent
<1>2. /\ t[i].kind = "seal" /\ t[i].complete
      /\ t[i].subject = Terms[f].subject
      /\ t[i].source \in Sources[Terms[f].observable]
    BY <1>1
<1>3. ASSUME NEW q \in 1 .. t[i].final
      PROVE  \E j \in 1 .. n :
                /\ t[j].kind = "observation"
                /\ Stream(t[j]) = Stream(t[i])
                /\ t[j].seq = q
                /\ \A k \in 1 .. n :
                     /\ t[k].kind = "observation"
                     /\ Stream(t[k]) = Stream(t[i])
                     /\ t[k].seq = q
                     => k = j
    BY <1>1
<1>4. \A j \in 1 .. n : ~Admissible(f, t[j])
    BY DEF Silent
<1> QED
    BY <1>2, <1>3, <1>4 DEF Silent

LEMMA AbsentGrows ==
    ASSUME NEW s \in Seq(Evidence), NEW t \in Seq(Evidence), Continues(s, t),
           NEW o, Absent(o, s)
    PROVE  Absent(o, t)
<1>1. /\ Len(s) \in Nat /\ Len(t) \in Nat /\ Len(s) <= Len(t)
      /\ \A i \in 1 .. Len(s) : t[i] = s[i]
    BY LenProperties DEF Continues
<1>2. ASSUME NEW n \in 0 .. Len(s), Silent(o.forecast, s, n)
      PROVE  n \in 0 .. Len(t) /\ Silent(o.forecast, t, n)
    <2>1. n \in 0 .. Len(t) /\ \A i \in 1 .. n : t[i] = s[i]
        BY <1>1
    <2> QED
        BY <1>2, <2>1, SilentGrows
<1> QED
    BY <1>2 DEF Absent

LEMMA CompleteIsSilent ==
    ASSUME IInv, NEW p \in Proc, SeenAll(mem[p], mark[p]), NEW f \in Forecast,
           StreamComplete(p, f), Quiet(evidence, f, mark[p].evidence)
    PROVE  Silent(f, evidence, mark[p].evidence)
<1>1. mark[p].evidence \in Nat /\ mem[p].seen = 1 .. mark[p].evidence
    BY OfAll DEF MarkType, SeenAll
<1>2. PICK n \in Nat : n = mark[p].evidence
    BY <1>1
<1>3. PICK i \in 1 .. n :
        /\ evidence[i].kind = "seal" /\ evidence[i].complete
        /\ evidence[i].subject = Terms[f].subject
        /\ evidence[i].source \in Sources[Terms[f].observable]
        /\ LET slots == {j \in 1 .. n : evidence[j].kind = "observation"
                                        /\ Stream(evidence[j]) = Stream(evidence[i])}
           IN  /\ Cardinality(slots) = evidence[i].final
               /\ {evidence[j].seq : j \in slots} = 1 .. evidence[i].final
    BY <1>1, <1>2 DEF StreamComplete
<1> DEFINE slots == {j \in 1 .. n : evidence[j].kind = "observation"
                                    /\ Stream(evidence[j]) = Stream(evidence[i])}
           number == [j \in slots |-> evidence[j].seq]
<1>4. Cardinality(slots) = evidence[i].final
      /\ {evidence[j].seq : j \in slots} = 1 .. evidence[i].final
    BY <1>3
<1>5. slots \in SUBSET (1 .. n) /\ number \in [slots -> 1 .. Cardinality(slots)]
    BY <1>4
<1>6. \A q \in 1 .. Cardinality(slots) : \E j \in slots : number[j] = q
    BY <1>4
<1>7. \A j, k \in slots : number[j] = number[k] => j = k
    <2> HIDE DEF slots, number
    <2> QED
        BY <1>5, <1>6, SlotsDiffer
<1>8. ASSUME NEW q \in 1 .. evidence[i].final
      PROVE  \E j \in 1 .. n :
                /\ evidence[j].kind = "observation"
                /\ Stream(evidence[j]) = Stream(evidence[i])
                /\ evidence[j].seq = q
                /\ \A k \in 1 .. n :
                     /\ evidence[k].kind = "observation"
                     /\ Stream(evidence[k]) = Stream(evidence[i])
                     /\ evidence[k].seq = q
                     => k = j
    <2>1. PICK j \in slots : evidence[j].seq = q
        BY <1>4
    <2>2. ASSUME NEW k \in 1 .. n, evidence[k].kind = "observation",
                 Stream(evidence[k]) = Stream(evidence[i]), evidence[k].seq = q
          PROVE  k = j
        <3>1. k \in slots
            BY <2>2
        <3> QED
            BY <1>7, <2>1, <2>2, <3>1
    <2> QED
        BY <2>1, <2>2
<1>9. \A j \in 1 .. n : ~Admissible(f, evidence[j])
    BY <1>2 DEF Quiet
<1> HIDE DEF slots, number
<1>10. Silent(f, evidence, n)
    BY <1>3, <1>8, <1>9 DEF Silent
<1> QED
    BY <1>2, <1>10

LEMMA ClosureIsAbsent ==
    ASSUME VInv, AllTakenOver, NEW p \in Proc, NEW f \in queue[p], pc[p] = "sweep",
           TransitionAllowed(Closure(p, f))
    PROVE  Absent(Closure(p, f), evidence)
<1>1. /\ IInv /\ View(p) /\ f \in Forecast /\ f \in mem[p].known
      /\ mem[p].dirty = {} /\ Pending(p) = {}
    BY DEF VInv, Views, IInv, ControlOK, AllTakenOver, TakenOverAll, Pending
<1>2. Closure(p, f).forecast = f
    BY <1>1, ClosureType
<1>3. ASSUME Closure(p, f).settled
      PROVE  /\ Terms[f].observable \in Informative
             /\ \E n \in 0 .. Len(evidence) : Silent(f, evidence, n)
    <2>1. Terms[f].observable \in Informative /\ StreamComplete(p, f)
        BY <1>3 DEF Closure
    <2>2. ~Final(outcomes, f)
        BY <1>2, <1>3, FinalIs DEF TransitionAllowed
    <2>3. SeenAll(mem[p], mark[p]) /\ Quiet(evidence, f, mark[p].evidence)
        BY <1>1, <2>2 DEF View, Accurate, NothingForgotten
    <2>4. Silent(f, evidence, mark[p].evidence)
        BY <1>1, <2>1, <2>3, CompleteIsSilent
    <2>5. mark[p].evidence \in 0 .. Len(evidence)
        <3>1. mark[p].evidence \in Nat /\ mark[p].evidence <= Len(evidence)
            BY <1>1, Of DEF MarkOK, MarkType
        <3> QED
            BY <1>1, <3>1, Lengths DEF IInv
    <2> QED
        BY <2>1, <2>4, <2>5
<1> QED
    BY <1>2, <1>3 DEF Absent

LEMMA MissesStay ==
    ASSUME "io" \notin Faults, VInv, AllTakenOver, [Next]_vars, MissJustified
    PROVE  MissJustified'
<1>1. /\ IInv /\ evidence \in Seq(Evidence) /\ evidence' \in Seq(Evidence)
      /\ outcomes \in Seq(Outcome)
    BY StepViews DEF VInv, IInv, LedgersOK
<1>2. Continues(evidence, evidence')
    BY <1>1, EvidenceContinues
<1>3. \A o \in Range(outcomes) : Absent(o, evidence')
    <2>1. \A o \in Range(outcomes) : Absent(o, evidence)
        BY DEF MissJustified, Absent, Silent
    <2> QED
        BY <1>1, <1>2, <2>1, AbsentGrows
<1>4. ASSUME NEW o \in Outcome, outcomes' = Append(outcomes, o), Absent(o, evidence')
      PROVE  \A x \in Range(outcomes') : Absent(x, evidence')
    BY <1>1, <1>3, <1>4, OutcomesAfter
<1>5. \A x \in Range(outcomes') : Absent(x, evidence')
    <2>1. CASE UNCHANGED outcomes
        BY <1>3, <2>1
    <2>2. ASSUME NEW p \in Proc, NEW f \in Forecast, NEW i,
                 Candidates(p, f) # {}, i = Min(Candidates(p, f)),
                 Scored(p, f, i) \in Outcome, outcomes' = Append(outcomes, Scored(p, f, i))
          PROVE  \A x \in Range(outcomes') : Absent(x, evidence')
        <3>1. evidence[i] \in Observation
            BY <1>1, <2>2, FirstCandidate, CandidatesType
        <3>2. Scored(p, f, i).by # None
            BY <3>1, SubstrateAssumption DEF Scored
        <3>3. Absent(Scored(p, f, i), evidence')
            BY <3>2 DEF Absent
        <3> QED
            BY <1>4, <2>2, <3>3
    <2>3. ASSUME UNCHANGED evidence, NEW p \in Proc, NEW f \in queue[p], pc[p] = "sweep",
                 TransitionAllowed(Closure(p, f)), outcomes' = Append(outcomes, Closure(p, f))
          PROVE  \A x \in Range(outcomes') : Absent(x, evidence')
        <3>1. f \in Forecast
            BY <1>1 DEF IInv, ControlOK
        <3>2. Absent(Closure(p, f), evidence')
            BY <2>3, ClosureIsAbsent
        <3> QED
            BY <1>4, <2>3, <3>1, <3>2, ClosureType
    <2> QED
        BY <1>1, <2>1, <2>2, <2>3, StepWrites DEF Writes
<1> QED
    BY <1>5 DEF MissJustified, Absent, Silent

\* Absence becomes a MISS only where the channel promises a value, at a point of the
\* evidence ledger where the stream was sealed, every slot of it had been received
\* once, and nothing admissible had arrived - if no append of process() finds its
\* ledger looking replaced.  Anywhere else it may.
THEOREM MissesAreJustified ==
    ASSUME "io" \notin Faults, TRUE \notin Rebuilds
    PROVE  Spec => []MissJustified
<1>1. Init => AllTakenOver /\ MissJustified
    <2> SUFFICES ASSUME Init PROVE AllTakenOver /\ MissJustified
        OBVIOUS
    <2>1. Range(outcomes) = {}
        BY DEF Init, Range
    <2> QED
        BY <2>1 DEF Init, AllTakenOver, TakenOverAll, MissJustified
<1>2. VInv /\ AllTakenOver /\ MissJustified /\ [Next]_vars => (AllTakenOver /\ MissJustified)'
    BY MissesStay, TakenOverStays DEF VInv
<1> QED
    BY <1>1, <1>2, InvariantViews, PTL DEF Spec
=============================================================================
