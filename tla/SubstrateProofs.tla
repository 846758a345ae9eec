--------------------------- MODULE SubstrateProofs ---------------------------
(***************************************************************************)
(* Theorems about Substrate, for every number of processes, every set of   *)
(* forecasts, observations and seals, with resets, crashes and failing     *)
(* appends.                                                                *)
(***************************************************************************)
EXTENDS Substrate, SequenceTheorems, WellFoundedInduction, TLAPS

-----------------------------------------------------------------------------
(* The first of a set of positions.                                        *)

LEMMA FirstPosition ==
    ASSUME NEW S \in SUBSET Nat, S # {}
    PROVE  Min(S) \in S /\ \A i \in S : Min(S) <= i
<1> DEFINE LT == {ss \in Nat \X Nat : ss[1] < ss[2]}
<1>1. OpToRel(<, Nat) = LT
    BY Zenon DEF OpToRel
<1>2. IsWellFoundedOn(LT, Nat)
    BY <1>1, NatLessThanWellFounded
<1>3. PICK x \in S : \A i \in S : ~(<<i, x>> \in LT)
    <2> HIDE DEF LT
    <2> QED
        BY <1>2, WFMin
<1>4. ASSUME NEW i \in S PROVE x <= i
    <2>1. x \in Nat /\ i \in Nat
        OBVIOUS
    <2>2. i < x => <<i, x>> \in LT
        BY <2>1
    <2>3. ~(i < x)
        BY <1>3, <2>2
    <2> QED
        BY <2>1, <2>3
<1>5. \E x1 \in S : \A i \in S : x1 <= i
    BY <1>4
<1> QED
    BY <1>5 DEF Min

-----------------------------------------------------------------------------
(* What merging preserves.                                                 *)

ForecastRecord == {Declared(f) : f \in Forecast} \cup {Amended(f) : f \in Forecast}

\* What an instance can hold: of the right type, and never eligible what it knows
\* to be exposed.
Sound(m, fl, el) ==
    /\ MemoryOK(m, fl, el)
    /\ \A f \in Forecast : m.out[f] # None /\ m.out[f].eligible
                           => Terms[f].blind /\ f \notin m.amended

LEMMA BlankOK ==
    ASSUME NEW fl, NEW el \in Seq(Evidence)
    PROVE  Sound(Blank, fl, el)
<1>1. Len(el) \in Nat
    BY LenProperties
<1>2. Blank \in Memory
    BY DEF Blank, Memory
<1> QED
    BY <1>1, <1>2 DEF Blank, MemoryOK, Sound

LEMMA FoldType ==
    ASSUME NEW exposed, NEW o \in Outcome \cup {None}
    PROVE  /\ FoldExposure(exposed, o) \in Outcome \cup {None}
           /\ o # None => /\ FoldExposure(exposed, o) # None
                          /\ FoldExposure(exposed, o).forecast = o.forecast
                          /\ FoldExposure(exposed, o).settled = o.settled
                          /\ FoldExposure(exposed, o).eligible
                             => /\ o.eligible
                                /\ Terms[o.forecast].blind
                                /\ o.forecast \notin exposed
           /\ o = None => FoldExposure(exposed, o) = None
<1>1. CASE o = None
    BY <1>1 DEF FoldExposure
<1>2. CASE o # None
    <2>1. o \in Outcome /\ o.eligible \in BOOLEAN
        BY <1>2 DEF Outcome
    <2> DEFINE e == o.eligible /\ Terms[o.forecast].blind /\ o.forecast \notin exposed
    <2>2. FoldExposure(exposed, o) = [o EXCEPT !.eligible = e]
        BY <1>2 DEF FoldExposure
    <2>3. e \in BOOLEAN
        BY <2>1
    <2>4. /\ [o EXCEPT !.eligible = e] \in Outcome
          /\ [o EXCEPT !.eligible = e].forecast = o.forecast
          /\ [o EXCEPT !.eligible = e].settled = o.settled
          /\ [o EXCEPT !.eligible = e].eligible = e
        <3> HIDE DEF e
        <3> QED
            BY <2>1, <2>3 DEF Outcome
    <2> QED
        BY <1>2, <2>2, <2>4, SubstrateAssumption
<1> QED
    BY <1>1, <1>2

LEMMA MergeForecastsOK ==
    ASSUME NEW log \in Seq(ForecastRecord), NEW fl, \A r : Holds(log, r) => Holds(fl, r),
           NEW el \in Seq(Evidence), NEW m, Sound(m, fl, el), NEW n \in Nat
    PROVE  Sound(MergeForecasts(m, log, n), fl, el)
<1> DEFINE new == {f \in Forecast : \E i \in n + 1 .. Len(log) : log[i] = Declared(f)}
                    \ m.known
           exposed == {f \in m.known \cup new :
                         \E i \in n + 1 .. Len(log) : log[i] = Amended(f)}
           out == [f \in Forecast |-> FoldExposure(exposed, m.out[f])]
           cursor == [f \in Forecast |-> IF f \in new THEN 0 ELSE m.cursor[f]]
           mm == MergeForecasts(m, log, n)
<1>1. m \in Memory /\ new \subseteq Forecast /\ exposed \subseteq m.known \cup new
    BY DEF MemoryOK, Sound
<1>2. \A f \in new : Holds(fl, Declared(f))
    <2>1. \A i \in n + 1 .. Len(log) : i \in DOMAIN log
        BY LenProperties
    <2>2. \A f \in new : Holds(log, Declared(f))
        BY <2>1 DEF Holds
    <2> QED
        BY <2>2
<1>3. out \in [Forecast -> Outcome \cup {None}]
    BY <1>1, FoldType DEF Memory
<1>4. Len(el) \in Nat /\ cursor \in [Forecast -> Nat]
    BY <1>1, LenProperties DEF Memory
<1>5. mm = [m EXCEPT !.known = @ \cup new, !.amended = @ \cup exposed, !.out = out,
                     !.cursor = cursor, !.dirty = @ \cup new]
    BY DEF MergeForecasts
<1> HIDE DEF new, exposed, out, cursor, mm
<1>6. /\ mm \in Memory
      /\ mm.known = m.known \cup new
      /\ mm.amended = m.amended \cup exposed
      /\ mm.out = out
      /\ mm.cursor = cursor
      /\ mm.dirty = m.dirty \cup new
      /\ mm.seen = m.seen
    BY <1>1, <1>3, <1>4, <1>5 DEF Memory
<1>7. \A f \in Forecast : mm.cursor[f] <= Len(el)
    BY <1>4, <1>6 DEF MemoryOK, Sound, cursor
<1>8. ASSUME NEW f \in Forecast, mm.out[f] # None
      PROVE  f \in mm.known /\ mm.out[f].forecast = f
    <2>1. mm.out[f] = FoldExposure(exposed, m.out[f]) /\ m.out[f] \in Outcome \cup {None}
        BY <1>1, <1>6 DEF out, Memory
    <2>2. m.out[f] # None /\ mm.out[f].forecast = m.out[f].forecast
        BY <1>8, <2>1, FoldType
    <2> QED
        BY <1>6, <2>2 DEF MemoryOK, Sound
<1>9. ASSUME NEW f \in Forecast, mm.out[f] # None, mm.out[f].eligible
      PROVE  Terms[f].blind /\ f \notin mm.amended
    <2>1. /\ mm.out[f] = FoldExposure(exposed, m.out[f]) /\ m.out[f] \in Outcome \cup {None}
          /\ m.out[f] # None => m.out[f].forecast = f
        BY <1>1, <1>6 DEF out, Memory, MemoryOK, Sound
    <2>2. m.out[f] # None
        BY <1>9, <2>1, FoldType
    <2>3. m.out[f].eligible /\ Terms[f].blind /\ f \notin exposed
        BY <1>9, <2>1, <2>2, FoldType
    <2> QED
        BY <1>6, <2>2, <2>3 DEF Sound
<1>10. MemoryOK(mm, fl, el)
    BY <1>1, <1>2, <1>6, <1>7, <1>8 DEF MemoryOK, Sound
<1> QED
    BY <1>9, <1>10 DEF Sound, mm

LEMMA MergeEvidenceOK ==
    ASSUME NEW fl, NEW el \in Seq(Evidence),
           NEW m, Sound(m, fl, el), NEW n \in Nat
    PROVE  Sound(MergeEvidence(m, el, n), fl, el)
<1> DEFINE woken == {f \in m.known : /\ Open(m, f)
                                     /\ \E i \in n + 1 .. Len(el) : About(f, el[i])}
           mm == MergeEvidence(m, el, n)
<1>1. m \in Memory /\ Len(el) \in Nat /\ woken \subseteq m.known
    BY LenProperties DEF MemoryOK, Sound
<1>2. n + 1 .. Len(el) \subseteq 1 .. Len(el) /\ 1 .. Len(el) \subseteq Nat
    BY <1>1
<1>3. mm = [m EXCEPT !.seen = @ \cup (n + 1 .. Len(el)), !.dirty = @ \cup woken]
    BY DEF MergeEvidence
<1> HIDE DEF woken, mm
<1>4. /\ mm \in Memory
      /\ mm.seen = m.seen \cup (n + 1 .. Len(el))
      /\ mm.dirty = m.dirty \cup woken
      /\ mm.known = m.known /\ mm.amended = m.amended
      /\ mm.out = m.out /\ mm.cursor = m.cursor
    <2>1. m.seen \cup (n + 1 .. Len(el)) \in SUBSET Nat
        BY <1>1, <1>2 DEF Memory
    <2>2. m.dirty \cup woken \in SUBSET Forecast
        BY <1>1 DEF Memory
    <2> QED
        BY <1>1, <1>3, <2>1, <2>2 DEF Memory
<1> QED
    BY <1>1, <1>2, <1>4 DEF MemoryOK, Sound, mm

LEMMA AdoptType ==
    ASSUME NEW ol \in Seq(Outcome), NEW f \in Forecast, NEW old \in Outcome \cup {None},
           old # None => old.forecast = f, NEW n \in Nat
    PROVE  LET adopted == Adopt(old, ol, {i \in n + 1 .. Len(ol) : ol[i].forecast = f})
           IN  /\ adopted \in Outcome \cup {None}
               /\ adopted # None => adopted.forecast = f
<1> DEFINE new == {i \in n + 1 .. Len(ol) : ol[i].forecast = f}
           settled == {i \in new : ol[i].settled}
<1>1. Len(ol) \in Nat
    BY LenProperties
<1>2. \A i \in new : i \in Nat /\ ol[i] \in Outcome /\ ol[i].forecast = f
    BY <1>1
<1>3. settled # {} => Min(settled) \in new
    <2>1. settled \in SUBSET Nat
        BY <1>2
    <2> QED
        BY <2>1, FirstPosition
<1>4. new # {} => Min(new) \in new
    <2>1. new \in SUBSET Nat
        BY <1>2
    <2> QED
        BY <2>1, FirstPosition
<1>5. \/ Adopt(old, ol, new) = old
      \/ settled # {} /\ Adopt(old, ol, new) = ol[Min(settled)]
      \/ new # {} /\ Adopt(old, ol, new) = ol[Min(new)]
    BY DEF Adopt
<1> HIDE DEF new, settled
<1>6. /\ Adopt(old, ol, new) \in Outcome \cup {None}
      /\ Adopt(old, ol, new) # None => Adopt(old, ol, new).forecast = f
    BY <1>2, <1>3, <1>4, <1>5
<1> QED
    BY <1>6 DEF new

LEMMA MergeOutcomesOK ==
    ASSUME NEW fl, NEW el, NEW ol \in Seq(Outcome),
           NEW m, Sound(m, fl, el), NEW n \in Nat
    PROVE  Sound(MergeOutcomes(m, ol, n), fl, el)
<1> DEFINE adopted(f) ==
               Adopt(m.out[f], ol, {i \in n + 1 .. Len(ol) : ol[i].forecast = f})
           out == [f \in Forecast |-> IF f \in m.known
                                      THEN FoldExposure(m.amended, adopted(f))
                                      ELSE m.out[f]]
           dirty == {f \in m.dirty : out[f] # None => ~out[f].settled}
           mm == MergeOutcomes(m, ol, n)
<1>1. m \in Memory /\ dirty \subseteq m.dirty
    BY DEF MemoryOK, Sound
<1>2. ASSUME NEW f \in Forecast
      PROVE  /\ out[f] \in Outcome \cup {None}
             /\ out[f] # None => f \in m.known /\ out[f].forecast = f
             /\ out[f] # None /\ out[f].eligible => Terms[f].blind /\ f \notin m.amended
    <2>1. /\ m.out[f] \in Outcome \cup {None}
          /\ m.out[f] # None => f \in m.known /\ m.out[f].forecast = f
        BY <1>1 DEF MemoryOK, Memory, Sound
    <2>2. CASE f \in m.known
        <3>1. PICK a \in Outcome \cup {None} :
                  /\ out[f] = FoldExposure(m.amended, a)
                  /\ a # None => a.forecast = f
            <4>1. /\ adopted(f) \in Outcome \cup {None}
                  /\ adopted(f) # None => adopted(f).forecast = f
                BY <2>1, AdoptType
            <4> HIDE DEF adopted
            <4>2. out[f] = FoldExposure(m.amended, adopted(f))
                BY <2>2
            <4> HIDE DEF out
            <4> QED
                BY <4>1, <4>2
        <3> HIDE DEF out
        <3>2. CASE a = None
            BY <3>1, <3>2, FoldType
        <3>3. CASE a # None
            BY <2>2, <3>1, <3>3, FoldType
        <3> QED
            BY <3>2, <3>3
    <2>3. CASE f \notin m.known
        BY <2>1, <2>3 DEF Sound
    <2> QED
        BY <2>2, <2>3
<1>3. mm = [m EXCEPT !.out = out, !.dirty = dirty]
    BY DEF MergeOutcomes
<1>4. out \in [Forecast -> Outcome \cup {None}]
    BY <1>2
<1> HIDE DEF out, dirty, mm
<1>5. /\ mm \in Memory
      /\ mm.out = out /\ mm.dirty = dirty
      /\ mm.known = m.known /\ mm.amended = m.amended
      /\ mm.seen = m.seen /\ mm.cursor = m.cursor
    BY <1>1, <1>3, <1>4 DEF Memory
<1> QED
    BY <1>1, <1>2, <1>5 DEF MemoryOK, Sound, mm

LEMMA RebuiltOK ==
    ASSUME NEW fl \in Seq(ForecastRecord), NEW el \in Seq(Evidence), NEW ol \in Seq(Outcome)
    PROVE  Sound(Rebuilt(fl, el, ol), fl, el)
<1>1. Sound(MergeForecasts(Blank, fl, 0), fl, el)
    BY BlankOK, MergeForecastsOK
<1>2. Sound(MergeEvidence(MergeForecasts(Blank, fl, 0), el, 0), fl, el)
    BY <1>1, MergeEvidenceOK
<1> QED
    BY <1>2, MergeOutcomesOK DEF Rebuilt

\* Ledgers that grow leave what an instance holds in order.
LEMMA SoundGrows ==
    ASSUME NEW fl, NEW el \in Seq(Evidence), NEW fl2, NEW el2 \in Seq(Evidence),
           NEW m, Sound(m, fl, el),
           \A r : Holds(fl, r) => Holds(fl2, r), Len(el) <= Len(el2)
    PROVE  Sound(m, fl2, el2)
<1>1. Len(el) \in Nat /\ Len(el2) \in Nat
    BY LenProperties
<1>2. 1 .. Len(el) \subseteq 1 .. Len(el2)
    BY <1>1
<1>3. \A f \in Forecast : m.cursor[f] \in Nat
    BY DEF MemoryOK, Memory, Sound
<1>4. \A f \in Forecast : m.cursor[f] <= Len(el2)
    BY <1>1, <1>3 DEF MemoryOK, Sound
<1> QED
    BY <1>2, <1>4 DEF MemoryOK, Sound

-----------------------------------------------------------------------------
(* Marks, given the lengths of the ledgers.                                *)

MarkType == [forecasts : Nat, evidence : Nat, outcomes : Nat]

MarkOK(k, fn, en, on) ==
    /\ k \in MarkType
    /\ k.forecasts <= fn
    /\ k.evidence <= en
    /\ k.outcomes <= on

LEMMA MarkMoves ==
    ASSUME NEW fn \in Nat, NEW en \in Nat, NEW on \in Nat, NEW k, MarkOK(k, fn, en, on)
    PROVE  /\ MarkOK([k EXCEPT !.forecasts = fn], fn, en, on)
           /\ MarkOK([k EXCEPT !.evidence = en], fn, en, on)
           /\ MarkOK([forecasts |-> k.forecasts, evidence |-> en, outcomes |-> 0], fn, en, on)
           /\ MarkOK([k EXCEPT !.outcomes = on], fn, en, on)
<1>1. /\ k \in MarkType
      /\ k.forecasts \in Nat /\ k.evidence \in Nat /\ k.outcomes \in Nat
      /\ k.forecasts <= fn /\ k.evidence <= en /\ k.outcomes <= on
    BY DEF MarkOK, MarkType
<1>2. MarkOK([k EXCEPT !.forecasts = fn], fn, en, on)
    BY <1>1 DEF MarkOK, MarkType
<1>3. MarkOK([k EXCEPT !.evidence = en], fn, en, on)
    BY <1>1 DEF MarkOK, MarkType
<1>4. MarkOK([forecasts |-> k.forecasts, evidence |-> en, outcomes |-> 0], fn, en, on)
    <2>1. 0 \in Nat /\ 0 <= on /\ en <= en
        OBVIOUS
    <2> QED
        BY <1>1, <2>1 DEF MarkOK, MarkType
<1>5. MarkOK([k EXCEPT !.outcomes = on], fn, en, on)
    BY <1>1 DEF MarkOK, MarkType
<1> QED
    BY <1>2, <1>3, <1>4, <1>5

LEMMA MarkStarts ==
    ASSUME NEW fn \in Nat, NEW en \in Nat, NEW on \in Nat
    PROVE  /\ MarkOK(Unread, fn, en, on)
           /\ MarkOK([Unread EXCEPT !.forecasts = fn], fn, en, on)
           /\ MarkOK([forecasts |-> fn, evidence |-> en, outcomes |-> on], fn, en, on)
    BY DEF MarkOK, MarkType, Unread

LEMMA MarkGrows ==
    ASSUME NEW fn \in Nat, NEW en \in Nat, NEW on \in Nat, NEW k, MarkOK(k, fn, en, on),
           NEW fn2 \in Nat, NEW en2 \in Nat, NEW on2 \in Nat,
           fn <= fn2, en <= en2, on <= on2
    PROVE  MarkOK(k, fn2, en2, on2)
    BY DEF MarkOK, MarkType

-----------------------------------------------------------------------------
(* The inductive invariant: one part per group of variables.               *)

LedgersOK ==
    /\ forecasts \in Seq(ForecastRecord)
    /\ evidence \in Seq(Evidence)
    /\ outcomes \in Seq(Outcome)

ControlOK ==
    /\ pc \in [Proc -> {"closed", "idle", "evidence", "outcomes", "resolve", "sweep"}]
    /\ goal \in [Proc -> {"idle", "resolve"}]
    /\ at \in [Proc -> Nat]
    /\ queue \in [Proc -> SUBSET Forecast]

MarksOK ==
    /\ mark \in [Proc -> MarkType]
    /\ \A p \in Proc : MarkOK(mark[p], Len(forecasts), Len(evidence), Len(outcomes))

MemoriesOK ==
    /\ mem \in [Proc -> Memory]
    /\ \A p \in Proc : Sound(mem[p], forecasts, evidence)

IInv == LedgersOK /\ ControlOK /\ MarksOK /\ MemoriesOK

LEMMA IInvImplies == IInv => TypeOK /\ ExposedNeverEligible
    BY DEF IInv, TypeOK, ExposedNeverEligible, LedgersOK, ControlOK, MarksOK, MarkOK,
           MarkType, MemoriesOK, Sound, ForecastRecord

\* What the invariant says of one process.
LEMMA Of ==
    ASSUME IInv, NEW p \in Proc
    PROVE  /\ MarkOK(mark[p], Len(forecasts), Len(evidence), Len(outcomes))
           /\ mark[p] \in MarkType
           /\ Sound(mem[p], forecasts, evidence)
           /\ mem[p] \in Memory
    BY DEF IInv, MarksOK, MemoriesOK

LEMMA Lengths ==
    LedgersOK => Len(forecasts) \in Nat /\ Len(evidence) \in Nat /\ Len(outcomes) \in Nat
    BY LenProperties DEF LedgersOK

\* The ledgers only grow.
Grow ==
    /\ LedgersOK'
    /\ \A r : Holds(forecasts, r) => Holds(forecasts', r)
    /\ Len(forecasts) <= Len(forecasts')
    /\ Len(evidence) <= Len(evidence')
    /\ Len(outcomes) <= Len(outcomes')

LEMMA AppendGrows ==
    ASSUME NEW S, NEW s \in Seq(S), NEW e \in S, NEW t \in {s, Append(s, e)}
    PROVE  /\ t \in Seq(S)
           /\ Len(s) \in Nat /\ Len(s) <= Len(t)
           /\ \A r : Holds(s, r) => Holds(t, r)
<1>1. Len(s) \in Nat /\ DOMAIN s = 1 .. Len(s)
    BY LenProperties
<1>2. CASE t = s
    BY <1>1, <1>2
<1>3. CASE t = Append(s, e)
    <2>1. /\ t \in Seq(S) /\ Len(t) = Len(s) + 1 /\ DOMAIN t = 1 .. Len(s) + 1
          /\ \A i \in 1 .. Len(s) : t[i] = s[i]
        BY <1>1, <1>3, AppendProperties, LenProperties
    <2> QED
        BY <1>1, <2>1 DEF Holds
<1> QED
    BY <1>2, <1>3

LEMMA SameLedgersGrow == LedgersOK /\ UNCHANGED ledgers => Grow
<1> SUFFICES ASSUME LedgersOK, UNCHANGED ledgers PROVE Grow
    OBVIOUS
<1>1. Len(forecasts) \in Nat /\ Len(evidence) \in Nat /\ Len(outcomes) \in Nat
    BY Lengths
<1> QED
    BY <1>1 DEF Grow, LedgersOK, ledgers

LEMMA OneLedgerGrows ==
    ASSUME LedgersOK,
           \/ /\ \E r \in ForecastRecord : forecasts' \in {forecasts, Append(forecasts, r)}
              /\ UNCHANGED <<evidence, outcomes>>
           \/ /\ \E r \in Evidence : evidence' \in {evidence, Append(evidence, r)}
              /\ UNCHANGED <<forecasts, outcomes>>
           \/ /\ \E o \in Outcome : outcomes' \in {outcomes, Append(outcomes, o)}
              /\ UNCHANGED <<forecasts, evidence>>
    PROVE  Grow
<1>1. Len(forecasts) \in Nat /\ Len(evidence) \in Nat /\ Len(outcomes) \in Nat
    BY LenProperties DEF LedgersOK
<1>2. ASSUME NEW r \in ForecastRecord, forecasts' \in {forecasts, Append(forecasts, r)}
      PROVE  /\ forecasts' \in Seq(ForecastRecord) /\ Len(forecasts) <= Len(forecasts')
             /\ \A x : Holds(forecasts, x) => Holds(forecasts', x)
    BY <1>2, AppendGrows DEF LedgersOK
<1>3. ASSUME NEW r \in Evidence, evidence' \in {evidence, Append(evidence, r)}
      PROVE  evidence' \in Seq(Evidence) /\ Len(evidence) <= Len(evidence')
    BY <1>3, AppendGrows DEF LedgersOK
<1>4. ASSUME NEW r \in Outcome, outcomes' \in {outcomes, Append(outcomes, r)}
      PROVE  outcomes' \in Seq(Outcome) /\ Len(outcomes) <= Len(outcomes')
    BY <1>4, AppendGrows DEF LedgersOK
<1> QED
    BY <1>1, <1>2, <1>3, <1>4 DEF Grow, LedgersOK

\* A step in which one process moves, and the ledgers grow.
LEMMA OneProcessMoves ==
    ASSUME IInv, Grow, ControlOK', NEW p \in Proc,
           MarkOK(mark'[p], Len(forecasts'), Len(evidence'), Len(outcomes')),
           mark' = [mark EXCEPT ![p] = mark'[p]],
           Sound(mem'[p], forecasts', evidence'), mem' = [mem EXCEPT ![p] = mem'[p]]
    PROVE  IInv'
<1>1. LedgersOK /\ MarksOK /\ MemoriesOK
    BY DEF IInv
<1>2. mark'[p] \in MarkType /\ mem'[p] \in Memory
    BY DEF MarkOK, MemoryOK, Sound
<1>3. mark' \in [Proc -> MarkType] /\ mem' \in [Proc -> Memory]
    BY <1>1, <1>2 DEF MarksOK, MemoriesOK
<1>4. ASSUME NEW q \in Proc, q # p
      PROVE  /\ MarkOK(mark'[q], Len(forecasts'), Len(evidence'), Len(outcomes'))
             /\ Sound(mem'[q], forecasts', evidence')
    <2>1. mark'[q] = mark[q] /\ mem'[q] = mem[q]
        BY <1>1, <1>4 DEF MarksOK, MemoriesOK
    <2>2. Sound(mem[q], forecasts', evidence')
        BY <1>1, SoundGrows DEF MemoriesOK, Grow, LedgersOK
    <2>3. /\ Len(forecasts) \in Nat /\ Len(evidence) \in Nat /\ Len(outcomes) \in Nat
          /\ Len(forecasts') \in Nat /\ Len(evidence') \in Nat /\ Len(outcomes') \in Nat
        BY LenProperties, <1>1 DEF LedgersOK, Grow
    <2>4. MarkOK(mark[q], Len(forecasts'), Len(evidence'), Len(outcomes'))
        BY <1>1, <2>3, MarkGrows DEF MarksOK, Grow
    <2> QED
        BY <2>1, <2>2, <2>4
<1>5. MarksOK' /\ MemoriesOK'
    BY <1>3, <1>4 DEF MarksOK, MemoriesOK
<1> QED
    BY <1>5 DEF IInv, Grow

LEMMA InitOK == Init => IInv
<1> SUFFICES ASSUME Init PROVE IInv
    OBVIOUS
<1>1. LedgersOK /\ ControlOK
    BY DEF Init, LedgersOK, ControlOK
<1>2. Len(forecasts) = 0 /\ Len(evidence) = 0 /\ Len(outcomes) = 0
    BY DEF Init
<1>3. MarksOK
    <2>1. MarkOK(Unread, 0, 0, 0)
        BY MarkStarts
    <2> QED
        BY <1>2, <2>1 DEF Init, MarksOK, MarkOK
<1>4. MemoriesOK
    <2>1. Sound(Blank, forecasts, evidence)
        BY <1>1, BlankOK DEF LedgersOK
    <2> QED
        BY <2>1 DEF Init, MemoriesOK, Sound, MemoryOK
<1> QED
    BY <1>1, <1>3, <1>4 DEF IInv

-----------------------------------------------------------------------------
(* Authoring and capture.                                                  *)

LEMMA RecordTypes ==
    ASSUME NEW f \in Forecast
    PROVE  Declared(f) \in ForecastRecord /\ Amended(f) \in ForecastRecord
    BY DEF ForecastRecord

LEMMA FollowOK ==
    ASSUME IInv, Grow, ControlOK', NEW p \in Proc, NEW reset,
           UNCHANGED <<evidence, outcomes>>, FollowForecasts(p, reset)
    PROVE  IInv'
<1>1. /\ LedgersOK /\ LedgersOK'
      /\ MarkOK(mark[p], Len(forecasts), Len(evidence), Len(outcomes))
      /\ mark[p] \in MarkType /\ Sound(mem[p], forecasts, evidence)
      /\ mark \in [Proc -> MarkType] /\ mem \in [Proc -> Memory]
    BY Of DEF IInv, Grow, MarksOK, MemoriesOK
<1>2. /\ Len(forecasts) \in Nat /\ Len(evidence) \in Nat /\ Len(outcomes) \in Nat
      /\ Len(forecasts') \in Nat
    BY LenProperties, <1>1 DEF LedgersOK
<1>3. CASE reset
    <2>1. /\ mem' = [mem EXCEPT ![p] = Rebuilt(forecasts', evidence, outcomes)]
          /\ mark' = [mark EXCEPT ![p] = AllRead(forecasts', evidence, outcomes)]
        BY <1>3 DEF FollowForecasts
    <2>2. Sound(Rebuilt(forecasts', evidence, outcomes), forecasts', evidence')
        BY <1>1, RebuiltOK DEF LedgersOK
    <2>3. MarkOK(AllRead(forecasts', evidence, outcomes),
                 Len(forecasts'), Len(evidence'), Len(outcomes'))
        BY <1>2, MarkStarts DEF AllRead
    <2>4. mem'[p] = Rebuilt(forecasts', evidence, outcomes)
          /\ mark'[p] = AllRead(forecasts', evidence, outcomes)
        BY <1>1, <2>1
    <2> QED
        BY <2>1, <2>2, <2>3, <2>4, OneProcessMoves
<1>4. CASE ~reset
    <2>1. /\ mem' = [mem EXCEPT ![p] = MergeForecasts(mem[p], forecasts', mark[p].forecasts)]
          /\ mark' = [mark EXCEPT ![p] = [mark[p] EXCEPT !.forecasts = Len(forecasts')]]
        BY <1>1, <1>4 DEF FollowForecasts
    <2>2. Sound(mem[p], forecasts', evidence') /\ mark[p].forecasts \in Nat
        BY <1>1, SoundGrows DEF Grow, LedgersOK, MarkType
    <2>3. Sound(MergeForecasts(mem[p], forecasts', mark[p].forecasts), forecasts', evidence')
        BY <1>1, <2>2, MergeForecastsOK DEF LedgersOK
    <2>4. MarkOK(mark[p], Len(forecasts'), Len(evidence), Len(outcomes))
        BY <1>1, <1>2, MarkGrows DEF Grow
    <2>5. MarkOK([mark[p] EXCEPT !.forecasts = Len(forecasts')],
                 Len(forecasts'), Len(evidence'), Len(outcomes'))
        BY <1>2, <2>4, MarkMoves
    <2>6. /\ mem'[p] = MergeForecasts(mem[p], forecasts', mark[p].forecasts)
          /\ mark'[p] = [mark[p] EXCEPT !.forecasts = Len(forecasts')]
        BY <1>1, <2>1
    <2> QED
        BY <2>1, <2>3, <2>5, <2>6, OneProcessMoves
<1> QED
    BY <1>3, <1>4

LEMMA AuthorOK ==
    ASSUME IInv, NEW p \in Proc, NEW f \in Forecast, NEW reset,
           Author(p, f, reset) \/ AmendExposure(p, f, reset)
    PROVE  IInv'
<1>1. LedgersOK /\ ControlOK
    BY DEF IInv
<1>2. Grow
    BY <1>1, RecordTypes, OneLedgerGrows DEF Author, AmendExposure
<1>3. ControlOK'
    BY <1>1 DEF ControlOK, Author, AmendExposure
<1> QED
    BY <1>2, <1>3, FollowOK DEF Author, AmendExposure

LEMMA PrefixHolds ==
    ASSUME NEW S, NEW s \in Seq(S), NEW n \in 0 .. Len(s)
    PROVE  /\ SubSeq(s, 1, n) \in Seq(S)
           /\ Len(SubSeq(s, 1, n)) = n
           /\ \A r : Holds(SubSeq(s, 1, n), r) => Holds(s, r)
<1>1. /\ SubSeq(s, 1, n) \in Seq(S)
      /\ Len(SubSeq(s, 1, n)) = n
      /\ DOMAIN SubSeq(s, 1, n) = 1 .. n
      /\ \A i \in 1 .. n : SubSeq(s, 1, n)[i] = s[i]
    OBVIOUS
<1>2. DOMAIN s = 1 .. Len(s) /\ Len(s) \in Nat
    BY LenProperties
<1>3. 1 .. n \subseteq DOMAIN s
    BY <1>2
<1> QED
    BY <1>1, <1>3 DEF Holds

LEMMA ForecastAppendFailsOK ==
    ASSUME IInv, NEW p \in Proc, NEW r \in ForecastRecord, ForecastAppendFails(p, r)
    PROVE  IInv'
<1>1. /\ LedgersOK /\ ControlOK
      /\ MarkOK(mark[p], Len(forecasts), Len(evidence), Len(outcomes))
      /\ mark[p] \in MarkType /\ Sound(mem[p], forecasts, evidence)
      /\ mark \in [Proc -> MarkType] /\ mem \in [Proc -> Memory]
    BY Of DEF IInv, MarksOK, MemoriesOK
<1>2. Grow
    BY <1>1, OneLedgerGrows DEF ForecastAppendFails
<1>3. PICK n \in mark[p].forecasts .. Len(forecasts) :
          mem' = [mem EXCEPT ![p] =
                    MergeForecasts(mem[p], SubSeq(forecasts, 1, n), mark[p].forecasts)]
    BY <1>1 DEF ForecastAppendFails
<1>4. /\ Len(forecasts) \in Nat /\ Len(evidence) \in Nat /\ Len(outcomes) \in Nat
      /\ Len(forecasts') \in Nat /\ UNCHANGED <<evidence, outcomes>>
    BY LenProperties, <1>1, <1>2 DEF LedgersOK, Grow, ForecastAppendFails
<1>5. n \in 0 .. Len(forecasts) /\ mark[p].forecasts \in Nat
    BY <1>1, <1>4 DEF MarkType
<1>6. Sound(mem'[p], forecasts', evidence')
    <2>1. Sound(MergeForecasts(mem[p], SubSeq(forecasts, 1, n), mark[p].forecasts),
                forecasts, evidence)
        BY <1>1, <1>5, PrefixHolds, MergeForecastsOK DEF LedgersOK
    <2>2. Sound(mem'[p], forecasts, evidence)
        BY <1>1, <1>3, <2>1
    <2> QED
        BY <1>1, <1>2, <2>2, SoundGrows DEF Grow, LedgersOK
<1>7. /\ mark' = [mark EXCEPT ![p] = [mark[p] EXCEPT !.forecasts = Len(forecasts)]]
      /\ mark'[p] = [mark[p] EXCEPT !.forecasts = Len(forecasts)]
    BY <1>1 DEF ForecastAppendFails
<1>8. MarkOK(mark'[p], Len(forecasts'), Len(evidence'), Len(outcomes'))
    <2>1. MarkOK([mark[p] EXCEPT !.forecasts = Len(forecasts)],
                 Len(forecasts), Len(evidence), Len(outcomes))
        BY <1>1, <1>4, MarkMoves
    <2> QED
        BY <1>2, <1>4, <1>7, <2>1, MarkGrows DEF Grow
<1>9. ControlOK'
    BY <1>1 DEF ControlOK, ForecastAppendFails
<1>10. mem' = [mem EXCEPT ![p] = mem'[p]]
    BY <1>1, <1>3
<1> QED
    BY <1>2, <1>6, <1>7, <1>8, <1>9, <1>10, OneProcessMoves

LEMMA WinnersType ==
    ASSUME LedgersOK, NEW r \in Evidence
    PROVE  StreamsOf({r} \cup Winners(r)) \subseteq StreamsOf(Evidence)
<1>1. Winners(r) \subseteq Evidence
    <2>1. \A i \in DOMAIN evidence : evidence[i] \in Evidence
        BY LenProperties DEF LedgersOK
    <2> QED
        BY <2>1 DEF Winners, Range
<1> QED
    BY <1>1 DEF StreamsOf

LEMMA TaintOK ==
    ASSUME NEW streams \in SUBSET StreamsOf(Evidence), NEW fl, NEW el,
           NEW m, Sound(m, fl, el)
    PROVE  Sound([m EXCEPT !.invalid = @ \cup streams], fl, el)
<1> DEFINE mm == [m EXCEPT !.invalid = @ \cup streams]
<1>1. m \in Memory
    BY DEF MemoryOK, Sound
<1>2. /\ mm \in Memory
      /\ mm.known = m.known /\ mm.amended = m.amended /\ mm.out = m.out
      /\ mm.dirty = m.dirty /\ mm.seen = m.seen /\ mm.cursor = m.cursor
    BY <1>1 DEF Memory
<1> HIDE DEF mm
<1>3. Sound(mm, fl, el)
    BY <1>2 DEF MemoryOK, Sound
<1> QED
    BY <1>3 DEF mm

LEMMA CaptureOK ==
    ASSUME IInv, NEW p \in Proc, NEW r \in Evidence, NEW reset, Capture(p, r, reset)
    PROVE  IInv'
<1>1. /\ LedgersOK /\ ControlOK
      /\ MarkOK(mark[p], Len(forecasts), Len(evidence), Len(outcomes))
      /\ mark[p] \in MarkType /\ Sound(mem[p], forecasts, evidence)
      /\ mark \in [Proc -> MarkType] /\ mem \in [Proc -> Memory]
    BY Of DEF IInv, MarksOK, MemoriesOK
<1>2. Grow
    BY <1>1, OneLedgerGrows DEF Capture
<1>3. /\ Len(forecasts) \in Nat /\ Len(evidence) \in Nat /\ Len(outcomes) \in Nat
      /\ Len(evidence') \in Nat /\ UNCHANGED <<forecasts, outcomes>> /\ LedgersOK'
    BY LenProperties, <1>1, <1>2 DEF LedgersOK, Grow, Capture
<1>4. Sound(mem[p], forecasts', evidence') /\ mark[p].evidence \in Nat
    BY <1>1, <1>2, SoundGrows DEF Grow, LedgersOK, MarkType
<1>5. PICK merged :
          /\ Sound(merged, forecasts', evidence')
          /\ mem' = [mem EXCEPT ![p] =
                IF Winners(r) \ {r} # {}
                THEN [merged EXCEPT !.invalid = @ \cup StreamsOf({r} \cup Winners(r))]
                ELSE merged]
    <2>1. CASE reset
        <3>1. Sound(Rebuilt(forecasts, evidence', outcomes), forecasts', evidence')
            BY <1>3, RebuiltOK DEF LedgersOK
        <3> QED
            BY <2>1, <3>1 DEF Capture
    <2>2. CASE ~reset
        <3>1. Sound(MergeEvidence(mem[p], evidence', mark[p].evidence), forecasts', evidence')
            BY <1>3, <1>4, MergeEvidenceOK DEF LedgersOK
        <3> QED
            BY <1>1, <2>2, <3>1 DEF Capture
    <2> QED
        BY <2>1, <2>2
<1>6. Sound(mem'[p], forecasts', evidence') /\ mem' = [mem EXCEPT ![p] = mem'[p]]
    <2>1. Sound([merged EXCEPT !.invalid = @ \cup StreamsOf({r} \cup Winners(r))],
                forecasts', evidence')
        BY <1>1, <1>5, WinnersType, TaintOK
    <2> QED
        BY <1>1, <1>5, <2>1
<1>7. /\ MarkOK(mark'[p], Len(forecasts'), Len(evidence'), Len(outcomes'))
      /\ mark' = [mark EXCEPT ![p] = mark'[p]]
    <2>1. CASE reset
        <3>1. mark' = [mark EXCEPT ![p] = AllRead(forecasts, evidence', outcomes)]
            BY <2>1 DEF Capture
        <3>2. MarkOK(AllRead(forecasts, evidence', outcomes),
                     Len(forecasts'), Len(evidence'), Len(outcomes'))
            BY <1>3, MarkStarts DEF AllRead
        <3> QED
            BY <1>1, <3>1, <3>2
    <2>2. CASE ~reset
        <3>1. mark' = [mark EXCEPT ![p] = [mark[p] EXCEPT !.evidence = Len(evidence')]]
            BY <1>1, <2>2 DEF Capture
        <3>2. MarkOK(mark[p], Len(forecasts), Len(evidence'), Len(outcomes))
            BY <1>1, <1>2, <1>3, MarkGrows DEF Grow
        <3>3. MarkOK([mark[p] EXCEPT !.evidence = Len(evidence')],
                     Len(forecasts'), Len(evidence'), Len(outcomes'))
            BY <1>3, <3>2, MarkMoves
        <3> QED
            BY <1>1, <3>1, <3>3
    <2> QED
        BY <2>1, <2>2
<1>8. ControlOK'
    BY <1>1 DEF ControlOK, Capture
<1> QED
    BY <1>2, <1>6, <1>7, <1>8, OneProcessMoves

LEMMA CaptureFailsOK ==
    ASSUME IInv, NEW p \in Proc, NEW r \in Evidence, CaptureFails(p, r)
    PROVE  IInv'
<1>1. /\ LedgersOK /\ ControlOK
      /\ MarkOK(mark[p], Len(forecasts), Len(evidence), Len(outcomes))
      /\ mark[p] \in MarkType /\ Sound(mem[p], forecasts, evidence)
      /\ mark \in [Proc -> MarkType] /\ mem \in [Proc -> Memory]
    BY Of DEF IInv, MarksOK, MemoriesOK
<1>2. Grow
    BY <1>1, OneLedgerGrows DEF CaptureFails
<1>3. /\ Len(forecasts) \in Nat /\ Len(evidence) \in Nat /\ Len(outcomes) \in Nat
      /\ Len(evidence') \in Nat /\ UNCHANGED <<forecasts, outcomes, mem>>
    BY LenProperties, <1>1, <1>2 DEF LedgersOK, Grow, CaptureFails
<1>4. Sound(mem'[p], forecasts', evidence') /\ mem' = [mem EXCEPT ![p] = mem'[p]]
    BY <1>1, <1>2, <1>3, SoundGrows DEF Grow, LedgersOK
<1>5. /\ mark' = [mark EXCEPT ![p] = [mark[p] EXCEPT !.evidence = Len(evidence)]]
      /\ mark'[p] = [mark[p] EXCEPT !.evidence = Len(evidence)]
    BY <1>1 DEF CaptureFails
<1>6. MarkOK(mark'[p], Len(forecasts'), Len(evidence'), Len(outcomes'))
    <2>1. MarkOK([mark[p] EXCEPT !.evidence = Len(evidence)],
                 Len(forecasts), Len(evidence), Len(outcomes))
        BY <1>1, <1>3, MarkMoves
    <2> QED
        BY <1>2, <1>3, <1>5, <2>1, MarkGrows DEF Grow
<1>7. ControlOK'
    BY <1>1 DEF ControlOK, CaptureFails
<1> QED
    BY <1>2, <1>4, <1>5, <1>6, <1>7, OneProcessMoves

-----------------------------------------------------------------------------
(* Synchronization.                                                        *)

\* A step that leaves the ledgers alone.
LEMMA ReadingMoves ==
    ASSUME IInv, ControlOK', UNCHANGED ledgers, NEW p \in Proc,
           NEW m, Sound(m, forecasts, evidence), mem' = [mem EXCEPT ![p] = m],
           NEW k, MarkOK(k, Len(forecasts), Len(evidence), Len(outcomes)),
           mark' = [mark EXCEPT ![p] = k]
    PROVE  IInv'
<1>1. LedgersOK /\ mark \in [Proc -> MarkType] /\ mem \in [Proc -> Memory]
    BY DEF IInv, MarksOK, MemoriesOK
<1>2. Grow
    BY <1>1, SameLedgersGrow
<1>3. mem'[p] = m /\ mark'[p] = k
    BY <1>1
<1>4. forecasts' = forecasts /\ evidence' = evidence /\ outcomes' = outcomes
    BY DEF ledgers
<1> QED
    BY <1>2, <1>3, <1>4, OneProcessMoves

LEMMA ReadForecastsOK ==
    ASSUME IInv, NEW p \in Proc, NEW call \in {"idle", "resolve"}, NEW time \in Nat,
           NEW reset, ReadForecasts(p, call, time, reset)
    PROVE  IInv'
<1>1. /\ LedgersOK /\ ControlOK
      /\ MarkOK(mark[p], Len(forecasts), Len(evidence), Len(outcomes))
      /\ mark[p] \in MarkType /\ Sound(mem[p], forecasts, evidence)
      /\ mark \in [Proc -> MarkType] /\ mem \in [Proc -> Memory]
    BY Of DEF IInv, MarksOK, MemoriesOK
<1>2. Len(forecasts) \in Nat /\ Len(evidence) \in Nat /\ Len(outcomes) \in Nat
    BY <1>1, Lengths
<1>3. ControlOK' /\ UNCHANGED ledgers
    BY <1>1 DEF ControlOK, ReadForecasts
<1>4. CASE reset
    <2>1. /\ mem' = [mem EXCEPT ![p] = MergeForecasts(Blank, forecasts, 0)]
          /\ mark' = [mark EXCEPT ![p] = [Unread EXCEPT !.forecasts = Len(forecasts)]]
        BY <1>4 DEF ReadForecasts
    <2>2. Sound(MergeForecasts(Blank, forecasts, 0), forecasts, evidence)
        BY <1>1, BlankOK, MergeForecastsOK DEF LedgersOK
    <2>3. MarkOK([Unread EXCEPT !.forecasts = Len(forecasts)],
                 Len(forecasts), Len(evidence), Len(outcomes))
        BY <1>2, MarkStarts
    <2> QED
        BY <1>3, <2>1, <2>2, <2>3, ReadingMoves
<1>5. CASE ~reset
    <2>1. /\ mem' = [mem EXCEPT ![p] = MergeForecasts(mem[p], forecasts, mark[p].forecasts)]
          /\ mark' = [mark EXCEPT ![p] = [mark[p] EXCEPT !.forecasts = Len(forecasts)]]
        BY <1>1, <1>5 DEF ReadForecasts
    <2>2. Sound(MergeForecasts(mem[p], forecasts, mark[p].forecasts), forecasts, evidence)
        BY <1>1, MergeForecastsOK DEF LedgersOK, MarkType
    <2>3. MarkOK([mark[p] EXCEPT !.forecasts = Len(forecasts)],
                 Len(forecasts), Len(evidence), Len(outcomes))
        BY <1>1, <1>2, MarkMoves
    <2> QED
        BY <1>3, <2>1, <2>2, <2>3, ReadingMoves
<1> QED
    BY <1>4, <1>5

LEMMA ReadEvidenceOK ==
    ASSUME IInv, NEW p \in Proc, NEW reset, ReadEvidence(p, reset)
    PROVE  IInv'
<1>1. /\ LedgersOK /\ ControlOK
      /\ MarkOK(mark[p], Len(forecasts), Len(evidence), Len(outcomes))
      /\ mark[p] \in MarkType /\ Sound(mem[p], forecasts, evidence)
      /\ mark \in [Proc -> MarkType] /\ mem \in [Proc -> Memory]
    BY Of DEF IInv, MarksOK, MemoriesOK
<1>2. Len(forecasts) \in Nat /\ Len(evidence) \in Nat /\ Len(outcomes) \in Nat
    BY <1>1, Lengths
<1>3. ControlOK' /\ UNCHANGED ledgers
    BY <1>1 DEF ControlOK, ReadEvidence
<1>4. CASE reset
    <2> DEFINE known == SubSeq(forecasts, 1, mark[p].forecasts)
               m == MergeEvidence(MergeForecasts(Blank, known, 0), evidence, 0)
               k == [forecasts |-> mark[p].forecasts,
                     evidence |-> Len(evidence), outcomes |-> 0]
    <2>1. mem' = [mem EXCEPT ![p] = m] /\ mark' = [mark EXCEPT ![p] = k]
        BY <1>1, <1>4 DEF ReadEvidence
    <2>2. Sound(m, forecasts, evidence)
        <3>1. mark[p].forecasts \in 0 .. Len(forecasts)
            BY <1>1, <1>2 DEF MarkOK, MarkType
        <3>2. known \in Seq(ForecastRecord) /\ \A r : Holds(known, r) => Holds(forecasts, r)
            BY <1>1, <3>1, PrefixHolds DEF LedgersOK
        <3> HIDE DEF known
        <3>3. Sound(MergeForecasts(Blank, known, 0), forecasts, evidence)
            BY <1>1, <3>2, BlankOK, MergeForecastsOK DEF LedgersOK
        <3> QED
            BY <1>1, <3>3, MergeEvidenceOK DEF LedgersOK
    <2>3. MarkOK(k, Len(forecasts), Len(evidence), Len(outcomes))
        BY <1>1, <1>2, MarkMoves
    <2> HIDE DEF m, k
    <2> QED
        BY <1>3, <2>1, <2>2, <2>3, ReadingMoves
<1>5. CASE ~reset
    <2>1. /\ mem' = [mem EXCEPT ![p] = MergeEvidence(mem[p], evidence, mark[p].evidence)]
          /\ mark' = [mark EXCEPT ![p] = [mark[p] EXCEPT !.evidence = Len(evidence)]]
        BY <1>1, <1>5 DEF ReadEvidence
    <2>2. Sound(MergeEvidence(mem[p], evidence, mark[p].evidence), forecasts, evidence)
        BY <1>1, MergeEvidenceOK DEF LedgersOK, MarkType
    <2>3. MarkOK([mark[p] EXCEPT !.evidence = Len(evidence)],
                 Len(forecasts), Len(evidence), Len(outcomes))
        BY <1>1, <1>2, MarkMoves
    <2> QED
        BY <1>3, <2>1, <2>2, <2>3, ReadingMoves
<1> QED
    BY <1>4, <1>5

\* What process() takes over is forecasts.
LEMMA CleanOK ==
    ASSUME NEW fl, NEW el, NEW m, Sound(m, fl, el)
    PROVE  Sound([m EXCEPT !.dirty = {}], fl, el) /\ m.dirty \in SUBSET Forecast
<1> DEFINE mm == [m EXCEPT !.dirty = {}]
<1>1. m \in Memory
    BY DEF MemoryOK, Sound
<1>2. /\ mm \in Memory
      /\ mm.known = m.known /\ mm.amended = m.amended /\ mm.out = m.out
      /\ mm.dirty = {} /\ mm.seen = m.seen /\ mm.cursor = m.cursor
    BY <1>1 DEF Memory
<1> HIDE DEF mm
<1>3. Sound(mm, fl, el)
    BY <1>2 DEF MemoryOK, Sound
<1>4. m.dirty \in SUBSET Forecast
    BY <1>1 DEF Memory
<1> QED
    BY <1>3, <1>4 DEF mm

\* What the outcome tail is merged into can be held, and what process() takes over of
\* it is dirty.
LEMMA ReadOutcomesMerges ==
    ASSUME IInv, NEW p \in Proc, NEW reset, ReadOutcomes(p, reset)
    PROVE  \E merged :
        /\ Sound(merged, forecasts, evidence)
        /\ IF goal[p] = "resolve"
           THEN /\ mem' = [mem EXCEPT ![p] = [merged EXCEPT !.dirty = {}]]
                /\ queue' = [queue EXCEPT ![p] = merged.dirty]
           ELSE /\ mem' = [mem EXCEPT ![p] = merged]
                /\ UNCHANGED queue
<1>1. /\ LedgersOK /\ ControlOK
      /\ MarkOK(mark[p], Len(forecasts), Len(evidence), Len(outcomes))
      /\ mark[p] \in MarkType /\ Sound(mem[p], forecasts, evidence)
      /\ mark \in [Proc -> MarkType] /\ mem \in [Proc -> Memory]
    BY Of DEF IInv, MarksOK, MemoriesOK
<1>2. Len(forecasts) \in Nat /\ Len(evidence) \in Nat /\ Len(outcomes) \in Nat
    BY <1>1, Lengths
<1> DEFINE fl == SubSeq(forecasts, 1, mark[p].forecasts)
           el == SubSeq(evidence, 1, mark[p].evidence)
<1>3. CASE reset
    <2>1. mark[p].forecasts \in 0 .. Len(forecasts) /\ mark[p].evidence \in 0 .. Len(evidence)
        BY <1>1, <1>2 DEF MarkOK, MarkType
    <2>2. fl \in Seq(ForecastRecord) /\ \A r : Holds(fl, r) => Holds(forecasts, r)
        BY <1>1, <2>1, PrefixHolds DEF LedgersOK
    <2>3. el \in Seq(Evidence) /\ Len(el) <= Len(evidence)
        BY <1>1, <1>2, <2>1, PrefixHolds DEF LedgersOK
    <2>4. Sound(Rebuilt(fl, el, outcomes), forecasts, evidence)
        <3> HIDE DEF fl, el
        <3>1. Sound(Rebuilt(fl, el, outcomes), fl, el)
            BY <1>1, <2>2, <2>3, RebuiltOK DEF LedgersOK
        <3> QED
            BY <1>1, <2>2, <2>3, <3>1, SoundGrows DEF LedgersOK
    <2> QED
        BY <1>3, <2>4 DEF ReadOutcomes
<1>4. CASE ~reset
    <2>1. Sound(MergeOutcomes(mem[p], outcomes, mark[p].outcomes), forecasts, evidence)
        BY <1>1, MergeOutcomesOK DEF LedgersOK, MarkType
    <2> QED
        BY <1>4, <2>1 DEF ReadOutcomes
<1> QED
    BY <1>3, <1>4

LEMMA ReadOutcomesOK ==
    ASSUME IInv, NEW p \in Proc, NEW reset, ReadOutcomes(p, reset)
    PROVE  IInv'
<1>1. /\ LedgersOK /\ ControlOK
      /\ MarkOK(mark[p], Len(forecasts), Len(evidence), Len(outcomes))
      /\ mark[p] \in MarkType /\ Sound(mem[p], forecasts, evidence)
      /\ mark \in [Proc -> MarkType] /\ mem \in [Proc -> Memory]
    BY Of DEF IInv, MarksOK, MemoriesOK
<1>2. Len(forecasts) \in Nat /\ Len(evidence) \in Nat /\ Len(outcomes) \in Nat
    BY <1>1, Lengths
<1>3. PICK merged :
        /\ Sound(merged, forecasts, evidence)
        /\ IF goal[p] = "resolve"
           THEN /\ mem' = [mem EXCEPT ![p] = [merged EXCEPT !.dirty = {}]]
                /\ queue' = [queue EXCEPT ![p] = merged.dirty]
           ELSE /\ mem' = [mem EXCEPT ![p] = merged]
                /\ UNCHANGED queue
    BY ReadOutcomesMerges
<1>4. ControlOK' /\ UNCHANGED ledgers
    <2>1. /\ pc' = [pc EXCEPT ![p] = goal[p]] /\ UNCHANGED <<goal, at>> /\ UNCHANGED ledgers
        BY DEF ReadOutcomes
    <2>2. queue' \in [Proc -> SUBSET Forecast]
        <3>1. merged.dirty \in SUBSET Forecast
            BY <1>3, CleanOK
        <3>2. queue' = queue \/ queue' = [queue EXCEPT ![p] = merged.dirty]
            BY <1>3
        <3> QED
            BY <1>1, <3>1, <3>2 DEF ControlOK
    <2> QED
        BY <1>1, <2>1, <2>2 DEF ControlOK
<1>5. PICK m : Sound(m, forecasts, evidence) /\ mem' = [mem EXCEPT ![p] = m]
    BY <1>3, CleanOK
<1>6. /\ mark' = [mark EXCEPT ![p] = [mark[p] EXCEPT !.outcomes = Len(outcomes)]]
      /\ MarkOK([mark[p] EXCEPT !.outcomes = Len(outcomes)],
                Len(forecasts), Len(evidence), Len(outcomes))
    BY <1>1, <1>2, MarkMoves DEF ReadOutcomes
<1> QED
    BY <1>4, <1>5, <1>6, ReadingMoves

-----------------------------------------------------------------------------
(* Emission.                                                               *)

LEMMA CandidatesType ==
    ASSUME IInv, NEW p \in Proc, NEW f \in Forecast, NEW i \in Candidates(p, f)
    PROVE  i \in 1 .. Len(evidence) /\ evidence[i] \in Observation
<1>1. evidence \in Seq(Evidence) /\ i \in 1 .. Len(evidence)
    BY Of DEF IInv, LedgersOK, Candidates, Sound, MemoryOK
<1>2. evidence[i] \in Evidence /\ evidence[i].kind = "observation"
    BY <1>1, LenProperties DEF Candidates, Admissible, About
<1> QED
    BY <1>1, <1>2, SubstrateAssumption DEF Evidence

LEMMA FirstCandidate ==
    ASSUME IInv, NEW p \in Proc, NEW f \in Forecast, Candidates(p, f) # {}
    PROVE  Min(Candidates(p, f)) \in Candidates(p, f)
<1>1. Candidates(p, f) \in SUBSET Nat
    BY CandidatesType
<1> QED
    BY <1>1, FirstPosition

LEMMA BlindType ==
    ASSUME NEW p \in Proc, NEW f \in Forecast
    PROVE  Blind(p, f) \in BOOLEAN
    BY SubstrateAssumption DEF Blind

LEMMA ScoredType ==
    ASSUME IInv, NEW p \in Proc, NEW f \in Forecast, NEW i \in Candidates(p, f)
    PROVE  /\ Scored(p, f, i) \in Outcome
           /\ Scored(p, f, i).forecast = f
<1>1. evidence[i] \in Observation
    BY CandidatesType
<1>2. <<evidence[i].source, evidence[i].id>> \in {<<o.source, o.id>> : o \in Observation}
    BY <1>1
<1>3. (evidence[i].value \in Terms[f].holds) \in BOOLEAN
    OBVIOUS
<1> QED
    BY <1>2, <1>3, BlindType DEF Scored, Outcome

LEMMA ClosureType ==
    ASSUME NEW p \in Proc, NEW f \in Forecast
    PROVE  /\ Closure(p, f) \in Outcome
           /\ Closure(p, f).forecast = f
<1>1. None \in {<<o.source, o.id>> : o \in Observation} \cup {None}
    OBVIOUS
<1>2. CASE Terms[f].observable \in Informative /\ StreamComplete(p, f)
    <2>1. Closure(p, f) = [forecast |-> f, settled |-> TRUE, hit |-> FALSE, by |-> None,
                           eligible |-> Blind(p, f)]
        BY <1>2 DEF Closure
    <2> QED
        BY <1>1, <2>1, BlindType DEF Outcome
<1>3. CASE ~(Terms[f].observable \in Informative /\ StreamComplete(p, f))
    <2>1. Closure(p, f) = [forecast |-> f, settled |-> FALSE, hit |-> FALSE, by |-> None,
                           eligible |-> FALSE]
        BY <1>3 DEF Closure
    <2> QED
        BY <1>1, <2>1 DEF Outcome
<1> QED
    BY <1>2, <1>3

\* An outcome that is written, or not.
LEMMA EmitGrows ==
    ASSUME LedgersOK, NEW o \in Outcome, outcomes' \in {outcomes, Append(outcomes, o)},
           UNCHANGED <<forecasts, evidence>>
    PROVE  Grow
    BY OneLedgerGrows

LEMMA AfterEmit ==
    ASSUME IInv, NEW p \in Proc, NEW reset, Grow, UNCHANGED <<forecasts, evidence>>
    PROVE  /\ Sound(MemoryAfterEmit(p, reset), forecasts', evidence')
           /\ MarkOK(MarkAfterEmit(p, reset), Len(forecasts'), Len(evidence'), Len(outcomes'))
<1>1. /\ LedgersOK /\ LedgersOK'
      /\ MarkOK(mark[p], Len(forecasts), Len(evidence), Len(outcomes))
      /\ mark[p] \in MarkType /\ Sound(mem[p], forecasts, evidence)
    BY Of DEF IInv, Grow
<1>2. /\ Len(forecasts) \in Nat /\ Len(evidence) \in Nat /\ Len(outcomes) \in Nat
      /\ Len(outcomes') \in Nat
    BY LenProperties, <1>1 DEF LedgersOK
<1>3. CASE reset
    <2>1. Sound(Rebuilt(forecasts, evidence, outcomes'), forecasts', evidence')
        BY <1>1, RebuiltOK DEF LedgersOK
    <2>2. MarkOK(AllRead(forecasts, evidence, outcomes'),
                 Len(forecasts'), Len(evidence'), Len(outcomes'))
        BY <1>2, MarkStarts DEF AllRead
    <2> QED
        BY <1>3, <2>1, <2>2 DEF MemoryAfterEmit, MarkAfterEmit
<1>4. CASE ~reset
    <2>1. Sound(MergeOutcomes(mem[p], outcomes', mark[p].outcomes), forecasts', evidence')
        BY <1>1, MergeOutcomesOK DEF LedgersOK, MarkType
    <2>2. MarkOK(mark[p], Len(forecasts), Len(evidence), Len(outcomes'))
        BY <1>1, <1>2, MarkGrows DEF Grow
    <2>3. MarkOK([mark[p] EXCEPT !.outcomes = Len(outcomes')],
                 Len(forecasts'), Len(evidence'), Len(outcomes'))
        BY <1>2, <2>2, MarkMoves
    <2> QED
        BY <1>4, <2>1, <2>3 DEF MemoryAfterEmit, MarkAfterEmit
<1> QED
    BY <1>3, <1>4

LEMMA CursorOK ==
    ASSUME NEW fl, NEW el \in Seq(Evidence), NEW m, Sound(m, fl, el),
           NEW f \in Forecast, NEW i \in 0 .. Len(el)
    PROVE  Sound([m EXCEPT !.cursor[f] = i], fl, el)
<1> DEFINE mm == [m EXCEPT !.cursor[f] = i]
<1>1. m \in Memory /\ Len(el) \in Nat /\ i \in Nat /\ i <= Len(el)
    BY LenProperties DEF MemoryOK, Sound
<1>2. m.cursor \in [Forecast -> Nat] /\ [m.cursor EXCEPT ![f] = i] \in [Forecast -> Nat]
    BY <1>1 DEF Memory
<1>3. /\ mm \in Memory
      /\ mm.known = m.known /\ mm.amended = m.amended /\ mm.out = m.out
      /\ mm.dirty = m.dirty /\ mm.seen = m.seen
      /\ mm.cursor = [m.cursor EXCEPT ![f] = i]
    BY <1>1, <1>2 DEF Memory
<1> HIDE DEF mm
<1>4. \A g \in Forecast : mm.cursor[g] <= Len(el)
    BY <1>1, <1>2, <1>3 DEF MemoryOK, Sound
<1>5. Sound(mm, fl, el)
    BY <1>3, <1>4 DEF MemoryOK, Sound
<1> QED
    BY <1>5 DEF mm

LEMMA ReturnOK ==
    ASSUME ControlOK, NEW p \in Proc, Return(p)
    PROVE  ControlOK'
    BY DEF ControlOK, Return

\* A step of process() that emits.
LEMMA EmittingMoves ==
    ASSUME IInv, Grow, ControlOK', UNCHANGED <<forecasts, evidence>>, NEW p \in Proc,
           NEW m, Sound(m, forecasts', evidence'), mem' = [mem EXCEPT ![p] = m],
           NEW reset, mark' = [mark EXCEPT ![p] = MarkAfterEmit(p, reset)]
    PROVE  IInv'
<1>1. mark \in [Proc -> MarkType] /\ mem \in [Proc -> Memory]
    BY DEF IInv, MarksOK, MemoriesOK
<1>2. MarkOK(MarkAfterEmit(p, reset), Len(forecasts'), Len(evidence'), Len(outcomes'))
    BY AfterEmit
<1>3. mem'[p] = m /\ mark'[p] = MarkAfterEmit(p, reset)
    BY <1>1
<1> QED
    BY <1>2, <1>3, OneProcessMoves

LEMMA ResolveOneOK ==
    ASSUME IInv, NEW p \in Proc, NEW f \in Forecast, NEW reset, ResolveOne(p, f, reset)
    PROVE  IInv'
<1>1. LedgersOK /\ ControlOK /\ Candidates(p, f) # {}
    BY DEF IInv, ResolveOne
<1>2. PICK i : i = Min(Candidates(p, f)) /\ i \in Candidates(p, f)
    BY <1>1, FirstCandidate
<1>3. Scored(p, f, i) \in Outcome /\ i \in 1 .. Len(evidence)
    BY <1>2, ScoredType, CandidatesType
<1>4. /\ outcomes' \in {outcomes, Append(outcomes, Scored(p, f, i))}
      /\ UNCHANGED <<forecasts, evidence, pc, goal, at>>
      /\ mem' = [mem EXCEPT ![p] = [MemoryAfterEmit(p, reset) EXCEPT !.cursor[f] = i]]
      /\ mark' = [mark EXCEPT ![p] = MarkAfterEmit(p, reset)]
    BY <1>2 DEF ResolveOne, Emit
<1>5. Grow
    BY <1>1, <1>3, <1>4, EmitGrows
<1>6. PICK m : Sound(m, forecasts', evidence') /\ mem' = [mem EXCEPT ![p] = m]
    <2>1. Sound(MemoryAfterEmit(p, reset), forecasts', evidence')
        BY <1>4, <1>5, AfterEmit
    <2>2. i \in 0 .. Len(evidence') /\ evidence' \in Seq(Evidence)
        BY <1>1, <1>3, <1>4 DEF LedgersOK
    <2>3. Sound([MemoryAfterEmit(p, reset) EXCEPT !.cursor[f] = i], forecasts', evidence')
        BY <2>1, <2>2, CursorOK
    <2> QED
        BY <1>4, <2>3
<1>7. ControlOK'
    <2>1. queue' = queue \/ queue' = [queue EXCEPT ![p] = queue[p] \ {f}]
        BY <1>1 DEF ResolveOne, ControlOK
    <2> QED
        BY <1>1, <1>4, <2>1 DEF ControlOK
<1> QED
    BY <1>4, <1>5, <1>6, <1>7, EmittingMoves

LEMMA EmitFailsOK ==
    ASSUME IInv, NEW p \in Proc, NEW o \in Outcome, EmitFails(p, o)
    PROVE  IInv'
<1>1. /\ LedgersOK /\ ControlOK
      /\ MarkOK(mark[p], Len(forecasts), Len(evidence), Len(outcomes))
      /\ mark[p] \in MarkType /\ Sound(mem[p], forecasts, evidence)
      /\ mark \in [Proc -> MarkType] /\ mem \in [Proc -> Memory]
    BY Of DEF IInv, MarksOK, MemoriesOK
<1>2. Grow /\ UNCHANGED <<forecasts, evidence, mem>>
    BY <1>1, EmitGrows DEF EmitFails
<1>3. /\ Len(forecasts) \in Nat /\ Len(evidence) \in Nat /\ Len(outcomes) \in Nat
      /\ Len(outcomes') \in Nat
    BY LenProperties, <1>1, <1>2 DEF LedgersOK, Grow
<1>4. Sound(mem'[p], forecasts', evidence') /\ mem' = [mem EXCEPT ![p] = mem'[p]]
    BY <1>1, <1>2
<1>5. /\ mark' = [mark EXCEPT ![p] = [mark[p] EXCEPT !.outcomes = Len(outcomes)]]
      /\ mark'[p] = [mark[p] EXCEPT !.outcomes = Len(outcomes)]
    BY <1>1 DEF EmitFails
<1>6. MarkOK(mark'[p], Len(forecasts'), Len(evidence'), Len(outcomes'))
    <2>1. MarkOK([mark[p] EXCEPT !.outcomes = Len(outcomes)],
                 Len(forecasts), Len(evidence), Len(outcomes))
        BY <1>1, <1>3, MarkMoves
    <2> QED
        BY <1>2, <1>3, <1>5, <2>1, MarkGrows DEF Grow
<1>7. ControlOK'
    BY <1>1, ReturnOK DEF EmitFails
<1> QED
    BY <1>2, <1>4, <1>5, <1>6, <1>7, OneProcessMoves

LEMMA SweepOneOK ==
    ASSUME IInv, NEW p \in Proc, NEW f \in Forecast, NEW reset, SweepOne(p, f, reset)
    PROVE  IInv'
<1>1. LedgersOK /\ ControlOK
    BY DEF IInv
<1>2. /\ outcomes' \in {outcomes, Append(outcomes, Closure(p, f))}
      /\ UNCHANGED <<forecasts, evidence>>
      /\ mem' = [mem EXCEPT ![p] = MemoryAfterEmit(p, reset)]
      /\ mark' = [mark EXCEPT ![p] = MarkAfterEmit(p, reset)]
    BY DEF SweepOne, Emit
<1>3. Grow
    BY <1>1, <1>2, ClosureType, EmitGrows
<1>4. Sound(MemoryAfterEmit(p, reset), forecasts', evidence')
    BY <1>2, <1>3, AfterEmit
<1>5. ControlOK'
    <2>1. CASE queue' = [queue EXCEPT ![p] = queue[p] \ {f}] /\ UNCHANGED <<pc, goal, at>>
        BY <1>1, <2>1 DEF ControlOK
    <2>2. CASE Return(p)
        BY <1>1, <2>2, ReturnOK
    <2>3. \/ queue' = [queue EXCEPT ![p] = queue[p] \ {f}] /\ UNCHANGED <<pc, goal, at>>
          \/ Return(p)
        BY <1>1 DEF SweepOne, ControlOK
    <2> QED
        BY <2>1, <2>2, <2>3
<1> QED
    BY <1>2, <1>3, <1>4, <1>5, EmittingMoves

-----------------------------------------------------------------------------
(* The other steps of process(), and the end of it.                        *)

LEMMA ResolveNothingOK ==
    ASSUME IInv, NEW p \in Proc, NEW f \in Forecast, ResolveNothing(p, f)
    PROVE  IInv'
<1>1. /\ LedgersOK /\ ControlOK
      /\ MarkOK(mark[p], Len(forecasts), Len(evidence), Len(outcomes))
      /\ mark[p] \in MarkType /\ Sound(mem[p], forecasts, evidence)
      /\ mark \in [Proc -> MarkType] /\ mem \in [Proc -> Memory]
    BY Of DEF IInv, MarksOK, MemoriesOK
<1>2. Len(forecasts) \in Nat /\ Len(evidence) \in Nat /\ Len(outcomes) \in Nat
    BY <1>1, Lengths
<1>3. PICK n : /\ n = IF Open(mem[p], f) THEN mark[p].evidence ELSE mem[p].cursor[f]
               /\ mem' = [mem EXCEPT ![p] = [mem[p] EXCEPT !.cursor[f] = n]]
    <2>1. mem[p].cursor \in [Forecast -> Nat]
        BY <1>1 DEF Memory
    <2> QED
        BY <1>1, <2>1 DEF ResolveNothing, Memory
<1>4. n \in 0 .. Len(evidence)
    <2>1. mem[p].cursor[f] \in 0 .. Len(evidence)
        BY <1>1, <1>2 DEF Memory, MemoryOK, Sound
    <2>2. mark[p].evidence \in 0 .. Len(evidence)
        BY <1>1, <1>2 DEF MarkOK, MarkType
    <2> QED
        BY <1>3, <2>1, <2>2
<1>5. Sound([mem[p] EXCEPT !.cursor[f] = n], forecasts, evidence)
    BY <1>1, <1>4, CursorOK DEF LedgersOK
<1>6. ControlOK' /\ UNCHANGED ledgers /\ mark' = [mark EXCEPT ![p] = mark[p]]
    BY <1>1 DEF ControlOK, ResolveNothing
<1> QED
    BY <1>1, <1>3, <1>5, <1>6, ReadingMoves

\* A step that moves nothing but the control state of processes.
LEMMA OnlyControlMoves ==
    ASSUME IInv, ControlOK', UNCHANGED <<ledgers, mark, mem>>
    PROVE  IInv'
<1>1. LedgersOK' /\ MarksOK' /\ MemoriesOK'
    BY DEF IInv, LedgersOK, MarksOK, MemoriesOK, ledgers
<1> QED
    BY <1>1 DEF IInv

LEMMA ControlStepsOK ==
    ASSUME IInv, NEW p \in Proc,
           \/ StartSweep(p)
           \/ \E f \in Forecast : SweepNothing(p, f)
           \/ FinishProcess(p)
    PROVE  IInv'
<1>1. ControlOK
    BY DEF IInv
<1>2. CASE StartSweep(p)
    <2>1. {f \in mem[p].known : at[p] > Terms[f].horizon} \in SUBSET Forecast
        BY Of DEF Memory
    <2>2. ControlOK'
        BY <1>1, <1>2, <2>1 DEF ControlOK, StartSweep
    <2> QED
        BY <1>2, <2>2, OnlyControlMoves DEF StartSweep
<1>3. CASE \E f \in Forecast : SweepNothing(p, f)
    <2>1. ControlOK'
        BY <1>1, <1>3 DEF ControlOK, SweepNothing
    <2> QED
        BY <1>3, <2>1, OnlyControlMoves DEF SweepNothing
<1>4. CASE FinishProcess(p)
    <2>1. ControlOK'
        BY <1>1, <1>4, ReturnOK DEF FinishProcess
    <2> QED
        BY <1>4, <2>1, OnlyControlMoves DEF FinishProcess
<1> QED
    BY <1>2, <1>3, <1>4

LEMMA CrashOK ==
    ASSUME IInv, NEW p \in Proc, Crash(p)
    PROVE  IInv'
<1>1. LedgersOK /\ ControlOK
    BY DEF IInv
<1>2. Len(forecasts) \in Nat /\ Len(evidence) \in Nat /\ Len(outcomes) \in Nat
    BY <1>1, Lengths
<1>3. ControlOK'
    BY <1>1 DEF ControlOK, Crash
<1>4. Sound(Blank, forecasts, evidence)
    BY <1>1, BlankOK DEF LedgersOK
<1>5. MarkOK(Unread, Len(forecasts), Len(evidence), Len(outcomes))
    BY <1>2, MarkStarts
<1>6. /\ UNCHANGED ledgers
      /\ mem' = [mem EXCEPT ![p] = Blank] /\ mark' = [mark EXCEPT ![p] = Unread]
    BY DEF Crash
<1> QED
    BY <1>3, <1>4, <1>5, <1>6, ReadingMoves

LEMMA HostOK ==
    ASSUME IInv, NEW p \in Proc, Host(p)
    PROVE  IInv'
<1>1. CASE \E f \in Forecast, reset \in Resets :
             Author(p, f, reset) \/ AmendExposure(p, f, reset)
    BY <1>1, AuthorOK
<1>2. CASE \E f \in Forecast :
             ForecastAppendFails(p, Declared(f)) \/ ForecastAppendFails(p, Amended(f))
    BY <1>2, ForecastAppendFailsOK, RecordTypes
<1>3. CASE \E r \in Evidence, reset \in Resets : Capture(p, r, reset)
    BY <1>3, CaptureOK
<1>4. CASE \E r \in Evidence : CaptureFails(p, r)
    BY <1>4, CaptureFailsOK
<1>5. CASE \E reset \in Resets : Status(p, reset)
    BY <1>5, ReadForecastsOK DEF Status
<1> QED
    BY <1>1, <1>2, <1>3, <1>4, <1>5 DEF Host

LEMMA ContinueOK ==
    ASSUME IInv, NEW p \in Proc, Continue(p)
    PROVE  IInv'
<1>1. queue[p] \subseteq Forecast
    BY DEF IInv, ControlOK
<1>2. CASE \E reset \in Resets : ReadEvidence(p, reset) \/ ReadOutcomes(p, reset)
    BY <1>2, ReadEvidenceOK, ReadOutcomesOK
<1>3. CASE \E f \in queue[p], reset \in Rebuilds :
             ResolveOne(p, f, reset) \/ SweepOne(p, f, reset)
    BY <1>1, <1>3, ResolveOneOK, SweepOneOK
<1>4. CASE \E f \in queue[p] :
             \/ ResolveNothing(p, f) \/ ResolveFails(p, f)
             \/ SweepNothing(p, f) \/ SweepFails(p, f)
    <2>1. PICK f \in Forecast : \/ ResolveNothing(p, f) \/ ResolveFails(p, f)
                                \/ SweepNothing(p, f) \/ SweepFails(p, f)
        BY <1>1, <1>4
    <2>2. CASE ResolveNothing(p, f)
        BY <2>2, ResolveNothingOK
    <2>3. CASE ResolveFails(p, f)
        <3>1. Min(Candidates(p, f)) \in Candidates(p, f)
            BY <2>3, FirstCandidate DEF ResolveFails
        <3>2. Scored(p, f, Min(Candidates(p, f))) \in Outcome
            BY <3>1, ScoredType
        <3> QED
            BY <2>3, <3>2, EmitFailsOK DEF ResolveFails
    <2>4. CASE SweepNothing(p, f)
        BY <2>4, ControlStepsOK
    <2>5. CASE SweepFails(p, f)
        BY <2>5, ClosureType, EmitFailsOK DEF SweepFails
    <2> QED
        BY <2>1, <2>2, <2>3, <2>4, <2>5
<1>5. CASE StartSweep(p) \/ FinishProcess(p)
    BY <1>5, ControlStepsOK
<1> QED
    BY <1>2, <1>3, <1>4, <1>5 DEF Continue

LEMMA NextOK == IInv /\ [Next]_vars => IInv'
<1> SUFFICES ASSUME IInv, [Next]_vars PROVE IInv'
    OBVIOUS
<1>1. CASE UNCHANGED vars
    <2>1. ControlOK' /\ UNCHANGED <<ledgers, mark, mem>>
        BY <1>1 DEF IInv, ControlOK, vars, ledgers
    <2> QED
        BY <2>1, OnlyControlMoves
<1>2. CASE Next
    <2>1. PICK p \in Proc : OpenSubstrate(p) \/ Host(p) \/ Call(p) \/ Continue(p) \/ Crash(p)
        BY <1>2 DEF Next
    <2>2. CASE OpenSubstrate(p)
        BY <2>2, ReadForecastsOK DEF OpenSubstrate
    <2>3. CASE Host(p)
        BY <2>3, HostOK
    <2>4. CASE Call(p)
        <3>1. PICK reset \in Resets, time \in AtTimes : ReadForecasts(p, "resolve", time, reset)
            BY <2>4 DEF Call, StartProcess
        <3>2. time \in Nat
            BY SubstrateAssumption
        <3> QED
            BY <3>1, <3>2, ReadForecastsOK
    <2>5. CASE Continue(p)
        BY <2>5, ContinueOK
    <2>6. CASE Crash(p)
        BY <2>6, CrashOK
    <2> QED
        BY <2>1, <2>2, <2>3, <2>4, <2>5, <2>6
<1> QED
    BY <1>1, <1>2

LEMMA Invariant == Spec => []IInv
    BY InitOK, NextOK, PTL DEF Spec

\* Every variable has its type, and what every instance holds is consistent with the
\* ledgers: what it knows is in them, positions lie within them, outcomes belong to
\* known forecasts - after any resets, crashes and failing appends.
THEOREM TypeCorrect == Spec => []TypeOK
<1>1. IInv => TypeOK
    BY IInvImplies
<1> QED
    BY <1>1, Invariant, PTL

\* No instance holds as eligible for calibration an outcome of a forecast it knows to
\* be exposed, in whatever order amendment and outcome reached it.
THEOREM ExposedStaysIneligible == Spec => []ExposedNeverEligible
<1>1. IInv => ExposedNeverEligible
    BY IInvImplies
<1> QED
    BY <1>1, Invariant, PTL

-----------------------------------------------------------------------------
(* Refinement: the outcome ledger closes a forecast once and settles it    *)
(* once.                                                                   *)

\* What a step may do to the outcome ledger.
OutcomeStep ==
    \/ UNCHANGED outcomes
    \/ \E o \in Outcome : TransitionAllowed(o) /\ outcomes' = Append(outcomes, o)

LEMMA EmitStep ==
    ASSUME NEW p, NEW o \in Outcome, Emit(p, o) \/ EmitFails(p, o)
    PROVE  OutcomeStep
    BY DEF Emit, EmitFails, OutcomeStep

LEMMA OutcomeSteps == IInv /\ [Next]_vars => OutcomeStep
<1> SUFFICES ASSUME IInv, [Next]_vars PROVE OutcomeStep
    OBVIOUS
<1>1. CASE UNCHANGED vars
    BY <1>1 DEF vars, OutcomeStep
<1>2. CASE Next
    <2>1. PICK p \in Proc : OpenSubstrate(p) \/ Host(p) \/ Call(p) \/ Continue(p) \/ Crash(p)
        BY <1>2 DEF Next
    <2>2. queue[p] \subseteq Forecast
        BY DEF IInv, ControlOK
    <2>3. CASE OpenSubstrate(p) \/ Call(p) \/ Crash(p)
        BY <2>3 DEF OpenSubstrate, Call, StartProcess, ReadForecasts, Crash, ledgers, OutcomeStep
    <2>4. CASE Host(p)
        BY <2>4 DEF Host, Author, AmendExposure, ForecastAppendFails, Capture, CaptureFails,
                    Status, ReadForecasts, ledgers, OutcomeStep
    <2>5. CASE Continue(p)
        <3>1. ASSUME NEW f \in queue[p], NEW reset, ResolveOne(p, f, reset)
              PROVE  OutcomeStep
            <4>1. Min(Candidates(p, f)) \in Candidates(p, f)
                BY <2>2, <3>1, FirstCandidate DEF ResolveOne
            <4>2. Scored(p, f, Min(Candidates(p, f))) \in Outcome
                BY <2>2, <4>1, ScoredType
            <4> QED
                BY <3>1, <4>2, EmitStep DEF ResolveOne
        <3>2. ASSUME NEW f \in queue[p], ResolveFails(p, f)
              PROVE  OutcomeStep
            <4>1. Min(Candidates(p, f)) \in Candidates(p, f)
                BY <2>2, <3>2, FirstCandidate DEF ResolveFails
            <4>2. Scored(p, f, Min(Candidates(p, f))) \in Outcome
                BY <2>2, <4>1, ScoredType
            <4> QED
                BY <3>2, <4>2, EmitStep DEF ResolveFails
        <3>3. ASSUME NEW f \in queue[p], NEW reset, SweepOne(p, f, reset) \/ SweepFails(p, f)
              PROVE  OutcomeStep
            <4>1. Closure(p, f) \in Outcome
                BY <2>2, ClosureType
            <4> QED
                BY <3>3, <4>1, EmitStep DEF SweepOne, SweepFails
        <3>4. ASSUME \/ \E reset \in Resets : ReadEvidence(p, reset) \/ ReadOutcomes(p, reset)
                     \/ \E f \in queue[p] : ResolveNothing(p, f) \/ SweepNothing(p, f)
                     \/ StartSweep(p) \/ FinishProcess(p)
              PROVE  OutcomeStep
            BY <3>4 DEF ReadEvidence, ReadOutcomes, ResolveNothing, SweepNothing, StartSweep,
                        FinishProcess, ledgers, OutcomeStep
        <3> QED
            BY <2>5, <3>1, <3>2, <3>3, <3>4 DEF Continue
    <2> QED
        BY <2>1, <2>3, <2>4, <2>5
<1> QED
    BY <1>1, <1>2

\* The board of one forecast depends on the set of its outcomes only.
Verdict(os) ==
    IF \E o \in os : o.settled THEN CHOOSE o \in os : o.settled
    ELSE IF os # {} THEN CHOOSE o \in os : TRUE
    ELSE None

LEMMA BoardIs == Board = [f \in Forecast |-> Verdict(OutcomesOf(f))]
    BY DEF Board, Verdict

\* A new outcome, allowed by the rule, closes or settles an open board.
LEMMA VerdictMoves ==
    ASSUME NEW f \in Forecast, NEW os \in SUBSET OutcomeOf(f), NEW o \in OutcomeOf(f),
           os = {} \/ (o.settled /\ \A other \in os : ~other.settled)
    PROVE  /\ Verdict(os \cup {o}) = o
           /\ Verdict(os) \notin SettledOf(f)
           /\ ~o.settled => Verdict(os) = None
<1>1. /\ o \in Outcome /\ o.settled \in BOOLEAN
      /\ \A x \in os : x \in Outcome /\ x.settled \in BOOLEAN
    BY DEF OutcomeOf, Outcome
<1>2. CASE os = {}
    <2>1. Verdict(os) = None
        BY <1>2 DEF Verdict
    <2>2. None \notin SettledOf(f)
        BY SubstrateAssumption DEF SettledOf, OutcomeOf
    <2>3. os \cup {o} = {o}
        BY <1>2
    <2>4. Verdict({o}) = o
        BY DEF Verdict
    <2> QED
        BY <2>1, <2>2, <2>3, <2>4
<1>3. CASE os # {} /\ o.settled /\ \A other \in os : ~other.settled
    <2>1. Verdict(os) \in os
        BY <1>3 DEF Verdict
    <2>2. Verdict(os) \notin SettledOf(f)
        BY <1>3, <2>1 DEF SettledOf
    <2>3. PICK v : v = CHOOSE x \in os \cup {o} : x.settled
        OBVIOUS
    <2>4. v \in os \cup {o} /\ v.settled
        BY <1>3, <2>3
    <2>5. v = o
        BY <1>3, <2>4
    <2>6. Verdict(os \cup {o}) = v
        BY <1>3, <2>3 DEF Verdict
    <2> QED
        BY <1>3, <2>2, <2>5, <2>6
<1> QED
    BY <1>2, <1>3

\* Appending an outcome adds it to those of its forecast.
LEMMA OutcomesAfterAppend ==
    ASSUME outcomes \in Seq(Outcome), NEW o \in Outcome, outcomes' = Append(outcomes, o)
    PROVE  \A f : OutcomesOf(f)' = IF f = o.forecast THEN OutcomesOf(f) \cup {o}
                                   ELSE OutcomesOf(f)
<1>1. Len(outcomes) \in Nat /\ DOMAIN outcomes = 1 .. Len(outcomes)
    BY LenProperties
<1>2. /\ DOMAIN outcomes' = 1 .. Len(outcomes) + 1
      /\ outcomes'[Len(outcomes) + 1] = o
      /\ \A i \in 1 .. Len(outcomes) : outcomes'[i] = outcomes[i]
    BY <1>1, AppendProperties, LenProperties
<1>3. 1 .. Len(outcomes) + 1 = (1 .. Len(outcomes)) \cup {Len(outcomes) + 1}
    BY <1>1
<1>4. Range(outcomes') = Range(outcomes) \cup {o}
    BY <1>1, <1>2, <1>3 DEF Range
<1> QED
    BY <1>4 DEF OutcomesOf

\* However many processes sweep and resolve, crash and come back, the outcome ledger
\* is a scoreboard: each forecast is closed at most once and settled at most once.
THEOREM ScoreboardRefined == Spec => ImplementsScoreboard
<1>1. Init => ForecastBoard!Init
    <2> SUFFICES ASSUME Init PROVE \A f \in Forecast : Verdict(OutcomesOf(f)) = None
        BY BoardIs DEF ForecastBoard!Init
    <2>1. Range(outcomes) = {}
        BY DEF Init, Range
    <2> QED
        BY <2>1 DEF OutcomesOf, Verdict
<1>2. IInv /\ [Next]_vars => [ForecastBoard!Next]_Board
    <2> SUFFICES ASSUME IInv, [Next]_vars PROVE [ForecastBoard!Next]_Board
        OBVIOUS
    <2>1. outcomes \in Seq(Outcome)
        BY DEF IInv, LedgersOK
    <2>2. CASE UNCHANGED outcomes
        BY <2>2 DEF Board, OutcomesOf
    <2>3. ASSUME NEW o \in Outcome, TransitionAllowed(o), outcomes' = Append(outcomes, o)
          PROVE  ForecastBoard!Next
        <3>1. PICK f \in Forecast : f = o.forecast
            BY DEF Outcome
        <3>2. OutcomesOf(f) \in SUBSET OutcomeOf(f) /\ o \in OutcomeOf(f)
            <4>1. Range(outcomes) \subseteq Outcome
                BY <2>1, LenProperties DEF Range
            <4> QED
                BY <3>1, <4>1 DEF OutcomesOf, OutcomeOf
        <3>3. /\ Verdict(OutcomesOf(f) \cup {o}) = o
              /\ Verdict(OutcomesOf(f)) \notin SettledOf(f)
              /\ ~o.settled => Verdict(OutcomesOf(f)) = None
            <4>1. \/ OutcomesOf(f) = {}
                  \/ o.settled /\ \A other \in OutcomesOf(f) : ~other.settled
                BY <2>3, <3>1 DEF TransitionAllowed
            <4>2. PICK os : os = OutcomesOf(f)
                OBVIOUS
            <4>3. /\ Verdict(os \cup {o}) = o
                  /\ Verdict(os) \notin SettledOf(f)
                  /\ ~o.settled => Verdict(os) = None
                BY <3>2, <4>1, <4>2, VerdictMoves
            <4> QED
                BY <4>2, <4>3
        <3>4. \A g \in Forecast : OutcomesOf(g)' = IF g = f THEN OutcomesOf(g) \cup {o}
                                                   ELSE OutcomesOf(g)
            BY <2>1, <2>3, <3>1, OutcomesAfterAppend
        <3>5. Board' = [g \in Forecast |-> Verdict(OutcomesOf(g)')]
            BY DEF Board, Verdict
        <3>6. Board' = [Board EXCEPT ![f] = o] /\ Board[f] = Verdict(OutcomesOf(f))
            BY <3>3, <3>4, <3>5, BoardIs
        <3>7. CASE o.settled
            <4>1. o \in SettledOf(f)
                BY <3>2, <3>7 DEF SettledOf
            <4> QED
                BY <3>3, <3>6, <4>1 DEF ForecastBoard!Next, ForecastBoard!Settle
        <3>8. CASE ~o.settled
            <4>1. o \in ProvisionalOf(f)
                BY <3>2, <3>8 DEF ProvisionalOf
            <4> QED
                BY <3>3, <3>6, <3>8, <4>1 DEF ForecastBoard!Next, ForecastBoard!Close
        <3> QED
            BY <3>7, <3>8
    <2> QED
        BY <2>2, <2>3, OutcomeSteps DEF OutcomeStep
<1> QED
    BY <1>1, <1>2, Invariant, PTL DEF Spec, ImplementsScoreboard, ForecastBoard!Spec
=============================================================================
