------------------------ MODULE SubstrateRestartProofs ------------------------
(***************************************************************************)
(* What an instance of Substrate has made of the ledgers piece by piece,   *)
(* against what a fresh one makes of them at once, for any number of       *)
(* processes, with crashes and replaced ledgers, unless an append raises.  *)
(***************************************************************************)
EXTENDS SubstrateLogProofs, SubstrateVerdictProofs

-----------------------------------------------------------------------------
(* The forecast ledger, read up to its n-th record.                        *)

\* An amendment comes after its forecast.
Ordered(fl) ==
    \A i \in DOMAIN fl : \A f \in Forecast :
        fl[i] = Amended(f) => \E j \in 1 .. i : fl[j] = Declared(f)

\* m knows what the first n records say, and nothing else.
Learned(m, fl, n) ==
    /\ m.known = {f \in Forecast : \E i \in 1 .. n : fl[i] = Declared(f)}
    /\ m.amended = {f \in Forecast : \E i \in 1 .. n : fl[i] = Amended(f)}

SameLesson(m1, m2) == m1.known = m2.known /\ m1.amended = m2.amended

LEMMA LearnedSame ==
    ASSUME NEW m1, NEW m2, SameLesson(m1, m2), NEW fl, NEW n, Learned(m1, fl, n)
    PROVE  Learned(m2, fl, n)
    BY DEF SameLesson, Learned

LEMMA LearnedContinues ==
    ASSUME NEW s \in Seq(ForecastRecord), NEW t, Continues(s, t), NEW n \in 0 .. Len(s), NEW m
    PROVE  Learned(m, s, n) <=> Learned(m, t, n)
<1>1. \A i \in 1 .. n : t[i] = s[i]
    <2>1. Len(s) \in Nat
        BY LenProperties
    <2> QED
        BY <2>1 DEF Continues
<1> QED
    BY <1>1 DEF Learned

LEMMA OrderedPrefix ==
    ASSUME NEW s \in Seq(ForecastRecord), Ordered(s), NEW n \in 0 .. Len(s)
    PROVE  Ordered(SubSeq(s, 1, n))
<1>1. /\ Len(s) \in Nat /\ DOMAIN s = 1 .. Len(s)
      /\ DOMAIN SubSeq(s, 1, n) = 1 .. n
      /\ \A i \in 1 .. n : SubSeq(s, 1, n)[i] = s[i]
    BY LenProperties, SubSeqProperties
<1>2. ASSUME NEW i \in 1 .. n, NEW f \in Forecast, s[i] = Amended(f)
      PROVE  \E j \in 1 .. i : SubSeq(s, 1, n)[j] = Declared(f)
    <2>1. PICK j \in 1 .. i : s[j] = Declared(f)
        BY <1>1, <1>2 DEF Ordered
    <2> QED
        BY <1>1, <2>1
<1> QED
    BY <1>1, <1>2 DEF Ordered

\* The tail of the ledger teaches what is missing.
LEMMA TailTeaches ==
    ASSUME NEW fl \in Seq(ForecastRecord), Ordered(fl), NEW m \in Memory,
           NEW n \in 0 .. Len(fl), Learned(m, fl, n)
    PROVE  Learned(MergeForecasts(m, fl, n), fl, Len(fl))
<1> DEFINE new == {f \in Forecast : \E i \in n + 1 .. Len(fl) : fl[i] = Declared(f)}
                    \ m.known
           exposed == {f \in m.known \cup new :
                         \E i \in n + 1 .. Len(fl) : fl[i] = Amended(f)}
           mm == MergeForecasts(m, fl, n)
<1>1. mm = [m EXCEPT !.known = @ \cup new,
                     !.amended = @ \cup exposed,
                     !.out = [f \in Forecast |-> FoldExposure(exposed, m.out[f])],
                     !.cursor = [f \in Forecast |-> IF f \in new THEN 0 ELSE m.cursor[f]],
                     !.dirty = @ \cup new]
    BY DEF MergeForecasts, Memory
<1> HIDE DEF mm, new, exposed
<1>2. mm.known = m.known \cup new /\ mm.amended = m.amended \cup exposed
    BY <1>1 DEF Memory
<1>3. Len(fl) \in Nat /\ DOMAIN fl = 1 .. Len(fl)
    BY LenProperties
<1>4. \A i : i \in 1 .. Len(fl) <=> i \in 1 .. n \/ i \in n + 1 .. Len(fl)
    BY <1>3
<1>5. \A f \in Forecast : f \in mm.known <=> \E i \in 1 .. Len(fl) : fl[i] = Declared(f)
    BY <1>2, <1>4 DEF Learned, new
<1>6. \A f \in Forecast : f \in mm.amended <=> \E i \in 1 .. Len(fl) : fl[i] = Amended(f)
    <2> SUFFICES ASSUME NEW f \in Forecast
                 PROVE  f \in mm.amended <=> \E i \in 1 .. Len(fl) : fl[i] = Amended(f)
        OBVIOUS
    <2>1. ASSUME NEW i \in n + 1 .. Len(fl), fl[i] = Amended(f)
          PROVE  f \in exposed
        <3>1. i \in 1 .. Len(fl)
            BY <1>4
        <3>2. PICK j \in 1 .. i : fl[j] = Declared(f)
            BY <1>3, <2>1, <3>1 DEF Ordered
        <3>3. j \in 1 .. Len(fl)
            BY <1>3, <3>1
        <3> QED
            BY <1>2, <1>5, <2>1, <3>2, <3>3 DEF exposed
    <2>2. f \in exposed => \E i \in n + 1 .. Len(fl) : fl[i] = Amended(f)
        BY DEF exposed
    <2> QED
        BY <1>2, <1>4, <2>1, <2>2 DEF Learned
<1>7. mm.known \subseteq Forecast /\ mm.amended \subseteq Forecast
    BY <1>2 DEF Memory, new, exposed
<1> QED
    BY <1>5, <1>6, <1>7 DEF Learned, mm

LEMMA BlankLearned == \A fl : Learned(Blank, fl, 0)
    BY DEF Learned, Blank

LEMMA BlankMemory == Blank \in Memory
    BY DEF Blank, Memory

\* Evidence and outcomes teach nothing about forecasts.
LEMMA OtherLessons ==
    ASSUME NEW m \in Memory, NEW log, NEW n
    PROVE  /\ SameLesson(m, MergeEvidence(m, log, n))
           /\ SameLesson(m, MergeOutcomes(m, log, n))
<1> DEFINE out == [f \in Forecast |->
                     IF f \in m.known
                     THEN FoldExposure(m.amended, Adopt(m.out[f], log,
                            {i \in n + 1 .. Len(log) : log[i].forecast = f}))
                     ELSE m.out[f]]
           left == {f \in m.dirty : out[f] # None => ~out[f].settled}
           dirty == m.dirty \cup {f \in m.known :
                        /\ Open(m, f)
                        /\ \E i \in n + 1 .. Len(log) : About(f, log[i])}
           seen == m.seen \cup (n + 1 .. Len(log))
<1>1. MergeOutcomes(m, log, n) = [m EXCEPT !.out = out, !.dirty = left]
    BY DEF MergeOutcomes
<1>2. MergeEvidence(m, log, n) = [m EXCEPT !.seen = seen, !.dirty = dirty]
    BY DEF MergeEvidence, Memory
<1> HIDE DEF out, left, dirty, seen
<1> QED
    BY <1>1, <1>2 DEF Memory, SameLesson

LEMMA RebuiltLearned ==
    ASSUME NEW fl \in Seq(ForecastRecord), Ordered(fl),
           NEW el \in Seq(Evidence), NEW ol \in Seq(Outcome)
    PROVE  /\ Learned(MergeForecasts(Blank, fl, 0), fl, Len(fl))
           /\ Learned(MergeEvidence(MergeForecasts(Blank, fl, 0), el, 0), fl, Len(fl))
           /\ Learned(Rebuilt(fl, el, ol), fl, Len(fl))
<1> DEFINE m1 == MergeForecasts(Blank, fl, 0)
           m2 == MergeEvidence(m1, el, 0)
<1>1. Sound(m1, fl, el)
    BY BlankOK, MergeForecastsOK
<1>2. Sound(m2, fl, el)
    BY <1>1, MergeEvidenceOK
<1>3. m1 \in Memory /\ m2 \in Memory
    BY <1>1, <1>2 DEF Sound, MemoryOK
<1>4. Learned(m1, fl, Len(fl))
    <2>1. 0 \in 0 .. Len(fl)
        BY LenProperties
    <2> QED
        BY <2>1, BlankMemory, BlankLearned, TailTeaches
<1>5. Learned(m2, fl, Len(fl))
    BY <1>3, <1>4, OtherLessons, LearnedSame
<1>6. Learned(MergeOutcomes(m2, ol, 0), fl, Len(fl))
    BY <1>3, <1>5, OtherLessons, LearnedSame
<1> QED
    BY <1>4, <1>5, <1>6 DEF Rebuilt

-----------------------------------------------------------------------------
(* The outcome ledger, read up to its n-th record.                         *)

\* m reports something of every forecast it knows an outcome of.
Told(m, ol, n) ==
    \A f \in m.known : \A i \in 1 .. n : ol[i].forecast = f => m.out[f] # None

Alike(m1, m2) == SameLesson(m1, m2) /\ m1.out = m2.out

LEMMA AlikeSelf == \A m : Alike(m, m)
    BY DEF Alike, SameLesson

LEMMA ToldAlike ==
    ASSUME NEW m1, NEW m2, Alike(m1, m2), NEW ol, NEW n, Told(m1, ol, n)
    PROVE  Told(m2, ol, n)
    BY DEF Told, Alike, SameLesson

LEMMA ToldContinues ==
    ASSUME NEW s \in Seq(Outcome), NEW t, Continues(s, t), NEW n \in 0 .. Len(s), NEW m,
           Told(m, s, n)
    PROVE  Told(m, t, n)
<1>1. \A i \in 1 .. n : t[i] = s[i]
    <2>1. Len(s) \in Nat
        BY LenProperties
    <2> QED
        BY <2>1 DEF Continues
<1> QED
    BY <1>1 DEF Told

\* Evidence, cursors, dirt and tainted streams are another matter.
LEMMA EvidenceAlike ==
    ASSUME NEW m \in Memory, NEW log, NEW n
    PROVE  Alike(MergeEvidence(m, log, n), m)
<1> DEFINE dirty == m.dirty \cup {f \in m.known :
                        /\ Open(m, f)
                        /\ \E i \in n + 1 .. Len(log) : About(f, log[i])}
           seen == m.seen \cup (n + 1 .. Len(log))
<1>1. MergeEvidence(m, log, n) = [m EXCEPT !.seen = seen, !.dirty = dirty]
    BY DEF MergeEvidence, Memory
<1> HIDE DEF dirty, seen
<1> QED
    BY <1>1 DEF Memory, Alike, SameLesson

LEMMA TouchedAlike ==
    ASSUME NEW m \in Memory, NEW x
    PROVE  /\ Alike([m EXCEPT !.dirty = x], m)
           /\ Alike([m EXCEPT !.cursor = x], m)
           /\ Alike([m EXCEPT !.invalid = x], m)
    BY DEF Memory, Alike, SameLesson

LEMMA AdoptsSomething ==
    ASSUME NEW ol, NEW n \in Nat, \A i \in 1 .. n : ol[i] \in Outcome,
           NEW new \in SUBSET (1 .. n), NEW old \in Outcome \cup {None},
           old # None \/ new # {}
    PROVE  Adopt(old, ol, new) \in Outcome
<1> DEFINE settled == {i \in new : ol[i].settled}
<1>1. new \in SUBSET Nat /\ settled \in SUBSET Nat /\ settled \subseteq 1 .. n
    <2>1. 1 .. n \subseteq Nat
        OBVIOUS
    <2> QED
        BY <2>1
<1>2. CASE old # None /\ old.settled
    BY <1>2 DEF Adopt
<1>3. CASE ~(old # None /\ old.settled) /\ settled # {}
    <2>1. Min(settled) \in settled
        <3> HIDE DEF settled
        <3> QED
            BY <1>1, <1>3, FirstPosition
    <2>2. Adopt(old, ol, new) = ol[Min(settled)]
        BY <1>3 DEF Adopt
    <2> QED
        BY <1>1, <2>1, <2>2
<1>4. CASE old = None /\ settled = {}
    <2>1. new # {} /\ Min(new) \in new
        BY <1>1, <1>4, FirstPosition
    <2>2. Adopt(old, ol, new) = ol[Min(new)]
        BY <1>4, <2>1 DEF Adopt
    <2> QED
        BY <2>1, <2>2
<1>5. CASE old # None /\ ~old.settled /\ settled = {}
    BY <1>5 DEF Adopt
<1> QED
    BY <1>2, <1>3, <1>4, <1>5

\* The tail of the ledger tells what is missing.
LEMMA TailTells ==
    ASSUME NEW ol \in Seq(Outcome), NEW m \in Memory, NEW n \in 0 .. Len(ol), Told(m, ol, n)
    PROVE  Told(MergeOutcomes(m, ol, n), ol, Len(ol))
<1> DEFINE new(f) == {i \in n + 1 .. Len(ol) : ol[i].forecast = f}
           out == [f \in Forecast |-> IF f \in m.known
                                      THEN FoldExposure(m.amended, Adopt(m.out[f], ol, new(f)))
                                      ELSE m.out[f]]
           left == {f \in m.dirty : out[f] # None => ~out[f].settled}
           mm == MergeOutcomes(m, ol, n)
<1>1. mm = [m EXCEPT !.out = out, !.dirty = left]
    BY DEF MergeOutcomes
<1> HIDE DEF mm, left
<1>2. Len(ol) \in Nat /\ \A i \in 1 .. Len(ol) : ol[i] \in Outcome
    BY LenProperties
<1>3. ASSUME NEW f \in m.known, NEW i \in 1 .. Len(ol), ol[i].forecast = f
      PROVE  out[f] # None
    <2>1. f \in Forecast /\ m.out[f] \in Outcome \cup {None}
        BY DEF Memory
    <2>2. m.out[f] # None \/ new(f) # {}
        <3>1. i \in 1 .. n \/ i \in n + 1 .. Len(ol)
            BY <1>2
        <3> QED
            BY <1>3, <3>1 DEF Told
    <2>3. Adopt(m.out[f], ol, new(f)) \in Outcome
        <3>1. new(f) \in SUBSET (1 .. Len(ol))
            BY <1>2
        <3> HIDE DEF new
        <3> QED
            BY <1>2, <2>1, <2>2, <3>1, AdoptsSomething
    <2>4. FoldExposure(m.amended, Adopt(m.out[f], ol, new(f))) # None
        BY <2>3, FoldType, SubstrateAssumption
    <2> QED
        BY <2>1, <2>4
<1> HIDE DEF out
<1>4. mm.known = m.known /\ mm.out = out
    BY <1>1 DEF Memory
<1> QED
    BY <1>3, <1>4 DEF Told, mm

LEMMA NothingTold == \A m, ol : Told(m, ol, 0)
    BY DEF Told

\* A fresh instance has learned everything, and tells everything.
LEMMA RebuiltTells ==
    ASSUME NEW fl \in Seq(ForecastRecord), Ordered(fl),
           NEW el \in Seq(Evidence), NEW ol \in Seq(Outcome)
    PROVE  /\ Learned(Rebuilt(fl, el, ol), fl, Len(fl))
           /\ Told(Rebuilt(fl, el, ol), ol, Len(ol))
<1> DEFINE m1 == MergeForecasts(Blank, fl, 0)
           m2 == MergeEvidence(m1, el, 0)
<1>1. m2 \in Memory
    <2>1. Sound(m1, fl, el)
        BY BlankOK, MergeForecastsOK
    <2>2. Sound(m2, fl, el)
        BY <2>1, MergeEvidenceOK
    <2> QED
        BY <2>2 DEF Sound, MemoryOK
<1>2. 0 \in 0 .. Len(ol)
    BY LenProperties
<1>3. Told(MergeOutcomes(m2, ol, 0), ol, Len(ol))
    BY <1>1, <1>2, NothingTold, TailTells
<1> QED
    BY <1>3, RebuiltLearned DEF Rebuilt

-----------------------------------------------------------------------------
(* What a step makes of the memory of the process that takes it.           *)

\* No step puts an amendment before its forecast.
LEMMA ForecastsContinue ==
    ASSUME IInv, [Next]_vars
    PROVE  Continues(forecasts, forecasts') /\ (Ordered(forecasts) => Ordered(forecasts'))
<1>1. forecasts \in Seq(ForecastRecord)
    BY DEF IInv, LedgersOK
<1>2. CASE UNCHANGED forecasts
    BY <1>1, <1>2, ContinuesSelf
<1>3. ASSUME NEW r \in ForecastRecord, ForecastRule(Range(forecasts), r),
             forecasts' = Append(forecasts, r)
      PROVE  Continues(forecasts, forecasts') /\ (Ordered(forecasts) => Ordered(forecasts'))
    <2>1. Continues(forecasts, forecasts')
        BY <1>1, <1>3, ContinuesAppend
    <2>2. /\ Len(forecasts) \in Nat /\ DOMAIN forecasts = 1 .. Len(forecasts)
          /\ DOMAIN forecasts' = 1 .. Len(forecasts) + 1
          /\ forecasts'[Len(forecasts) + 1] = r
          /\ \A i \in 1 .. Len(forecasts) : forecasts'[i] = forecasts[i]
        BY <1>1, <1>3, AppendProperties, LenProperties
    <2>3. ASSUME Ordered(forecasts), NEW i \in DOMAIN forecasts', NEW f \in Forecast,
                 forecasts'[i] = Amended(f)
          PROVE  \E j \in 1 .. i : forecasts'[j] = Declared(f)
        <3>1. CASE i \in 1 .. Len(forecasts)
            <4>1. PICK j \in 1 .. i : forecasts[j] = Declared(f)
                BY <2>2, <2>3, <3>1 DEF Ordered
            <4> QED
                BY <2>2, <3>1, <4>1
        <3>2. CASE i = Len(forecasts) + 1
            <4>1. r = Amended(f)
                BY <2>2, <2>3, <3>2
            <4>2. PICK j \in 1 .. Len(forecasts) : forecasts[j] = Declared(f)
                BY <1>3, <2>2, <4>1 DEF ForecastRule, Range
            <4> QED
                BY <2>2, <3>2, <4>2
        <3> QED
            BY <2>2, <3>1, <3>2
    <2> QED
        BY <2>1, <2>3 DEF Ordered
<1> QED
    BY <1>2, <1>3, ForecastSteps

\* Nothing it says of forecasts and outcomes changes.
Keeps(p) ==
    /\ Alike(mem'[p], mem[p])
    /\ mark'[p].forecasts = mark[p].forecasts /\ mark'[p].outcomes = mark[p].outcomes
    /\ UNCHANGED <<forecasts, outcomes>>
    /\ pc[p] # "closed"

\* The tail of the forecast ledger is merged.
Hears(p) ==
    /\ Alike(mem'[p], MergeForecasts(mem[p], forecasts', mark[p].forecasts))
    /\ mark'[p].forecasts = Len(forecasts') /\ mark'[p].outcomes = mark[p].outcomes
    /\ UNCHANGED outcomes
    /\ pc[p] # "closed"

\* The tail of the outcome ledger is merged.
IsTold(p) ==
    /\ Alike(mem'[p], MergeOutcomes(mem[p], outcomes', mark[p].outcomes))
    /\ mark'[p].forecasts = mark[p].forecasts /\ mark'[p].outcomes = Len(outcomes')
    /\ UNCHANGED forecasts
    /\ pc[p] # "closed"

\* It starts over from what it has read, or it ends.
StartsOver(p) ==
    /\ Learned(mem'[p], forecasts', mark'[p].forecasts)
    /\ Told(mem'[p], outcomes', mark'[p].outcomes)
    /\ \/ pc'[p] = "closed"
       \/ mark'[p].forecasts = Len(forecasts')
       \/ /\ mark'[p].forecasts = mark[p].forecasts /\ pc[p] # "closed"
          /\ UNCHANGED forecasts

Studies(p) == Keeps(p) \/ Hears(p) \/ IsTold(p) \/ StartsOver(p)

\* The process alone moves.
Alone(p) == \A q \in Proc : q # p => mem'[q] = mem[q] /\ mark'[q] = mark[q] /\ pc'[q] = pc[q]

\* A complete rebuild.
LEMMA RebuildStudies ==
    ASSUME IInv', Ordered(forecasts'), NEW p \in Proc,
           Alike(mem'[p], Rebuilt(forecasts', evidence', outcomes')),
           mark'[p] = AllRead(forecasts', evidence', outcomes')
    PROVE  Studies(p)
<1>1. LedgersOK'
    BY DEF IInv
<1>2. /\ Learned(Rebuilt(forecasts', evidence', outcomes'), forecasts', Len(forecasts'))
      /\ Told(Rebuilt(forecasts', evidence', outcomes'), outcomes', Len(outcomes'))
    BY <1>1, RebuiltTells DEF LedgersOK
<1>3. mark'[p].forecasts = Len(forecasts') /\ mark'[p].outcomes = Len(outcomes')
    BY DEF AllRead
<1>4. /\ SameLesson(Rebuilt(forecasts', evidence', outcomes'), mem'[p])
      /\ Alike(Rebuilt(forecasts', evidence', outcomes'), mem'[p])
    BY DEF Alike, SameLesson
<1>5. /\ Learned(mem'[p], forecasts', Len(forecasts'))
      /\ Told(mem'[p], outcomes', Len(outcomes'))
    BY <1>2, <1>4, LearnedSame, ToldAlike
<1> QED
    BY <1>3, <1>5 DEF Studies, StartsOver

LEMMA FollowStudies ==
    ASSUME IInv, IInv', Ordered(forecasts'), NEW p \in Proc, NEW reset,
           FollowForecasts(p, reset), pc[p] = "idle",
           UNCHANGED <<evidence, outcomes, pc>>
    PROVE  Studies(p) /\ Alone(p)
<1>1. Alone(p)
    BY OfAll DEF Alone, FollowForecasts
<1>2. CASE reset
    <2>1. /\ mem'[p] = Rebuilt(forecasts', evidence', outcomes')
          /\ mark'[p] = AllRead(forecasts', evidence', outcomes')
        BY <1>2, OfAll DEF FollowForecasts
    <2>2. Alike(mem'[p], Rebuilt(forecasts', evidence', outcomes'))
        BY <2>1, AlikeSelf
    <2> QED
        BY <1>1, <2>1, <2>2, RebuildStudies
<1>3. CASE ~reset
    <2>1. /\ mem'[p] = MergeForecasts(mem[p], forecasts', mark[p].forecasts)
          /\ mark'[p].forecasts = Len(forecasts') /\ mark'[p].outcomes = mark[p].outcomes
        BY <1>3, OfAll DEF FollowForecasts, MarkType
    <2> QED
        BY <1>1, <2>1, AlikeSelf DEF Studies, Hears
<1> QED
    BY <1>2, <1>3

LEMMA CaptureStudies ==
    ASSUME IInv, IInv', Ordered(forecasts'), NEW p \in Proc, NEW r \in Evidence, NEW reset,
           Capture(p, r, reset)
    PROVE  Studies(p) /\ Alone(p)
<1>1. Alone(p) /\ UNCHANGED <<forecasts, outcomes>> /\ pc[p] = "idle"
    BY OfAll DEF Alone, Capture
<1> DEFINE streams(m) == m.invalid \cup StreamsOf({r} \cup Winners(r))
<1>2. CASE reset
    <2> DEFINE m == Rebuilt(forecasts, evidence', outcomes)
    <2>1. mem'[p] \in {m, [m EXCEPT !.invalid = streams(m)]}
          /\ mark'[p] = AllRead(forecasts', evidence', outcomes')
        BY <1>1, <1>2, OfAll DEF Capture
    <2>2. m \in Memory
        <3>1. forecasts \in Seq(ForecastRecord) /\ evidence' \in Seq(Evidence)
              /\ outcomes \in Seq(Outcome)
            BY DEF IInv, LedgersOK
        <3>2. Sound(m, forecasts, evidence')
            BY <3>1, RebuiltOK
        <3> QED
            BY <3>2 DEF Sound, MemoryOK
    <2>3. m = Rebuilt(forecasts', evidence', outcomes')
        BY <1>1
    <2> HIDE DEF m, streams
    <2>4. Alike(mem'[p], m)
        <3>1. CASE mem'[p] = m
            BY <3>1, AlikeSelf
        <3>2. CASE mem'[p] = [m EXCEPT !.invalid = streams(m)]
            BY <2>2, <3>2, TouchedAlike
        <3> QED
            BY <2>1, <3>1, <3>2
    <2> QED
        BY <1>1, <2>1, <2>3, <2>4, RebuildStudies
<1>3. CASE ~reset
    <2> DEFINE m == MergeEvidence(mem[p], evidence', mark[p].evidence)
    <2>1. /\ mem'[p] \in {m, [m EXCEPT !.invalid = streams(m)]}
          /\ mark' = [mark EXCEPT ![p] = [mark[p] EXCEPT !.evidence = Len(evidence')]]
        BY <1>3, OfAll DEF Capture
    <2>2. m \in Memory
        <3>1. Sound(mem[p], forecasts', evidence') /\ mark[p].evidence \in Nat
            <4>1. Len(evidence) \in Nat /\ Len(evidence') \in Nat
                  /\ Len(evidence) <= Len(evidence')
                BY ContinuesSelf, ContinuesAppend, LenProperties
                   DEF IInv, LedgersOK, Capture, Continues
            <4>2. \A x : Holds(forecasts, x) => Holds(forecasts', x)
                BY <1>1
            <4> QED
                BY <4>1, <4>2, Of, SoundGrows DEF IInv, LedgersOK, MarkType
        <3>2. Sound(m, forecasts', evidence')
            BY <3>1, MergeEvidenceOK DEF IInv, LedgersOK
        <3> QED
            BY <3>2 DEF Sound, MemoryOK
    <2>3. Alike(m, mem[p])
        BY OfAll, EvidenceAlike
    <2> HIDE DEF m, streams
    <2>4. Alike(mem'[p], m)
        BY <2>1, <2>2, AlikeSelf, TouchedAlike
    <2>5. mark'[p].forecasts = mark[p].forecasts /\ mark'[p].outcomes = mark[p].outcomes
        BY <2>1, OfAll DEF MarkType
    <2>6. Alike(mem'[p], mem[p])
        BY <2>3, <2>4 DEF Alike, SameLesson
    <2> QED
        BY <1>1, <2>5, <2>6 DEF Studies, Keeps
<1> QED
    BY <1>2, <1>3

LEMMA ReadForecastsStudies ==
    ASSUME IInv, Ordered(forecasts), NEW p \in Proc, NEW call, NEW time, NEW reset,
           ReadForecasts(p, call, time, reset), pc[p] # "closed" \/ reset
    PROVE  Studies(p) /\ Alone(p)
<1>1. Alone(p) /\ UNCHANGED <<forecasts, evidence, outcomes>>
    BY OfAll DEF Alone, ReadForecasts, ledgers
<1>2. CASE reset
    <2>1. /\ mem'[p] = MergeForecasts(Blank, forecasts, 0)
          /\ mark'[p].forecasts = Len(forecasts) /\ mark'[p].outcomes = 0
        BY <1>2, OfAll DEF ReadForecasts, Unread
    <2>2. Learned(mem'[p], forecasts, Len(forecasts))
        BY <2>1, RebuiltLearned DEF IInv, LedgersOK
    <2> QED
        BY <1>1, <2>1, <2>2, NothingTold DEF Studies, StartsOver
<1>3. CASE ~reset
    <2>1. /\ mem'[p] = MergeForecasts(mem[p], forecasts, mark[p].forecasts)
          /\ mark'[p].forecasts = Len(forecasts) /\ mark'[p].outcomes = mark[p].outcomes
        BY <1>3, OfAll DEF ReadForecasts, MarkType
    <2> QED
        BY <1>1, <1>3, <2>1, AlikeSelf DEF Studies, Hears
<1> QED
    BY <1>2, <1>3

\* What a prefix of the forecasts teaches.
LEMMA PrefixLearned ==
    ASSUME NEW s \in Seq(ForecastRecord), Ordered(s), NEW n \in 0 .. Len(s)
    PROVE  /\ SubSeq(s, 1, n) \in Seq(ForecastRecord)
           /\ Ordered(SubSeq(s, 1, n)) /\ Len(SubSeq(s, 1, n)) = n
           /\ \A m : Learned(m, SubSeq(s, 1, n), n) <=> Learned(m, s, n)
<1>1. SubSeq(s, 1, n) \in Seq(ForecastRecord) /\ Len(SubSeq(s, 1, n)) = n
    BY PrefixHolds
<1>2. Continues(SubSeq(s, 1, n), s)
    BY PrefixContinues
<1>3. n \in 0 .. Len(SubSeq(s, 1, n))
    BY <1>1
<1> QED
    BY <1>1, <1>2, <1>3, OrderedPrefix, LearnedContinues

LEMMA ReadEvidenceStudies ==
    ASSUME IInv, Ordered(forecasts), NEW p \in Proc, NEW reset, ReadEvidence(p, reset)
    PROVE  Studies(p) /\ Alone(p)
<1>1. Alone(p) /\ UNCHANGED <<forecasts, evidence, outcomes>> /\ pc[p] = "evidence"
    BY OfAll DEF Alone, ReadEvidence, ledgers
<1>2. CASE reset
    <2> DEFINE known == SubSeq(forecasts, 1, mark[p].forecasts)
    <2>1. /\ mem'[p] = MergeEvidence(MergeForecasts(Blank, known, 0), evidence, 0)
          /\ mark'[p].forecasts = mark[p].forecasts /\ mark'[p].outcomes = 0
        BY <1>2, OfAll DEF ReadEvidence
    <2>2. mark[p].forecasts \in 0 .. Len(forecasts)
        BY Of, Lengths DEF IInv, MarkOK, MarkType
    <2>3. /\ known \in Seq(ForecastRecord) /\ Ordered(known) /\ Len(known) = mark[p].forecasts
          /\ \A m : Learned(m, known, mark[p].forecasts)
                    <=> Learned(m, forecasts, mark[p].forecasts)
        BY <2>2, PrefixLearned DEF IInv, LedgersOK
    <2> HIDE DEF known
    <2>4. Learned(mem'[p], forecasts, mark[p].forecasts)
        BY <2>1, <2>3, RebuiltLearned DEF IInv, LedgersOK
    <2> QED
        BY <1>1, <2>1, <2>4, NothingTold DEF Studies, StartsOver
<1>3. CASE ~reset
    <2>1. /\ mem'[p] = MergeEvidence(mem[p], evidence, mark[p].evidence)
          /\ mark'[p].forecasts = mark[p].forecasts /\ mark'[p].outcomes = mark[p].outcomes
        BY <1>3, OfAll DEF ReadEvidence, MarkType
    <2>2. Alike(mem'[p], mem[p])
        BY <2>1, OfAll, EvidenceAlike
    <2> QED
        BY <1>1, <2>1, <2>2 DEF Studies, Keeps
<1> QED
    BY <1>2, <1>3

LEMMA ReadOutcomesStudies ==
    ASSUME IInv, Ordered(forecasts), NEW p \in Proc, NEW reset, ReadOutcomes(p, reset)
    PROVE  Studies(p) /\ Alone(p)
<1>1. /\ Alone(p) /\ UNCHANGED <<forecasts, evidence, outcomes>> /\ pc[p] = "outcomes"
      /\ mark'[p].forecasts = mark[p].forecasts /\ mark'[p].outcomes = Len(outcomes)
    BY OfAll DEF Alone, ReadOutcomes, ledgers, MarkType
<1>2. mark[p].forecasts \in 0 .. Len(forecasts) /\ mark[p].evidence \in 0 .. Len(evidence)
    BY Of, Lengths DEF IInv, MarkOK, MarkType
<1>3. CASE reset
    <2> DEFINE fl == SubSeq(forecasts, 1, mark[p].forecasts)
               el == SubSeq(evidence, 1, mark[p].evidence)
               m == Rebuilt(fl, el, outcomes)
    <2>1. mem'[p] \in {m, [m EXCEPT !.dirty = {}]}
        BY <1>3, OfAll DEF ReadOutcomes
    <2>2. /\ fl \in Seq(ForecastRecord) /\ Ordered(fl) /\ Len(fl) = mark[p].forecasts
          /\ \A x : Learned(x, fl, mark[p].forecasts)
                    <=> Learned(x, forecasts, mark[p].forecasts)
        BY <1>2, PrefixLearned DEF IInv, LedgersOK
    <2>3. el \in Seq(Evidence)
        BY <1>2, PrefixHolds DEF IInv, LedgersOK
    <2> HIDE DEF fl, el
    <2>4. m \in Memory
        BY <2>2, <2>3, RebuiltOK DEF IInv, LedgersOK, Sound, MemoryOK
    <2>5. Learned(m, forecasts, mark[p].forecasts) /\ Told(m, outcomes, Len(outcomes))
        BY <2>2, <2>3, RebuiltTells DEF IInv, LedgersOK
    <2> HIDE DEF m
    <2>6. Alike(m, mem'[p])
        <3>1. CASE mem'[p] = m
            BY <3>1, AlikeSelf
        <3>2. CASE mem'[p] = [m EXCEPT !.dirty = {}]
            BY <2>4, <3>2, TouchedAlike DEF Alike, SameLesson
        <3> QED
            BY <2>1, <3>1, <3>2
    <2>7. Learned(mem'[p], forecasts, mark[p].forecasts) /\ Told(mem'[p], outcomes, Len(outcomes))
        BY <2>5, <2>6, LearnedSame, ToldAlike DEF Alike
    <2> QED
        BY <1>1, <2>7 DEF Studies, StartsOver
<1>4. CASE ~reset
    <2> DEFINE m == MergeOutcomes(mem[p], outcomes, mark[p].outcomes)
    <2>1. mem'[p] \in {m, [m EXCEPT !.dirty = {}]}
        BY <1>4, OfAll DEF ReadOutcomes
    <2>2. m \in Memory
        <3>1. Sound(m, forecasts, evidence)
            BY Of, MergeOutcomesOK DEF IInv, LedgersOK, MarkType
        <3> QED
            BY <3>1 DEF Sound, MemoryOK
    <2> HIDE DEF m
    <2>3. Alike(mem'[p], m)
        BY <2>1, <2>2, AlikeSelf, TouchedAlike
    <2> QED
        BY <1>1, <2>3 DEF Studies, IsTold, m
<1> QED
    BY <1>3, <1>4

\* The merge of the tail an emission returns.
LEMMA EmissionStudies ==
    ASSUME IInv, IInv', Ordered(forecasts'), NEW p \in Proc, NEW reset, pc[p] # "closed",
           UNCHANGED <<forecasts, evidence>>,
           Alike(mem'[p], MemoryAfterEmit(p, reset)), mark'[p] = MarkAfterEmit(p, reset)
    PROVE  Studies(p)
<1>1. CASE reset
    <2>1. /\ Alike(mem'[p], Rebuilt(forecasts', evidence', outcomes'))
          /\ mark'[p] = AllRead(forecasts', evidence', outcomes')
        BY <1>1 DEF MemoryAfterEmit, MarkAfterEmit
    <2> QED
        BY <2>1, RebuildStudies
<1>2. CASE ~reset
    BY <1>2, OfAll DEF MemoryAfterEmit, MarkAfterEmit, MarkType, Studies, IsTold
<1> QED
    BY <1>1, <1>2

LEMMA ResolvingStudies ==
    ASSUME IInv, IInv', [Next]_vars, Ordered(forecasts'), NEW p \in Proc, NEW f \in queue[p],
           NEW reset,
           \/ ResolveOne(p, f, reset) \/ SweepOne(p, f, reset)
           \/ ResolveNothing(p, f)
    PROVE  Studies(p) /\ Alone(p)
<1>1. /\ Alone(p) /\ pc[p] # "closed" /\ UNCHANGED <<forecasts, evidence>>
    BY OfAll DEF Alone, ResolveOne, SweepOne, ResolveNothing, Return, ledgers
<1>2. CASE ResolveOne(p, f, reset) \/ SweepOne(p, f, reset)
    <2> DEFINE after == MemoryAfterEmit(p, reset)
    <2>1. /\ \/ mem'[p] = after
             \/ \E i : mem'[p] = [after EXCEPT !.cursor[f] = i]
          /\ mark'[p] = MarkAfterEmit(p, reset)
        BY <1>2, OfAll DEF ResolveOne, SweepOne
    <2>2. after \in Memory
        <3>1. CASE reset
            <4>1. forecasts \in Seq(ForecastRecord) /\ evidence \in Seq(Evidence)
                  /\ outcomes' \in Seq(Outcome)
                BY DEF IInv, LedgersOK
            <4>2. Sound(after, forecasts, evidence)
                BY <3>1, <4>1, RebuiltOK DEF MemoryAfterEmit
            <4> QED
                BY <4>2 DEF Sound, MemoryOK
        <3>2. CASE ~reset
            <4>1. outcomes' \in Seq(Outcome) /\ mark[p].outcomes \in Nat
                BY OfAll DEF IInv, LedgersOK, MarkType
            <4>2. Sound(after, forecasts, evidence)
                BY <3>2, <4>1, Of, MergeOutcomesOK DEF MemoryAfterEmit
            <4> QED
                BY <4>2 DEF Sound, MemoryOK
        <3> QED
            BY <3>1, <3>2
    <2> HIDE DEF after
    <2>3. Alike(mem'[p], after)
        <3>1. ASSUME NEW i PROVE Alike([after EXCEPT !.cursor[f] = i], after)
            BY <2>2 DEF Memory, Alike, SameLesson
        <3> QED
            BY <2>1, <3>1, AlikeSelf
    <2> QED
        BY <1>1, <2>1, <2>3, EmissionStudies DEF after
<1>3. CASE ResolveNothing(p, f)
    <2>1. PICK i : mem' = [mem EXCEPT ![p] = [mem[p] EXCEPT !.cursor[f] = i]]
        BY <1>3 DEF ResolveNothing
    <2>2. Alike(mem'[p], mem[p])
        BY <2>1, OfAll DEF Memory, Alike, SameLesson
    <2> QED
        BY <1>1, <1>3, <2>2 DEF ResolveNothing, ledgers, Studies, Keeps
<1> QED
    BY <1>2, <1>3

LEMMA NextStudies ==
    ASSUME "io" \notin Faults, IInv, IInv', Next, Ordered(forecasts), Ordered(forecasts')
    PROVE  \E p \in Proc : Studies(p) /\ Alone(p)
<1>1. PICK p \in Proc : OpenSubstrate(p) \/ Host(p) \/ Call(p) \/ Continue(p) \/ Crash(p)
    BY DEF Next
<1>2. CASE OpenSubstrate(p) \/ Call(p)
    BY <1>2, ReadForecastsStudies DEF OpenSubstrate, Call, StartProcess
<1>3. CASE Host(p)
    <2>1. CASE \E f \in Forecast, reset \in Resets :
                 Author(p, f, reset) \/ AmendExposure(p, f, reset)
        BY <2>1, FollowStudies DEF Author, AmendExposure
    <2>2. CASE \E r \in Evidence, reset \in Resets : Capture(p, r, reset)
        BY <2>2, CaptureStudies
    <2>3. CASE \E reset \in Resets : Status(p, reset)
        BY <2>3, ReadForecastsStudies DEF Status
    <2> QED
        BY <1>3, <2>1, <2>2, <2>3 DEF Host, ForecastAppendFails, CaptureFails
<1>4. CASE Continue(p)
    <2>1. CASE \E reset \in Resets : ReadEvidence(p, reset) \/ ReadOutcomes(p, reset)
        BY <2>1, ReadEvidenceStudies, ReadOutcomesStudies
    <2>2. CASE \E f \in queue[p], reset \in Rebuilds :
                 ResolveOne(p, f, reset) \/ SweepOne(p, f, reset) \/ ResolveNothing(p, f)
        BY <2>2, ResolvingStudies
    <2>3. CASE \E f \in queue[p] : ResolveNothing(p, f)
        BY <2>3, ResolvingStudies
    <2>4. CASE StartSweep(p) \/ (\E f \in queue[p] : SweepNothing(p, f)) \/ FinishProcess(p)
        <3>1. /\ Alone(p) /\ UNCHANGED <<mem, mark, forecasts, outcomes>> /\ pc[p] # "closed"
            BY <2>4, OfAll DEF Alone, StartSweep, SweepNothing, FinishProcess, Return, ledgers
        <3> QED
            BY <3>1, AlikeSelf DEF Studies, Keeps
    <2> QED
        BY <1>4, <2>1, <2>2, <2>3, <2>4 DEF Continue, ResolveFails, SweepFails, EmitFails
<1>5. CASE Crash(p)
    <2>1. /\ Alone(p) /\ mem'[p] = Blank /\ pc'[p] = "closed"
          /\ mark'[p].forecasts = 0 /\ mark'[p].outcomes = 0
        BY <1>5, OfAll DEF Alone, Crash, Unread
    <2> QED
        BY <2>1, BlankLearned, NothingTold DEF Studies, StartsOver
<1> QED
    BY <1>1, <1>2, <1>3, <1>4, <1>5

-----------------------------------------------------------------------------
(* What every instance has learned.                                        *)

Lessons ==
    /\ Ordered(forecasts)
    /\ \A p \in Proc : Learned(mem[p], forecasts, mark[p].forecasts)

LEMMA LessonsStay ==
    ASSUME "io" \notin Faults, IInv, IInv', Lessons, [Next]_vars
    PROVE  Lessons'
<1>1. Continues(forecasts, forecasts') /\ Ordered(forecasts')
    BY ForecastsContinue DEF Lessons
<1>2. CASE UNCHANGED vars
    BY <1>1, <1>2 DEF Lessons, vars
<1>3. CASE Next
    <2>1. PICK p \in Proc : Studies(p) /\ Alone(p)
        BY <1>1, <1>3, NextStudies DEF Lessons
    <2>2. \A q \in Proc : mark[q].forecasts \in 0 .. Len(forecasts)
        BY Of, Lengths DEF IInv, MarkOK, MarkType
    <2>3. forecasts \in Seq(ForecastRecord) /\ forecasts' \in Seq(ForecastRecord)
        BY DEF IInv, LedgersOK
    <2>4. \A q \in Proc : Learned(mem[q], forecasts', mark[q].forecasts)
        BY <1>1, <2>2, <2>3, LearnedContinues DEF Lessons
    <2>5. Learned(mem'[p], forecasts', mark'[p].forecasts)
        <3>1. CASE Keeps(p)
            BY <2>4, <3>1, LearnedSame DEF Keeps, Alike, SameLesson
        <3>2. CASE Hears(p)
            <4>1. mark[p].forecasts \in 0 .. Len(forecasts')
                BY <2>2, <2>3, <1>1, LenProperties DEF Continues
            <4>2. Learned(MergeForecasts(mem[p], forecasts', mark[p].forecasts),
                          forecasts', Len(forecasts'))
                BY <1>1, <2>3, <2>4, <4>1, OfAll, TailTeaches
            <4> QED
                BY <3>2, <4>2, LearnedSame DEF Hears, Alike, SameLesson
        <3>3. CASE IsTold(p)
            <4>1. SameLesson(mem[p], MergeOutcomes(mem[p], outcomes', mark[p].outcomes))
                BY OfAll, OtherLessons
            <4>2. SameLesson(mem[p], mem'[p])
                BY <3>3, <4>1 DEF IsTold, Alike, SameLesson
            <4> QED
                BY <2>4, <3>3, <4>2, LearnedSame DEF IsTold
        <3> QED
            BY <2>1, <3>1, <3>2, <3>3 DEF Studies, StartsOver
    <2> QED
        BY <1>1, <2>1, <2>4, <2>5 DEF Lessons, Alone
<1> QED
    BY <1>2, <1>3

LEMMA InitLessons == Init => Lessons
<1> SUFFICES ASSUME Init PROVE Lessons
    OBVIOUS
<1>1. Ordered(forecasts)
    BY DEF Init, Ordered
<1> QED
    BY <1>1, BlankLearned DEF Init, Lessons, Unread

LEMMA InvariantLessons ==
    ASSUME "io" \notin Faults
    PROVE  Spec => [](VInv /\ Lessons)
<1>1. VInv /\ Lessons /\ [Next]_vars => VInv' /\ Lessons'
    BY StepViews, LessonsStay DEF VInv
<1> QED
    BY <1>1, InitViews, InitLessons, PTL DEF Spec

\* What an instance opened anew on what p has read would hold.
Fresh(p) ==
    Rebuilt(SubSeq(forecasts, 1, mark[p].forecasts),
            SubSeq(evidence, 1, mark[p].evidence),
            SubSeq(outcomes, 1, mark[p].outcomes))

LEMMA FreshHolds ==
    ASSUME VInv, Lessons, NEW p \in Proc
    PROVE  /\ Fresh(p) \in Memory
           /\ Fresh(p).known = mem[p].known /\ Fresh(p).amended = mem[p].amended
           /\ Fresh(p).seen = mem[p].seen
           /\ \A f \in Forecast : Fresh(p).out[f] # None =>
                /\ f \in mem[p].known
                /\ \E i \in 1 .. mark[p].outcomes : outcomes[i].forecast = f
           /\ \A f \in Forecast : mem[p].out[f] # None => mem[p].out[f] = Fresh(p).out[f]
<1> DEFINE fl == SubSeq(forecasts, 1, mark[p].forecasts)
           el == SubSeq(evidence, 1, mark[p].evidence)
           ol == SubSeq(outcomes, 1, mark[p].outcomes)
           k == AllRead(fl, el, ol)
           fresh == Rebuilt(fl, el, ol)
<1>1. /\ mark[p].forecasts \in 0 .. Len(forecasts)
      /\ mark[p].evidence \in 0 .. Len(evidence)
      /\ mark[p].outcomes \in 0 .. Len(outcomes)
    BY Of, Lengths DEF VInv, IInv, MarkOK, MarkType
<1>2. /\ fl \in Seq(ForecastRecord) /\ Ordered(fl) /\ Len(fl) = mark[p].forecasts
      /\ \A m : Learned(m, fl, mark[p].forecasts) <=> Learned(m, forecasts, mark[p].forecasts)
    BY <1>1, PrefixLearned DEF VInv, IInv, LedgersOK, Lessons
<1>3. el \in Seq(Evidence) /\ Len(el) = mark[p].evidence
    BY <1>1, PrefixHolds DEF VInv, IInv, LedgersOK
<1>4. ol \in Seq(Outcome) /\ Len(ol) = mark[p].outcomes
    BY <1>1, PrefixHolds DEF VInv, IInv, LedgersOK
<1>5. \A i \in 1 .. mark[p].outcomes : ol[i] = outcomes[i]
    <2>1. Continues(ol, outcomes)
        BY <1>1, PrefixContinues DEF VInv, IInv, LedgersOK
    <2> QED
        BY <1>4, <2>1 DEF Continues
<1> HIDE DEF fl, el, ol
<1>6. OneOrTwo(ol)
    <2>1. DOMAIN ol = 1 .. mark[p].outcomes /\ DOMAIN ol \subseteq DOMAIN outcomes
        BY <1>1, <1>4, LenProperties DEF VInv, IInv, LedgersOK
    <2> QED
        BY <1>5, <2>1 DEF VInv, Shape, OneOrTwo
<1>7. Learned(fresh, fl, Len(fl)) /\ Told(fresh, ol, Len(ol))
    BY <1>2, <1>3, <1>4, RebuiltTells
<1>8. Accurate(fresh, k, {}, el, ol)
    <2>1. k.evidence = Len(el) /\ k.outcomes = Len(ol)
        BY DEF AllRead
    <2>2. Continues(el, el)
        BY <1>3, ContinuesSelf
    <2> HIDE DEF k
    <2> QED
        BY <1>2, <1>3, <1>4, <1>6, <2>1, <2>2, RebuiltAccurate
<1>9. Sound(fresh, fl, el)
    BY <1>2, <1>3, <1>4, RebuiltOK
<1>10. k.evidence = mark[p].evidence /\ k.outcomes = mark[p].outcomes
    BY <1>3, <1>4 DEF AllRead
<1> HIDE DEF k, fresh
<1>11. /\ fresh.known = mem[p].known /\ fresh.amended = mem[p].amended
    BY <1>2, <1>7 DEF Lessons, Learned
<1>12. fresh.seen = mem[p].seen
    BY <1>8, <1>10 DEF VInv, Views, View, Accurate, SeenAll
<1>13. ASSUME NEW f \in Forecast, fresh.out[f] # None
       PROVE  /\ f \in mem[p].known
              /\ \E i \in 1 .. mark[p].outcomes :
                   /\ IsLast(outcomes, f, i, mark[p].outcomes)
                   /\ fresh.out[f] = FoldExposure(mem[p].amended, outcomes[i])
    <2>1. PICK i \in 1 .. mark[p].outcomes :
              /\ IsLast(ol, f, i, mark[p].outcomes)
              /\ fresh.out[f] = FoldExposure(fresh.amended, ol[i])
        BY <1>8, <1>10, <1>13 DEF Accurate, OutFollows
    <2>2. \A j \in i + 1 .. mark[p].outcomes : j \in 1 .. mark[p].outcomes
        BY <1>1
    <2>3. IsLast(outcomes, f, i, mark[p].outcomes)
        BY <1>5, <2>1, <2>2 DEF IsLast
    <2> QED
        BY <1>5, <1>9, <1>11, <1>13, <2>1, <2>3 DEF Sound, MemoryOK
<1>14. ASSUME NEW f \in Forecast, mem[p].out[f] # None
       PROVE  mem[p].out[f] = fresh.out[f]
    <2>1. PICK i \in 1 .. mark[p].outcomes :
              /\ IsLast(outcomes, f, i, mark[p].outcomes)
              /\ mem[p].out[f] = FoldExposure(mem[p].amended, outcomes[i])
        BY <1>14 DEF VInv, Views, View, Accurate, OutFollows
    <2>2. f \in fresh.known
        BY <1>11, <1>14, Of DEF VInv, Sound, MemoryOK
    <2>3. fresh.out[f] # None
        BY <1>4, <1>5, <1>7, <2>1, <2>2 DEF Told, IsLast
    <2>4. PICK j \in 1 .. mark[p].outcomes :
              /\ IsLast(outcomes, f, j, mark[p].outcomes)
              /\ fresh.out[f] = FoldExposure(mem[p].amended, outcomes[j])
        BY <1>13, <2>3
    <2>5. i = j
        BY <1>1, <2>1, <2>4 DEF IsLast
    <2> QED
        BY <2>1, <2>4, <2>5
<1> QED
    BY <1>9, <1>11, <1>12, <1>13, <1>14 DEF Fresh, fresh, fl, el, ol, Sound, MemoryOK, IsLast

\* Whatever tails an instance has merged in whatever order, between two calls it knows
\* what it would know if it were opened anew on what it has read, and everything it
\* reports it would report then - unless an append has raised.  That it reports all the
\* other would report is true of a lone process only.
THEOREM RestartsAgree ==
    ASSUME "io" \notin Faults
    PROVE  Spec => []RestartAgrees
<1>1. VInv /\ Lessons => RestartAgrees
    BY FreshHolds DEF RestartAgrees, Fresh
<1> QED
    BY <1>1, InvariantLessons, PTL

-----------------------------------------------------------------------------
(* One process.                                                            *)

\* It is abreast of the forecasts, and reports something of each that has an outcome.
Abreast(p) ==
    /\ pc[p] # "closed" => mark[p].forecasts = Len(forecasts)
    /\ Told(mem[p], outcomes, mark[p].outcomes)

LEMMA AbreastStays ==
    ASSUME "io" \notin Faults, \A p, q \in Proc : p = q,
           IInv, IInv', Lessons, Lessons', OutcomesGrounded, OutcomeStep,
           \A p \in Proc : Abreast(p), [Next]_vars
    PROVE  \A p \in Proc : Abreast(p)'
<1>1. CASE UNCHANGED vars
    BY <1>1 DEF Abreast, vars
<1>2. CASE Next
    <2>1. PICK p \in Proc : Studies(p) /\ Alone(p)
        BY <1>2, NextStudies DEF Lessons
    <2>2. /\ outcomes \in Seq(Outcome) /\ outcomes' \in Seq(Outcome)
          /\ forecasts \in Seq(ForecastRecord)
          /\ mark[p].outcomes \in 0 .. Len(outcomes) /\ mark[p].forecasts \in 0 .. Len(forecasts)
          /\ Len(forecasts) \in Nat
        BY Of, Lengths DEF IInv, LedgersOK, MarkOK, MarkType
    <2>3. Continues(outcomes, outcomes')
        BY <2>2, OutcomesContinue
    <2>4. Told(mem[p], outcomes', mark[p].outcomes)
        BY <2>2, <2>3, ToldContinues DEF Abreast
    <2>5. CASE Keeps(p)
        <3>1. Alike(mem[p], mem'[p])
            BY <2>5 DEF Keeps, Alike, SameLesson
        <3>2. Told(mem'[p], outcomes', mark[p].outcomes)
            BY <2>4, <3>1, ToldAlike
        <3> QED
            BY <2>5, <3>2 DEF Keeps, Abreast
    <2>6. CASE Hears(p)
        <3> DEFINE mm == MergeForecasts(mem[p], forecasts', mark[p].forecasts)
        <3>1. ASSUME NEW f \in mm.known, NEW i \in 1 .. mark[p].outcomes,
                     outcomes[i].forecast = f
              PROVE  mm.out[f] # None
            <4>1. i \in DOMAIN outcomes /\ outcomes[i] \in Range(outcomes)
                BY <2>2, LenProperties DEF Range
            <4>2. f \in Forecast /\ Holds(forecasts, Declared(f))
                <5>1. outcomes[i] \in Outcome
                    BY <2>2, <4>1, LenProperties
                <5>2. outcomes[i].forecast \in Forecast
                    BY <5>1 DEF Outcome
                <5>3. Holds(forecasts, Declared(outcomes[i].forecast))
                    BY <4>1 DEF OutcomesGrounded
                <5> QED
                    BY <3>1, <5>2, <5>3
            <4>3. f \in mem[p].known
                <5>1. \E j \in 1 .. Len(forecasts) : forecasts[j] = Declared(f)
                    BY <2>2, <4>2, LenProperties DEF Holds
                <5> QED
                    BY <2>6, <4>2, <5>1 DEF Lessons, Learned, Abreast, Hears
            <4>4. mem[p].out[f] # None
                BY <3>1, <4>3 DEF Abreast, Told
            <4>5. mem[p].out[f] \in Outcome \cup {None}
                BY <4>2, OfAll DEF Memory
            <4>6. PICK exposed : mm.out[f] = FoldExposure(exposed, mem[p].out[f])
                BY <4>2, OfAll DEF MergeForecasts, Memory
            <4> QED
                BY <4>4, <4>5, <4>6, FoldType
        <3>2. Told(mm, outcomes, mark[p].outcomes)
            BY <3>1 DEF Told
        <3> HIDE DEF mm
        <3>3. Alike(mm, mem'[p])
            BY <2>6 DEF Hears, Alike, SameLesson, mm
        <3>4. Told(mem'[p], outcomes, mark[p].outcomes)
            BY <3>2, <3>3, ToldAlike
        <3> QED
            BY <2>6, <3>4 DEF Hears, Abreast
    <2>7. CASE IsTold(p)
        <3> DEFINE mm == MergeOutcomes(mem[p], outcomes', mark[p].outcomes)
        <3>1. mark[p].outcomes \in 0 .. Len(outcomes')
            BY <2>2, <2>3, LenProperties DEF Continues
        <3>2. Told(mm, outcomes', Len(outcomes'))
            BY <2>2, <2>4, <3>1, OfAll, TailTells
        <3> HIDE DEF mm
        <3>3. Alike(mm, mem'[p])
            BY <2>7 DEF IsTold, Alike, SameLesson, mm
        <3>4. Told(mem'[p], outcomes', Len(outcomes'))
            BY <3>2, <3>3, ToldAlike
        <3> QED
            BY <2>7, <3>4 DEF IsTold, Abreast
    <2>8. CASE StartsOver(p)
        BY <2>8 DEF StartsOver, Abreast
    <2> QED
        BY <2>1, <2>5, <2>6, <2>7, <2>8 DEF Studies
<1> QED
    BY <1>1, <1>2

\* A lone process reports, between two calls, exactly what it would report if it were
\* opened anew on what it has read: restart is free for it.  Two processes break this,
\* as the run substrate_restart shows: one of them may read an outcome before it has
\* read the forecast.
THEOREM LoneRestartsAreFree ==
    ASSUME "io" \notin Faults, \A p, q \in Proc : p = q
    PROVE  Spec => []RestartReports
<1> DEFINE LInv == /\ VInv /\ Lessons /\ OutcomesGrounded
                   /\ \A p \in Proc : Abreast(p)
<1>1. Init => \A p \in Proc : Abreast(p)
    BY NothingTold DEF Init, Abreast, Unread
<1>2. /\ VInv /\ Lessons /\ OutcomesGrounded /\ (VInv /\ Lessons)'
      /\ (\A p \in Proc : Abreast(p)) /\ [Next]_vars
      => (\A p \in Proc : Abreast(p))'
    <2> SUFFICES ASSUME VInv, Lessons, OutcomesGrounded, VInv', Lessons',
                        \A p \in Proc : Abreast(p), [Next]_vars
                 PROVE  \A p \in Proc : Abreast(p)'
        OBVIOUS
    <2> QED
        BY AbreastStays, StepViews DEF VInv
<1>3. VInv /\ Lessons /\ (\A p \in Proc : Abreast(p)) => RestartReports
    <2> SUFFICES ASSUME VInv, Lessons, \A q \in Proc : Abreast(q), NEW p \in Proc
                 PROVE  mem[p].out = Fresh(p).out
        BY DEF RestartReports, Fresh
    <2>1. mem[p] \in Memory
        BY OfAll DEF VInv
    <2>2. ASSUME NEW f \in Forecast, Fresh(p).out[f] # None
          PROVE  mem[p].out[f] # None
        BY <2>2, FreshHolds DEF Abreast, Told
    <2>3. \A f \in Forecast : mem[p].out[f] = Fresh(p).out[f]
        BY <2>2, FreshHolds
    <2> QED
        BY <2>1, <2>3, FreshHolds DEF Memory
<1> QED
    BY <1>1, <1>2, <1>3, InvariantLessons, OutcomesAreGrounded, PTL DEF Spec
=============================================================================
