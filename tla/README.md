# Verification of Hanish

Hanish is a zero-dependency Python substrate that records forecasts before their
evidence exists, captures what hosts observe, and resolves each forecast to HIT, MISS
or UNRESOLVABLE. This directory holds TLA+ models of its core, the TLC
configurations that check them on small instances, and theorems about them that TLAPS
checks for every value of the constants. `PROJECT.json` lists the runs, the source
lines behind each definition, the hazards, the findings and the theorems.

    tlc -workers 2 -config MCLedger.cfg MCLedger      # a run
    tlapm LedgerProofs.tla                            # the proofs of a module

Source paths below are relative to `src/`.

## 1. Inventory

| Component | State | Operations | What is hard about it |
|---|---|---|---|
| Ledger (`hanish/past/ledger.py`) | a JSONL file, a `.lock` file; per instance `_records`, `_watermark`, file identity and mtime, identity indexes | open (cold scan, tail repair), `append`, `append_unique`, `compare_and_append`, `synchronize`/`snapshot`, `repair` | several processes on one file; death or an exception between write and fsync; torn tails; replacement or truncation under a cached watermark |
| Substrate (`hanish/present/substrate.py`) | three ledgers; per instance everything derived from them: forecasts, exposure, observations by key, seals, invalid streams, outcomes, cursors, the dirty set | `author`, `amend_exposure`, `capture`, `process` (synchronize, resolve, sweep), `status`, open | three watermarks moved one after the other; provisional and settled outcomes raced for by processes with different views; evidence out of order; appends that raise and are swallowed; rebuilds in the middle of a loop |
| Events and claims (`hanish/past/events.py`, `hanish/future/claims.py`) | immutable records | construction, decoding, derivation of exposure and of informative absence | little: validation happens before anything is stored |
| Scoring (`hanish/future/scoring.py`) | none | comparison, Brier score | nothing |
| CI host (`hanish/adapters/ci.py`, `ci_cli.py`) | a forecast artifact, leg reports, a run directory with a substrate, `aggregation.json` | `author_forecast`, `write_leg_report`, `aggregate`, the legacy observation methods | jobs that fail, are cancelled or uploaded twice; reports of other attempts; captures that fail before the seal; an aggregator that dies or runs again |
| Receipts (`hanish/adapters/ci_receipt.py`) | receipt directories, staging directories | `export_receipt`, `verify_receipt` | must tell a finished, timely run from every other one by replay; several exports of one run meet under one name, die or fail half-way, and remove what they promoted |
| Corpus (`hanish/receipts.py`) | manifests, an exclusion registry | manifest verification, calibration samples, add-only checks | one receipt's amendments expose what another one offers; must fail closed before the first sample |
| Research integrity (`ci_cli.py` 461-738) | none; reads git | `check_research_integrity` | compares neighbours only, in whatever graph people push; starts from a head that need not have been accepted |
| Omega adapter, time helpers, demo, harness | none | | |
| CI workflow (`.github/workflows/ci.yml`, external) | artifacts by name | jobs forecast, test, package, host0 | order and failure of jobs |

**Interactions.** Processes share only ledger files. An operation on a ledger holds the
flock on its lock file throughout, and hands back every record read on the way; the
substrate merges these records into its derived state. There is no lock across the three
ledgers: `_sync_all_tails` reads forecasts, then evidence, then outcomes, and others
append in between. The transition rule of the outcome ledger is a callback that
`compare_and_append` runs under its lock. The CI host opens a fresh substrate
in a directory of its own, feeds it the events of one aggregation and a seal, and calls
`process` once; the exporter reads that directory and never trusts it.

**What makes each component correct.**

- Ledger: first write wins and transitions are obeyed against *all* earlier records,
  whoever wrote them; a record reported appended survives; an instance that trusts its
  watermark has read exactly that prefix; the lock is always given back.
- Substrate: one settled outcome per forecast, that of its first valid observation; a
  MISS by absence only from a complete stream; what instances report is what the
  ledger makes authoritative; exposed forecasts are never eligible; every
  forecast is closed, and settled if there is evidence.
- CI host and receipts: no verdict unless every leg of this attempt answered; an honest
  seal; one verdict per attempt in the receipts; no receipt of a MISS by absence.
- Export: what has a receipt's name is whole; nobody removes what another exporter made;
  a receipt that was returned stays; nothing is left over; every export ends.
- Research integrity and corpus: what any commit of an accepted range, or any head in an
  unbroken line of accepted pushes, had promoted or excluded is in the later head as it
  was; a sample that was once refused is never counted.

The hazards, at their lines, are in `PROJECT.json`.

## 2. Modules

| Module | Models |
|---|---|
| `DurableLog` | the abstract ledger: a log that grows by admitted entries, with a durable prefix |
| `Ledger` | `ledger.py`, several instances on one file |
| `MCLedger` | values for TLC |
| `LedgerProofs` | theorems about `Ledger` |
| `Scoreboard` | the abstract outcome of each forecast: closed at most once, settled at most once |
| `Substrate` | `substrate.py`, several instances on the three ledgers |
| `MCSubstrate` | values for TLC |
| `SubstrateProofs`, `SubstrateVerdictProofs` | theorems: types, exposure and `Scoreboard`; what verdicts, misses and reports say |
| `SubstrateLogProofs`, `SubstrateRestartProofs` | theorems: the ledgers as durable logs, and what outcomes rest on; what a restart changes |
| `Host0` | `ci.py`, `ci_cli.py`, `ci_receipt.py`: jobs, aggregators, exporter |
| `MCHost0`, `Host0Proofs` | values for TLC, theorems |
| `Receipt` | the abstract name of a receipt: taken at once by a whole directory, given back only by who took it |
| `Exporter` | the staging, promotion and removal of `export_receipt`, several exporters of one run |
| `MCExporter`, `ExporterProofs` | values for TLC, theorems |
| `Corpus` | the registry and the eligible samples of `receipts.py`, as pure operators |
| `History` | `check_research_integrity` over a repository that people commit to and push |
| `MCHistory`, `HistoryProofs` | values for TLC, theorems |

The models are stacked by what they promise. `Ledger` implements `DurableLog`; a ledger
operation in `Substrate` is one step that takes effect at its write, which is what that
refinement justifies, plus steps in which the append raises. The two meet in
`DurableLog`: `Substrate` implements three instances of it (`ImplementsLogs`), one per
ledger, each with the rule under which that ledger lets a record in. `Substrate` implements
`Scoreboard`; `Host0` uses a substrate in the only way the host does (one process, one
forecast, one `process` call) and has what it decides as the operator `Judgement`. What
`Host0` exports in one step, `Exporter` takes apart into the operations on the file system,
and implements `Receipt`, in which a receipt comes about in one step again; the receipts
that come of it are the files `History` finds in the trees of commits, from which `Corpus`
computes what may be counted.

### Ledger

State: `lines`, `torn` and `durable` are the file; `lock` the flock; `read`, `watermark` and
`index` an instance; `moved` and `touched` say for which instances the path names another
inode, or the mtime has changed, since they looked. `acked` and `accepted` are history. An
instance opens in two steps: `Touch` creates or touches the file, before the lock is taken,
so that every other instance finds another mtime, and `OpenLedger` scans it and repairs its
tail. An append takes three steps under the lock: `BeginAppend`, `BeginUnique` or
`BeginCompare` (synchronize, look up, decide), `WriteLine` or `WriteFails`, and
`FinishAppend` or `FsyncFails`. `Crash` may fall between any of them and leave part of a
line; `PowerLoss` takes lines no fsync has covered; `Replace`, `Truncate` and `AlienLine`
are other users of the file.

### Substrate

State: the three ledgers; per process `mark` (three watermarks), `mem` (the derived
state), `queue` (what `process` has yet to look at) and the control state. The merge
operators `MergeForecasts`, `MergeEvidence` and `MergeOutcomes` are the tail
merges, and `Rebuilt` composes them as `_rebuild` does. `process` is `StartProcess` (the
forecast tail), `ReadEvidence`, `ReadOutcomes`, then `ResolveOne` or `ResolveNothing` for
each dirty forecast, then `StartSweep` and `SweepOne` or `SweepNothing` for each expired
one, in any order, since the code iterates over a set and a dictionary. Each of
them may meet a ledger that looks replaced (`reset`: another file has its name, or an
instance that opens has touched it; `Resets` says whether this happens, `Rebuilds` whether it
does at the appends of `process`), and each append may raise (`...Fails`):
`process` swallows that, `capture` answers False, and the records read on the way
are lost to the instance because its ledger has moved its watermark already.

Coarser than the code: the synchronization at the beginning of `author` and `amend_exposure`
is one step with the append that follows it; the rebuild after a reset reads the two other
ledgers in the step of the operation that met the reset, except in `_sync_all_tails`; a
forecast has one amendment, where the code keeps several that differ (the first has exposed
the forecast already). What others append in between can be appended before the step as
well, unless it answers the very record the step has written; in `_sync_all_tails`, where
finding 1 comes from, the three reads are three steps.

### Host0

State: the forecast `artifact`, which may be cut short (`Parts`), and the `inbox` of
downloaded reports; per execution of the aggregator its `CIAggregation`, how many events it
has captured, `capture_ok`, its evidence and outcome ledger, and the record it writes last;
the promoted `receipts`. `StartAggregate` is `aggregate` up to the first capture: it
classifies every report, withholds the aggregate if anything is amiss and lays out the
events by slot. It reads of the artifact only identity and plan; what else may be missing
there, the verifier notices. Then `CaptureEvent` for each event, `CaptureSeal`, `Process`
and `Record`, with `CrashAggregator` in between and appends that raise before or after the
line reached the file. `Export` is enabled where the verifier accepts the directory: the
record claims completeness, and reports, evidence, seal and outcome replay from each other.

### Exporter

State: `final`, the directory that has the receipt's name; the `files` of each directory
that are as they should be; who still has a `staging` directory; per exporter its
position `pc`, the files it has verified (`read`) and the directory it is removing
(`opened`). `Begin`, `CopyFile` and `BuildManifest` stage; `LookUp` is `os.path.lexists`;
from there an exporter compares (`VerifyFile` file by file, then `ReturnExisting`) or
promotes (`Rename`, which POSIX lets replace an empty directory and no other) and verifies
what it promoted (`ReturnPromoted`). The handler at the end of `export_receipt` is
`Discard`, or, after the renaming, `OpenFinal`, `RemoveFile`, `RemoveName`: `rmtree`
is given a path, so it opens what has the name then. Reads, writes, renamings and removals
may fail (`"io"`), processes may be killed (`"crash"`); which of the two may happen, and
whether the name is free or taken by a damaged directory at the start, is chosen in
`Init`. The exports of different runs have different names and nothing in common.

### History and Corpus

State: `commits` (parents, ancestors, a tree each), where the default branch is, and the
`checks`, one for each push to it and each pull request. People commit changes of any file,
move files, append to the registry, cut it back or delete it, merge (any mix of the two
sides, or the lines of both), begin unrelated histories and push whatever they like wherever
main was. `StartCheck` selects the base (`_select_base`; the merge base with the default
branch *as it is by then* if there was no former head) and refuses one that is no ancestor,
and root commits; `Walk` takes the next commit of the list `git rev-list --topo-order` has
made (`NextListed`: any order that has parents before children) and compares it with each of
its parents; the check itself waits for nothing; `FinishCheck` verifies registry and
receipts of the head. A receipt whose directory holds a file its manifest does not list
(`Unlisted`) is not sound. One commit changes or moves one file, unless it merges; what a
real commit does to several files at once takes several commits here. A diff is reported
with any pairing of deletions and additions as renamings, as git's similarity threshold may
have it. `Corpus` says which registries are valid and how they may grow, and which samples
`iter_eligible_calibration_samples` hands out.

## 3. Runs

| Run | Instance | Shows |
|---|---|---|
| `ledger` | 2 processes, 1 key, 2 values, 3 lines; `append_unique` and `compare_and_append`; power loss, foreign lines, replacement; fairness | types, sound staleness check, admission, durability, `DurableLog`, every append leaves its critical section |
| `ledger_restore` | 1 process, 2 keys, all appends; power loss, truncation | the size check catches a shortened file |
| `substrate` | 2 processes, 1 forecast, 2 disagreeing observations and a seal that says there are none, rebuilds inside `process`; fairness | first valid observation, justified MISS, reports, what a restart changes, no evidence lost, `Scoreboard`, liveness |
| `substrate_faults` | 2 processes, exposure amendments, conflicting observations, appends that raise, resets, crashes | types, exposure, grounded outcomes, expired forecasts recorded and none before its time, `Scoreboard` and the three `DurableLog`s survive faults |
| `substrate_restart` | 2 processes | **violation**: finding 1 |
| `substrate_lost_work` | 1 process, appends that raise | **violation**: finding 2 |
| `substrate_reset` | 2 processes, 2 forecasts, resets | **violation**: finding 3 |
| `host0` | a plan of 2 legs, 3 uploads among 11 kinds of report, times before, at and after the horizon; cut-off artifacts, crashes and failing appends | types, seal, verdict, lateness of absences, receipts |
| `host0_again` | the same plan, 2 executions, 3 uploads, crashes | receipts agree |
| `exporter` | 3 exporters, a payload file and the manifest; with and without failing operations, crashes and a damaged directory in place; fairness | whole receipts, nobody else's removals, returned receipts stay, no litter, `Receipt`, every export ends |
| `exporter_returned` | the same, failing operations | **violation**: finding 4 |
| `history` | 2 receipts of which one exposes the other's sample, 2 keys, a registry of up to 2 lines, 4 commits, 2 checks | types, accepted ranges, lines of pushes, refused samples |

**Why the bounds are enough.** *Ledger*: an instance is at fault only in what it believes
about the file, so one other process suffices to change it. Three lines hold a record, what
another process put behind it and what is appended after a tail merge; one key is enough
since keys do not interact, and two values exercise conflict, exact retry and the
provisional-to-final transition. `MaxLines` is in the guards of the appends and of
`AlienLine` only. *Substrate*: forecasts interact only through the queue and through resets,
so races need one forecast and two processes. Two observations in either order are what
"first valid" tells apart. The seal has final number 0, as in the repository's tests of
silent channels: an instance that reads it before any observation records a MISS by absence,
one that reads an observation first must not, and both race to the ledger. Streams with
slots take more observations than the liveness properties leave room for. They are met in
`host0`, where a MISS by absence rests on every slot of a plan (`AbsenceIsLateness`), and in
`MCSubstrateMiss.cfg` (safety only): two observations, too late for the forecast, that claim
the first slot, one in time in the second, and seals over one, two or three slots, so that
slots are full, missing, doubled or one too many. Resets outside `process` and crashes are
in `substrate_faults`, where appends raise as well, so that of what is said of verdicts only
`OutcomesGrounded`, `SilenceRecorded` and `ClosedWhenOver` remain; the theorems about
verdicts have resets and crashes. Seals are missing there for the number of states, so that
what `OutcomesGrounded` says of a MISS by absence is met only in `MCSubstrateGrounded.cfg`
(types and outcomes, with a seal and one observation), in `MCSubstrateMiss.cfg`, and by the
theorem. `RestartAgrees` is also checked with amendments and crashes
(`MCSubstrateAmended.cfg`), and together with `RestartReports` for a lone process
(`MCSubstrateLone.cfg`). With one forecast the branch of `SweepOne` in which a rebuild finds
another number of forecasts is reached only from the outside (the sweep ends); the proofs
cover it for any number. `AtTimes = {4}` with the horizon at 3: `process` always both
resolves and sweeps, which includes resolving late evidence that arrived in time; in
`substrate_faults` it is called at the horizon, too. *Host0*: two legs distinguish "all",
"some" and "none"; a third upload makes a duplicate, a foreign or a damaged report possible
beside a full set; the three times fall inside the window, at its end and after it. The run
with two executions leaves failing appends out, because their number squares; the theorems
have both at once. *Exporter*: two exporters race for the name, and a third one may find in
between what one of them promoted or removes; one payload file and the manifest make a
directory that is empty, partial or whole. *History*: four commits are a base, two branches
and their merge, or a registry introduced, deleted and introduced again; two checks are a
head and a later one, since a longer line of pushes is made of such pairs; two lines tell
order from membership; and a second receipt exposes what the first one offers. A third path,
which no manifest lists, is in `MCHistoryUnlisted.cfg`. The theorems have any graph, any
number of pushes and any receipts.

**Symmetry.** Permutations of processes, of the names of uploads, or of executions, none of
which the code compares otherwise than for equality, and only in runs that check safety. The
refinement properties are safety properties without fairness.

**Deadlock.** TLC checks it except where the system may stop: in the two Host0 runs (a
host that has stopped, with an inbox that is full, has nothing left to do), in the runs of
`Exporter` (every export has ended) and of `History` (nobody commits or pushes any more).
That every export ends is the property `ExportEnds`.

**Fairness.** `Ledger`: weak fairness of the steps of a process that holds the lock. The
code has no wait inside the critical section, and the steps stay enabled; a crash
is an alternative, so a process need not survive. Nothing is assumed of new calls.
`Substrate`: weak fairness of the steps of a call under way, since nothing blocks
it for good, and of reopening; strong fairness of calling `process`, since hosts call it at
their boundaries again and again, and other calls in between make it enabled only
repeatedly. The run `substrate` has no failing appends: finding 2 shows
what they do.
`Exporter`: weak fairness of the steps of an export under way; it waits for nobody, and a
kill is an alternative. `History` assumes none.

**Mutants.** Every property of a passing run is paired with a plausible mistake in one
definition (`PROJECT.json`, `mutants`; in the modules, "Mutated form"), which TLC
catches with that property: an index consulted before the tail merge, an ignored
inode, a repair that cuts a line too many, the latest observation instead of the first, a
provisional closure taken for final, an unchecked capture, any failing step taken for
a product failure, one acceptable report out of several, and so on.

## 4. Findings

1. *Outcome before forecast* (`substrate_restart`). An outcome whose forecast the
   instance does not know yet is dropped and its watermark moves on; "restart is
   free" does not hold, since a restart changes what is reported. It does for a lone
   process (`LoneRestartsAreFree`), and with several it can only add to what is
   reported, never take back or change it (`RestartsAgree`).
2. *Lost work* (`substrate_lost_work`). The dirty set is cleared before the outcomes are
   appended. If the append raises, the forecast's evidence is not looked at again and the
   next sweep records a MISS by absence, against the observation in the ledger.
3. *A rebuild in the middle of process()* (`substrate_reset`). An append that finds its ledger
  looking replaced rebuilds the memory from all three ledgers, and so merges what was not
  there when `process` began. A forecast that merged evidence answers becomes dirty, but the
  resolution is over: the sweep goes on, finds the stream sealed and complete, and records a
  MISS by absence, which is final. Opening a ledger touches its file, and at an unchanged
  size a new mtime is taken for a replacement; so no fault is needed, only a second process
  that opens at the wrong moment. In TLC's shortest trace it authors the forecast; in the
  Python code, evidence it captured was disregarded in the same way. With one forecast, as in
  the run `substrate`, nobody is left to be swept after the append.
4. *A returned receipt is removed* (`exporter_returned`). An exporter whose verification
   after the renaming meets a read error removes the receipt, which another exporter of
   the run may have found, verified and returned in between. The design calls a
   promoted receipt "a new immutable directory".

Findings 1, 2 and 3, and the third of the following, were confirmed by running the Python
code.

Further disagreements met while modelling have a configuration that reproduces them, apart
from the runs of `PROJECT.json`:

- *Truncate and regrow* (`MCLedgerRegrow.cfg`). A file cut back in place and grown past
  the watermark by another process passes the checks of identity, size and mtime at
  unchanged size, and a tail is merged onto records that are gone; the docstring of
  `_sync_tail_locked` promises a full rescan on truncation. Everything proved of
  instances' views assumes that nobody shortens a file in place.
- *Retry after a failed fsync* (`MCLedgerRetry.cfg`). The record is in the file but not
  synced; the retry is declined as a duplicate and acknowledged, and a power failure
  takes it. `capture` promises "durably accepted".
- *Conflicts are remembered in memory only* (`MCSubstrateStreams.cfg`). A stream that a
  conflict has made invalid is valid again after a restart, and in every other process.
- *After a rejected push* (`MCHistoryNextPush.cfg`). A push is checked after the fact and
  from the former head of main, whether or not that head was accepted. A push that
  deletes a receipt is rejected, but stays, and the next one starts from it and is
  accepted; `PromotedForGood` therefore speaks of unbroken lines of accepted pushes. The
  changelog says "CI rejects any edit, move, or deletion" of a receipt.

Met on the way, and no contradiction of a stated promise: `aggregate` returns 0 even if
its one outcome could not be appended (the exporter refuses the directory); an
aggregation after the horizon records a MISS by absence although every check passed (the
exporter refuses that, too: `ReceiptTrue`); an exporter that loses the race for the
renaming raises although the receipt it wanted is there by then (`EndedMeansThere`); one
that is killed while it stages leaves its staging directory for good; a damaged directory
under a receipt's name makes every export of that run fail until somebody removes it.

## 5. What is proved

All theorems are about the specifications TLC runs, for any number of
processes, forecasts, records, reports, legs and executions. They assume the named
`ASSUME`s of the modules (types of the constants; in `Substrate` that no observation is
mistaken for none, as a key is never Python's `None`; in `Host0` that the repository's plan is
a plan and names no leg twice, which `Host0Plan.__post_init__` enforces).

| Theorem | States |
|---|---|
| `LedgerProofs!TypeCorrect` | `[]TypeOK` |
| `LedgerProofs!AppendIsDurable` | `[]AppendedIsDurable` |
| `LedgerProofs!FreshIsPrefix` | `[]FreshMeansPrefix`, without in-place truncation |
| `LedgerProofs!LinesAreAdmitted` | `[]EveryLineAdmitted`, same assumption |
| `LedgerProofs!LedgerRefines` | `Spec => DurableLog`, same assumption |
| `SubstrateProofs!TypeCorrect` | `[]TypeOK`, with what instances may hold, given the ledgers |
| `SubstrateProofs!ExposedStaysIneligible` | `[]ExposedNeverEligible` |
| `SubstrateProofs!ScoreboardRefined` | `Spec => Scoreboard` |
| `SubstrateVerdictProofs!ReportsAreAuthoritative` | `[]ReportsAuthoritative`, unless an append raises |
| `SubstrateVerdictProofs!NoEvidenceIsLost` | `[]EvidenceKept`, unless an append raises |
| `SubstrateVerdictProofs!VerdictsAreFirstValid` | `[]FirstValidTerminal`, unless an append raises |
| `SubstrateVerdictProofs!MissesAreJustified` | `[]MissJustified`, unless an append raises or one of `process` finds its ledger looking replaced |
| `SubstrateLogProofs!LogsRefined` | `Spec => DurableLog`, of each ledger, with every fault |
| `SubstrateLogProofs!OutcomesAreGrounded` | `[]OutcomesGrounded`, with every fault |
| `SubstrateLogProofs!NoSilenceIsLost` | `[]SilenceRecorded`, with every fault |
| `SubstrateLogProofs!ClosuresAreLate` | `ClosedWhenOver`, with every fault |
| `SubstrateRestartProofs!RestartsAgree` | `[]RestartAgrees`, unless an append raises |
| `SubstrateRestartProofs!LoneRestartsAreFree` | `[]RestartReports` of a lone process, unless an append raises |
| `Host0Proofs!TypeCorrect` | `[]TypeOK` |
| `Host0Proofs!SealsAreHonest` | `[]SealHonest` |
| `Host0Proofs!VerdictsAreJustified` | `[]VerdictJustified` |
| `Host0Proofs!AbsencesAreLateness` | `[]AbsenceIsLateness` |
| `Host0Proofs!ReceiptsAreOne` | `[]ReceiptsAgree` |
| `Host0Proofs!ReceiptsAreTrue` | `[]ReceiptTrue` |
| `ExporterProofs!TypeCorrect` | `[]TypeOK`: no directory has two names |
| `ExporterProofs!PartialIsRetracted` | `[]PartialOnlyIfRetracted`, with every fault |
| `ExporterProofs!RemovalsAreOwn` | `OnlyOwnRemoved`, with every fault |
| `ExporterProofs!EndedIsThere` | `[]EndedMeansThere` |
| `ExporterProofs!NothingIsLittered` | `[]NoLitter` |
| `ExporterProofs!ReturnedIsForGood` | `ReturnedStays` |
| `ExporterProofs!ReceiptRefined` | `Spec => Receipt`, with every fault |
| `HistoryProofs!TypeCorrect` | `[]TypeOK`, with the commit graph |
| `HistoryProofs!AcceptedRangeIsKept` | `[]AcceptedRangeKeeps` |
| `HistoryProofs!PromotionsAreForGood` | `[]PromotedForGood` |
| `HistoryProofs!RefusalsAreForGood` | `[]NeverReadmitted` |

**Ledger.** Types are inductive with `SectionOK`: whoever is in the critical section
holds the lock, and the file has no torn tail there unless a write just failed.
`FreshMeansPrefix` is not inductive, because a stale instance may become fresh-looking
again. `SnapshotOK` strengthens it: an instance the path has not moved away from
holds a prefix of the file up to its watermark (`Knows`), and inside the critical
section it knows all of the file. Only `Truncate` breaks it, hence the assumption.
Admission then follows because the index consulted at `Begin...` is that of the whole
file, and stays so until the write since the lock is held.

**Substrate.** The invariant has four parts: the ledgers hold what they may hold; the
control state and the locals of `process` fit together; the watermarks lie within the
ledgers; and each memory is `MemoryOK`, in particular folded by the exposures it knows.
Every merge operator has a lemma that it preserves this. `ScoreboardRefined` needs of the
outcome ledger only what `TransitionAllowed` guards, evaluated on the whole ledger under its
lock: `Verdict` of the outcomes of a forecast changes as `Close` or `Settle` allow.

What the outcomes *say* is a matter of what their authors had read, and needs more
(`VInv`). `Accurate`: an instance has merged the evidence up to its mark without a gap; no
cursor of an open forecast has passed anything admissible; every open forecast with
admissible evidence is dirty or still in the queue of `process`; and an outcome an instance
has adopted is the last one it has read. It is all four together that is inductive: a cursor is
moved back or a forecast marked dirty by the merge of an observation *unless* its outcome
is settled in the instance's eyes, so the views of outcomes must be right before those of
evidence are, and a merge of outcomes may close a forecast whose evidence the instance
has not read yet. An append that raises breaks the first part, hence the
assumption. Now the observation that `_resolve_from_evidence` scores is the first
admissible one at or after the cursor, and so the first of all. For a MISS the sweep must
also know that there is none, so nothing may be dirty from the end of the resolution on
(`AllTakenOver`), which is what a rebuild in between undoes (finding 3). That the set of
slots `1..final` with as many records as slots has one record for each is a fact about
cardinalities.

What is left of the verdicts when appends raise is `OutcomesGrounded`, and that needs no
account of who had read what: an instance scores only what it holds, all it
holds is in the ledgers (`TypeOK`), and ledgers only grow. For a MISS by absence the
records its instance counted are in the evidence ledger as well (`OutcomesAreGrounded`).
`LogsRefined` maps the durable prefix of `DurableLog` to nothing, since what survives a
power failure is the business of `Ledger`; what it says is that no step appends two
records, or one its rule rejects. The rules speak of all earlier records of the ledger: no
forecast is declared twice, no identity is in the evidence twice, an outcome
passes `TransitionAllowed`.

*What `process` leaves behind.* `EvidenceKept` is `NothingForgotten`, a part of `Accurate`, as
a user of the substrate sees it. `SilenceRecorded` holds with every fault, since it rests on the
ledger alone: an expired forecast leaves the queue of the sweep either because the instance
reports something of it, and nobody reports what is not in the ledger (`Recorded`, which
each merge keeps), or because a closure was emitted, and then it is there or another
outcome was there before (`EmittedIsThere`); an append that raises ends the call. The
converse, that nothing is closed early, is `ClosedWhenOver`: the sweep's queue holds
overdue forecasts only (`Overdue`), whoever else writes meanwhile, and an outcome without an
observation comes from the sweep (`Emissions`). `VerdictsAreFirstValid`,
`MissesAreJustified`, `NoEvidenceIsLost`, `NoSilenceIsLost` and `ClosuresAreLate`, read for a
process that is alone and not interrupted, are why `Host0` takes one call of `process` for
the operator `Judgement`; that reading is not itself a theorem.

*Restarts.* What an instance knows came to it in tails, merged in whatever order calls
and other processes made of them; a fresh instance reads the same records in one go, ledger by
ledger. To compare the two, every step is first brought down to what it does to the memory
and marks of its process (`NextStudies`): it changes nothing of forecasts and outcomes
(`Keeps`), merges a tail of the one (`Hears`) or of the other (`IsTold`), or starts over
from all it reads (`StartsOver`). Of these, `Lessons` is inductive: an instance knows
exactly the forecasts and amendments among the records it has read (`Ordered`, `Learned`).
That its evidence is what it has read, and what it has adopted is the last outcome it has
read of a forecast, is part of `VInv`; a memory built at once has all of this by `FreshHolds`.
What the older instance may miss is an outcome it read before the forecast. A lone
process misses none (`Abreast`): all forecasts are its own, so it has read every one of
them, and reports something of each it has read an outcome of (`Told`).

**Host0.** `Heard`: a complete aggregation on record or under way has, for each required
leg, an acceptable report that is still in the inbox. `Same`: any two of them have the same
reports, since an aggregation accepts a leg's report only if it is the leg's *only* one, so
that an earlier answer, never removed, is the one found again. `Faithful`: the lines of an
execution under way are its aggregation's events as far as captured, if no capture failed,
so that a complete seal comes right after one line per slot. The lemma `RankTaken` (of a
finite set of naturals, every rank is taken) and `EventsOK` say what the layout of events by
slot yields for any plan. From these and the substrate's rule that every slot is filled once
it follows that a MISS by absence has all events and a complete seal before it, so that only
their lateness can have kept the aggregate from answering (`AbsenceIsLateness`). `Promoted`
ties a receipt to its execution, and `AgainOK` shows that the stored reports aggregate to
themselves.

**Exporter.** `Placed` ties the position of each exporter to its directory: what it has
copied is a part of the receipt, a staged directory is whole, it has the final name only
from the renaming on, and what is being removed is what had the name. In `Calm`, when only
processes fail, the name once taken is kept, an exporter that verifies finds every file, and
nobody ever gets to the removal; what was there before is never the target of a renaming
unless it is empty. `ReceiptRefined` maps each step to what it does to the name and to the
files under it (`NameSteps`): all of staging is a stutter, since a directory that is being
filled or discarded does not have the name, and the only step in which the name gets files
is the renaming. A removal stays the removal of an exporter's own directory although `rmdir`
goes by the path: it succeeds only if there is nothing in what has the name by then.

**History.** A diff that passes keeps receipts and registry (`DiffKeeps`, whatever renamings
git reports), and keeping is reflexive and transitive. `WalkOK` says what a walk has
established so far: each visited commit keeps all that those of its ancestors hold that are
in the range, or are the base. A commit is visited after its parents in the range, and an
ancestor of it is one of theirs, or itself; a parent outside the range can only be the base,
or have no ancestor that matters (`VisitKeeps`). So the head keeps the whole range, although
only neighbours were compared. `ChainOK`: each push is checked from the head of the push
before it; the first push at which something would be missing contradicts the range of its
own check (`PushesKeep`). Exclusions and exposures only grow along such a line
(`CorpusGrows`), hence what is eligible later was so before, as far as it was offered.

**Only model-checked.** Liveness (`AppendReturns`, `EvidenceSettles`,
`EveryForecastCloses`, `ExportEnds`) and everything that needs ENABLED is out of reach of the
prover. What a call of `process` owes to them is a safety property, and proved: it ends
with every expired forecast recorded (`NoSilenceIsLost`), and loses no evidence it has read
(`NoEvidenceIsLost`), so that fairness has only to bring the next call about. Every
invariant and every action property a run checks is the subject of a theorem.

## 6. Not modelled

Byte-level decoding and the counters of skipped or lost lines; schema versions (a record of
a newer version raises in the middle of a synchronization); `declare` after construction;
validation in constructors; Brier scores; the legacy methods of the CI adapter, whose
sequence numbers are process-local; the dependency inventory; `_cleanup_lock_files` (the
run directory has one process); canonical JSON, digests and the fields of exclusion records
(a file is as bound or not, a line valid or not); symbolic links; a power failure after
the promotion of a receipt, of which only the manifest was synced; a base given to the
research-integrity check on the command line; malformed output of git; the Omega
adapter, the demo and the harness.

## 7. Plan

Done, in this order: `Ledger` with `DurableLog`; `Substrate` with `Scoreboard`; `Host0`;
`Corpus` and `History`; `Exporter` with `Receipt`; the theorems above. Next:

1. In `Substrate`: two forecasts with different horizons; schema versions and the exception
   they raise between two watermarks; late `declare` (both change what an instance's memory
   is a function of, and with it the invariant of `SubstrateProofs`).
2. A power failure in `Exporter`, with which file systems keep which files.
3. As a theorem: what one uninterrupted `process` of a lone `Substrate` leaves in the outcome
   ledger is `Judgement` of the evidence, which `Host0` takes for granted.
