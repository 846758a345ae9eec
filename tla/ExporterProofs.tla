--------------------------- MODULE ExporterProofs ---------------------------
(***************************************************************************)
(* Theorems about Exporter, for every number of exporters and files.       *)
(***************************************************************************)
EXTENDS Exporter, TLAPS

-----------------------------------------------------------------------------
(* Where the directory of an exporter is, and what it holds.               *)

Placed(e) ==
    /\ pc[e] \in {"staged", "comparing", "promoting"} => Whole(e)
    /\ pc[e] \in {"verifying", "retracting"} => final = e /\ Whole(e)
    /\ opened[e] \in {None, e}
    /\ pc[e] = "removing" => opened[e] = e
    /\ final = e =>
         pc[e] \in {"verifying", "retracting", "removing", "returned", "raised", "dead"}
    /\ final = e /\ ~Whole(e) => opened[e] = e /\ pc[e] \in {"removing", "raised", "dead"}

\* What was there before stays, and then nobody promotes anything.
FormerOK ==
    /\ files[Other] = OtherFiles
    /\ former = None => final # Other
    /\ former = Other =>
         /\ final = Other
         /\ \A e \in Exporter :
              pc[e] \notin {"promoting", "verifying", "retracting", "removing"}

Inv ==
    /\ TypeOK
    /\ \A e \in Exporter : Placed(e)
    /\ FormerOK

LEMMA InitInv ==
    ASSUME Init
    PROVE  Inv
    BY ExporterAssumption
    DEF Init, Inv, TypeOK, Placed, FormerOK, Whole, File, Directory

LEMMA NextInv ==
    ASSUME Inv, [Next]_vars
    PROVE  Inv'
<1> USE ExporterAssumption DEF Inv, TypeOK, Placed, FormerOK, Whole, File, Directory, Goto, fixed
<1>1. ASSUME NEW e \in Exporter, Begin(e), UNCHANGED fixed
      PROVE  Inv'
    BY <1>1 DEF Begin
<1>2. ASSUME NEW e \in Exporter, CopyFile(e), UNCHANGED fixed
      PROVE  Inv'
    BY <1>2 DEF CopyFile
<1>3. ASSUME NEW e \in Exporter, BuildManifest(e), UNCHANGED fixed
      PROVE  Inv'
    BY <1>3 DEF BuildManifest
<1>4. ASSUME NEW e \in Exporter, WriteFails(e), UNCHANGED fixed
      PROVE  Inv'
    BY <1>4 DEF WriteFails
<1>5. ASSUME NEW e \in Exporter, LookUp(e), UNCHANGED fixed
      PROVE  Inv'
    BY <1>5 DEF LookUp
<1>6. ASSUME NEW e \in Exporter, VerifyFile(e), UNCHANGED fixed
      PROVE  Inv'
    BY <1>6 DEF VerifyFile
<1>7. ASSUME NEW e \in Exporter, VerifyFails(e), UNCHANGED fixed
      PROVE  Inv'
    BY <1>7 DEF VerifyFails
<1>8. ASSUME NEW e \in Exporter, ReturnExisting(e), UNCHANGED fixed
      PROVE  Inv'
    BY <1>8 DEF ReturnExisting, Verified
<1>9. ASSUME NEW e \in Exporter, DiscardFails(e), UNCHANGED fixed
      PROVE  Inv'
    BY <1>9 DEF DiscardFails
<1>10. ASSUME NEW e \in Exporter, Rename(e), UNCHANGED fixed
      PROVE  Inv'
    BY <1>10 DEF Rename
<1>11. ASSUME NEW e \in Exporter, RenameFails(e), UNCHANGED fixed
      PROVE  Inv'
    BY <1>11 DEF RenameFails
<1>12. ASSUME NEW e \in Exporter, ReturnPromoted(e), UNCHANGED fixed
      PROVE  Inv'
    BY <1>12 DEF ReturnPromoted, Verified
<1>13. ASSUME NEW e \in Exporter, Discard(e), UNCHANGED fixed
      PROVE  Inv'
    BY <1>13 DEF Discard
<1>14. ASSUME NEW e \in Exporter, OpenFinal(e), UNCHANGED fixed
      PROVE  Inv'
    BY <1>14 DEF OpenFinal
<1>15. ASSUME NEW e \in Exporter, RemoveFile(e), UNCHANGED fixed
      PROVE  Inv'
    BY <1>15 DEF RemoveFile
<1>16. ASSUME NEW e \in Exporter, RemoveName(e), UNCHANGED fixed
      PROVE  Inv'
    BY <1>16 DEF RemoveName
<1>17. ASSUME NEW e \in Exporter, RemovalFails(e), UNCHANGED fixed
      PROVE  Inv'
    BY <1>17 DEF RemovalFails
<1>18. ASSUME NEW e \in Exporter, Crash(e), UNCHANGED fixed
      PROVE  Inv'
    BY <1>18 DEF Crash
<1>19. CASE UNCHANGED vars
    BY <1>19 DEF vars, fixed
<1> QED
    BY <1>1, <1>2, <1>3, <1>4, <1>5, <1>6, <1>7, <1>8, <1>9, <1>10, <1>11, <1>12, <1>13, <1>14, <1>15, <1>16, <1>17, <1>18, <1>19 DEF Next, Step, fixed

LEMMA Invariance == Spec => []Inv
<1>1. Init => Inv
    BY InitInv
<1>2. Inv /\ [Next]_vars => Inv'
    BY NextInv
<1> QED
    BY <1>1, <1>2, PTL DEF Spec

THEOREM TypeCorrect == Spec => []TypeOK
<1>1. Inv => TypeOK
    BY DEF Inv
<1> QED
    BY <1>1, Invariance, PTL

\* Whatever fails and whoever dies: an incomplete directory under the final name is one
\* its exporter was removing (the handler of export_receipt).
THEOREM PartialIsRetracted == Spec => []PartialOnlyIfRetracted
<1>1. Inv => PartialOnlyIfRetracted
    BY DEF Inv, Placed, PartialOnlyIfRetracted
<1> QED
    BY <1>1, Invariance, PTL

\* Whatever fails: the handler of export_receipt removes nothing but what this export has
\* promoted itself.
THEOREM RemovalsAreOwn == Spec => OnlyOwnRemoved
<1>1. ASSUME Inv, [Next]_vars, NEW d \in Directory,
             \/ ~(files[d] \subseteq files'[d])
             \/ final = d /\ final' # d /\ files[d] # {}
      PROVE  d \in Exporter /\ (pc[d] # pc'[d] \/ pc[d] = "removing")
    <2> USE ExporterAssumption DEF Inv, TypeOK, Placed, FormerOK, Whole, File, Directory, Goto, fixed
    <2>1. ASSUME NEW e \in Exporter, Begin(e) \/ Step(e) \/ Crash(e)
          PROVE  d \in Exporter /\ (pc[d] # pc'[d] \/ pc[d] = "removing")
        <3>1. CASE Begin(e) \/ Crash(e) \/ CopyFile(e) \/ BuildManifest(e) \/ WriteFails(e)
            BY <1>1, <3>1 DEF Begin, Crash, CopyFile, BuildManifest, WriteFails
        <3>2. CASE LookUp(e) \/ VerifyFile(e) \/ VerifyFails(e) \/ DiscardFails(e)
            BY <1>1, <3>2 DEF LookUp, VerifyFile, VerifyFails, DiscardFails
        <3>3. CASE ReturnExisting(e) \/ Rename(e) \/ RenameFails(e) \/ ReturnPromoted(e)
            BY <1>1, <3>3 DEF ReturnExisting, Rename, RenameFails, ReturnPromoted
        <3>4. CASE Discard(e) \/ OpenFinal(e) \/ RemovalFails(e)
            BY <1>1, <3>4 DEF Discard, OpenFinal, RemovalFails
        <3>5. CASE RemoveFile(e)
            BY <1>1, <3>5 DEF RemoveFile
        <3>6. CASE RemoveName(e)
            BY <1>1, <3>6 DEF RemoveName
        <3> QED
            BY <2>1, <3>1, <3>2, <3>3, <3>4, <3>5, <3>6 DEF Step
    <2>2. CASE UNCHANGED vars
        BY <1>1, <2>2 DEF vars, fixed
    <2> QED
        BY <1>1, <2>1, <2>2 DEF Next
<1>2. Inv /\ [Next]_vars =>
        [\A d \in Directory :
           (\/ ~(files[d] \subseteq files'[d])
            \/ final = d /\ final' # d /\ files[d] # {})
           => d \in Exporter /\ (pc[d] # pc'[d] \/ pc[d] = "removing")]_vars
    BY <1>1
<1> QED
    BY <1>2, Invariance, PTL DEF Spec, OnlyOwnRemoved

-----------------------------------------------------------------------------
(* As long as reads, writes and removals succeed.                          *)

\* What has been read is still there, nobody retracts, and everybody has seen the name
\* taken who compares, has failed or has ended.
Calm ==
    /\ \A e \in Exporter :
         /\ pc[e] \notin {"retracting", "removing"}
         /\ read[e] # {} => final # None /\ read[e] \subseteq files[final]
         /\ pc[e] \in {"comparing", "failed", "returned", "raised"} => final # None
         /\ pc[e] = "returned" => read[e] = File
         /\ e \in staging => pc[e] \notin {"idle", "returned", "raised"}
    /\ final \in Exporter => Whole(final)

LEMMA CalmInit ==
    ASSUME Init
    PROVE  Calm
    BY ExporterAssumption DEF Init, Calm, Directory

LEMMA CalmNext ==
    ASSUME Inv, Calm, [Next]_vars, "io" \notin faults
    PROVE  Calm' /\ (final # None => final' = final)
<1> USE ExporterAssumption
    DEF Inv, Calm, TypeOK, Placed, FormerOK, Whole, File, Directory, Goto, fixed
<1>1. ASSUME NEW e \in Exporter, Begin(e), UNCHANGED fixed
      PROVE  Calm' /\ (final # None => final' = final)
    BY <1>1 DEF Begin
<1>2. ASSUME NEW e \in Exporter, CopyFile(e), UNCHANGED fixed
      PROVE  Calm' /\ (final # None => final' = final)
    BY <1>2 DEF CopyFile
<1>3. ASSUME NEW e \in Exporter, BuildManifest(e), UNCHANGED fixed
      PROVE  Calm' /\ (final # None => final' = final)
    BY <1>3 DEF BuildManifest
<1>4. ASSUME NEW e \in Exporter, WriteFails(e), UNCHANGED fixed
      PROVE  Calm' /\ (final # None => final' = final)
    BY <1>4 DEF WriteFails
<1>5. ASSUME NEW e \in Exporter, LookUp(e), UNCHANGED fixed
      PROVE  Calm' /\ (final # None => final' = final)
    BY <1>5 DEF LookUp
<1>6. ASSUME NEW e \in Exporter, VerifyFile(e), UNCHANGED fixed
      PROVE  Calm' /\ (final # None => final' = final)
    BY <1>6 DEF VerifyFile
<1>7. ASSUME NEW e \in Exporter, VerifyFails(e), UNCHANGED fixed
      PROVE  Calm' /\ (final # None => final' = final)
    BY <1>7 DEF VerifyFails
<1>8. ASSUME NEW e \in Exporter, ReturnExisting(e), UNCHANGED fixed
      PROVE  Calm' /\ (final # None => final' = final)
    BY <1>8 DEF ReturnExisting, Verified
<1>9. ASSUME NEW e \in Exporter, DiscardFails(e), UNCHANGED fixed
      PROVE  Calm' /\ (final # None => final' = final)
    BY <1>9 DEF DiscardFails
<1>10. ASSUME NEW e \in Exporter, Rename(e), UNCHANGED fixed
      PROVE  Calm' /\ (final # None => final' = final)
    BY <1>10 DEF Rename
<1>11. ASSUME NEW e \in Exporter, RenameFails(e), UNCHANGED fixed
      PROVE  Calm' /\ (final # None => final' = final)
    BY <1>11 DEF RenameFails
<1>12. ASSUME NEW e \in Exporter, ReturnPromoted(e), UNCHANGED fixed
      PROVE  Calm' /\ (final # None => final' = final)
    BY <1>12 DEF ReturnPromoted, Verified
<1>13. ASSUME NEW e \in Exporter, Discard(e), UNCHANGED fixed
      PROVE  Calm' /\ (final # None => final' = final)
    BY <1>13 DEF Discard
<1>14. ASSUME NEW e \in Exporter, OpenFinal(e), UNCHANGED fixed
      PROVE  Calm' /\ (final # None => final' = final)
    BY <1>14 DEF OpenFinal
<1>15. ASSUME NEW e \in Exporter, RemoveFile(e), UNCHANGED fixed
      PROVE  Calm' /\ (final # None => final' = final)
    BY <1>15 DEF RemoveFile
<1>16. ASSUME NEW e \in Exporter, RemoveName(e), UNCHANGED fixed
      PROVE  Calm' /\ (final # None => final' = final)
    BY <1>16 DEF RemoveName
<1>17. ASSUME NEW e \in Exporter, RemovalFails(e), UNCHANGED fixed
      PROVE  Calm' /\ (final # None => final' = final)
    BY <1>17 DEF RemovalFails
<1>18. ASSUME NEW e \in Exporter, Crash(e), UNCHANGED fixed
      PROVE  Calm' /\ (final # None => final' = final)
    BY <1>18 DEF Crash
<1>19. CASE UNCHANGED vars
    BY <1>19 DEF vars, fixed
<1> QED
    BY <1>1, <1>2, <1>3, <1>4, <1>5, <1>6, <1>7, <1>8, <1>9, <1>10, <1>11, <1>12, <1>13, <1>14, <1>15, <1>16, <1>17, <1>18, <1>19 DEF Next, Step, fixed

\* faults does not change.
LEMMA FaultsStay ==
    ASSUME [Next]_vars
    PROVE  faults' = faults
    BY DEF Next, Step, fixed, vars

LEMMA CalmInvariance == Spec => [](Inv /\ ("io" \notin faults => Calm))
<1>1. Init => Inv /\ Calm
    BY InitInv, CalmInit
<1>2. Inv /\ ("io" \notin faults => Calm) /\ [Next]_vars
      => (Inv /\ ("io" \notin faults => Calm))'
    BY NextInv, CalmNext, FaultsStay
<1> QED
    BY <1>1, <1>2, PTL DEF Spec

\* Exporters die at any point, but reads, writes and removals succeed: each that ends
\* leaves a whole receipt under the name, or what was there before.
THEOREM EndedIsThere == Spec => []EndedMeansThere
<1>1. Inv /\ ("io" \notin faults => Calm) => EndedMeansThere
    BY ExporterAssumption
    DEF Inv, Calm, TypeOK, Placed, FormerOK, Whole, File, Directory, EndedMeansThere
<1> QED
    BY <1>1, CalmInvariance, PTL

\* In the same case no staging directory outlives an export that has ended.
THEOREM NothingIsLittered == Spec => []NoLitter
<1>1. ("io" \notin faults => Calm) => NoLitter
    BY DEF Calm, NoLitter
<1> QED
    BY <1>1, CalmInvariance, PTL

\* In the same case a receipt that was returned is there for good.
THEOREM ReturnedIsForGood == Spec => ReturnedStays
<1>1. Inv /\ ("io" \notin faults => Calm) /\ [Next]_vars =>
        [\A e \in Exporter : "io" \notin faults /\ pc[e] = "returned" =>
           final' = final /\ Whole(final)']_vars
    <2> SUFFICES ASSUME Inv, Calm, [Next]_vars, "io" \notin faults,
                        NEW e \in Exporter, pc[e] = "returned"
                 PROVE  final' = final /\ Whole(final)'
        OBVIOUS
    <2>1. Inv' /\ Calm' /\ (final # None => final' = final)
        BY NextInv, CalmNext
    <2>2. final # None /\ read[e] = File /\ read[e] \subseteq files[final]
        BY ExporterAssumption DEF Calm, File
    <2>3. final' = final
        BY <2>1, <2>2
    <2>4. CASE final \in Exporter
        BY <2>1, <2>3, <2>4 DEF Calm
    <2>5. CASE final = Other
        BY <2>1, <2>2, <2>3, <2>5 DEF Inv, TypeOK, FormerOK, Whole, Directory
    <2> QED
        BY <2>2, <2>4, <2>5 DEF Inv, TypeOK, Directory
<1> QED
    BY <1>1, CalmInvariance, PTL DEF Spec, ReturnedStays

-----------------------------------------------------------------------------
(* The name of the receipt.                                                *)

\* Renaming is the only step that gives the name to someone, and removing the only one
\* that takes something from what has it.
LEMMA NameSteps ==
    ASSUME Inv, [Next]_vars
    PROVE  \/ UNCHANGED <<final, Held>>
           \/ \E e \in Exporter :
                /\ final # Other /\ Held = {}
                /\ final' = e /\ Held' = File
           \/ \E e \in Exporter :
                /\ final \in Exporter /\ pc[e] = "removing"
                /\ \/ final' = final /\ \E f \in Held : Held' = Held \ {f}
                   \/ Held = {} /\ final' = None /\ Held' = {}
<1> USE ExporterAssumption
    DEF Inv, TypeOK, Placed, FormerOK, Whole, File, Directory, Goto, fixed, Held
<1> DEFINE Named == \/ UNCHANGED <<final, Held>>
                    \/ \E e \in Exporter :
                         /\ final # Other /\ Held = {}
                         /\ final' = e /\ Held' = File
                    \/ \E e \in Exporter :
                         /\ final \in Exporter /\ pc[e] = "removing"
                         /\ \/ final' = final /\ \E f \in Held : Held' = Held \ {f}
                            \/ Held = {} /\ final' = None /\ Held' = {}
<1>1. ASSUME NEW e \in Exporter, Begin(e) \/ Step(e) \/ Crash(e)
      PROVE  Named
    <2>1. CASE \/ Begin(e) \/ Crash(e) \/ WriteFails(e) \/ LookUp(e) \/ VerifyFile(e)
               \/ VerifyFails(e) \/ DiscardFails(e) \/ RenameFails(e) \/ ReturnPromoted(e)
               \/ OpenFinal(e) \/ RemovalFails(e)
        BY <2>1 DEF Begin, Crash, WriteFails, LookUp, VerifyFile, VerifyFails, DiscardFails,
                    RenameFails, ReturnPromoted, OpenFinal, RemovalFails
    <2>2. CASE CopyFile(e) \/ BuildManifest(e) \/ ReturnExisting(e) \/ Discard(e)
        <3>1. final # e
            BY <2>2 DEF CopyFile, BuildManifest, ReturnExisting, Discard
        <3> QED
            BY <2>2, <3>1 DEF CopyFile, BuildManifest, ReturnExisting, Discard
    <2>3. CASE Rename(e)
        <3>1. final # Other /\ Held = {} /\ final' = e /\ Held' = File
            BY <2>3 DEF Rename
        <3> QED
            BY <3>1
    <2>4. CASE RemoveFile(e)
        <3>1. opened[e] = e /\ pc[e] = "removing" /\ final' = final
            BY <2>4 DEF RemoveFile
        <3>2. PICK f \in files[e] : files' = [files EXCEPT ![e] = @ \ {f}]
            BY <2>4, <3>1 DEF RemoveFile
        <3>3. CASE final = e
            BY <3>1, <3>2, <3>3
        <3>4. CASE final # e
            BY <3>1, <3>2, <3>4
        <3> QED
            BY <3>3, <3>4
    <2>5. CASE RemoveName(e)
        <3>1. final \in Exporter \/ final' = final
            BY <2>5 DEF RemoveName
        <3> QED
            BY <2>5, <3>1 DEF RemoveName
    <2> QED
        BY <1>1, <2>1, <2>2, <2>3, <2>4, <2>5 DEF Step
<1>2. CASE UNCHANGED vars
    BY <1>2 DEF vars
<1> QED
    BY <1>1, <1>2 DEF Next

\* The name of a receipt as module Receipt has it: taken once by a whole directory; given
\* back by who took it, and not even that as long as file operations succeed.
THEOREM ReceiptRefined == Spec => ImplementsReceipt
<1>1. Init => NameOfReceipt!Init
    BY ExporterAssumption DEF Init, Directory, Held, NameOfReceipt!Init
<1>2. Inv /\ ("io" \notin faults => Calm) /\ [Next]_vars
      => [NameOfReceipt!Next]_<<final, Held, "io" \in faults>>
    <2> SUFFICES ASSUME Inv, "io" \notin faults => Calm, [Next]_vars,
                        ~UNCHANGED <<final, Held>>
                 PROVE  NameOfReceipt!Next
        BY FaultsStay
    <2>1. ("io" \in faults)' = ("io" \in faults)
        BY FaultsStay
    <2>2. CASE \E e \in Exporter : /\ final # Other /\ Held = {}
                                   /\ final' = e /\ Held' = File
        BY <2>1, <2>2 DEF NameOfReceipt!Next, NameOfReceipt!Promote
    <2>3. ASSUME NEW e \in Exporter, final \in Exporter, pc[e] = "removing",
                 \/ final' = final /\ \E f \in Held : Held' = Held \ {f}
                 \/ Held = {} /\ final' = None /\ Held' = {}
          PROVE  NameOfReceipt!Next
        <3>1. "io" \in faults
            BY <2>3 DEF Calm
        <3> QED
            BY <2>1, <2>3, <3>1
            DEF NameOfReceipt!Next, NameOfReceipt!Withdraw, NameOfReceipt!Release
    <2> QED
        BY <2>2, <2>3, NameSteps
<1> QED
    BY <1>1, <1>2, CalmInvariance, PTL DEF Spec, ImplementsReceipt, NameOfReceipt!Spec
=============================================================================
