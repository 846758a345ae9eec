------------------------------ MODULE Exporter ------------------------------
(***************************************************************************)
(* The export of a finished run (src/hanish/adapters/ci_receipt.py,        *)
(* export_receipt) into a directory that others export it to, too.         *)
(*                                                                         *)
(* The name of a receipt is made of the run's id, its attempt and the root *)
(* of its manifest, and the bytes of the receipt follow from the run: two  *)
(* exports meet under one name just if they are of one run, so there is    *)
(* one run and one name here.  The run directory is not written to any     *)
(* more once _verify_payload_semantics accepts it.                         *)
(*                                                                         *)
(* An exporter makes a directory, which stays the same one when it gets    *)
(* the final name; so directories are named after their exporters.         *)
(***************************************************************************)
EXTENDS Naturals, FiniteSets

CONSTANTS
    Exporter,       \* processes; a restart is another one
    Payload,        \* payload files of the receipt
    Manifest,       \* manifest.json
    Other,          \* what was under the final name before any of them started
    OtherFiles,     \* the files it holds as they should be
    None,
    Faults          \* "io": reads, writes and removals fail; "crash"

VARIABLES
    former,         \* Other, or None if the name was free: this does not change
    faults,         \* nor does what may fail
    final,          \* the directory that has the final name
    files,          \* the files of each directory, as they should be
    staging,        \* the exporters whose directory has its temporary name
    pc,             \* what each exporter is at
    read,           \* the files under the final name it has verified
    opened          \* the directory it is removing

fixed == <<former, faults>>
vars == <<former, faults, final, files, staging, pc, read, opened>>

File == Payload \cup {Manifest}
Directory == Exporter \cup {Other}
Whole(d) == files[d] = File

ASSUME ExporterAssumption ==
    /\ Manifest \notin Payload
    /\ Other \notin Exporter /\ None \notin Directory
    /\ OtherFiles \subseteq File

Init ==
    /\ former \in {Other, None}
    /\ faults \in SUBSET Faults
    /\ final = former
    /\ files = [d \in Directory |-> IF d = Other THEN OtherFiles ELSE {}]
    /\ staging = {}
    /\ pc = [e \in Exporter |-> "idle"]
    /\ read = [e \in Exporter |-> {}]
    /\ opened = [e \in Exporter |-> None]

Goto(e, label) == pc' = [pc EXCEPT ![e] = label]

-----------------------------------------------------------------------------
\* The run directory is verified, and the staging directory made.
Begin(e) ==
    /\ pc[e] = "idle"
    /\ staging' = staging \cup {e}
    /\ Goto(e, "copying")
    /\ UNCHANGED <<final, files, read, opened>>

\* _copy_new, and _write_new of the amendments, the semantic state and the reproduction.
CopyFile(e) ==
    /\ pc[e] = "copying"
    /\ \E f \in Payload \ files[e] : files' = [files EXCEPT ![e] = @ \cup {f}]
    /\ UNCHANGED <<final, staging, pc, read, opened>>

\* Mutated form: the manifest binds what has been copied so far.
BuildManifestEarly(e) ==
    /\ pc[e] = "copying"
    /\ files' = [files EXCEPT ![e] = @ \cup {Manifest}]
    /\ Goto(e, "staged")
    /\ UNCHANGED <<final, staging, read, opened>>

BuildManifest(e) ==
    /\ pc[e] = "copying" /\ files[e] = Payload
    /\ files' = [files EXCEPT ![e] = @ \cup {Manifest}]
    /\ Goto(e, "staged")
    /\ UNCHANGED <<final, staging, read, opened>>

WriteFails(e) ==
    /\ "io" \in faults
    /\ pc[e] = "copying"
    /\ Goto(e, "failed")
    /\ UNCHANGED <<final, files, staging, read, opened>>

\* Mutated form: an export waits for one that has the name, until it is through.
LookUpAndWait(e) ==
    /\ pc[e] = "staged"
    /\ final \in Exporter => pc[final] \in {"returned", "raised"}
    /\ Goto(e, IF final # None THEN "comparing" ELSE "promoting")
    /\ UNCHANGED <<final, files, staging, read, opened>>

\* os.path.lexists
LookUp(e) ==
    /\ pc[e] = "staged"
    /\ Goto(e, IF final # None THEN "comparing" ELSE "promoting")
    /\ UNCHANGED <<final, files, staging, read, opened>>

\* Mutated form: that something of the name exists is taken for the receipt.
Identical(e) == TRUE
\* verify_receipt has found every file as the manifest binds it.
Verified(e) == read[e] = File

\* verify_receipt reads one file after the other, by its path.
VerifyFile(e) ==
    /\ pc[e] \in {"comparing", "verifying"}
    /\ final # None
    /\ \E f \in files[final] \ read[e] : read' = [read EXCEPT ![e] = @ \cup {f}]
    /\ UNCHANGED <<final, files, staging, pc, opened>>

\* A file is missing or is not the one the manifest binds.
VerifyFails(e) ==
    /\ pc[e] \in {"comparing", "verifying"}
    /\ \/ final = None
       \/ final # None /\ \E f \in File \ read[e] : f \notin files[final]
       \/ "io" \in faults
    /\ Goto(e, IF pc[e] = "verifying" THEN "retracting" ELSE "failed")
    /\ UNCHANGED <<final, files, staging, read, opened>>

\* Mutated form: the staging directory is forgotten.
ReturnExistingOnly(e) ==
    /\ pc[e] = "comparing" /\ Verified(e)
    /\ Goto(e, "returned")
    /\ UNCHANGED <<final, files, staging, read, opened>>

\* The receipt is there already: the staging directory goes.
ReturnExisting(e) ==
    /\ pc[e] = "comparing" /\ Verified(e)
    /\ staging' = staging \ {e}
    /\ files' = [files EXCEPT ![e] = {}]
    /\ Goto(e, "returned")
    /\ UNCHANGED <<final, read, opened>>

\* shutil.rmtree(staging) fails: the handler tries it once more.
DiscardFails(e) ==
    /\ "io" \in faults
    /\ pc[e] = "comparing" /\ Verified(e)
    /\ Goto(e, "failed")
    /\ UNCHANGED <<final, files, staging, read, opened>>

\* Mutated form: the directory is copied, under a name that may be taken meanwhile.
CopyTree(e) ==
    /\ pc[e] = "promoting"
    /\ final' = e
    /\ Goto(e, "verifying")
    /\ UNCHANGED <<files, staging, read, opened>>

\* Path.rename replaces a directory that is empty, and no other.
Rename(e) ==
    /\ pc[e] = "promoting"
    /\ final # None => files[final] = {}
    /\ final' = e
    /\ staging' = staging \ {e}
    /\ Goto(e, "verifying")
    /\ UNCHANGED <<files, read, opened>>

\* Mutated form: promoted is set before the renaming, not after it.
RenameFailsPromoted(e) ==
    /\ pc[e] = "promoting"
    /\ final # None /\ files[final] # {}
    /\ staging' = staging \ {e}
    /\ files' = [files EXCEPT ![e] = {}]
    /\ Goto(e, "retracting")
    /\ UNCHANGED <<final, read, opened>>

RenameFails(e) ==
    /\ pc[e] = "promoting"
    /\ \/ final # None /\ files[final] # {}
       \/ "io" \in faults
    /\ Goto(e, "failed")
    /\ UNCHANGED <<final, files, staging, read, opened>>

ReturnPromoted(e) ==
    /\ pc[e] = "verifying" /\ Verified(e)
    /\ Goto(e, "returned")
    /\ UNCHANGED <<final, files, staging, read, opened>>

\* The handler, nothing promoted: staging goes and the exception passes on.
Discard(e) ==
    /\ pc[e] = "failed"
    /\ staging' = staging \ {e}
    /\ files' = [files EXCEPT ![e] = {}]
    /\ Goto(e, "raised")
    /\ UNCHANGED <<final, read, opened>>

\* The handler after the renaming: shutil.rmtree(final) opens whatever has the name ...
OpenFinal(e) ==
    /\ pc[e] = "retracting"
    /\ opened' = [opened EXCEPT ![e] = final]
    /\ Goto(e, IF final = None THEN "raised" ELSE "removing")
    /\ UNCHANGED <<final, files, staging, read>>

\* ... removes what is in it, file by file ...
RemoveFile(e) ==
    /\ pc[e] = "removing"
    /\ \E f \in files[opened[e]] : files' = [files EXCEPT ![opened[e]] = @ \ {f}]
    /\ UNCHANGED <<final, staging, pc, read, opened>>

\* Mutated form: the name is freed, whoever has it by now.
RemoveNameAny(e) ==
    /\ pc[e] = "removing" /\ files[opened[e]] = {}
    /\ final' = None
    /\ Goto(e, "raised")
    /\ UNCHANGED <<files, staging, read, opened>>

\* ... and then the directory that has the name by now, unless it holds something.
RemoveName(e) ==
    /\ pc[e] = "removing" /\ files[opened[e]] = {}
    /\ final' = IF final # None /\ files[final] = {} THEN None ELSE final
    /\ Goto(e, "raised")
    /\ UNCHANGED <<files, staging, read, opened>>

RemovalFails(e) ==
    /\ "io" \in faults
    /\ pc[e] \in {"failed", "removing"}
    /\ Goto(e, "raised")
    /\ UNCHANGED <<final, files, staging, read, opened>>

Crash(e) ==
    /\ "crash" \in faults
    /\ pc[e] \notin {"idle", "returned", "raised", "dead"}
    /\ Goto(e, "dead")
    /\ UNCHANGED <<final, files, staging, read, opened>>

-----------------------------------------------------------------------------
Step(e) ==
    /\ \/ CopyFile(e) \/ BuildManifest(e) \/ WriteFails(e)
       \/ LookUp(e) \/ VerifyFile(e) \/ VerifyFails(e)
       \/ ReturnExisting(e) \/ DiscardFails(e)
       \/ Rename(e) \/ RenameFails(e) \/ ReturnPromoted(e)
       \/ Discard(e) \/ OpenFinal(e) \/ RemoveFile(e) \/ RemoveName(e) \/ RemovalFails(e)
    /\ UNCHANGED fixed

Next ==
    \E e \in Exporter :
        \/ Step(e)
        \/ (Begin(e) \/ Crash(e)) /\ UNCHANGED fixed

Spec == Init /\ [][Next]_vars

\* An export that has begun goes on, unless its process dies.
FairSpec == Spec /\ \A e \in Exporter : WF_vars(Step(e))

-----------------------------------------------------------------------------
(* Properties.                                                             *)

Ended(e) == pc[e] \in {"returned", "raised", "dead"}

\* A directory has one name at a time.
TypeOK ==
    /\ former \in {Other, None}
    /\ faults \in SUBSET Faults
    /\ final \in Directory \cup {None}
    /\ files \in [Directory -> SUBSET File]
    /\ staging \subseteq Exporter
    /\ pc \in [Exporter -> {"idle", "copying", "staged", "comparing", "promoting", "verifying",
                            "failed", "retracting", "removing", "returned", "raised", "dead"}]
    /\ read \in [Exporter -> SUBSET File]
    /\ opened \in [Exporter -> Directory \cup {None}]
    /\ final \notin staging

\* What has the final name is whole - as soon as it has it, and with whatever else going
\* on - but for what was there before, and for one that its own exporter is removing.
PartialOnlyIfRetracted ==
    final \in Exporter /\ ~Whole(final) =>
        opened[final] = final /\ pc[final] \in {"removing", "raised", "dead"}

\* An export that has returned or given up leaves no staging directory, if removals
\* succeed: also one that found the receipt in place, or lost the race for the name.
NoLitter ==
    "io" \notin faults =>
        \A e \in Exporter : pc[e] \in {"returned", "raised"} => e \notin staging

\* If nothing fails but processes, an export that has returned - or even raised, because
\* another one was faster - leaves a whole receipt under the name, for good; and what was
\* there before is neither replaced nor returned as the receipt unless it is whole.
EndedMeansThere ==
    "io" \notin faults =>
        \A e \in Exporter :
            /\ pc[e] \in {"returned", "raised"} => final # None
            /\ pc[e] = "returned" => Whole(final)
            /\ pc[e] = "raised" /\ former = None => Whole(final)
            /\ former = Other => final = Other /\ files[Other] = OtherFiles

\* Nobody takes away a file, or the name, from a directory other than its own: what
\* another exporter has promoted, or somebody else has put there.
OnlyOwnRemoved ==
    [][\A d \in Directory :
         (\/ ~(files[d] \subseteq files'[d])
          \/ final = d /\ final' # d /\ files[d] # {})
         => d \in Exporter /\ (pc[d] # pc'[d] \/ pc[d] = "removing")]_vars

\* If only processes fail, a receipt that an export has returned keeps its name and its
\* files, whoever else ends, dies or gives up.
ReturnedStays ==
    [][\A e \in Exporter : "io" \notin faults /\ pc[e] = "returned" =>
         final' = final /\ Whole(final)']_vars

\* The same, whatever fails: that "a promoted receipt is a new immutable directory".
ReturnedIsImmutable ==
    [][\A e \in Exporter : pc[e] = "returned" => final' = final /\ Whole(final)']_vars

\* Whoever exports, dies or removes meanwhile, the name of the receipt is taken in one
\* step by a whole directory, over nothing or an empty one; what others have put there
\* stays; and without failing operations it is taken once, for good.
Held == IF final = None THEN {} ELSE files[final]
NameOfReceipt == INSTANCE Receipt
                   WITH holder <- final, held <- Held, failing <- "io" \in faults
ImplementsReceipt == NameOfReceipt!Spec

\* Every export that begins comes to an end.
ExportEnds == \A e \in Exporter : pc[e] = "copying" ~> Ended(e)
=============================================================================
