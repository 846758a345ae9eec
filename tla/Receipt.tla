------------------------------ MODULE Receipt ------------------------------
(***************************************************************************)
(* What exporting promises about the name of a receipt: it is taken by a   *)
(* whole directory at once, and only while there is nothing under it; what *)
(* another program has put there is never touched; and what an export has  *)
(* put there goes only, file by file, if file operations may fail.         *)
(***************************************************************************)
CONSTANTS
    Exporter,       \* who may take the name
    File,           \* the files of the receipt
    Other,          \* what may be there before
    OtherFiles,     \* the files of the receipt it has
    None

VARIABLES
    holder,         \* the directory that has the name
    held,           \* the files in it
    failing         \* may file operations fail?  This does not change

Init ==
    /\ \/ holder = None /\ held = {}
       \/ holder = Other /\ held = OtherFiles
    /\ failing \in BOOLEAN

Promote(e) ==
    /\ holder # Other /\ held = {}
    /\ holder' = e
    /\ held' = File

Withdraw ==
    /\ failing /\ holder \in Exporter
    /\ \E f \in held : held' = held \ {f}
    /\ UNCHANGED holder

Release ==
    /\ failing /\ holder \in Exporter /\ held = {}
    /\ holder' = None
    /\ UNCHANGED held

Next ==
    /\ (\E e \in Exporter : Promote(e)) \/ Withdraw \/ Release
    /\ UNCHANGED failing

Spec == Init /\ [][Next]_<<holder, held, failing>>
=============================================================================
