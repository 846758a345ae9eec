------------------------------- MODULE History -------------------------------
(***************************************************************************)
(* The research-integrity check (src/hanish/adapters/ci_cli.py,            *)
(* check_research_integrity) over a repository that people commit to,      *)
(* merge and push, and the calibration corpus its heads publish.           *)
(*                                                                         *)
(* Commits are numbered in the order they are made, so parents come before *)
(* children.  A tree maps paths to contents.  Registry is the path of the  *)
(* exclusion registry, whose content is a sequence of lines; any other     *)
(* file holds "bound", the bytes that the manifest and the name of its     *)
(* receipt directory bind, or "other".                                     *)
(*                                                                         *)
(* A check reads commits, which never change, except that the base it      *)
(* falls back to depends on where the default branch is when it starts.    *)
(* The working tree is the checkout of the head.                           *)
(***************************************************************************)
EXTENDS Corpus

CONSTANTS
    Path,           \* tracked paths, among them Registry
    Registry,
    Receipt,        \* receipt directories
    ReceiptOf,      \* per path: its receipt directory, or None
    Unlisted,       \* the paths in receipt directories that their manifests do not list
    BatchOf,        \* per receipt: what a provider loads from it when it is sound
    RootTree,       \* the tree of the first commit
    None,           \* no file; no receipt
    MaxCommits, MaxChecks, MaxLines     \* bounds of the environment

VARIABLES
    commits,        \* parents, ancestors and tree of each commit
    main,           \* the commit the default branch points at, 0 if there is none
    checks          \* one for each push to main and each pull request, in order

vars == <<commits, main, checks>>

Content == {"bound", "other"}
Tree == {t \in [Path -> Content \cup Registries \cup {None}] :
           \A p \in Path : IF p = Registry THEN t[p] \in Registries \cup {None}
                                           ELSE t[p] \in Content \cup {None}}

ASSUME HistoryAssumption ==
    /\ Registry \in Path
    /\ ReceiptOf \in [Path -> Receipt \cup {None}]
    /\ ReceiptOf[Registry] = None
    /\ None \notin Receipt
    /\ None \notin Content /\ None \notin Registries
    /\ RootTree \in Tree
    /\ \A s \in SUBSET UNION {BatchOf[d].samples : d \in Receipt} : s # Refused
    /\ \A d \in Receipt : BatchOf[d].amended \subseteq Key
    /\ MaxCommits \in Nat /\ MaxChecks \in Nat /\ MaxLines \in Nat

Commit == DOMAIN commits
TreeOf(c) == commits[c].tree
\* c and everything it descends from.
Ancestry(c) == commits[c].ancestors \cup {c}

Init ==
    /\ commits = <<[parents |-> {}, ancestors |-> {}, tree |-> RootTree]>>
    /\ main = 0
    /\ checks = <<>>

-----------------------------------------------------------------------------
(* People: commits, merges, pushes and pull requests.                      *)

NewCommit(parents, tree) ==
    /\ Len(commits) < MaxCommits
    /\ commits' = Append(commits, [parents |-> parents,
                                   ancestors |-> UNION {Ancestry(c) : c \in parents},
                                   tree |-> tree])
    /\ UNCHANGED <<main, checks>>

\* A file is written, changed or deleted.  What a commit may do to several files at
\* once is here that many commits; merges change any number.
Edit(c, p, content) ==
    /\ p # Registry /\ TreeOf(c)[p] # content
    /\ NewCommit({c}, [TreeOf(c) EXCEPT ![p] = content])

\* A file moves.
Move(c, p, q) ==
    /\ Registry \notin {p, q}
    /\ TreeOf(c)[p] # None /\ TreeOf(c)[q] = None
    /\ NewCommit({c}, [TreeOf(c) EXCEPT ![p] = None, ![q] = TreeOf(c)[p]])

\* The registry gets a line, loses its last one, or goes.
EditRegistry(c) ==
    \E lines \in {None, <<>>}
         \cup (IF TreeOf(c)[Registry] = None THEN {}
               ELSE {Append(TreeOf(c)[Registry], k) : k \in Key \cup {Broken}}
                    \cup {SubSeq(TreeOf(c)[Registry], 1, n) :
                            n \in 0 .. Len(TreeOf(c)[Registry]) - 1}) :
      /\ lines # TreeOf(c)[Registry]
      /\ lines # None => Len(lines) <= MaxLines
      /\ NewCommit({c}, [TreeOf(c) EXCEPT ![Registry] = lines])

\* An unrelated history begins.
Orphan == NewCommit({}, RootTree)

\* Every file as one of the two parents has it ...
Merge(c, d) ==
    /\ c \notin Ancestry(d) /\ d \notin Ancestry(c)
    /\ \E ours \in SUBSET Path :
         NewCommit({c, d}, [p \in Path |-> IF p \in ours THEN TreeOf(c)[p] ELSE TreeOf(d)[p]])

\* ... or the registry with the lines of both.
MergeLines(c, d) ==
    /\ c \notin Ancestry(d) /\ d \notin Ancestry(c)
    /\ TreeOf(c)[Registry] # None /\ TreeOf(d)[Registry] # None
    /\ LET lines == TreeOf(c)[Registry] \o TreeOf(d)[Registry]
       IN  /\ Len(lines) <= MaxLines
           /\ NewCommit({c, d}, [TreeOf(c) EXCEPT ![Registry] = lines])

Unchecked(event, before, head) ==
    [event |-> event, before |-> before, head |-> head, base |-> 0,
     visited |-> {}, status |-> "queued"]

\* A push to main, forced or not; the check runs after the fact.
Push(c) ==
    /\ Len(checks) < MaxChecks
    /\ c # main
    /\ main' = c
    /\ checks' = Append(checks, Unchecked("push", main, c))
    /\ UNCHANGED commits

PullRequest(c) ==
    /\ Len(checks) < MaxChecks
    /\ main # 0 /\ c # main
    /\ checks' = Append(checks, Unchecked("pull_request", main, c))
    /\ UNCHANGED <<commits, main>>

-----------------------------------------------------------------------------
(* The difference of two trees, and whether it may be.                     *)

Deleted(t, u) == {p \in Path : t[p] # None /\ u[p] = None}
Added(t, u) == {p \in Path : t[p] = None /\ u[p] # None}
Modified(t, u) == {p \in Path : t[p] # None /\ u[p] # None /\ t[p] # u[p]}

\* Which deletions and additions git reports as one renaming is a matter of
\* similarity: any pairing.
Renamings(t, u) ==
    {m \in SUBSET (Deleted(t, u) \X Added(t, u)) :
       \A x, y \in m : x[1] = y[1] \/ x[2] = y[2] => x = y}

\* git diff --name-status --find-renames.
Changes(t, u, renamed) ==
    LET change(status, paths) == {[status |-> status, paths |-> {p}] : p \in paths}
    IN  {[status |-> "R", paths |-> {x[1], x[2]}] : x \in renamed}
        \cup change("A", Added(t, u) \ {x[2] : x \in renamed})
        \cup change("D", Deleted(t, u) \ {x[1] : x \in renamed})
        \cup change("M", Modified(t, u))

\* Mutated form: only changed files count.
ReceiptsNotModified(changes) ==
    \A ch \in changes :
        (\E p \in ch.paths : ReceiptOf[p] # None) => ch.status # "M"

\* validate_receipt_additions: nothing but additions below the receipt root.
ReceiptsOnlyAdded(changes) ==
    \A ch \in changes :
        (\E p \in ch.paths : ReceiptOf[p] # None) => ch.status = "A"

\* Mutated form: a registry that is gone is not compared.
RegistryMayGo(prior, current, changes) ==
    current # None =>
      /\ prior = None => [status |-> "A", paths |-> {Registry}] \in changes
      /\ OnlyAppends(IF prior = None THEN <<>> ELSE prior, current)

\* _validate_exclusion_transition.
RegistryOnlyGrows(prior, current, changes) ==
    IF current = None THEN prior = None
    ELSE /\ prior = None => [status |-> "A", paths |-> {Registry}] \in changes
         /\ OnlyAppends(IF prior = None THEN <<>> ELSE prior, current)

TransitionOK(t, u, changes) ==
    /\ ReceiptsOnlyAdded(changes)
    /\ RegistryOnlyGrows(t[Registry], u[Registry], changes)

-----------------------------------------------------------------------------
(* One check.                                                              *)

\* base..head
Pushed(base, head) == Ancestry(head) \ Ancestry(base)

MergeBases(c, d) ==
    LET common == Ancestry(c) \cap Ancestry(d)
    IN  {x \in common : \A y \in common : x \notin commits[y].ancestors}

\* Mutated form: the check looks back to the parents of the head.
BasesOfHead(k) == commits[k.head].parents

\* _select_base and _fallback_base; nothing if there is no base.
Bases(k) ==
    IF k.event = "pull_request" THEN {k.before}
    ELSE IF k.before # 0 THEN {k.before}
    ELSE MergeBases(k.head, main)

\* Mutated form: that the base is an ancestor is taken for granted.
WalkableFromAnywhere(base, head) ==
    \A c \in Pushed(base, head) : commits[c].parents # {}

\* _commit_transitions refuses a base that is not an ancestor and a root commit.
Walkable(base, head) ==
    /\ base \in Ancestry(head)
    /\ \A c \in Pushed(base, head) : commits[c].parents # {}

StartCheck(i) ==
    LET k == checks[i]
    IN  /\ k.status = "queued"
        /\ \/ \E base \in Bases(k) :
                 checks' = [checks EXCEPT ![i].base = base,
                                          ![i].status = IF Walkable(base, k.head)
                                                        THEN "walking" ELSE "rejected"]
           \/ /\ Bases(k) = {}
              /\ checks' = [checks EXCEPT ![i].status = "rejected"]
        /\ UNCHANGED <<commits, main>>

\* Mutated form: only one parent of a commit is looked at.
EdgeFromFirst(c) == {p \in commits[c].parents : \A q \in commits[c].parents : p <= q}
\* The edges into a commit.
EdgesInto(c) == commits[c].parents

\* What the loop may come to next: it goes through the list that git rev-list
\* --reverse --topo-order made once and for all, and which has a commit after its
\* parents in the range.  The check waits for nothing; whichever of the commits this
\* leaves git lists next, the order of the list is one in which they are met.
NextListed(k) ==
    {c \in Pushed(k.base, k.head) \ k.visited :
       commits[c].parents \cap Pushed(k.base, k.head) \subseteq k.visited}

\* May the diff of the edge from p to c be reported so that it passes (fails)?
Verdict(p, c, ok) ==
    \E renamed \in Renamings(TreeOf(p), TreeOf(c)) :
        TransitionOK(TreeOf(p), TreeOf(c), Changes(TreeOf(p), TreeOf(c), renamed)) = ok

Walk(i) ==
    LET k == checks[i]
    IN  /\ k.status = "walking"
        /\ \E c \in NextListed(k) :
             \/ /\ \A p \in EdgesInto(c) : Verdict(p, c, TRUE)
                /\ checks' = [checks EXCEPT ![i].visited = @ \cup {c}]
             \/ /\ \E p \in EdgesInto(c) : Verdict(p, c, FALSE)
                /\ checks' = [checks EXCEPT ![i].status = "rejected"]
        /\ UNCHANGED <<commits, main>>

\* verify_receipt of every receipt directory there is: the files that its manifest
\* lists, as bound, and no others.
Present(t) == {d \in Receipt : \E p \in Path : ReceiptOf[p] = d /\ t[p] # None}
Sound(t, d) ==
    \A p \in Path : ReceiptOf[p] = d => t[p] = IF p \in Unlisted THEN None ELSE "bound"

\* _validate_current_exclusions and _verify_receipt_tree.
HeadOK(t) ==
    /\ t[Registry] # None /\ ValidRegistry(t[Registry])
    /\ \A d \in Present(t) : Sound(t, d)

FinishCheck(i) ==
    LET k == checks[i]
    IN  /\ k.status = "walking"
        /\ k.visited = Pushed(k.base, k.head)
        /\ checks' = [checks EXCEPT ![i].status =
                        IF HeadOK(TreeOf(k.head)) THEN "accepted" ELSE "rejected"]
        /\ UNCHANGED <<commits, main>>

Check(i) == StartCheck(i) \/ Walk(i) \/ FinishCheck(i)

-----------------------------------------------------------------------------
People ==
    \/ \E c \in Commit, p \in Path, content \in Content \cup {None} : Edit(c, p, content)
    \/ \E c \in Commit, p, q \in Path : Move(c, p, q)
    \/ \E c \in Commit : EditRegistry(c)
    \/ \E c, d \in Commit : Merge(c, d) \/ MergeLines(c, d)
    \/ Orphan
    \/ \E c \in Commit : Push(c) \/ PullRequest(c)

Next == People \/ \E i \in DOMAIN checks : Check(i)

Spec == Init /\ [][Next]_vars

-----------------------------------------------------------------------------
(* Properties.                                                             *)

\* The commit graph, and how far the checks are.
GraphOK ==
    \A c \in Commit :
        /\ commits[c].parents \subseteq 1 .. c - 1
        /\ commits[c].ancestors = UNION {Ancestry(p) : p \in commits[c].parents}

CheckOK(k) ==
    /\ k.before \in Commit \cup {0} /\ k.head \in Commit /\ k.base \in Commit \cup {0}
    /\ k.status \in {"walking", "accepted"} \/ k.visited # {} =>
         k.base \in Ancestry(k.head) /\ k.visited \subseteq Pushed(k.base, k.head)

TypeOK ==
    /\ commits \in Seq([parents : SUBSET Nat, ancestors : SUBSET Nat, tree : Tree])
    /\ GraphOK
    /\ main \in Commit \cup {0}
    /\ checks \in Seq([event : {"push", "pull_request"}, before : Nat, head : Nat, base : Nat,
                       visited : SUBSET Nat,
                       status : {"queued", "walking", "accepted", "rejected"}])
    /\ \A i \in DOMAIN checks : CheckOK(checks[i])

\* Every promoted file of t is in u as it was, every exclusion still in its place.
Keeps(t, u) ==
    /\ \A p \in Path : ReceiptOf[p] # None /\ t[p] # None => u[p] = t[p]
    /\ t[Registry] # None => u[Registry] # None /\ IsPrefix(t[Registry], u[Registry])

\* What an accepted head is vouched for: nothing that any commit since the base had
\* promoted or excluded, on whatever branch, is missing or changed in the head -
\* although each step of the walk compares neighbours only.
AcceptedRangeKeeps ==
    \A i \in DOMAIN checks : checks[i].status = "accepted" =>
        \A c \in Pushed(checks[i].base, checks[i].head) \cup {checks[i].base} :
            Keeps(TreeOf(c), TreeOf(checks[i].head))

\* The pushes to main from the i-th check to the j-th one were all accepted.
Unbroken(i, j) ==
    /\ i <= j /\ checks[i].event = "push" /\ checks[j].event = "push"
    /\ \A n \in i .. j : checks[n].event = "push" => checks[n].status = "accepted"

\* As long as every push to main is accepted, what one head of main has promoted and
\* excluded is in every later head: whichever bases were chosen, whatever was merged.
PromotedForGood ==
    \A i, j \in DOMAIN checks :
        Unbroken(i, j) => Keeps(TreeOf(checks[i].head), TreeOf(checks[j].head))

\* What the providers load from the receipts of a tree.
Batches(t) ==
    [d \in Present(t) |->
       IF Sound(t, d) THEN BatchOf[d] ELSE [valid |-> FALSE, samples |-> {}, amended |-> {}]]
Offered(t) == {x[2] : x \in Offers(Batches(t))}
Calibration(t) == Eligible(t[Registry], Batches(t))

\* A sample that was once offered and not counted - excluded, exposed by whichever
\* receipt, or withheld with the whole corpus - is never counted by a later head.
NeverReadmitted ==
    \A i, j \in DOMAIN checks : Unbroken(i, j) =>
        LET former == TreeOf(checks[i].head)
            later == TreeOf(checks[j].head)
        IN  Calibration(later) # Refused =>
              /\ Calibration(former) # Refused
              /\ Calibration(later) \cap Offered(former) \subseteq Calibration(former)

\* The same of any two accepted heads of main, whatever was pushed in between: that
\* "CI rejects any edit, move, or deletion" of what main has promoted.
AcceptedHeadsKeep ==
    \A i, j \in DOMAIN checks :
        /\ i <= j /\ checks[i].event = "push" /\ checks[j].event = "push"
        /\ checks[i].status = "accepted" /\ checks[j].status = "accepted"
        => Keeps(TreeOf(checks[i].head), TreeOf(checks[j].head))
=============================================================================
