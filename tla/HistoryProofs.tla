--------------------------- MODULE HistoryProofs ---------------------------
(***************************************************************************)
(* Theorems about History, for every set of paths, receipts and keys and   *)
(* any number of commits, branches, merges and pushes.                     *)
(***************************************************************************)
EXTENDS History, SequenceTheorems, WellFoundedInduction, TLAPS

-----------------------------------------------------------------------------
(* Trees, and what one passing diff keeps.                                 *)

LEMMA TreeTypes ==
    ASSUME NEW t \in Tree
    PROVE  /\ \A p \in Path : p # Registry => t[p] \in Content \cup {None}
           /\ t[Registry] # None => t[Registry] \in Registries
    BY HistoryAssumption DEF Tree

LEMMA PrefixReflexive ==
    ASSUME NEW s \in Registries
    PROVE  IsPrefix(s, s)
    BY DEF Registries, IsPrefix

LEMMA PrefixTransitive ==
    ASSUME NEW r \in Registries, NEW s \in Registries, NEW t \in Registries,
           IsPrefix(r, s), IsPrefix(s, t)
    PROVE  IsPrefix(r, t)
<1>1. /\ Len(r) \in Nat /\ Len(s) \in Nat /\ Len(t) \in Nat
      /\ Len(r) <= Len(s) /\ Len(s) <= Len(t)
    BY DEF Registries, IsPrefix
<1>2. SubSeq(r, 1, Len(r)) = SubSeq(SubSeq(s, 1, Len(s)), 1, Len(r))
    BY <1>1 DEF Registries, IsPrefix
<1>3. SubSeq(r, 1, Len(r)) = SubSeq(SubSeq(t, 1, Len(s)), 1, Len(r))
    BY <1>2 DEF IsPrefix
<1>4. SubSeq(SubSeq(t, 1, Len(s)), 1, Len(r)) = SubSeq(t, 1, Len(r))
    BY <1>1 DEF Registries
<1> QED
    BY <1>1, <1>3, <1>4 DEF IsPrefix

LEMMA PrefixElements ==
    ASSUME NEW s \in Registries, NEW t \in Registries, IsPrefix(s, t)
    PROVE  ToSet(s) \subseteq ToSet(t)
<1>1. \A i \in 1 .. Len(s) : SubSeq(s, 1, Len(s))[i] = s[i] /\ SubSeq(t, 1, Len(s))[i] = t[i]
    BY DEF Registries, IsPrefix
<1>2. \A i \in 1 .. Len(s) : i \in 1 .. Len(t) /\ s[i] = t[i]
    BY <1>1 DEF Registries, IsPrefix
<1>3. DOMAIN s = 1 .. Len(s) /\ DOMAIN t = 1 .. Len(t)
    BY DEF Registries
<1> QED
    BY <1>2, <1>3 DEF ToSet

LEMMA KeepsReflexive ==
    ASSUME NEW t \in Tree
    PROVE  Keeps(t, t)
    BY TreeTypes, PrefixReflexive DEF Keeps

LEMMA KeepsTransitive ==
    ASSUME NEW t \in Tree, NEW u \in Tree, NEW v \in Tree, Keeps(t, u), Keeps(u, v)
    PROVE  Keeps(t, v)
<1>1. ASSUME NEW p \in Path, ReceiptOf[p] # None, t[p] # None
      PROVE  v[p] = t[p]
    BY <1>1 DEF Keeps
<1>2. ASSUME t[Registry] # None
      PROVE  v[Registry] # None /\ IsPrefix(t[Registry], v[Registry])
    <2>1. /\ u[Registry] # None /\ IsPrefix(t[Registry], u[Registry])
          /\ v[Registry] # None /\ IsPrefix(u[Registry], v[Registry])
        BY <1>2 DEF Keeps
    <2>2. t[Registry] \in Registries /\ u[Registry] \in Registries /\ v[Registry] \in Registries
        BY <1>2, <2>1, TreeTypes
    <2> QED
        BY <2>1, <2>2, PrefixTransitive
<1> QED
    BY <1>1, <1>2 DEF Keeps

\* Whatever renamings git reports, a diff that passes keeps what was promoted and excluded.
LEMMA DiffKeeps ==
    ASSUME NEW t \in Tree, NEW u \in Tree, NEW renamed \in Renamings(t, u),
           TransitionOK(t, u, Changes(t, u, renamed))
    PROVE  Keeps(t, u)
<1> DEFINE changes == Changes(t, u, renamed)
<1>1. ReceiptsOnlyAdded(changes) /\ RegistryOnlyGrows(t[Registry], u[Registry], changes)
    BY DEF TransitionOK
<1>2. ASSUME NEW p \in Path, ReceiptOf[p] # None, t[p] # None, u[p] # t[p]
      PROVE  FALSE
    <2>1. \A ch \in changes : p \in ch.paths => ch.status = "A"
        BY <1>1, <1>2 DEF ReceiptsOnlyAdded
    <2>2. CASE u[p] # None
        <3>1. [status |-> "M", paths |-> {p}] \in changes
            BY <1>2, <2>2 DEF Changes, Modified
        <3> QED
            BY <2>1, <3>1
    <2>3. CASE u[p] = None /\ p \in {x[1] : x \in renamed}
        <3>1. PICK x \in renamed : p = x[1]
            BY <2>3
        <3>2. [status |-> "R", paths |-> {x[1], x[2]}] \in changes
            BY DEF Changes
        <3> QED
            BY <2>1, <3>1, <3>2
    <2>4. CASE u[p] = None /\ p \notin {x[1] : x \in renamed}
        <3>1. [status |-> "D", paths |-> {p}] \in changes
            BY <1>2, <2>4 DEF Changes, Deleted
        <3> QED
            BY <2>1, <3>1
    <2> QED
        BY <2>2, <2>3, <2>4
<1>3. ASSUME t[Registry] # None
      PROVE  u[Registry] # None /\ IsPrefix(t[Registry], u[Registry])
    BY <1>1, <1>3 DEF RegistryOnlyGrows, OnlyAppends
<1> QED
    BY <1>2, <1>3 DEF Keeps

-----------------------------------------------------------------------------
(* The commit graph.                                                       *)

\* Ancestors come earlier, and bring their own ancestors.
AncestorsOK ==
    \A c \in Commit :
        /\ commits[c].ancestors \subseteq 1 .. c - 1
        /\ \A a \in commits[c].ancestors : commits[a].ancestors \subseteq commits[c].ancestors

LEMMA CommitTypes ==
    ASSUME TypeOK
    PROVE  /\ Len(commits) \in Nat /\ Commit = 1 .. Len(commits)
           /\ \A c \in Commit : /\ TreeOf(c) \in Tree
                                /\ commits[c].parents \in SUBSET Nat
                                /\ commits[c].ancestors \in SUBSET Nat
<1> DEFINE S == [parents : SUBSET Nat, ancestors : SUBSET Nat, tree : Tree]
<1>1. commits \in Seq(S)
    BY DEF TypeOK
<1>2. \A x \in S : x.tree \in Tree /\ x.parents \in SUBSET Nat /\ x.ancestors \in SUBSET Nat
    OBVIOUS
<1> HIDE DEF S
<1>3. Len(commits) \in Nat /\ DOMAIN commits = 1 .. Len(commits)
    BY <1>1
<1>4. \A c \in 1 .. Len(commits) : commits[c] \in S
    BY <1>1
<1> QED
    BY <1>2, <1>3, <1>4 DEF Commit, TreeOf

LEMMA AncestryFacts ==
    ASSUME TypeOK, AncestorsOK, NEW c \in Commit
    PROVE  /\ Ancestry(c) \subseteq Commit
           /\ \A a \in Ancestry(c) : a <= c /\ Ancestry(a) \subseteq Ancestry(c)
           /\ \A a \in Ancestry(c) \ {c} : \E p \in commits[c].parents : a \in Ancestry(p)
           /\ commits[c].parents \subseteq commits[c].ancestors
<1>1. c \in Nat /\ Commit = 1 .. Len(commits) /\ Len(commits) \in Nat
    BY CommitTypes
<1>2. /\ commits[c].ancestors \subseteq 1 .. c - 1
      /\ \A a \in commits[c].ancestors : commits[a].ancestors \subseteq commits[c].ancestors
      /\ commits[c].ancestors = UNION {Ancestry(p) : p \in commits[c].parents}
    BY DEF AncestorsOK, TypeOK, GraphOK
<1>3. Ancestry(c) \subseteq Commit
    BY <1>1, <1>2 DEF Ancestry
<1>4. ASSUME NEW a \in Ancestry(c)
      PROVE  a <= c /\ Ancestry(a) \subseteq Ancestry(c)
    <2>1. CASE a = c
        BY <1>1, <2>1
    <2>2. CASE a \in commits[c].ancestors
        <3>1. a \in 1 .. c - 1 /\ commits[a].ancestors \subseteq commits[c].ancestors
            BY <1>2, <2>2
        <3> QED
            BY <1>1, <2>2, <3>1 DEF Ancestry
    <2> QED
        BY <2>1, <2>2 DEF Ancestry
<1>5. \A a \in Ancestry(c) \ {c} : \E p \in commits[c].parents : a \in Ancestry(p)
    BY <1>2 DEF Ancestry
<1>6. commits[c].parents \subseteq commits[c].ancestors
    BY <1>2 DEF Ancestry
<1> QED
    BY <1>3, <1>4, <1>5, <1>6

\* What a new commit leaves as it was, and what it is.
LEMMA NewCommitFacts ==
    ASSUME TypeOK, NEW parents \in SUBSET Commit, NEW tree \in Tree, NewCommit(parents, tree)
    PROVE  /\ Commit' = Commit \cup {Len(commits) + 1}
           /\ Len(commits)' = Len(commits) + 1
           /\ \A c \in Commit : commits'[c] = commits[c] /\ Ancestry(c)' = Ancestry(c)
           /\ commits'[Len(commits) + 1] =
                [parents |-> parents, ancestors |-> UNION {Ancestry(p) : p \in parents},
                 tree |-> tree]
           /\ commits' \in Seq([parents : SUBSET Nat, ancestors : SUBSET Nat, tree : Tree])
<1> DEFINE new == [parents |-> parents, ancestors |-> UNION {Ancestry(p) : p \in parents},
                   tree |-> tree]
<1>1. Len(commits) \in Nat /\ Commit = 1 .. Len(commits)
    BY CommitTypes
<1>2. \A p \in parents : p \in Nat /\ Ancestry(p) \subseteq Nat
    BY <1>1, CommitTypes DEF Ancestry
<1>3. UNION {Ancestry(p) : p \in parents} \in SUBSET Nat /\ parents \in SUBSET Nat
    BY <1>2
<1>4. new \in [parents : SUBSET Nat, ancestors : SUBSET Nat, tree : Tree]
    BY <1>3
<1>5. commits' = Append(commits, new)
    BY DEF NewCommit
<1>6. commits \in Seq([parents : SUBSET Nat, ancestors : SUBSET Nat, tree : Tree])
    BY DEF TypeOK
<1> HIDE DEF new
<1>7. /\ commits' \in Seq([parents : SUBSET Nat, ancestors : SUBSET Nat, tree : Tree])
      /\ Len(commits') = Len(commits) + 1
      /\ DOMAIN commits' = 1 .. Len(commits) + 1
      /\ \A c \in 1 .. Len(commits) : commits'[c] = commits[c]
      /\ commits'[Len(commits) + 1] = new
    BY <1>4, <1>5, <1>6, AppendProperties
<1>8. Commit' = Commit \cup {Len(commits) + 1}
    BY <1>1, <1>7 DEF Commit
<1> QED
    BY <1>1, <1>7, <1>8 DEF Ancestry, new

\* Whoever commits extends the graph by one commit with a tree.
LEMMA CommitSteps ==
    ASSUME TypeOK,
           \/ \E c \in Commit, p \in Path, content \in Content \cup {None} : Edit(c, p, content)
           \/ \E c \in Commit, p, q \in Path : Move(c, p, q)
           \/ \E c \in Commit : EditRegistry(c)
           \/ \E c, d \in Commit : Merge(c, d) \/ MergeLines(c, d)
           \/ Orphan
    PROVE  \E parents \in SUBSET Commit, tree \in Tree : NewCommit(parents, tree)
<1>1. \A c \in Commit : TreeOf(c) \in Tree
    BY CommitTypes
<1>2. ASSUME NEW c \in Commit, NEW p \in Path, NEW content \in Content \cup {None},
             Edit(c, p, content)
      PROVE  \E parents \in SUBSET Commit, tree \in Tree : NewCommit(parents, tree)
    <2>1. [TreeOf(c) EXCEPT ![p] = content] \in Tree
        BY <1>1, <1>2 DEF Tree, Edit
    <2> QED
        BY <1>2, <2>1 DEF Edit
<1>3. ASSUME NEW c \in Commit, NEW p \in Path, NEW q \in Path, Move(c, p, q)
      PROVE  \E parents \in SUBSET Commit, tree \in Tree : NewCommit(parents, tree)
    <2>1. [TreeOf(c) EXCEPT ![p] = None, ![q] = TreeOf(c)[p]] \in Tree
        BY <1>1, <1>3 DEF Tree, Move
    <2> QED
        BY <1>3, <2>1 DEF Move
<1>4. ASSUME NEW c \in Commit, EditRegistry(c)
      PROVE  \E parents \in SUBSET Commit, tree \in Tree : NewCommit(parents, tree)
    <2> DEFINE now == TreeOf(c)[Registry]
    <2>1. PICK lines \in {None, <<>>}
                 \cup (IF now = None THEN {}
                       ELSE {Append(now, k) : k \in Key \cup {Broken}}
                            \cup {SubSeq(now, 1, n) : n \in 0 .. Len(now) - 1}) :
            NewCommit({c}, [TreeOf(c) EXCEPT ![Registry] = lines])
        BY <1>4 DEF EditRegistry
    <2>2. now # None => now \in Seq(Key \cup {Broken})
        BY <1>1, TreeTypes DEF Registries
    <2>3. lines \in Registries \cup {None}
        <3> HIDE DEF now
        <3>1. CASE lines \in {None, <<>>}
            <4>1. <<>> \in Registries
                BY EmptySeq DEF Registries
            <4> QED
                BY <3>1, <4>1
        <3>2. CASE now # None /\ lines \in {Append(now, k) : k \in Key \cup {Broken}}
            BY <2>2, <3>2 DEF Registries
        <3>3. CASE now # None /\ lines \in {SubSeq(now, 1, n) : n \in 0 .. Len(now) - 1}
            <4>1. PICK n \in 0 .. Len(now) - 1 : lines = SubSeq(now, 1, n)
                BY <3>3
            <4>2. now \in Seq(Key \cup {Broken}) /\ Len(now) \in Nat
                BY <2>2, <3>3
            <4> QED
                BY <4>1, <4>2 DEF Registries
        <3> QED
            BY <2>1, <3>1, <3>2, <3>3
    <2>4. [TreeOf(c) EXCEPT ![Registry] = lines] \in Tree
        BY <1>1, <2>3 DEF Tree
    <2> QED
        BY <2>1, <2>4
<1>5. ASSUME NEW c \in Commit, NEW d \in Commit, Merge(c, d)
      PROVE  \E parents \in SUBSET Commit, tree \in Tree : NewCommit(parents, tree)
    <2>1. PICK ours \in SUBSET Path :
            NewCommit({c, d}, [p \in Path |-> IF p \in ours THEN TreeOf(c)[p] ELSE TreeOf(d)[p]])
        BY <1>5 DEF Merge
    <2>2. [p \in Path |-> IF p \in ours THEN TreeOf(c)[p] ELSE TreeOf(d)[p]] \in Tree
        BY <1>1 DEF Tree
    <2> QED
        BY <2>1, <2>2
<1>6. ASSUME NEW c \in Commit, NEW d \in Commit, MergeLines(c, d)
      PROVE  \E parents \in SUBSET Commit, tree \in Tree : NewCommit(parents, tree)
    <2> DEFINE lines == TreeOf(c)[Registry] \o TreeOf(d)[Registry]
    <2>1. NewCommit({c, d}, [TreeOf(c) EXCEPT ![Registry] = lines])
        BY <1>6 DEF MergeLines
    <2>2. TreeOf(c)[Registry] \in Registries /\ TreeOf(d)[Registry] \in Registries
        BY <1>1, <1>6, TreeTypes DEF MergeLines
    <2>3. lines \in Registries
        BY <2>2 DEF Registries
    <2>4. [TreeOf(c) EXCEPT ![Registry] = lines] \in Tree
        <3> HIDE DEF lines
        <3> QED
            BY <1>1, <2>3 DEF Tree
    <2> QED
        BY <2>1, <2>4
<1>7. ASSUME Orphan
      PROVE  \E parents \in SUBSET Commit, tree \in Tree : NewCommit(parents, tree)
    BY <1>7, HistoryAssumption DEF Orphan
<1> QED
    BY <1>2, <1>3, <1>4, <1>5, <1>6, <1>7

-----------------------------------------------------------------------------
(* The invariant.                                                          *)

CheckRecord == [event : {"push", "pull_request"}, before : Nat, head : Nat, base : Nat,
                visited : SUBSET Nat,
                status : {"queued", "walking", "accepted", "rejected"}]

\* What the walk of a check has established of the commits it has visited: each keeps
\* all that those of its ancestors hold that are in the range, or are the base.
WalkOK(k) ==
    /\ k.status = "queued" => k.visited = {}
    /\ k.event = "push" /\ k.before # 0 /\ k.status \in {"walking", "accepted"} =>
         k.base = k.before
    /\ \A c \in k.visited :
         \A a \in Ancestry(c) \cap (Pushed(k.base, k.head) \cup {k.base}) :
            Keeps(TreeOf(a), TreeOf(c))
    /\ k.status = "accepted" =>
         k.visited = Pushed(k.base, k.head) /\ HeadOK(TreeOf(k.head))

\* Every push starts where the push before it ended.
ChainOK ==
    /\ \A i \in DOMAIN checks : checks[i].event = "push" =>
         /\ main # 0
         /\ \E l \in i .. Len(checks) : checks[l].event = "push" /\ checks[l].head = main
    /\ \A i, j \in DOMAIN checks :
         i < j /\ checks[i].event = "push" /\ checks[j].event = "push" =>
           /\ checks[j].before # 0
           /\ \E n \in i .. j - 1 :
                checks[n].event = "push" /\ checks[n].head = checks[j].before

Inv ==
    /\ TypeOK
    /\ AncestorsOK
    /\ \A i \in DOMAIN checks : WalkOK(checks[i])
    /\ ChainOK

LEMMA CheckTypes ==
    ASSUME TypeOK
    PROVE  /\ checks \in Seq(CheckRecord)
           /\ Len(checks) \in Nat /\ DOMAIN checks = 1 .. Len(checks)
           /\ \A i \in DOMAIN checks : checks[i] \in CheckRecord /\ checks[i].head \in Commit
<1>1. checks \in Seq(CheckRecord)
    BY DEF TypeOK, CheckRecord
<1>2. \A i \in DOMAIN checks : checks[i].head \in Commit
    BY DEF TypeOK, CheckOK
<1> QED
    BY <1>1, <1>2

LEMMA InitInv ==
    ASSUME Init
    PROVE  Inv
<1> DEFINE root == [parents |-> {}, ancestors |-> {}, tree |-> RootTree]
<1>1. root \in [parents : SUBSET Nat, ancestors : SUBSET Nat, tree : Tree]
    BY HistoryAssumption
<1>2. commits = <<root>> /\ checks = <<>> /\ main = 0
    BY DEF Init
<1>3. commits \in Seq([parents : SUBSET Nat, ancestors : SUBSET Nat, tree : Tree])
    <2> HIDE DEF root
    <2> QED
        BY <1>1, <1>2
<1>4. Commit = {1}
    BY <1>2 DEF Commit
<1>5. commits[1].parents = {} /\ commits[1].ancestors = {}
    BY <1>2
<1>6. checks \in Seq(CheckRecord) /\ DOMAIN checks = {}
    BY <1>2, EmptySeq
<1>7. GraphOK /\ AncestorsOK
    BY <1>4, <1>5 DEF GraphOK, AncestorsOK
<1>8. TypeOK
    BY <1>2, <1>3, <1>4, <1>6, <1>7 DEF TypeOK, CheckRecord
<1> QED
    BY <1>6, <1>7, <1>8 DEF Inv, ChainOK

\* A new commit changes no ancestry, no range and no tree that a check has to do with.
LEMMA CommitKeepsInv ==
    ASSUME Inv, NEW parents \in SUBSET Commit, NEW tree \in Tree, NewCommit(parents, tree)
    PROVE  Inv'
<1> USE DEF Inv
<1> DEFINE n == Len(commits) + 1
<1>1. /\ Commit' = Commit \cup {n}
      /\ \A c \in Commit : commits'[c] = commits[c] /\ Ancestry(c)' = Ancestry(c)
      /\ commits'[n] = [parents |-> parents, ancestors |-> UNION {Ancestry(p) : p \in parents},
                        tree |-> tree]
      /\ commits' \in Seq([parents : SUBSET Nat, ancestors : SUBSET Nat, tree : Tree])
    BY NewCommitFacts
<1>2. main' = main /\ checks' = checks
    BY DEF NewCommit
<1>3. Len(commits) \in Nat /\ Commit = 1 .. Len(commits) /\ n \notin Commit
    BY CommitTypes
<1>4. \A c \in Commit : TreeOf(c)' = TreeOf(c)
    BY <1>1 DEF TreeOf
<1>5. \A c \in Commit : Ancestry(c) \subseteq Commit
    BY AncestryFacts
<1>6. \A b, h \in Commit : Pushed(b, h)' = Pushed(b, h) /\ Pushed(b, h) \subseteq Commit
    BY <1>1, <1>5 DEF Pushed
<1>7. GraphOK'
    <2>1. ASSUME NEW c \in Commit
          PROVE  /\ commits'[c].parents \subseteq 1 .. c - 1
                 /\ commits'[c].ancestors = UNION {Ancestry(p)' : p \in commits'[c].parents}
        <3>1. /\ commits[c].parents \subseteq 1 .. c - 1
              /\ commits[c].ancestors = UNION {Ancestry(p) : p \in commits[c].parents}
            BY DEF TypeOK, GraphOK
        <3>2. \A p \in commits[c].parents : p \in Commit
            BY <1>3, <3>1
        <3> QED
            BY <1>1, <3>1, <3>2
    <2>2. /\ commits'[n].parents \subseteq 1 .. n - 1
          /\ commits'[n].ancestors = UNION {Ancestry(p)' : p \in commits'[n].parents}
        BY <1>1, <1>3
    <2> QED
        BY <1>1, <2>1, <2>2 DEF GraphOK
<1>8. AncestorsOK'
    <2>1. ASSUME NEW c \in Commit
          PROVE  /\ commits'[c].ancestors \subseteq 1 .. c - 1
                 /\ \A a \in commits'[c].ancestors :
                      commits'[a].ancestors \subseteq commits'[c].ancestors
        <3>1. /\ commits[c].ancestors \subseteq 1 .. c - 1
              /\ \A a \in commits[c].ancestors :
                   a \in Commit /\ commits[a].ancestors \subseteq commits[c].ancestors
            BY <1>3 DEF AncestorsOK
        <3> QED
            BY <1>1, <3>1
    <2>2. commits'[n].ancestors \subseteq 1 .. n - 1
        BY <1>1, <1>3, <1>5
    <2>3. ASSUME NEW a \in commits'[n].ancestors
          PROVE  commits'[a].ancestors \subseteq commits'[n].ancestors
        <3>1. PICK p \in parents : a \in Ancestry(p)
            BY <1>1, <2>3
        <3>2. a \in Commit /\ Ancestry(a) \subseteq Ancestry(p)
            BY <3>1, AncestryFacts
        <3> QED
            BY <1>1, <3>1, <3>2 DEF Ancestry
    <2> QED
        BY <1>1, <2>1, <2>2, <2>3 DEF AncestorsOK
<1>9. ASSUME NEW i \in DOMAIN checks
      PROVE  CheckOK(checks[i])' /\ WalkOK(checks[i])'
    <2> DEFINE k == checks[i]
    <2>1. CheckOK(k) /\ WalkOK(k) /\ k.head \in Commit
        BY CheckTypes DEF TypeOK
    <2>2. CASE ~(k.status \in {"walking", "accepted"} \/ k.visited # {})
        BY <1>1, <1>2, <2>1, <2>2 DEF CheckOK, WalkOK
    <2>3. CASE k.status \in {"walking", "accepted"} \/ k.visited # {}
        <3>1. /\ k.base \in Ancestry(k.head) /\ k.base \in Commit
              /\ k.visited \subseteq Pushed(k.base, k.head)
            BY <1>5, <2>1, <2>3 DEF CheckOK
        <3>2. /\ Ancestry(k.head)' = Ancestry(k.head)
              /\ Pushed(k.base, k.head)' = Pushed(k.base, k.head)
              /\ Pushed(k.base, k.head) \subseteq Commit
              /\ TreeOf(k.head)' = TreeOf(k.head)
            BY <1>1, <1>2, <1>4, <1>6, <2>1, <3>1
        <3>3. CheckOK(k)'
            BY <1>1, <1>2, <2>1, <3>1, <3>2 DEF CheckOK
        <3>4. \A c \in k.visited :
                \A a \in Ancestry(c)' \cap (Pushed(k.base, k.head) \cup {k.base}) :
                    Keeps(TreeOf(a)', TreeOf(c)')
            BY <1>1, <1>4, <2>1, <3>1, <3>2 DEF WalkOK
        <3> QED
            BY <1>2, <2>1, <3>2, <3>3, <3>4 DEF WalkOK, HeadOK, Keeps
    <2> QED
        BY <2>2, <2>3
<1>10. ChainOK'
    BY <1>2 DEF ChainOK
<1>11. TypeOK'
    BY <1>1, <1>2, <1>7, <1>9 DEF TypeOK
<1> QED
    BY <1>2, <1>8, <1>9, <1>10, <1>11

\* What is said of a check depends on the commits only.
LEMMA SameCommits ==
    ASSUME commits' = commits
    PROVE  /\ \A k : (CheckOK(k) => CheckOK(k)') /\ (WalkOK(k) => WalkOK(k)')
           /\ GraphOK => GraphOK'
           /\ AncestorsOK => AncestorsOK'
<1>1. \A c : Ancestry(c)' = Ancestry(c) /\ TreeOf(c)' = TreeOf(c)
    BY DEF Ancestry, TreeOf
<1>2. \A b, h : Pushed(b, h)' = Pushed(b, h)
    BY <1>1 DEF Pushed
<1>3. (GraphOK => GraphOK') /\ (AncestorsOK => AncestorsOK')
    BY DEF GraphOK, AncestorsOK, Commit, Ancestry
<1> QED
    BY <1>1, <1>2, <1>3 DEF CheckOK, WalkOK, Commit

\* A push, or a pull request, is queued; the push also moves main.
LEMMA RequestKeepsInv ==
    ASSUME Inv, NEW c \in Commit, Push(c) \/ PullRequest(c)
    PROVE  Inv'
<1> USE DEF Inv
<1> SUFFICES ASSUME NEW event, NEW before, NEW new, NEW n,
                    event = IF Push(c) THEN "push" ELSE "pull_request",
                    before = main, new = Unchecked(event, before, c),
                    n = Len(checks) + 1
             PROVE  Inv'
    OBVIOUS
<1>1. /\ commits' = commits
      /\ event \in {"push", "pull_request"}
      /\ event = "push" => main' = c
      /\ event = "pull_request" => main' = main
      /\ checks' = Append(checks, new)
    BY DEF Push, PullRequest
<1>2. /\ checks \in Seq(CheckRecord) /\ Len(checks) \in Nat
      /\ DOMAIN checks = 1 .. Len(checks)
    BY CheckTypes
<1>3. before \in Commit \cup {0} /\ c \in Nat /\ before \in Nat
    BY CommitTypes DEF TypeOK
<1>4. new \in CheckRecord
    BY <1>1, <1>3 DEF Unchecked, CheckRecord
<1>5. /\ checks' \in Seq(CheckRecord) /\ Len(checks') = n /\ DOMAIN checks' = 1 .. n
      /\ \A i \in DOMAIN checks : checks'[i] = checks[i]
      /\ checks'[n] = new
    BY <1>1, <1>2, <1>4, AppendProperties
<1>6. /\ new.event = event /\ new.before = before /\ new.head = c /\ new.visited = {}
      /\ new.status = "queued" /\ new.base = 0
    BY DEF Unchecked
<1>7. CheckOK(new)' /\ WalkOK(new)'
    BY <1>1, <1>3, <1>6 DEF CheckOK, WalkOK, Commit
<1>8. \A k : (CheckOK(k) => CheckOK(k)') /\ (WalkOK(k) => WalkOK(k)')
    BY <1>1, SameCommits
<1>9. \A i \in DOMAIN checks' : \A k : k = checks'[i] => CheckOK(k)' /\ WalkOK(k)'
    BY <1>2, <1>5, <1>7, <1>8 DEF TypeOK
<1>10. TypeOK' /\ AncestorsOK'
    <2>1. GraphOK' /\ AncestorsOK'
        BY <1>1, SameCommits DEF TypeOK
    <2>2. main' \in Commit' \cup {0}
        BY <1>1, <1>3 DEF Commit
    <2>3. \A i \in DOMAIN checks' : CheckOK(checks[i])'
        BY <1>9
    <2>4. checks' \in Seq(CheckRecord)
        BY <1>5
    <2> QED
        BY <1>1, <2>1, <2>2, <2>3, <2>4 DEF TypeOK, CheckRecord
<1>11. c # 0
    BY <1>3, CommitTypes
<1>12. ASSUME NEW i \in DOMAIN checks', checks'[i].event = "push"
       PROVE  /\ main' # 0
              /\ \E l \in i .. Len(checks') : checks'[l].event = "push" /\ checks'[l].head = main'
    <2>1. CASE event = "push"
        <3>1. n \in i .. Len(checks') /\ checks'[n].event = "push" /\ checks'[n].head = main'
            BY <1>1, <1>2, <1>5, <1>6, <2>1
        <3> QED
            BY <1>1, <1>11, <2>1, <3>1
    <2>2. CASE event # "push"
        <3>1. main' = main /\ i # n
            BY <1>1, <1>5, <1>6, <1>12, <2>2
        <3>2. i \in DOMAIN checks
            BY <1>2, <1>5, <3>1
        <3>3. PICK l \in i .. Len(checks) : checks[l].event = "push" /\ checks[l].head = main
            BY <1>5, <1>12, <3>2 DEF ChainOK
        <3>4. l \in DOMAIN checks /\ l \in i .. Len(checks')
            BY <1>2, <1>5, <3>2, <3>3
        <3> QED
            BY <1>5, <1>12, <3>1, <3>2, <3>3, <3>4 DEF ChainOK
    <2> QED
        BY <2>1, <2>2
<1>13. ASSUME NEW i \in DOMAIN checks', NEW j \in DOMAIN checks',
              i < j, checks'[i].event = "push", checks'[j].event = "push"
       PROVE  /\ checks'[j].before # 0
              /\ \E m \in i .. j - 1 :
                    checks'[m].event = "push" /\ checks'[m].head = checks'[j].before
    <2>1. i \in DOMAIN checks /\ checks[i].event = "push"
        BY <1>2, <1>5, <1>13
    <2>2. CASE j = n
        <3>1. PICK m \in i .. Len(checks) : checks[m].event = "push" /\ checks[m].head = main
            BY <2>1 DEF ChainOK
        <3>2. m \in DOMAIN checks /\ m \in i .. j - 1 /\ main # 0
            BY <1>2, <2>1, <2>2, <3>1 DEF ChainOK
        <3> QED
            BY <1>5, <1>6, <2>2, <3>1, <3>2
    <2>3. CASE j # n
        <3>1. j \in DOMAIN checks /\ checks[j].event = "push"
            BY <1>2, <1>5, <1>13, <2>3
        <3>2. PICK m \in i .. j - 1 :
                checks[m].event = "push" /\ checks[m].head = checks[j].before
            BY <1>13, <2>1, <3>1 DEF ChainOK
        <3>3. m \in DOMAIN checks /\ checks[j].before # 0
            BY <1>2, <1>13, <2>1, <3>1, <3>2 DEF ChainOK
        <3> QED
            BY <1>5, <3>1, <3>2, <3>3
    <2> QED
        BY <2>2, <2>3
<1>14. ChainOK'
    BY <1>12, <1>13 DEF ChainOK
<1> QED
    BY <1>9, <1>10, <1>14

\* A check that moves on changes nothing else.
LEMMA CheckKeepsInv ==
    ASSUME Inv, NEW i \in DOMAIN checks, NEW k \in CheckRecord,
           checks' = [checks EXCEPT ![i] = k], UNCHANGED <<commits, main>>,
           k.event = checks[i].event, k.before = checks[i].before, k.head = checks[i].head,
           CheckOK(k), WalkOK(k)
    PROVE  Inv'
<1> USE DEF Inv
<1>1. /\ checks \in Seq(CheckRecord) /\ Len(checks) \in Nat
      /\ DOMAIN checks = 1 .. Len(checks)
    BY CheckTypes
<1>2. /\ checks' \in Seq(CheckRecord) /\ Len(checks') = Len(checks)
      /\ DOMAIN checks' = DOMAIN checks
      /\ \A j \in DOMAIN checks : checks'[j] = IF j = i THEN k ELSE checks[j]
    BY <1>1 DEF CheckRecord
<1>3. \A j \in DOMAIN checks' : \A c : c = checks'[j] => CheckOK(c)' /\ WalkOK(c)'
    BY <1>2, SameCommits DEF TypeOK
<1>4. TypeOK' /\ AncestorsOK'
    <2>1. GraphOK' /\ AncestorsOK'
        BY SameCommits DEF TypeOK
    <2>2. main' \in Commit' \cup {0}
        BY DEF TypeOK, Commit
    <2>3. \A j \in DOMAIN checks' : CheckOK(checks[j])'
        BY <1>3
    <2>4. checks' \in Seq(CheckRecord)
        BY <1>2
    <2> QED
        BY <2>1, <2>2, <2>3, <2>4 DEF TypeOK, CheckRecord
<1>5. \A j \in DOMAIN checks : /\ checks'[j].event = checks[j].event
                               /\ checks'[j].before = checks[j].before
                               /\ checks'[j].head = checks[j].head
    BY <1>2
<1>6. ASSUME NEW j \in DOMAIN checks', checks'[j].event = "push"
      PROVE  /\ main' # 0
             /\ \E l \in j .. Len(checks') :
                  checks'[l].event = "push" /\ checks'[l].head = main'
    <2>1. j \in DOMAIN checks /\ checks[j].event = "push"
        BY <1>2, <1>5, <1>6
    <2>2. PICK l \in j .. Len(checks) : checks[l].event = "push" /\ checks[l].head = main
        BY <2>1 DEF ChainOK
    <2>3. l \in DOMAIN checks /\ main # 0
        BY <1>1, <2>1, <2>2 DEF ChainOK
    <2> QED
        BY <1>2, <1>5, <2>2, <2>3
<1>7. ASSUME NEW j \in DOMAIN checks', NEW m \in DOMAIN checks', j < m,
             checks'[j].event = "push", checks'[m].event = "push"
      PROVE  /\ checks'[m].before # 0
             /\ \E n \in j .. m - 1 :
                  checks'[n].event = "push" /\ checks'[n].head = checks'[m].before
    <2>1. /\ j \in DOMAIN checks /\ checks[j].event = "push"
          /\ m \in DOMAIN checks /\ checks[m].event = "push"
        BY <1>2, <1>5, <1>7
    <2>2. PICK n \in j .. m - 1 :
            checks[n].event = "push" /\ checks[n].head = checks[m].before
        BY <1>7, <2>1 DEF ChainOK
    <2>3. n \in DOMAIN checks /\ checks[m].before # 0
        BY <1>1, <1>7, <2>1, <2>2 DEF ChainOK
    <2> QED
        BY <1>5, <2>1, <2>2, <2>3
<1>8. ChainOK'
    BY <1>6, <1>7 DEF ChainOK
<1> QED
    BY <1>3, <1>4, <1>8

LEMMA BasesTypes ==
    ASSUME TypeOK, AncestorsOK, NEW i \in DOMAIN checks
    PROVE  Bases(checks[i]) \subseteq Commit \cup {0}
<1>1. checks[i].before \in Commit \cup {0} /\ checks[i].head \in Commit
    BY DEF TypeOK, CheckOK
<1>2. MergeBases(checks[i].head, main) \subseteq Commit
    BY <1>1, AncestryFacts DEF MergeBases
<1> QED
    BY <1>1, <1>2 DEF Bases

LEMMA StartKeepsInv ==
    ASSUME Inv, NEW i \in DOMAIN checks, StartCheck(i)
    PROVE  Inv'
<1> DEFINE k == checks[i]
<1>1. /\ k \in CheckRecord /\ k.visited = {} /\ k.status = "queued"
      /\ k.before \in Commit \cup {0} /\ k.head \in Commit /\ k.base \in Commit \cup {0}
      /\ UNCHANGED <<commits, main>>
    BY CheckTypes DEF Inv, TypeOK, CheckOK, WalkOK, StartCheck
<1>2. ASSUME NEW base \in Bases(k),
             checks' = [checks EXCEPT ![i].base = base,
                                      ![i].status = IF Walkable(base, k.head)
                                                    THEN "walking" ELSE "rejected"]
      PROVE  Inv'
    <2>1. PICK next : next = [k EXCEPT !.base = base,
                                       !.status = IF Walkable(base, k.head)
                                                  THEN "walking" ELSE "rejected"]
        OBVIOUS
    <2>2. base \in Commit \cup {0} /\ base \in Nat
        BY BasesTypes, CommitTypes DEF Inv
    <2>3. /\ next \in CheckRecord
          /\ next.event = k.event /\ next.before = k.before /\ next.head = k.head
          /\ next.visited = {} /\ next.base = base
          /\ next.status = IF Walkable(base, k.head) THEN "walking" ELSE "rejected"
        BY <1>1, <2>1, <2>2 DEF CheckRecord
    <2>4. CheckOK(next)
        BY <1>1, <2>2, <2>3 DEF CheckOK, Walkable
    <2>5. WalkOK(next)
        BY <1>1, <2>3 DEF WalkOK, Bases
    <2>6. checks' = [checks EXCEPT ![i] = next]
        BY <1>2, <2>1
    <2> QED
        BY <1>1, <2>3, <2>4, <2>5, <2>6, CheckKeepsInv
<1>3. ASSUME checks' = [checks EXCEPT ![i].status = "rejected"]
      PROVE  Inv'
    <2>1. PICK next : next = [k EXCEPT !.status = "rejected"]
        OBVIOUS
    <2>2. /\ next \in CheckRecord
          /\ next.event = k.event /\ next.before = k.before /\ next.head = k.head
          /\ next.visited = {} /\ next.base = k.base /\ next.status = "rejected"
        BY <1>1, <2>1 DEF CheckRecord
    <2>3. CheckOK(next) /\ WalkOK(next)
        BY <1>1, <2>2 DEF CheckOK, WalkOK
    <2>4. checks' = [checks EXCEPT ![i] = next]
        BY <1>3, <2>1
    <2> QED
        BY <1>1, <2>2, <2>3, <2>4, CheckKeepsInv
<1> QED
    BY <1>2, <1>3 DEF StartCheck

\* The heart of the matter: neighbours are compared, and the commits of the range that
\* an ancestor comes through have been visited, so that nothing is lost on the way;
\* what comes through a commit outside of the range can only be the base itself.
LEMMA VisitKeeps ==
    ASSUME Inv, NEW i \in DOMAIN checks, checks[i].status = "walking",
           NEW c \in NextListed(checks[i]),
           \A p \in EdgesInto(c) : Verdict(p, c, TRUE),
           NEW a \in Ancestry(c),
           a \in Pushed(checks[i].base, checks[i].head) \cup {checks[i].base}
    PROVE  Keeps(TreeOf(a), TreeOf(c))
<1> DEFINE base == checks[i].base
           head == checks[i].head
<1> USE DEF Inv
<1>1. /\ head \in Commit /\ base \in Ancestry(head) /\ base \in Commit
      /\ c \in Pushed(base, head) /\ c \in Ancestry(head) /\ c \in Commit
    <2>1. head \in Commit /\ base \in Ancestry(head)
        BY DEF TypeOK, CheckOK
    <2>2. c \in Pushed(base, head)
        BY DEF NextListed
    <2>3. c \in Ancestry(head)
        BY <2>2 DEF Pushed
    <2> QED
        BY <2>1, <2>2, <2>3, AncestryFacts
<1>2. a \in Commit
    BY <1>1, AncestryFacts
<1>3. CASE a = c
    BY <1>1, <1>3, CommitTypes, KeepsReflexive
<1>4. CASE a # c
    <2>1. PICK p \in commits[c].parents : a \in Ancestry(p)
        BY <1>1, <1>4, AncestryFacts
    <2>2. p \in commits[c].ancestors /\ p \in Ancestry(c) /\ p \in Ancestry(head) /\ p \in Commit
        BY <1>1, <2>1, AncestryFacts DEF Ancestry
    <2>3. Verdict(p, c, TRUE)
        BY <2>1 DEF EdgesInto
    <2>4. Keeps(TreeOf(p), TreeOf(c))
        BY <1>1, <2>2, <2>3, CommitTypes, DiffKeeps DEF Verdict
    <2>5. CASE p \in Pushed(base, head)
        <3>1. p \in checks[i].visited
            BY <2>1, <2>5 DEF NextListed
        <3>2. Keeps(TreeOf(a), TreeOf(p))
            BY <2>1, <3>1 DEF WalkOK
        <3> QED
            BY <1>1, <1>2, <2>2, <2>4, <3>2, CommitTypes, KeepsTransitive
    <2>6. CASE p \notin Pushed(base, head)
        <3>1. p \in Ancestry(base) /\ a \in Ancestry(base)
            BY <1>1, <2>1, <2>2, <2>6, AncestryFacts DEF Pushed
        <3>2. a = base
            BY <3>1 DEF Pushed
        <3>3. base <= p /\ p <= base
            BY <1>1, <2>1, <2>2, <3>1, <3>2, AncestryFacts
        <3>4. p = base
            BY <1>1, <2>2, <3>3, CommitTypes
        <3> QED
            BY <2>4, <3>2, <3>4
    <2> QED
        BY <2>5, <2>6
<1> QED
    BY <1>3, <1>4

LEMMA WalkKeepsInv ==
    ASSUME Inv, NEW i \in DOMAIN checks, Walk(i)
    PROVE  Inv'
<1> DEFINE k == checks[i]
<1>1. /\ k \in CheckRecord /\ k.status = "walking"
      /\ k.before \in Commit \cup {0} /\ k.head \in Commit /\ k.base \in Commit \cup {0}
      /\ k.base \in Ancestry(k.head) /\ k.visited \subseteq Pushed(k.base, k.head)
      /\ UNCHANGED <<commits, main>>
    BY CheckTypes DEF Inv, TypeOK, CheckOK, Walk
<1>2. ASSUME NEW c \in NextListed(k), \A p \in EdgesInto(c) : Verdict(p, c, TRUE),
             checks' = [checks EXCEPT ![i].visited = @ \cup {c}]
      PROVE  Inv'
    <2>1. PICK next : next = [k EXCEPT !.visited = @ \cup {c}]
        OBVIOUS
    <2>2. c \in Pushed(k.base, k.head) /\ c \in Commit /\ c \in Nat
        BY <1>1, AncestryFacts, CommitTypes DEF Inv, NextListed, Pushed
    <2>3. /\ next \in CheckRecord
          /\ next.event = k.event /\ next.before = k.before /\ next.head = k.head
          /\ next.visited = k.visited \cup {c} /\ next.base = k.base /\ next.status = k.status
        BY <1>1, <2>1, <2>2 DEF CheckRecord
    <2>4. CheckOK(next)
        BY <1>1, <2>2, <2>3 DEF CheckOK
    <2>5. \A a \in Ancestry(c) \cap (Pushed(k.base, k.head) \cup {k.base}) :
             Keeps(TreeOf(a), TreeOf(c))
        BY <1>1, <1>2, VisitKeeps
    <2>6. WalkOK(next)
        BY <1>1, <2>3, <2>5 DEF Inv, WalkOK
    <2>7. checks' = [checks EXCEPT ![i] = next]
        BY <1>2, <2>1
    <2> QED
        BY <1>1, <2>3, <2>4, <2>6, <2>7, CheckKeepsInv
<1>3. ASSUME checks' = [checks EXCEPT ![i].status = "rejected"]
      PROVE  Inv'
    <2>1. PICK next : next = [k EXCEPT !.status = "rejected"]
        OBVIOUS
    <2>2. /\ next \in CheckRecord
          /\ next.event = k.event /\ next.before = k.before /\ next.head = k.head
          /\ next.visited = k.visited /\ next.base = k.base /\ next.status = "rejected"
        BY <1>1, <2>1 DEF CheckRecord
    <2>3. CheckOK(next) /\ WalkOK(next)
        BY <1>1, <2>2 DEF Inv, CheckOK, WalkOK
    <2>4. checks' = [checks EXCEPT ![i] = next]
        BY <1>3, <2>1
    <2> QED
        BY <1>1, <2>2, <2>3, <2>4, CheckKeepsInv
<1> QED
    BY <1>2, <1>3 DEF Walk

LEMMA FinishKeepsInv ==
    ASSUME Inv, NEW i \in DOMAIN checks, FinishCheck(i)
    PROVE  Inv'
<1> DEFINE k == checks[i]
<1>1. /\ k \in CheckRecord /\ k.status = "walking"
      /\ k.before \in Commit \cup {0} /\ k.head \in Commit /\ k.base \in Commit \cup {0}
      /\ k.base \in Ancestry(k.head) /\ k.visited = Pushed(k.base, k.head)
      /\ UNCHANGED <<commits, main>>
    BY CheckTypes DEF Inv, TypeOK, CheckOK, FinishCheck
<1>2. PICK next : next = [k EXCEPT !.status = IF HeadOK(TreeOf(k.head))
                                              THEN "accepted" ELSE "rejected"]
    OBVIOUS
<1>3. /\ next \in CheckRecord
      /\ next.event = k.event /\ next.before = k.before /\ next.head = k.head
      /\ next.visited = k.visited /\ next.base = k.base
      /\ next.status = IF HeadOK(TreeOf(k.head)) THEN "accepted" ELSE "rejected"
    BY <1>1, <1>2 DEF CheckRecord
<1>4. CheckOK(next) /\ WalkOK(next)
    BY <1>1, <1>3 DEF Inv, CheckOK, WalkOK
<1>5. checks' = [checks EXCEPT ![i] = next]
    BY <1>2 DEF FinishCheck
<1> QED
    BY <1>1, <1>3, <1>4, <1>5, CheckKeepsInv

LEMMA NextKeepsInv ==
    ASSUME Inv, [Next]_vars
    PROVE  Inv'
<1>1. CASE People
    <2>1. CASE \E c \in Commit : Push(c) \/ PullRequest(c)
        BY <2>1, RequestKeepsInv
    <2>2. CASE ~\E c \in Commit : Push(c) \/ PullRequest(c)
        <3>1. \E parents \in SUBSET Commit, tree \in Tree : NewCommit(parents, tree)
            BY <1>1, <2>2, CommitSteps DEF Inv, People
        <3> QED
            BY <3>1, CommitKeepsInv
    <2> QED
        BY <2>1, <2>2
<1>2. ASSUME NEW i \in DOMAIN checks, Check(i)
      PROVE  Inv'
    BY <1>2, StartKeepsInv, WalkKeepsInv, FinishKeepsInv DEF Check
<1>3. CASE UNCHANGED vars
    <2>1. commits' = commits /\ main' = main /\ checks' = checks
        BY <1>3 DEF vars
    <2>2. AncestorsOK' /\ GraphOK'
        BY <2>1, SameCommits DEF Inv, TypeOK
    <2>3. \A i \in DOMAIN checks' : CheckOK(checks[i])' /\ WalkOK(checks[i])'
        BY <2>1, SameCommits DEF Inv, TypeOK
    <2>4. TypeOK'
        BY <2>1, <2>2, <2>3 DEF Inv, TypeOK, Commit
    <2> QED
        BY <2>1, <2>2, <2>3, <2>4 DEF Inv, ChainOK
<1> QED
    BY <1>1, <1>2, <1>3 DEF Next

LEMMA Invariance == Spec => []Inv
<1>1. Init => Inv
    BY InitInv
<1>2. Inv /\ [Next]_vars => Inv'
    BY NextKeepsInv
<1> QED
    BY <1>1, <1>2, PTL DEF Spec

\* The commit graph is one, refers to earlier commits only, and a check that walks has an
\* ancestor of its head for a base (_commit_transitions).
THEOREM TypeCorrect == Spec => []TypeOK
<1>1. Inv => TypeOK
    BY DEF Inv
<1> QED
    BY <1>1, Invariance, PTL

LEMMA LeastPosition ==
    ASSUME NEW S \in SUBSET Nat, S # {}
    PROVE  \E x \in S : \A i \in S : x <= i
<1> DEFINE LT == {ss \in Nat \X Nat : ss[1] < ss[2]}
<1>1. OpToRel(<, Nat) = LT
    BY Zenon DEF OpToRel
<1>2. IsWellFoundedOn(LT, Nat)
    BY <1>1, NatLessThanWellFounded
<1>3. PICK x \in S : \A i \in S : ~(<<i, x>> \in LT)
    <2> HIDE DEF LT
    <2> QED
        BY <1>2, WFMin
<1>4. ASSUME NEW i \in S PROVE x <= i
    <2>1. x \in Nat /\ i \in Nat /\ (i < x => <<i, x>> \in LT)
        OBVIOUS
    <2> QED
        BY <1>3, <2>1
<1> QED
    BY <1>4

-----------------------------------------------------------------------------
(* Accepted heads.                                                         *)

LEMMA RangeIsKept ==
    ASSUME Inv
    PROVE  AcceptedRangeKeeps
<1> SUFFICES ASSUME NEW i \in DOMAIN checks, checks[i].status = "accepted",
                    NEW c \in Pushed(checks[i].base, checks[i].head) \cup {checks[i].base}
             PROVE  Keeps(TreeOf(c), TreeOf(checks[i].head))
    BY DEF AcceptedRangeKeeps
<1> DEFINE base == checks[i].base
           head == checks[i].head
<1> USE DEF Inv
<1>1. /\ head \in Commit /\ base \in Ancestry(head) /\ base \in Commit
      /\ c \in Ancestry(head)
    BY CheckTypes, AncestryFacts DEF TypeOK, CheckOK, Pushed
<1>2. checks[i].visited = Pushed(base, head)
    BY DEF WalkOK
<1>3. CASE head \in Pushed(base, head)
    BY <1>1, <1>2, <1>3 DEF WalkOK
<1>4. CASE head \notin Pushed(base, head)
    <2>1. head \in Ancestry(base)
        BY <1>4 DEF Pushed, Ancestry
    <2>2. base <= head /\ head <= base /\ base \in Nat /\ head \in Nat
        BY <1>1, <2>1, AncestryFacts, CommitTypes
    <2>3. base = head
        BY <2>2
    <2>4. c = head
        BY <2>3 DEF Pushed
    <2> QED
        BY <1>1, <2>4, CommitTypes, KeepsReflexive
<1> QED
    BY <1>3, <1>4

\* Whatever graph of commits is pushed: nothing that a commit of the range has promoted or
\* excluded is missing or changed in a head check_research_integrity accepts.
THEOREM AcceptedRangeIsKept == Spec => []AcceptedRangeKeeps
<1>1. Inv => AcceptedRangeKeeps
    BY RangeIsKept
<1> QED
    BY <1>1, Invariance, PTL

\* Along the pushes to main, from the first one at which something would be missing.
LEMMA PushesKeep ==
    ASSUME Inv
    PROVE  PromotedForGood
<1> SUFFICES ASSUME NEW i \in DOMAIN checks, ~(\A j \in DOMAIN checks :
                      Unbroken(i, j) => Keeps(TreeOf(checks[i].head), TreeOf(checks[j].head)))
             PROVE  FALSE
    BY DEF PromotedForGood
<1> USE DEF Inv
<1> DEFINE Lost == {j \in DOMAIN checks :
                      Unbroken(i, j) /\ ~Keeps(TreeOf(checks[i].head), TreeOf(checks[j].head))}
<1>1. DOMAIN checks = 1 .. Len(checks) /\ Len(checks) \in Nat
    BY CheckTypes
<1>2. Lost \in SUBSET Nat /\ Lost # {}
    BY <1>1
<1>3. PICK j \in Lost : \A l \in Lost : j <= l
    <2> HIDE DEF Lost
    <2> QED
        BY <1>2, LeastPosition
<1>4. /\ j \in DOMAIN checks /\ i <= j /\ j \in Nat /\ i \in Nat
      /\ checks[i].event = "push" /\ checks[j].event = "push"
      /\ \A n \in i .. j : checks[n].event = "push" => checks[n].status = "accepted"
      /\ ~Keeps(TreeOf(checks[i].head), TreeOf(checks[j].head))
    BY <1>1, <1>3 DEF Unbroken
<1>5. \A n \in DOMAIN checks : TreeOf(checks[n].head) \in Tree
    BY CheckTypes, CommitTypes
<1>6. i < j
    BY <1>4, <1>5, KeepsReflexive
<1>7. /\ checks[j].before # 0 /\ checks[j].status = "accepted"
      /\ \E n \in i .. j - 1 : checks[n].event = "push" /\ checks[n].head = checks[j].before
    BY <1>4, <1>6 DEF ChainOK
<1>8. PICK n \in i .. j - 1 : checks[n].event = "push" /\ checks[n].head = checks[j].before
    BY <1>7
<1>9. n \in DOMAIN checks /\ n < j /\ n \in Nat /\ Unbroken(i, n)
    BY <1>1, <1>4, <1>8 DEF Unbroken
<1>10. Keeps(TreeOf(checks[i].head), TreeOf(checks[n].head))
    BY <1>3, <1>4, <1>9
<1>11. checks[j].base = checks[n].head
    BY <1>4, <1>7, <1>8 DEF WalkOK
<1>12. Keeps(TreeOf(checks[n].head), TreeOf(checks[j].head))
    BY <1>4, <1>7, <1>11, RangeIsKept DEF AcceptedRangeKeeps
<1> QED
    BY <1>4, <1>5, <1>9, <1>10, <1>12, KeepsTransitive

\* While every push to main is accepted, what a head of main has promoted and excluded
\* is in all later heads of main.
THEOREM PromotionsAreForGood == Spec => []PromotedForGood
<1>1. Inv => PromotedForGood
    BY PushesKeep
<1> QED
    BY <1>1, Invariance, PTL

-----------------------------------------------------------------------------
(* The corpus.                                                             *)

\* What holds of two sound trees one of which keeps the other's receipts.
LEMMA CorpusGrows ==
    ASSUME NEW t \in Tree, NEW u \in Tree, HeadOK(t), HeadOK(u), Keeps(t, u)
    PROVE  /\ Offers(Batches(t)) \subseteq Offers(Batches(u))
           /\ Exposed(Batches(t)) \subseteq Exposed(Batches(u))
           /\ Coherent(u[Registry], Batches(u)) => Coherent(t[Registry], Batches(t))
           /\ \A key : Excludes(t[Registry], key) => Excludes(u[Registry], key)
<1>1. Present(t) \subseteq Present(u)
    <2>1. \A d \in Receipt : d # None
        BY HistoryAssumption
    <2> QED
        BY <2>1 DEF Present, Keeps
<1>2. /\ DOMAIN Batches(t) = Present(t) /\ DOMAIN Batches(u) = Present(u)
      /\ \A d \in Present(t) : Batches(t)[d] = BatchOf[d] /\ Batches(u)[d] = BatchOf[d]
    BY <1>1 DEF Batches, HeadOK
<1>3. Offers(Batches(t)) \subseteq Offers(Batches(u))
    BY <1>1, <1>2 DEF Offers
<1>4. Exposed(Batches(t)) \subseteq Exposed(Batches(u))
    BY <1>1, <1>2 DEF Exposed
<1>5. ToSet(t[Registry]) \subseteq ToSet(u[Registry])
    BY TreeTypes, PrefixElements DEF HeadOK, Keeps
<1>6. Coherent(u[Registry], Batches(u)) => Coherent(t[Registry], Batches(t))
    BY <1>1, <1>2, <1>3 DEF Coherent, HeadOK
<1>7. \A key : Excludes(t[Registry], key) => Excludes(u[Registry], key)
    BY <1>5 DEF Excludes
<1> QED
    BY <1>3, <1>4, <1>6, <1>7

LEMMA CorpusNeverReadmits ==
    ASSUME NEW t \in Tree, NEW u \in Tree, HeadOK(t), HeadOK(u), Keeps(t, u),
           Calibration(u) # Refused
    PROVE  /\ Calibration(t) # Refused
           /\ Calibration(u) \cap Offered(t) \subseteq Calibration(t)
<1>1. Coherent(u[Registry], Batches(u))
    BY DEF Calibration, Eligible
<1>2. Coherent(t[Registry], Batches(t))
    BY <1>1, CorpusGrows
<1> DEFINE Counted(v) == {x[2] : x \in {y \in Offers(Batches(v)) :
                                          /\ y[2].blind
                                          /\ y[2].key \notin Exposed(Batches(v))
                                          /\ ~Excludes(v[Registry], y[2].key)}}
<1>3. Calibration(t) = Counted(t) /\ Calibration(u) = Counted(u)
    BY <1>1, <1>2 DEF Calibration, Eligible
<1>4. Counted(t) \subseteq UNION {BatchOf[d].samples : d \in Receipt}
    <2>1. \A d \in Present(t) : Batches(t)[d] = BatchOf[d] /\ d \in Receipt
        BY DEF Batches, HeadOK, Present
    <2>2. DOMAIN Batches(t) = Present(t)
        BY DEF Batches
    <2>3. \A x \in Offers(Batches(t)) : \E d \in Receipt : x[2] \in BatchOf[d].samples
        BY <2>1, <2>2 DEF Offers
    <2> QED
        BY <2>3
<1>5. Calibration(t) # Refused
    <2> HIDE DEF Counted
    <2> QED
        BY <1>3, <1>4, HistoryAssumption
<1>6. ASSUME NEW s \in Counted(u), s \in Offered(t)
      PROVE  s \in Counted(t)
    <2>1. /\ s.blind /\ s.key \notin Exposed(Batches(u)) /\ ~Excludes(u[Registry], s.key)
        OBVIOUS
    <2>2. PICK x \in Offers(Batches(t)) : s = x[2]
        BY <1>6 DEF Offered
    <2>3. s.key \notin Exposed(Batches(t)) /\ ~Excludes(t[Registry], s.key)
        BY <2>1, CorpusGrows
    <2> QED
        BY <2>1, <2>2, <2>3
<1> QED
    BY <1>3, <1>5, <1>6

\* Over accepted pushes to main, iter_eligible_calibration_samples never counts a sample
\* again that it refused before.
THEOREM RefusalsAreForGood == Spec => []NeverReadmitted
<1>1. ASSUME Inv
      PROVE  NeverReadmitted
    <2> SUFFICES ASSUME NEW i \in DOMAIN checks, NEW j \in DOMAIN checks, Unbroken(i, j),
                        Calibration(TreeOf(checks[j].head)) # Refused
                 PROVE  /\ Calibration(TreeOf(checks[i].head)) # Refused
                        /\ Calibration(TreeOf(checks[j].head))
                             \cap Offered(TreeOf(checks[i].head))
                           \subseteq Calibration(TreeOf(checks[i].head))
        BY DEF NeverReadmitted
    <2>1. Keeps(TreeOf(checks[i].head), TreeOf(checks[j].head))
        BY <1>1, PushesKeep DEF PromotedForGood
    <2>2. checks[i].status = "accepted" /\ checks[j].status = "accepted"
        <3>1. DOMAIN checks = 1 .. Len(checks) /\ Len(checks) \in Nat
            BY <1>1, CheckTypes DEF Inv
        <3> QED
            BY <3>1 DEF Unbroken
    <2>3. HeadOK(TreeOf(checks[i].head)) /\ HeadOK(TreeOf(checks[j].head))
        BY <1>1, <2>2 DEF Inv, WalkOK
    <2>4. TreeOf(checks[i].head) \in Tree /\ TreeOf(checks[j].head) \in Tree
        BY <1>1, CheckTypes, CommitTypes DEF Inv
    <2> QED
        BY <2>1, <2>3, <2>4, CorpusNeverReadmits
<1> QED
    BY <1>1, Invariance, PTL
=============================================================================
