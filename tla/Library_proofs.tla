---------------------------- MODULE Library_proofs ----------------------------
(***************************************************************************)
(* Proofs about module Library, for any sets of row ids and names.         *)
(***************************************************************************)
EXTENDS Library, WellFoundedInduction, TLAPS

\* A table in use has finitely many rows, so one more than its largest id is new.
Bounded == \E n \in Nat : DOMAIN folders \subseteq 0 .. n

IInv == ReferencesHold /\ TreeComplete /\ Bounded

-----------------------------------------------------------------------------
(* Row ids.                                                                 *)

\* A set of numbers that are all at most n has a largest one, and Max finds it.
LEMMA MaxOfBounded ==
    ASSUME NEW n \in Nat, NEW S, S \subseteq 0 .. n, S # {}
    PROVE  Max(S) \in S /\ \A y \in S : Max(S) >= y
<1> DEFINE Bounds == {u \in Nat : \A y \in S : u >= y}
<1> DEFINE Less == {ss \in Nat \X Nat : ss[1] < ss[2]}
<1>1. n \in Bounds /\ Bounds \subseteq Nat
  OBVIOUS
<1>0. IsWellFoundedOn(Less, Nat)
  BY NatLessThanWellFounded, Zenon DEF OpToRel
<1> HIDE DEF Bounds, Less
<1>2. PICK m \in Bounds : \A u \in Bounds : ~ (<<u, m>> \in Less)
  BY <1>0, <1>1, WFMin, Zenon
<1> USE DEF Bounds, Less
<1>3. ASSUME NEW u \in Bounds, u < m
      PROVE  FALSE
  <2>1. u \in Nat /\ m \in Nat
    OBVIOUS
  <2>2. <<u, m>>[1] = u /\ <<u, m>>[2] = m /\ <<u, m>> \in Nat \X Nat
    BY <2>1
  <2>3. <<u, m>> \in Less
    BY <1>3, <2>2
  <2> QED
    BY <1>2, <2>3, Zenon
<1>4. m \in S
  <2>1. SUFFICES ASSUME m \notin S PROVE FALSE
    OBVIOUS
  <2>2. PICK y \in S : y \in Nat /\ y <= m
    <3>1. PICK y \in S : TRUE
      OBVIOUS
    <3>2. y \in Nat /\ m >= y
      BY <3>1
    <3> QED
      BY <3>1, <3>2
  <2>3. m - 1 \in Nat /\ \A z \in S : m - 1 >= z
    BY <2>1, <2>2
  <2>4. m - 1 \in Bounds
    BY <2>3
  <2> QED
    BY <1>3, <2>3, <2>4
<1>5. \E x \in S : \A y \in S : x >= y
  BY <1>4
<1> QED
  BY <1>5 DEF Max

\* An insert into folders never takes the id of a folder.
LEMMA RowIdIsNew ==
    ASSUME Bounded, DOMAIN folders \subseteq Nat
    PROVE  /\ RowId(folders) \notin DOMAIN folders
           /\ RowId(folders) \in Nat
           /\ DOMAIN folders \subseteq 0 .. RowId(folders)
<1>1. PICK n \in Nat : DOMAIN folders \union {0} \subseteq 0 .. n
  BY DEF Bounded
<1>2. /\ Max(DOMAIN folders \union {0}) \in DOMAIN folders \union {0}
      /\ \A y \in DOMAIN folders \union {0} : Max(DOMAIN folders \union {0}) >= y
  BY <1>1, MaxOfBounded
<1>3. PICK m \in 0 .. n : m = Max(DOMAIN folders \union {0})
  BY <1>1, <1>2
<1>4. RowId(folders) = m + 1 /\ \A y \in DOMAIN folders : m >= y
  <2>1. RowId(folders) = 1 + m
    BY <1>3, Zenon DEF RowId
  <2>2. \A y \in DOMAIN folders : m >= y
    BY <1>2, <1>3, Zenon
  <2>3. 1 + m = m + 1
    OBVIOUS
  <2> QED
    BY <2>1, <2>2, <2>3, Zenon DEF RowId
<1> QED
  BY <1>1, <1>3, <1>4

\* What an insert does to a table: the new row under its id, the others as they were.
LEMMA InsertLemma ==
    ASSUME NEW table, NEW row
    PROVE  /\ DOMAIN Insert(table, row) = DOMAIN table \union {RowId(table)}
           /\ Insert(table, row)[RowId(table)] = row
           /\ \A id \in DOMAIN table : id # RowId(table) => Insert(table, row)[id] = table[id]
BY DEF Insert

\* What is left of a table when some rows are deleted.
LEMMA RestrictLemma ==
    ASSUME NEW table, NEW S
    PROVE  /\ DOMAIN Restrict(table, S) = S
           /\ \A id \in S : Restrict(table, S)[id] = table[id]
BY DEF Restrict

-----------------------------------------------------------------------------
(* The folder tree.                                                         *)

\* tree() is complete exactly when no proper subset of the folders holds the root
\* folders and the children of its members: induction over the tree.
LEMMA TreeInduction ==
    TreeComplete <=> \A S \in SUBSET DOMAIN folders : ChildrenIn(S) => DOMAIN folders \subseteq S
BY Zenon DEF TreeComplete, tree

\* A folder is in its own subtree, and a child of a folder of the subtree too.
LEMMA SubtreeClosed ==
    ASSUME NEW f \in DOMAIN folders, Root \notin DOMAIN folders
    PROVE  /\ f \in Subtree(f) /\ Subtree(f) \subseteq DOMAIN folders
           /\ \A g \in DOMAIN folders : folders[g].parent \in Subtree(f) => g \in Subtree(f)
<1>1. f \in Subtree(f)
  BY DEF Subtree, Ancestors
<1>2. Subtree(f) \subseteq DOMAIN folders
  BY DEF Subtree
<1>3. ASSUME NEW g \in DOMAIN folders, folders[g].parent \in Subtree(f)
      PROVE  g \in Subtree(f)
  <2>1. f \in Ancestors(folders[g].parent) /\ folders[g].parent # Root
    BY <1>2, <1>3 DEF Subtree
  <2>2. SUFFICES ASSUME NEW S \in SUBSET DOMAIN folders, g \in S, ParentsIn(S)
                 PROVE  f \in S
    BY DEF Subtree, Ancestors
  <2>3. folders[g].parent \in S
    BY <2>1, <2>2 DEF ParentsIn
  <2> QED
    BY <2>1, <2>2, <2>3 DEF Ancestors
<1> QED
  BY <1>1, <1>2, <1>3

\* The tree stays complete when no folder changes its parent.
LEMMA TreeKept ==
    ASSUME TreeComplete, DOMAIN folders' = DOMAIN folders,
           \A g \in DOMAIN folders : folders'[g].parent = folders[g].parent
    PROVE  TreeComplete'
<1>1. SUFFICES ASSUME NEW S \in SUBSET DOMAIN folders, ChildrenIn(S)'
               PROVE  DOMAIN folders \subseteq S
  BY TreeInduction, Zenon DEF TreeComplete, tree
<1>2. ChildrenIn(S)
  BY <1>1, Zenon DEF ChildrenIn
<1> QED
  BY <1>2, TreeInduction

\* create() hangs the new folder under a folder that tree() already reaches.
LEMMA TreeAfterCreate ==
    ASSUME NEW parent, NEW name, IInv, CreateFolder(parent, name)
    PROVE  TreeComplete'
<1> DEFINE r == RowId(folders)
<1>1. r \notin DOMAIN folders
  BY RowIdIsNew, LibraryConstants DEF IInv, ReferencesHold, TypeOK
<1>2. /\ DOMAIN folders' = DOMAIN folders \union {r}
      /\ folders'[r].parent = parent
      /\ \A g \in DOMAIN folders : folders'[g].parent = folders[g].parent
  <2>1. PICK row : row = [parent |-> parent, name |-> name]
    OBVIOUS
  <2>2. row.parent = parent /\ folders' = Insert(folders, row)
    BY <2>1 DEF CreateFolder
  <2>3. /\ DOMAIN folders' = DOMAIN folders \union {r}
        /\ folders'[r] = row
        /\ \A g \in DOMAIN folders : g # r => folders'[g] = folders[g]
    BY <2>2, InsertLemma, Zenon
  <2> QED
    BY <1>1, <2>2, <2>3, Zenon
<1>3. parent \in DOMAIN folders \union {Root}
  BY DEF CreateFolder, Exists
<1> HIDE DEF r
<1>4. SUFFICES ASSUME NEW S \in SUBSET DOMAIN folders', ChildrenIn(S)'
               PROVE  DOMAIN folders' \subseteq S
  BY Zenon DEF TreeComplete, tree
<1>5. ChildrenIn(S \ {r})
  BY <1>1, <1>2, <1>4 DEF ChildrenIn
<1>6. DOMAIN folders \subseteq S \ {r}
  BY <1>2, <1>5, TreeInduction DEF IInv
<1>7. r \in S
  BY <1>2, <1>3, <1>4, <1>6 DEF ChildrenIn
<1> QED
  BY <1>2, <1>6, <1>7

\* reparent() refuses a move into the folder's own subtree, and no other move
\* can close a cycle: what tree() reaches afterwards holds the folder moved, for
\* its new parent does not hang under it, and with it the whole subtree.
LEMMA TreeAfterReparent ==
    ASSUME NEW f, NEW to, IInv, ReparentFolder(f, to)
    PROVE  TreeComplete'
<1>0. Root \notin DOMAIN folders
  BY LibraryConstants DEF IInv, ReferencesHold, TypeOK
<1>1. /\ f \in DOMAIN folders /\ DOMAIN folders' = DOMAIN folders
      /\ \A g \in DOMAIN folders : g # f => folders'[g].parent = folders[g].parent
  BY DEF ReparentFolder
<1>2. folders'[f].parent = to /\ to \in DOMAIN folders \union {Root}
  <2>1. folders[f] \in [parent : FolderIds \union {Root}, name : Names]
    BY <1>1 DEF IInv, ReferencesHold, TypeOK
  <2> QED
    BY <2>1 DEF ReparentFolder, Exists
<1>3. to # Root => to \notin Subtree(f)
  BY DEF ReparentFolder, MayReparent, Subtree
<1>4. SUFFICES ASSUME NEW S \in SUBSET DOMAIN folders, ChildrenIn(S)'
               PROVE  DOMAIN folders \subseteq S
  BY <1>1, Zenon DEF TreeComplete, tree
<1>5. /\ f \in Subtree(f) /\ Subtree(f) \subseteq DOMAIN folders
      /\ \A g \in DOMAIN folders : folders[g].parent \in Subtree(f) => g \in Subtree(f)
  BY <1>0, <1>1, SubtreeClosed
<1>6. ChildrenIn(S \union Subtree(f))
  BY <1>1, <1>4, <1>5 DEF ChildrenIn
<1>7. DOMAIN folders \subseteq S \union Subtree(f)
  BY <1>5, <1>6, TreeInduction DEF IInv
<1>8. f \in S
  BY <1>1, <1>2, <1>3, <1>4, <1>7 DEF ChildrenIn
<1>9. ChildrenIn(S)
  BY <1>1, <1>4, <1>8 DEF ChildrenIn
<1> QED
  BY <1>9, TreeInduction DEF IInv

\* delete() takes a whole subtree, so what is left still hangs together.
LEMMA TreeAfterDelete ==
    ASSUME NEW f, IInv, DeleteFolder(f)
    PROVE  TreeComplete'
<1>0. Root \notin DOMAIN folders
  BY LibraryConstants DEF IInv, ReferencesHold, TypeOK
<1>1. /\ f \in DOMAIN folders /\ DOMAIN folders' = DOMAIN folders \ Subtree(f)
      /\ \A g \in DOMAIN folders' : folders'[g] = folders[g]
  BY RestrictLemma DEF DeleteFolder
<1>2. SUFFICES ASSUME NEW S \in SUBSET DOMAIN folders', ChildrenIn(S)'
               PROVE  DOMAIN folders' \subseteq S
  BY Zenon DEF TreeComplete, tree
<1>3. /\ Subtree(f) \subseteq DOMAIN folders
      /\ \A g \in DOMAIN folders : folders[g].parent \in Subtree(f) => g \in Subtree(f)
  BY <1>0, <1>1, SubtreeClosed
<1>4. ChildrenIn(S \union Subtree(f))
  BY <1>1, <1>2, <1>3 DEF ChildrenIn
<1>5. DOMAIN folders \subseteq S \union Subtree(f)
  BY <1>1, <1>3, <1>4, TreeInduction DEF IInv
<1> QED
  BY <1>1, <1>5

-----------------------------------------------------------------------------
(* The invariant.                                                           *)

\* The empty database.
LEMMA Initially == Init => IInv
<1> SUFFICES ASSUME Init PROVE IInv
  OBVIOUS
<1>1. DOMAIN folders = {} /\ DOMAIN hosts = {} /\ DOMAIN tags = {} /\ host_tags = {}
  BY DEF Init
<1>2. ReferencesHold /\ TreeComplete
  BY <1>1 DEF ReferencesHold, TypeOK, TreeComplete, tree
<1>3. DOMAIN folders \subseteq 0 .. 0 /\ 0 \in Nat
  BY <1>1
<1> QED
  BY <1>2, <1>3 DEF IInv, Bounded

\* create(): the parent exists, and the row id is new.
LEMMA CreateFolderStep ==
    ASSUME NEW parent \in FolderIds \union {Root}, NEW name \in Typed, IInv, CreateFolder(parent, name)
    PROVE  IInv'
<1> DEFINE r == RowId(folders)
<1>1. r \notin DOMAIN folders /\ r \in Nat /\ DOMAIN folders \subseteq 0 .. r
  BY RowIdIsNew, LibraryConstants DEF IInv, ReferencesHold, TypeOK
<1>2. PICK row : row = [parent |-> parent, name |-> name]
  OBVIOUS
<1>3. /\ row \in [parent : FolderIds \union {Root}, name : Names]
      /\ row.parent = parent /\ parent \in DOMAIN folders \union {Root}
      /\ r \in FolderIds
  BY <1>2 DEF CreateFolder, Exists, Typed
<1>4. /\ DOMAIN folders' = DOMAIN folders \union {r}
      /\ folders'[r] = row
      /\ \A g \in DOMAIN folders : folders'[g] = folders[g]
  <2>1. folders' = Insert(folders, row)
    BY <1>2 DEF CreateFolder
  <2>2. /\ DOMAIN folders' = DOMAIN folders \union {r}
        /\ folders'[r] = row
        /\ \A g \in DOMAIN folders : g # r => folders'[g] = folders[g]
    BY <2>1, InsertLemma, Zenon
  <2> QED
    BY <1>1, <2>2, Zenon
<1>5. UNCHANGED <<hosts, tags, host_tags>>
  BY DEF CreateFolder
<1>6. TreeComplete'
  BY TreeAfterCreate
<1>7. Bounded'
  BY <1>1, <1>4 DEF Bounded
<1> HIDE DEF r
<1>8. ReferencesHold'
  BY <1>3, <1>4, <1>5 DEF IInv, ReferencesHold, TypeOK
<1> QED
  BY <1>6, <1>7, <1>8 DEF IInv

\* rename(): only the name changes.
LEMMA RenameFolderStep ==
    ASSUME NEW f, NEW name \in Typed, IInv, RenameFolder(f, name)
    PROVE  IInv'
<1>1. folders[f] \in [parent : FolderIds \union {Root}, name : Names] /\ name \in Names
  BY DEF RenameFolder, IInv, ReferencesHold, TypeOK, Typed
<1>2. /\ f \in DOMAIN folders /\ DOMAIN folders' = DOMAIN folders
      /\ folders'[f] \in [parent : FolderIds \union {Root}, name : Names]
      /\ folders'[f].parent = folders[f].parent
      /\ \A g \in DOMAIN folders : g # f => folders'[g] = folders[g]
  BY <1>1 DEF RenameFolder
<1>3. UNCHANGED <<hosts, tags, host_tags>>
  BY DEF RenameFolder
<1>4. TreeComplete'
  BY <1>2, TreeKept DEF IInv
<1>5. ReferencesHold' /\ Bounded'
  BY <1>2, <1>3 DEF IInv, ReferencesHold, TypeOK, Bounded
<1> QED
  BY <1>4, <1>5 DEF IInv

\* reparent(): the new parent exists.
LEMMA ReparentFolderStep ==
    ASSUME NEW f, NEW to \in FolderIds \union {Root}, IInv, ReparentFolder(f, to)
    PROVE  IInv'
<1>1. folders[f] \in [parent : FolderIds \union {Root}, name : Names]
  BY DEF ReparentFolder, IInv, ReferencesHold, TypeOK
<1>2. /\ f \in DOMAIN folders /\ DOMAIN folders' = DOMAIN folders
      /\ folders'[f] \in [parent : FolderIds \union {Root}, name : Names]
      /\ folders'[f].parent = to /\ to \in DOMAIN folders \union {Root}
      /\ \A g \in DOMAIN folders : g # f => folders'[g] = folders[g]
  BY <1>1 DEF ReparentFolder, Exists
<1>3. UNCHANGED <<hosts, tags, host_tags>>
  BY DEF ReparentFolder
<1>4. TreeComplete'
  BY TreeAfterReparent
<1>5. ReferencesHold' /\ Bounded'
  BY <1>2, <1>3 DEF IInv, ReferencesHold, TypeOK, Bounded
<1> QED
  BY <1>4, <1>5 DEF IInv

\* delete(): a folder that is left has its parent left, and the hosts of the
\* subtree are at the root.
LEMMA DeleteFolderStep ==
    ASSUME NEW f, IInv, DeleteFolder(f)
    PROVE  IInv'
<1>0. Root \notin DOMAIN folders
  BY LibraryConstants DEF IInv, ReferencesHold, TypeOK
<1>1. /\ f \in DOMAIN folders /\ DOMAIN folders' = DOMAIN folders \ Subtree(f)
      /\ \A g \in DOMAIN folders' : folders'[g] = folders[g]
  BY RestrictLemma DEF DeleteFolder
<1>2. /\ Subtree(f) \subseteq DOMAIN folders
      /\ \A g \in DOMAIN folders : folders[g].parent \in Subtree(f) => g \in Subtree(f)
  BY <1>0, <1>1, SubtreeClosed
<1>3. /\ DOMAIN hosts' = DOMAIN hosts
      /\ \A h \in DOMAIN hosts : hosts'[h] = IF hosts[h] \in Subtree(f) THEN Root ELSE hosts[h]
      /\ UNCHANGED <<tags, host_tags>>
  BY DEF DeleteFolder
<1>4. TreeComplete'
  BY TreeAfterDelete
<1>5. ReferencesHold' /\ Bounded'
  BY <1>1, <1>2, <1>3 DEF IInv, ReferencesHold, TypeOK, Bounded
<1> QED
  BY <1>4, <1>5 DEF IInv

\* The commands that leave the folders alone: their new references name rows,
\* and a row goes together with its references.
LEMMA LooseRows ==
    ASSUME IInv, UNCHANGED folders,
           \/ \E folder \in FolderIds \union {Root} : CreateHost(folder)
           \/ \E h \in HostIds : DeleteHost(h)
           \/ \E h \in HostIds, folder \in FolderIds \union {Root} : MoveToFolder(h, folder)
           \/ \E h \in HostIds, chosen \in SUBSET TagIds : SetTags(h, chosen)
           \/ \E name \in Typed : GetOrCreateTag(name)
           \/ \E t \in TagIds : DeleteTag(t)
    PROVE  IInv'
<1>1. TreeComplete' /\ Bounded'
  BY TreeKept DEF IInv, Bounded
<1>2. SUFFICES ReferencesHold'
  BY <1>1 DEF IInv
<1> USE DEF IInv, ReferencesHold, TypeOK
<1>3. ASSUME NEW folder \in FolderIds \union {Root}, CreateHost(folder)
      PROVE  ReferencesHold'
  <2>1. /\ DOMAIN hosts' = DOMAIN hosts \union {RowId(hosts)} /\ RowId(hosts) \in HostIds
        /\ \A h \in DOMAIN hosts' : hosts'[h] = folder \/ (h \in DOMAIN hosts /\ hosts'[h] = hosts[h])
        /\ folder \in DOMAIN folders \union {Root}
    BY <1>3 DEF CreateHost, Insert, Exists
  <2>2. UNCHANGED <<tags, host_tags>>
    BY <1>3 DEF CreateHost
  <2> QED
    BY <2>1, <2>2
<1>4. ASSUME NEW h \in HostIds, DeleteHost(h)
      PROVE  ReferencesHold'
  <2>1. /\ DOMAIN hosts' = DOMAIN hosts \ {h}
        /\ \A g \in DOMAIN hosts' : hosts'[g] = hosts[g]
    BY <1>4, RestrictLemma DEF DeleteHost
  <2> QED
    BY <1>4, <2>1 DEF DeleteHost
<1>5. ASSUME NEW h \in HostIds, NEW folder \in FolderIds \union {Root}, MoveToFolder(h, folder)
      PROVE  ReferencesHold'
  BY <1>5 DEF MoveToFolder, Exists
<1>6. ASSUME NEW h \in HostIds, NEW chosen \in SUBSET TagIds, SetTags(h, chosen)
      PROVE  ReferencesHold'
  BY <1>6 DEF SetTags
<1>7. ASSUME NEW name \in Typed, GetOrCreateTag(name)
      PROVE  ReferencesHold'
  <2>1. /\ DOMAIN tags' = DOMAIN tags \union {RowId(tags)} /\ RowId(tags) \in TagIds
        /\ \A t \in DOMAIN tags' : tags'[t] = name \/ (t \in DOMAIN tags /\ tags'[t] = tags[t])
        /\ name \in Names
    BY <1>7 DEF GetOrCreateTag, Insert, Typed
  <2>2. UNCHANGED <<hosts, host_tags>>
    BY <1>7 DEF GetOrCreateTag
  <2> QED
    BY <2>1, <2>2
<1>8. ASSUME NEW t \in TagIds, DeleteTag(t)
      PROVE  ReferencesHold'
  <2>1. /\ DOMAIN tags' = DOMAIN tags \ {t}
        /\ \A u \in DOMAIN tags' : tags'[u] = tags[u]
    BY <1>8, RestrictLemma DEF DeleteTag
  <2> QED
    BY <1>8, <2>1 DEF DeleteTag
<1> QED
  BY <1>3, <1>4, <1>5, <1>6, <1>7, <1>8

\* Every operation of the repositories keeps the references and the tree.
LEMMA Inductive == IInv /\ [Next]_vars => IInv'
<1> SUFFICES ASSUME IInv, [Next]_vars PROVE IInv'
  OBVIOUS
<1>1. CASE UNCHANGED vars
  BY <1>1 DEF vars, IInv, ReferencesHold, TypeOK, TreeComplete, tree, ChildrenIn, Bounded
<1>2. CASE \E parent \in FolderIds \union {Root}, name \in Typed : CreateFolder(parent, name)
  BY <1>2, CreateFolderStep
<1>3. CASE \E f \in FolderIds, name \in Typed : RenameFolder(f, name)
  BY <1>3, RenameFolderStep
<1>4. CASE \E f \in FolderIds, to \in FolderIds \union {Root} : ReparentFolder(f, to)
  BY <1>4, ReparentFolderStep
<1>5. CASE \E f \in FolderIds : DeleteFolder(f)
  BY <1>5, DeleteFolderStep
<1>6. CASE \/ \E folder \in FolderIds \union {Root} : CreateHost(folder)
           \/ \E h \in HostIds : DeleteHost(h)
           \/ \E h \in HostIds, folder \in FolderIds \union {Root} : MoveToFolder(h, folder)
           \/ \E h \in HostIds, chosen \in SUBSET TagIds : SetTags(h, chosen)
           \/ \E name \in Typed : GetOrCreateTag(name)
           \/ \E t \in TagIds : DeleteTag(t)
  <2>1. UNCHANGED folders
    BY <1>6 DEF CreateHost, DeleteHost, MoveToFolder, SetTags, GetOrCreateTag, DeleteTag
  <2> QED
    BY <1>6, <2>1, LooseRows
<1> QED
  BY <1>1, <1>2, <1>3, <1>4, <1>5, <1>6, Zenon DEF Next

-----------------------------------------------------------------------------
(* The theorems.                                                            *)

\* However folders, hosts and tags are created, moved and deleted, in a database
\* of any size, no row refers to one that is gone, although row ids are used again.
THEOREM ReferencesAreKept == Spec => []ReferencesHold
<1>1. IInv => ReferencesHold
  BY DEF IInv
<1> QED
  BY Initially, Inductive, <1>1, PTL DEF Spec

\* And tree() lists every folder: reparent's walk up from the target is all it
\* takes to keep cycles out.
THEOREM FoldersAreReached == Spec => []TreeComplete
<1>1. IInv => TreeComplete
  BY DEF IInv
<1> QED
  BY Initially, Inductive, <1>1, PTL DEF Spec

\* A host record disappears only by delete_host of that host, a step that takes
\* no other host and no folder with it.
THEOREM OnlyDeleteHostTakesHosts == Spec => HostsSurvive
<1>1. ASSUME [Next]_vars
      PROVE  [\A h \in DOMAIN hosts : h \notin DOMAIN hosts' =>
                 folders' = folders /\ DOMAIN hosts' = DOMAIN hosts \ {h}]_vars
  <2>1. SUFFICES ASSUME NEW h \in DOMAIN hosts, h \notin DOMAIN hosts', Next
                 PROVE  folders' = folders /\ DOMAIN hosts' = DOMAIN hosts \ {h}
    BY <1>1
  <2>2. PICK g \in HostIds : DeleteHost(g)
    <3>1. \/ DOMAIN hosts' = DOMAIN hosts
          \/ DOMAIN hosts' = DOMAIN hosts \union {RowId(hosts)}
          \/ \E g \in HostIds : DeleteHost(g)
      BY <2>1 DEF Next, CreateFolder, RenameFolder, ReparentFolder, DeleteFolder, CreateHost, Insert,
                  MoveToFolder, SetTags, GetOrCreateTag, DeleteTag
    <3> QED
      BY <2>1, <3>1
  <2>3. folders' = folders /\ DOMAIN hosts' = DOMAIN hosts \ {g}
    BY <2>2, RestrictLemma DEF DeleteHost
  <2> QED
    BY <2>1, <2>3
<1> QED
  BY <1>1, PTL DEF Spec, HostsSurvive

=============================================================================
