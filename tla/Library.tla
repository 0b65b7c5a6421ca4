------------------------------ MODULE Library ------------------------------
(***************************************************************************)
(* Folders, tags and where the hosts hang in them: the repositories of     *)
(* core-store under the schema's foreign keys and unique indexes.  Every   *)
(* operation holds the connection lock, so each is one step; one that the  *)
(* code refuses, or the schema, changes nothing and is not enabled here.   *)
(***************************************************************************)
EXTENDS Naturals, FiniteSetsExt, Functions

CONSTANTS
    FolderIds, HostIds, TagIds,   \* bounds on the row ids
    Names,                        \* folder and tag names, up to case
    Root                          \* no parent, no folder

ASSUME LibraryConstants ==
    /\ FolderIds \subseteq Nat \ {0} /\ HostIds \subseteq Nat \ {0} /\ TagIds \subseteq Nat \ {0}
    /\ Root \notin FolderIds

Empty == "empty"    \* what is left of a blank name once it is trimmed
Typed == Names \union {Empty}

VARIABLES
    folders,    \* id -> [parent, name]
    hosts,      \* id -> its folder_id
    tags,       \* id -> name
    host_tags   \* <<host, tag>>
vars == <<folders, hosts, tags, host_tags>>

Init == folders = <<>> /\ hosts = <<>> /\ tags = <<>> /\ host_tags = {}

\* INTEGER PRIMARY KEY without AUTOINCREMENT: one more than the largest id in use.
RowId(table) == 1 + Max(DOMAIN table \union {0})
Insert(table, row) == [id \in DOMAIN table \union {RowId(table)} |-> IF id = RowId(table) THEN row ELSE table[id]]

\* folders_parent_name: siblings, root folders included, differ in name.
NameFree(parent, name, self) ==
    \A f \in DOMAIN folders \ {self} : folders[f].parent = parent => folders[f].name # name
Exists(parent) == parent = Root \/ parent \in DOMAIN folders

CreateFolder(parent, name) ==
    /\ name # Empty
    /\ RowId(folders) \in FolderIds /\ Exists(parent) /\ NameFree(parent, name, RowId(folders))
    /\ folders' = Insert(folders, [parent |-> parent, name |-> name])
    /\ UNCHANGED <<hosts, tags, host_tags>>

RenameFolder(f, name) ==
    /\ name # Empty
    /\ f \in DOMAIN folders /\ NameFree(folders[f].parent, name, f)
    /\ folders' = [folders EXCEPT ![f].name = name]
    /\ UNCHANGED <<hosts, tags, host_tags>>

\* The ancestry walk of reparent: the folder itself and what lies above it, the
\* least set its WITH RECURSIVE builds.
ParentsIn(S) == \A g \in S : folders[g].parent \in S \union {Root}
Ancestors(f) == {g \in DOMAIN folders : \A S \in SUBSET DOMAIN folders : f \in S /\ ParentsIn(S) => g \in S}
Subtree(f) == {g \in DOMAIN folders : f \in Ancestors(g)}

\* Mutant: only the folder itself and its immediate parent are looked at.
MayReparent_Shallow(f, to) == to # Root => to # f /\ folders[to].parent # f
MayReparent(f, to) == to # Root => f \notin Ancestors(to)

ReparentFolder(f, to) ==
    /\ f \in DOMAIN folders /\ Exists(to)
    /\ MayReparent(f, to) /\ NameFree(to, folders[f].name, f)
    /\ folders' = [folders EXCEPT ![f].parent = to]
    /\ UNCHANGED <<hosts, tags, host_tags>>

\* Mutant: the hosts go with the folder.
DeleteFolder_Cascades(f) ==
    /\ f \in DOMAIN folders
    /\ folders' = Restrict(folders, DOMAIN folders \ Subtree(f))
    /\ hosts' = Restrict(hosts, {h \in DOMAIN hosts : hosts[h] \notin Subtree(f)})
    /\ host_tags' = {ht \in host_tags : ht[1] \in DOMAIN hosts'}
    /\ UNCHANGED tags
\* Mutant: only the hosts directly in the folder are moved to the root.
DeleteFolder_Direct(f) ==
    /\ f \in DOMAIN folders
    /\ folders' = Restrict(folders, DOMAIN folders \ Subtree(f))
    /\ hosts' = [h \in DOMAIN hosts |-> IF hosts[h] = f THEN Root ELSE hosts[h]]
    /\ UNCHANGED <<tags, host_tags>>
\* Sub-folders cascade; the hosts in them are set loose.
DeleteFolder(f) ==
    /\ f \in DOMAIN folders
    /\ folders' = Restrict(folders, DOMAIN folders \ Subtree(f))
    /\ hosts' = [h \in DOMAIN hosts |-> IF hosts[h] \in Subtree(f) THEN Root ELSE hosts[h]]
    /\ UNCHANGED <<tags, host_tags>>

CreateHost(folder) ==
    /\ RowId(hosts) \in HostIds /\ Exists(folder)
    /\ hosts' = Insert(hosts, folder)
    /\ UNCHANGED <<folders, tags, host_tags>>

\* host_tags goes with the row.
DeleteHost(h) ==
    /\ h \in DOMAIN hosts
    /\ hosts' = Restrict(hosts, DOMAIN hosts \ {h})
    /\ host_tags' = {ht \in host_tags : ht[1] # h}
    /\ UNCHANGED <<folders, tags>>

MoveToFolder(h, folder) ==
    /\ h \in DOMAIN hosts /\ Exists(folder)
    /\ hosts' = [hosts EXCEPT ![h] = folder]
    /\ UNCHANGED <<folders, tags, host_tags>>

\* One transaction: the old set goes and the new one comes, or neither.
SetTags(h, chosen) ==
    /\ h \in DOMAIN hosts /\ chosen \subseteq DOMAIN tags
    /\ host_tags' = {ht \in host_tags : ht[1] # h} \union ({h} \X chosen)
    /\ UNCHANGED <<folders, hosts, tags>>

\* get_or_create: a name that is taken is answered with its tag, changing nothing.
GetOrCreateTag(name) ==
    /\ name # Empty /\ \A t \in DOMAIN tags : tags[t] # name
    /\ RowId(tags) \in TagIds
    /\ tags' = Insert(tags, name)
    /\ UNCHANGED <<folders, hosts, host_tags>>

DeleteTag(t) ==
    /\ t \in DOMAIN tags
    /\ tags' = Restrict(tags, DOMAIN tags \ {t})
    /\ host_tags' = {ht \in host_tags : ht[2] # t}
    /\ UNCHANGED <<folders, hosts>>

Next ==
    \/ \E parent \in FolderIds \union {Root}, name \in Typed : CreateFolder(parent, name)
    \/ \E f \in FolderIds, name \in Typed : RenameFolder(f, name)
    \/ \E f \in FolderIds, to \in FolderIds \union {Root} : ReparentFolder(f, to)
    \/ \E f \in FolderIds : DeleteFolder(f)
    \/ \E folder \in FolderIds \union {Root} : CreateHost(folder)
    \/ \E h \in HostIds : DeleteHost(h)
    \/ \E h \in HostIds, folder \in FolderIds \union {Root} : MoveToFolder(h, folder)
    \/ \E h \in HostIds, chosen \in SUBSET TagIds : SetTags(h, chosen)
    \/ \E name \in Typed : GetOrCreateTag(name)
    \/ \E t \in TagIds : DeleteTag(t)

Spec == Init /\ [][Next]_vars

-----------------------------------------------------------------------------
\* Types: rows keep within their tables, and no name is blank (create and rename trim).
TypeOK ==
    /\ DOMAIN folders \subseteq FolderIds /\ DOMAIN hosts \subseteq HostIds /\ DOMAIN tags \subseteq TagIds
    /\ \A f \in DOMAIN folders : folders[f] \in [parent : FolderIds \union {Root}, name : Names]
    /\ \A t \in DOMAIN tags : tags[t] \in Names

\* Every reference names a row: a deleted folder, tag or host leaves none behind,
\* at whatever depth of the tree it was - a row id is used again by the next
\* insert, so a dangling reference would silently adopt the new row.
ReferencesHold ==
    /\ TypeOK
    /\ \A f \in DOMAIN folders : folders[f].parent \in DOMAIN folders \union {Root}
    /\ \A h \in DOMAIN hosts : hosts[h] \in DOMAIN folders \union {Root}
    /\ host_tags \subseteq (DOMAIN hosts) \X (DOMAIN tags)

\* tree() walks down from the root: the least set its WITH RECURSIVE builds.
ChildrenIn(S) == \A g \in DOMAIN folders : folders[g].parent \in S \union {Root} => g \in S
tree == {f \in DOMAIN folders : \A S \in SUBSET DOMAIN folders : ChildrenIn(S) => f \in S}

\* No sequence of moves detaches a subtree: tree() lists every folder.
TreeComplete == tree = DOMAIN folders

\* Deleting a folder never destroys a host record, whatever lies inside it.
HostsSurvive ==
    [][\A h \in DOMAIN hosts : h \notin DOMAIN hosts' => folders' = folders /\ DOMAIN hosts' = DOMAIN hosts \ {h}]_vars

=============================================================================
