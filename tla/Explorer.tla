----------------------------- MODULE Explorer ------------------------------
(* The lazy tree of the file explorer: an arena of nodes that are never     *)
(* re-used, directory listings read by the filesystem worker and reconciled *)
(* with what the tree already holds, the watcher's reports of changes, the  *)
(* selection, and the prompts that create, rename and delete entries. Names *)
(* are numbers, in the order a listing has them; a path is the sequence of  *)
(* names below the root.                                                    *)
EXTENDS Integers, Sequences, SequencesExt, FiniteSetsExt, TLC

CONSTANTS
  Names,        \* of directory entries
  Hidden,       \* paths the ignore rules and the exclusions keep out of the tree
  FirstDisks,   \* the disk at the start: one of these
  MaxNodes,     \* bound: nodes of the arena
  MaxTreeKeys,  \* bound: keys pressed
  MaxDiskOps,   \* bound: changes made by other programs
  MaxPending    \* bound: requests and events under way when a new one is made

VARIABLES
  disk,      \* what every path is: nothing, a file or a directory
  nodes,     \* the arena
  selected,  \* a node
  asking,    \* the open prompt
  treeKeys,  \* keys pressed, for the bound
  diskOps,   \* changes made by other programs, for the bound
  noticed,   \* paths the watcher has seen change and not reported
  fsQueue,   \* requests the filesystem worker has not served
  fsEvents,  \* its answers and the watcher's reports, under way to the loop
  troubled   \* history: the listing of a directory that was loaded has failed

treeVars == <<nodes, selected, asking, treeKeys>>
diskVars == <<disk, diskOps, noticed>>
pipeVars == <<fsQueue, fsEvents, troubled>>
explorerVars == <<treeVars, diskVars, pipeVars>>

Parent(path) == Front(path)
IsUnder(path, dir) == IsPrefix(dir, path)
PathBefore(a, b) ==
  \/ IsStrictPrefix(a, b)
  \/ \E i \in 1..Min({Len(a), Len(b)}) : a[i] < b[i] /\ \A j \in 1..(i - 1) : a[j] = b[j]
TreePaths == DOMAIN disk

----------------------------------------------------------------------------
(* The disk.                                                                *)

Kind(path) == IF path = <<>> THEN "dir" ELSE disk[path]
ChildrenOf(path) ==
  {p \in TreePaths : Len(p) = Len(path) + 1 /\ IsUnder(p, path) /\ disk[p] # "none"}
EntryBefore(a, b) == \/ a.kind = "dir" /\ b.kind = "file"
                     \/ a.kind = b.kind /\ Last(a.path) < Last(b.path)
\* A rule that matches a directory hides what is below it too.
IsHidden(path) == \E i \in 1..Len(path) : SubSeq(path, 1, i) \in Hidden
\* One level as the tree wants it: without what the rules hide, directories first.
Listing(path) ==
  SortSeq(SetToSeq({[path |-> p, kind |-> disk[p]] : p \in {c \in ChildrenOf(path) : ~IsHidden(c)}}),
          EntryBefore)

Creatable(path) == disk[path] = "none" /\ Kind(Parent(path)) = "dir"
Renamable(from, to) == /\ disk[from] # "none" /\ Kind(Parent(to)) = "dir"
                       /\ disk[to] \in {"none", disk[from]} /\ ChildrenOf(to) = {}
Created(path, kind) == [disk EXCEPT ![path] = kind]
Removed(path) == [p \in TreePaths |-> IF IsUnder(p, path) THEN "none" ELSE disk[p]]
Renamed(from, to) ==
  LET rest(p) == SubSeq(p, Len(from) + 1, Len(p))
  IN [p \in TreePaths |->
        IF IsUnder(p, to) THEN disk[from \o SubSeq(p, Len(to) + 1, Len(p))]
        ELSE IF IsUnder(p, from) THEN "none" ELSE disk[p]]

----------------------------------------------------------------------------
(* The tree.                                                                *)

Unloaded == [state |-> "unloaded", ids |-> <<>>]
Loading == [state |-> "loading", ids |-> <<>>]
Errored == [state |-> "error", ids |-> <<>>]
Loaded(ids) == [state |-> "loaded", ids |-> ids]
Node(parent, path, kind) ==
  [parent |-> parent, path |-> path, kind |-> kind, expanded |-> FALSE, children |-> Unloaded,
   alive |-> TRUE]
Root == 1
Alive(ns, id) == id \in DOMAIN ns /\ ns[id].alive
IsLoadedDir(id) == Alive(nodes, id) /\ nodes[id].children.state = "loaded"

NeedsLoad(n) == n.kind = "dir" /\ n.children.state \in {"unloaded", "error"}
BeginLoad(n) == IF NeedsLoad(n) THEN [n EXCEPT !.children = Loading] ELSE n

\* A node and everything below it that it still holds.
Subtree(ns, id) ==
  LET level(ids) == UNION {Range(ns[i].children.ids) : i \in ids}
  IN {id} \union level({id}) \union level(level({id}))
KillSubtrees(ns, ids) ==
  LET dead == UNION {Subtree(ns, i) : i \in ids}
  IN [i \in DOMAIN ns |-> IF i \in dead THEN [ns[i] EXCEPT !.alive = FALSE] ELSE ns[i]]

\* Reconcile a listing: a name of the same kind keeps its node, others are new,
\* and what the listing lacks is dropped with all that is below it.
Reconcile(id, entries) ==
  LET had == {c \in Range(nodes[id].children.ids) : Alive(nodes, c)}
      match(e) == {c \in had : Last(nodes[c].path) = Last(e.path) /\ nodes[c].kind = e.kind}
      fresh == SelectSeq(entries, LAMBDA e : match(e) = {})
      idOf(e) == IF match(e) # {} THEN CHOOSE c \in match(e) : TRUE
                 ELSE Len(nodes) + CHOOSE i \in DOMAIN fresh : fresh[i] = e
      grown == nodes \o [i \in DOMAIN fresh |-> Node(id, fresh[i].path, fresh[i].kind)]
      ids == [i \in DOMAIN entries |-> idOf(entries[i])]
      moved == [i \in DOMAIN grown |->
                  IF i \in had /\ i \in Range(ids)
                  THEN [grown[i] EXCEPT !.path = Append(grown[id].path, Last(@))] ELSE grown[i]]
  IN [KillSubtrees(moved, had \ Range(ids)) EXCEPT ![id].children = Loaded(ids)]
NearestLiveAncestor(ns, from) ==
  LET up[i \in 0..Len(ns)] == IF i = 0 THEN Root ELSE IF ns[i].alive THEN i ELSE up[ns[i].parent]
  IN up[from]
SetChildren(id, entries) ==
  IF ~Alive(nodes, id) THEN UNCHANGED <<nodes, selected>>
  ELSE /\ nodes' = Reconcile(id, entries)
       /\ selected' = IF Alive(nodes', selected) THEN selected ELSE NearestLiveAncestor(nodes', id)

\* Depth first, parents before children: two levels below the root.
VisibleRows ==
  LET below(id) == IF nodes[id].expanded
                   THEN SelectSeq(nodes[id].children.ids, LAMBDA c : Alive(nodes, c)) ELSE <<>>
      with(id) == <<id>> \o below(id)
  IN <<Root>> \o FlattenSeq([i \in DOMAIN below(Root) |->
                   <<below(Root)[i]>> \o FlattenSeq([j \in DOMAIN below(below(Root)[i]) |->
                                                       with(below(below(Root)[i])[j])])])
RowOf(id) == IF \E i \in DOMAIN VisibleRows : VisibleRows[i] = id
             THEN CHOOSE i \in DOMAIN VisibleRows : VisibleRows[i] = id ELSE 1

FindByPath(path) ==
  LET found == {i \in DOMAIN nodes : nodes[i].alive /\ nodes[i].path = path}
  IN IF found = {} THEN 0 ELSE Min(found)
\* The directories to list again for a changed path. Mutant: only itself.
DirsToRefreshSelf(path) == {i \in {FindByPath(path)} : IsLoadedDir(i)}
DirsToRefresh(path) ==
  IF IsLoadedDir(FindByPath(path)) THEN {FindByPath(path)}
  ELSE {i \in {IF path = <<>> THEN 0 ELSE FindByPath(Parent(path))} : IsLoadedDir(i)}

----------------------------------------------------------------------------
(* Keys, with the project pane in focus.                                    *)

Calm == Len(fsQueue) + Len(fsEvents) < MaxPending
TreeKey == Calm /\ treeKeys < MaxTreeKeys /\ treeKeys' = treeKeys + 1
NotAsking == asking.kind = "nothing"
NoPrompt == [kind |-> "nothing", target |-> <<>>, isDir |-> FALSE]
Send(r) == fsQueue' = Append(fsQueue, r)
ReadDir(id) == [op |-> "readDir", id |-> id, path |-> nodes[id].path, to |-> <<>>]

MoveTreeSelection(by) ==
  /\ NotAsking /\ TreeKey
  /\ selected' = VisibleRows[Max({1, Min({Len(VisibleRows), RowOf(selected) + by})})]
  /\ UNCHANGED <<nodes, asking, diskVars, pipeVars>>

\* Enter on a directory; on a file it opens the editor, which is not modelled here.
ExplorerToggle ==
  /\ NotAsking /\ TreeKey
  /\ Alive(nodes, selected) /\ nodes[selected].kind = "dir"
  /\ IF nodes[selected].expanded
     THEN nodes' = [nodes EXCEPT ![selected].expanded = FALSE] /\ UNCHANGED fsQueue
     ELSE /\ nodes' = [nodes EXCEPT ![selected] = [BeginLoad(@) EXCEPT !.expanded = TRUE]]
          /\ IF NeedsLoad(nodes[selected]) THEN Send(ReadDir(selected)) ELSE UNCHANGED fsQueue
  /\ UNCHANGED <<selected, asking, diskVars, fsEvents, troubled>>

CollapseOrParent ==
  /\ NotAsking /\ TreeKey /\ Alive(nodes, selected)
  /\ IF nodes[selected].kind = "dir" /\ nodes[selected].expanded
     THEN nodes' = [nodes EXCEPT ![selected].expanded = FALSE] /\ UNCHANGED selected
     ELSE /\ selected' = IF nodes[selected].parent = 0 THEN selected ELSE nodes[selected].parent
          /\ UNCHANGED nodes
  /\ UNCHANGED <<asking, diskVars, pipeVars>>

TargetDir == IF nodes[selected].kind = "dir" THEN nodes[selected].path
             ELSE Parent(nodes[selected].path)
\* New file, new folder; rename and delete not of the root.
OpenTreePrompt(kind) ==
  /\ NotAsking /\ TreeKey /\ Alive(nodes, selected)
  /\ kind \in {"rename", "delete"} => selected # Root
  /\ asking' = [kind |-> kind,
                target |-> IF kind \in {"file", "folder"} THEN TargetDir ELSE nodes[selected].path,
                isDir |-> nodes[selected].kind = "dir"]
  /\ UNCHANGED <<nodes, selected, diskVars, pipeVars>>
CancelTreePrompt ==
  /\ ~NotAsking /\ TreeKey /\ asking' = NoPrompt
  /\ UNCHANGED <<nodes, selected, diskVars, pipeVars>>
ConfirmTreePrompt(name) ==
  /\ ~NotAsking /\ TreeKey
  /\ asking' = NoPrompt
  /\ LET t == asking.target
         request(op, path, to) == [op |-> op, id |-> 0, path |-> path, to |-> to]
     IN CASE asking.kind = "file" -> Send(request("createFile", Append(t, name), <<>>))
          [] asking.kind = "folder" -> Send(request("createDir", Append(t, name), <<>>))
          [] asking.kind = "rename" -> Send(request("rename", t, Append(Parent(t), name)))
          [] asking.kind = "delete" -> 
               Send(request(IF asking.isDir THEN "removeDir" ELSE "removeFile", t, <<>>))
  /\ UNCHANGED <<nodes, selected, diskVars, fsEvents, troubled>>

----------------------------------------------------------------------------
(* The filesystem worker serves requests in order.                          *)

ServesFs(op) == fsQueue # <<>> /\ Head(fsQueue).op = op /\ fsQueue' = Tail(fsQueue)
Tell(e) == fsEvents' = Append(fsEvents, e)
FsEvent(kind, id) == [kind |-> kind, id |-> id, entries |-> <<>>, paths |-> <<>>]
ChangedEvent(paths) == [FsEvent("changed", 0) EXCEPT !.paths = paths]
Notice(paths) == noticed' = noticed \union {p \in paths : ~IsHidden(p)}
InTree(path) == path = <<>> \/ path \in TreePaths

ServeReadDir ==
  /\ ServesFs("readDir")
  /\ LET r == Head(fsQueue)
     IN Tell(IF Kind(r.path) = "dir"
             THEN [FsEvent("dirLoaded", r.id) EXCEPT !.entries = Listing(r.path)]
             ELSE FsEvent("dirFailed", r.id))
  /\ UNCHANGED <<treeVars, diskVars, troubled>>
\* A mutation reports what it changed, as the watcher would; the watcher sees it too.
Mutation(op, possible, after, paths) ==
  /\ ServesFs(op)
  /\ IF possible THEN disk' = after /\ Tell(ChangedEvent(paths)) /\ Notice(Range(paths))
     ELSE Tell(FsEvent("mutationFailed", 0)) /\ UNCHANGED <<disk, noticed>>
  /\ UNCHANGED <<treeVars, diskOps, troubled>>
ServeCreateFile ==
  LET p == Head(fsQueue).path
  IN Mutation("createFile", InTree(p) /\ Creatable(p), Created(p, "file"), <<p>>)
ServeCreateDir ==
  LET p == Head(fsQueue).path
  IN Mutation("createDir", InTree(p) /\ Kind(Parent(p)) = "dir" /\ disk[p] # "file",
              Created(p, "dir"), <<p>>)
ServeRename ==
  LET r == Head(fsQueue)
  IN Mutation("rename", Renamable(r.path, r.to), Renamed(r.path, r.to), <<r.path, r.to>>)
\* Which call removes it was settled when the prompt opened.
ServeRemoveFile ==
  LET p == Head(fsQueue).path
  IN Mutation("removeFile", disk[p] = "file", Removed(p), <<p>>)
ServeRemoveDir ==
  LET p == Head(fsQueue).path
  IN Mutation("removeDir", disk[p] = "dir", Removed(p), <<p>>)

----------------------------------------------------------------------------
(* Other programs, and the watcher that coalesces what they change.         *)

DiskOp == Calm /\ diskOps < MaxDiskOps /\ diskOps' = diskOps + 1
OtherCreates(p, kind) ==
  /\ DiskOp /\ Creatable(p) /\ disk' = Created(p, kind) /\ Notice({p})
  /\ UNCHANGED <<treeVars, pipeVars>>
OtherRemoves(p) ==
  /\ DiskOp /\ disk[p] # "none" /\ disk' = Removed(p) /\ Notice({p})
  /\ UNCHANGED <<treeVars, pipeVars>>
OtherRenames(from, to) ==
  /\ DiskOp /\ from # to /\ Parent(from) = Parent(to) /\ Renamable(from, to)
  /\ disk' = Renamed(from, to) /\ Notice({from, to})
  /\ UNCHANGED <<treeVars, pipeVars>>
WatcherReports ==
  /\ noticed # {} /\ noticed' = {}
  /\ Tell(ChangedEvent(SortSeq(SetToSeq(noticed), PathBefore)))
  /\ UNCHANGED <<treeVars, disk, diskOps, fsQueue, troubled>>

----------------------------------------------------------------------------
(* Answers.                                                                 *)

OnFs(kind) == fsEvents # <<>> /\ Head(fsEvents).kind = kind /\ fsEvents' = Tail(fsEvents)
OnDirLoaded ==
  /\ OnFs("dirLoaded")
  /\ Len(nodes) + Len(Head(fsEvents).entries) <= MaxNodes
  /\ SetChildren(Head(fsEvents).id, Head(fsEvents).entries)
  /\ UNCHANGED <<asking, treeKeys, diskVars, fsQueue, troubled>>
OnDirFailed ==
  /\ OnFs("dirFailed")
  /\ LET id == Head(fsEvents).id
     IN /\ nodes' = IF Alive(nodes, id) THEN [nodes EXCEPT ![id].children = Errored] ELSE nodes
        /\ troubled' = (troubled \/ IsLoadedDir(id))
  /\ UNCHANGED <<selected, asking, treeKeys, diskVars, fsQueue>>
OnMutationFailed ==
  /\ OnFs("mutationFailed")
  /\ UNCHANGED <<treeVars, diskVars, fsQueue, troubled>>
OnDiskChanged ==
  /\ OnFs("changed")
  /\ LET add(ids, p) == ids \o SetToSeq(DirsToRefresh(p) \ Range(ids))
         order == FoldLeft(add, <<>>, Head(fsEvents).paths)
     IN fsQueue' = fsQueue \o [i \in DOMAIN order |-> ReadDir(order[i])]
  /\ UNCHANGED <<treeVars, diskVars, troubled>>

----------------------------------------------------------------------------
\* open_workspace expands the root and asks for its first listing.
ExplorerInit ==
  /\ disk \in FirstDisks
  /\ nodes = <<[Node(0, <<>>, "dir") EXCEPT !.expanded = TRUE, !.children = Loading]>>
  /\ selected = Root /\ asking = NoPrompt
  /\ treeKeys = 0 /\ diskOps = 0 /\ noticed = {}
  /\ fsQueue = <<ReadDir(Root)>> /\ fsEvents = <<>> /\ troubled = FALSE

ExplorerNext ==
  \/ MoveTreeSelection(1) \/ MoveTreeSelection(-1) \/ ExplorerToggle \/ CollapseOrParent
  \/ \E kind \in {"file", "folder", "rename", "delete"} : OpenTreePrompt(kind)
  \/ CancelTreePrompt \/ \E name \in Names : ConfirmTreePrompt(name)
  \/ ServeReadDir \/ ServeCreateFile \/ ServeCreateDir \/ ServeRename \/ ServeRemoveFile
  \/ ServeRemoveDir
  \/ \E p \in TreePaths : OtherCreates(p, "file") \/ OtherCreates(p, "dir") \/ OtherRemoves(p)
  \/ \E p, q \in TreePaths : OtherRenames(p, q)
  \/ WatcherReports
  \/ OnDirLoaded \/ OnDirFailed \/ OnMutationFailed \/ OnDiskChanged

----------------------------------------------------------------------------
(* Properties.                                                              *)

\* Once every change is reported and every listing is in, a directory the tree has
\* loaded shows what the disk has, however the changes, the listings and the
\* reports of the watcher interleaved; as long as no listing of a loaded directory
\* has failed.
TreeShowsTheDisk ==
  (noticed = {} /\ fsQueue = <<>> /\ fsEvents = <<>> /\ ~troubled) =>
    \A i \in DOMAIN nodes : IsLoadedDir(i) =>
      LET ids == nodes[i].children.ids
      IN [k \in DOMAIN ids |-> [path |-> nodes[ids[k]].path, kind |-> nodes[ids[k]].kind]]
           = Listing(nodes[i].path)

\* "The selection may have just been tombstoned; fall back to something real"
\* (tree.rs, set_children): whatever vanishes under it, in whatever order listings
\* arrive, the selection is a row of the tree and no live node has lost its place
\* in it; as long as no listing of a loaded directory has failed.
SelectionIsReal ==
  ~troubled =>
    /\ selected \in Range(VisibleRows)
    /\ \A i \in DOMAIN nodes : (nodes[i].alive /\ i # Root) =>
         i \in Range(nodes[nodes[i].parent].children.ids)

\* "A refresh of a path that has just been renamed or deleted races the refresh of
\* its parent, which is what actually removes it" (model.rs, on_fs_event): once all
\* is quiet, a directory that is gone from the disk is gone from the tree.
DeletedLeavesTheTree ==
  (noticed = {} /\ fsQueue = <<>> /\ fsEvents = <<>>) =>
    \A i \in Range(VisibleRows) : Kind(nodes[i].path) # "none"

\* Once every listing is in, what the tree has loaded is the disk's, with the
\* selection on one of its rows, until a listing of a loaded directory fails, as that
\* of a deleted one does (set_children, dirs_to_refresh; see DeletedLeavesTheTree).
TreeIsTheDisk == TreeShowsTheDisk /\ SelectionIsReal

============================================================================
