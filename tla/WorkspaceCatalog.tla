-------------------------- MODULE WorkspaceCatalog --------------------------
(***************************************************************************)
(* The workspace: its roots, the recent and favourite ones, the tree that  *)
(* shows them, and the operations on the items in it (workspace_state.cpp, *)
(* main.cpp), while other programs change the disk.                        *)
(*                                                                         *)
(* A path is a sequence of names, a name a sequence of characters.  The    *)
(* paths of the program are absolute and normal.  The filter of the tree   *)
(* and the limit of 2,000 children are left out, and so are links: the     *)
(* test of the roots is one of texts, and what a link or a junction inside *)
(* of a root leads to is inside for it.                                    *)
(***************************************************************************)
EXTENDS Integers, Sequences, FiniteSets, SequencesExt

CONSTANTS InitialDisk,   \* function from paths to "directory" or "file"
          TypedNames,    \* names that are typed in
          Excluded,      \* names of directories that the tree leaves out
          RecentLimit,   \* 12
          MaxChanges     \* bound: steps that change something

SEPARATOR == 92
NamesOfItems == {name \in Seq(Nat) : ~Contains(name, SEPARATOR)}
PathsOfItems == Seq(NamesOfItems)

(* A directory, a file, or a file that another program has put there.      *)
Kinds == {"directory", "file", "other"}

(* A file's name has no separator, and what exists is in a directory.      *)
IsDisk(d) ==
  \A path \in DOMAIN d :
    /\ path \in PathsOfItems /\ path # <<>> /\ d[path] \in Kinds
    /\ Len(path) > 1 => Front(path) \in DOMAIN d /\ d[Front(path)] = "directory"

ASSUME CatalogAssumption ==
  /\ IsDisk(InitialDisk) /\ TypedNames \subseteq Seq(Nat)
  /\ RecentLimit \in Nat /\ MaxChanges \in Nat

Drive  == <<>>    \* what all paths are on
NoPath == << <<>> >>  \* a path with an empty name

VARIABLES
  disk,      \* what there is
  roots, recent, favorites,
  current,   \* workspace_root_
  tree,      \* tree_paths_: paths that are shown ...
  loaded,    \* ... and those whose children are
  selected,  \* the selected item's path
  prompt,    \* the question that is open
  catalogFile,
  sessionRoots, \* the roots in the session file
  written,   \* history: the last write of the catalog succeeded
  changes

lists       == <<roots, recent, favorites>>
catalogVars == <<disk, lists, current, tree, loaded, selected, prompt, catalogFile,
                 sessionRoots, written, changes>>

(* A question: the path it was asked for, the path that its answer names   *)
(* once that is checked, and - a history - whether another program has put *)
(* something there since.                                                  *)
Question(kind, path) == [kind |-> kind, path |-> path, target |-> NoPath, taken |-> FALSE]
NoPrompt == Question("none", NoPath)
NoLists  == [roots |-> <<>>, recent |-> <<>>, favorites |-> <<>>]

CatalogInit ==
  /\ disk = InitialDisk
  /\ roots = <<>> /\ recent = <<>> /\ favorites = <<>>
  /\ current = NoPath /\ tree = {} /\ loaded = {} /\ selected = NoPath
  /\ prompt = NoPrompt /\ catalogFile = NoLists /\ sessionRoots = <<>>
  /\ written = TRUE /\ changes = 0

Change == changes < MaxChanges /\ changes' = changes + 1

IsDirectory(path) == path = Drive \/ (path \in DOMAIN disk /\ disk[path] = "directory")
Parent(path) == Front(path)

-----------------------------------------------------------------------------
(* The lists.                                                              *)

(* The values that are in a set, in their order.                           *)
Among(values, S) ==
  LET kept[n \in 0 .. Len(values)] ==
        IF n = 0 THEN <<>>
        ELSE IF values[n] \in S THEN Append(kept[n - 1], values[n]) ELSE kept[n - 1]
  IN  kept[Len(values)]

Without(values, path) == Among(values, ToSet(values) \ {path})

AddRecent(values, path) ==
  LET all == <<path>> \o Without(values, path)
  IN  SubSeq(all, 1, IF Len(all) < RecentLimit THEN Len(all) ELSE RecentLimit)

SetFavorite(values, path, isFavorite) ==
  Without(values, path) \o IF isFavorite THEN <<path>> ELSE <<>>

(* Only a directory that is not yet a root is added.                       *)
AddRoot(all, path) ==
  IF ~IsDirectory(path) \/ Contains(all.roots, path) THEN all
  ELSE [all EXCEPT !.roots = Append(@, path), !.recent = AddRecent(@, path)]

(* One path after the other.                                               *)
AddRoots(all, paths) ==
  LET added[n \in 0 .. Len(paths)] ==
        IF n = 0 THEN all ELSE AddRoot(added[n - 1], paths[n])
  IN  added[Len(paths)]

AddRecents(values, paths) ==
  LET added[n \in 0 .. Len(paths)] ==
        IF n = 0 THEN values ELSE AddRecent(added[n - 1], paths[n])
  IN  added[Len(paths)]

AddFavorites(paths) ==
  LET added[n \in 0 .. Len(paths)] ==
        IF n = 0 THEN <<>> ELSE SetFavorite(added[n - 1], paths[n], TRUE)
  IN  added[Len(paths)]

(* The catalog's file is read line by line: its recents come out reversed. *)
Deserialize(encoded) ==
  LET rooted == AddRoots(NoLists, encoded.roots)
  IN  [roots     |-> rooted.roots,
       recent    |-> AddRecents(rooted.recent, encoded.recent),
       favorites |-> AddFavorites(encoded.favorites)]

Lists == [roots |-> roots, recent |-> recent, favorites |-> favorites]
BecomeLists(all) == roots' = all.roots /\ recent' = all.recent /\ favorites' = all.favorites

(* The file is replaced as a whole, or not at all.                         *)
SaveWorkspaceCatalog(all) ==
  \/ catalogFile' = all /\ written' = TRUE
  \/ UNCHANGED catalogFile /\ written' = FALSE

-----------------------------------------------------------------------------
(* The tree.                                                               *)

Children(path) ==
  {p \in DOMAIN disk : /\ Len(p) = Len(path) + 1 /\ IsPrefix(path, p)
                       /\ disk[p] = "directory" => Last(p) \notin Excluded}

(* The roots and what is in them now; the rest is loaded when it is expanded. *)
RenderLazyWorkspaceRoots(all) ==
  LET shown == {p \in ToSet(all) : IsDirectory(p)'}
  IN  /\ tree' = ToSet(all) \cup UNION {Children(path)' : path \in shown}
      /\ loaded' = shown
      /\ selected' = NoPath

LoadWorkspaceChildren ==
  /\ prompt = NoPrompt
  /\ \E path \in tree \ loaded :
       /\ IsDirectory(path)
       /\ tree' = tree \cup Children(path)
       /\ loaded' = loaded \cup {path}
  /\ UNCHANGED <<disk, lists, current, selected, prompt, catalogFile, sessionRoots, written,
                 changes>>

SelectItem ==
  /\ prompt = NoPrompt
  /\ selected' \in tree
  /\ UNCHANGED <<disk, lists, current, tree, loaded, prompt, catalogFile, sessionRoots,
                 written, changes>>

(* Mutant: the catalog is saved before the root is in it.                  *)
StartWorkspaceScanSavingFirst(path, all) ==
  /\ SaveWorkspaceCatalog(all)
  /\ BecomeLists(AddRoot(all, path))
  /\ current' = path
  /\ RenderLazyWorkspaceRoots(AddRoot(all, path).roots)

StartWorkspaceScan(path, all) ==
  /\ BecomeLists(AddRoot(all, path))
  /\ SaveWorkspaceCatalog(AddRoot(all, path))
  /\ current' = path
  /\ RenderLazyWorkspaceRoots(AddRoot(all, path).roots)

(* The scan of the last root renders all of them.  Where an item was       *)
(* selected there is one.                                                  *)
RefreshWorkspace == roots # <<>> /\ StartWorkspaceScan(Last(roots), Lists)

OpenFolder ==
  /\ prompt = NoPrompt /\ Change
  /\ UNCHANGED <<disk, prompt, sessionRoots>>
  /\ \E path \in DOMAIN disk : IsDirectory(path) /\ StartWorkspaceScan(path, Lists)

-----------------------------------------------------------------------------
(* The manager of recent and favourite workspaces, and the roots.          *)

OpenFromManager ==
  /\ prompt = NoPrompt /\ Change
  /\ UNCHANGED <<disk, prompt, sessionRoots>>
  /\ \E path \in ToSet(favorites) \cup ToSet(recent) :
       IsDirectory(path) /\ StartWorkspaceScan(path, Lists)

ToggleFavorite(path) ==
  LET all == [Lists EXCEPT !.favorites = SetFavorite(@, path, ~Contains(@, path))]
  IN  BecomeLists(all) /\ SaveWorkspaceCatalog(all)

ToggleFavoriteWorkspace ==
  /\ prompt = NoPrompt /\ Change
  /\ \E path \in ({current} \ {NoPath}) \cup ToSet(favorites) \cup ToSet(recent) :
       ToggleFavorite(path)
  /\ UNCHANGED <<disk, current, tree, loaded, selected, prompt, sessionRoots>>

(* The session snapshot is written by another thread, or not any more.     *)
RemoveWorkspaceRoot ==
  LET all == [Lists EXCEPT !.roots = Without(@, selected)]
  IN  /\ prompt = NoPrompt /\ Change
      /\ Contains(roots, selected)
      /\ UNCHANGED <<disk, prompt>>
      /\ IF all.roots = <<>>
         THEN /\ tree' = {} /\ selected' = NoPath /\ UNCHANGED <<current, loaded>>
              /\ BecomeLists(all) /\ SaveWorkspaceCatalog(all)
         ELSE StartWorkspaceScan(Last(all.roots), all)
      /\ sessionRoots' \in {all.roots, sessionRoots}

-----------------------------------------------------------------------------
(* Operations on items.                                                    *)

TextOf(path) == FlattenSeq([i \in DOMAIN path |-> <<SEPARATOR>> \o path[i]])

(* The root's text, and behind it nothing or a separator.                  *)
IsWithinWorkspaceRoots(path, all) ==
  \E i \in DOMAIN all :
    IsPrefix(TextOf(all[i]) \o <<SEPARATOR>>, TextOf(path) \o <<SEPARATOR>>)

IsValidWorkspaceName(name) ==
  /\ name # <<>> /\ Last(name) \notin {32, 46}
  /\ \A i \in DOMAIN name : name[i] >= 32 /\ name[i] \notin {34, 42, 47, 58, 60, 62, 63, 92, 124}

(* A prompt keeps the path it was opened for; in its message loop other    *)
(* programs go on.                                                         *)
AskForItem ==
  /\ prompt = NoPrompt /\ selected # NoPath
  /\ \/ prompt' = Question("create",
                           IF IsDirectory(selected) THEN selected ELSE Parent(selected))
     \/ \E kind \in {"rename", "recycle"} : prompt' = Question(kind, selected)
  /\ UNCHANGED <<disk, lists, current, tree, loaded, selected, catalogFile, sessionRoots,
                 written, changes>>

(* Cancelled, or the operation fails.                                      *)
CancelPrompt ==
  /\ prompt # NoPrompt
  /\ prompt' = NoPrompt
  /\ UNCHANGED <<disk, lists, current, tree, loaded, selected, catalogFile, sessionRoots,
                 written, changes>>

(* The last part of each: the disk has changed, the tree is rendered anew. *)
ItemDone ==
  /\ Change
  /\ prompt' = NoPrompt
  /\ RefreshWorkspace
  /\ UNCHANGED sessionRoots

(* What is asked for the new item or the new name, in the item's directory. *)
Target(name) ==
  Append(IF prompt.kind = "create" THEN prompt.path ELSE Parent(prompt.path), name)

(* Mutant: it is not checked whether the name is used.                     *)
CheckWorkspaceItemAnyName ==
  /\ prompt.kind \in {"create", "rename"} /\ prompt.target = NoPath
  /\ IF prompt.kind = "create" THEN IsDirectory(prompt.path) ELSE ~Contains(roots, prompt.path)
  /\ IsWithinWorkspaceRoots(prompt.path, roots)
  /\ \E name \in TypedNames :
       /\ IsValidWorkspaceName(name) /\ IsWithinWorkspaceRoots(Target(name), roots)
       /\ prompt' = [prompt EXCEPT !.target = Target(name)]
  /\ UNCHANGED <<disk, lists, current, tree, loaded, selected, catalogFile, sessionRoots,
                 written, changes>>

(* CreateWorkspaceItem and RenameWorkspaceItem up to std::filesystem::exists. *)
(* The window's thread goes on from there without its message loop.        *)
CheckWorkspaceItem ==
  /\ prompt.kind \in {"create", "rename"} /\ prompt.target = NoPath
  /\ IF prompt.kind = "create" THEN IsDirectory(prompt.path) ELSE ~Contains(roots, prompt.path)
  /\ IsWithinWorkspaceRoots(prompt.path, roots)
  /\ \E name \in TypedNames :
       /\ IsValidWorkspaceName(name) /\ IsWithinWorkspaceRoots(Target(name), roots)
       /\ Target(name) \notin DOMAIN disk
       /\ prompt' = [prompt EXCEPT !.target = Target(name)]
  /\ UNCHANGED <<disk, lists, current, tree, loaded, selected, catalogFile, sessionRoots,
                 written, changes>>

Placed(path, kind) ==
  [p \in DOMAIN disk \cup {path} |-> IF p = path THEN kind ELSE disk[p]]

(* A file that is there by now is opened for appending, and stays.         *)
CreateWorkspaceItem ==
  /\ prompt.kind = "create" /\ prompt.target # NoPath
  /\ \/ /\ prompt.target \notin DOMAIN disk /\ IsDirectory(prompt.path)
        /\ \E kind \in {"directory", "file"} : disk' = Placed(prompt.target, kind)
     \/ /\ prompt.target \in DOMAIN disk /\ ~IsDirectory(prompt.target)
        /\ UNCHANGED disk
  /\ ItemDone

Removed(path) == [p \in {q \in DOMAIN disk : ~IsPrefix(path, q)} |-> disk[p]]

(* What was below the source is below the target.                          *)
Moved(path, source, target) ==
  IF IsPrefix(source, path) THEN target \o SubSeq(path, Len(source) + 1, Len(path)) ELSE path

Renamed(d, source, target) ==
  [p \in {Moved(q, source, target) : q \in DOMAIN d} |->
     d[CHOOSE q \in DOMAIN d : Moved(q, source, target) = p]]

(* std::filesystem::rename replaces a file that is there by now, or fails; *)
(* a directory is not replaced.                                            *)
RenameWorkspaceItem ==
  /\ prompt.kind = "rename" /\ prompt.target # NoPath
  /\ prompt.path \in DOMAIN disk
  /\ \/ /\ prompt.target # prompt.path /\ ~IsDirectory(prompt.target)
        /\ disk' = Renamed(Removed(prompt.target), prompt.path, prompt.target)
     \/ prompt.target = prompt.path /\ UNCHANGED disk
  /\ ItemDone

RecycleWorkspaceItem ==
  /\ prompt.kind = "recycle"
  /\ IsWithinWorkspaceRoots(prompt.path, roots) /\ ~Contains(roots, prompt.path)
  /\ prompt.path \in DOMAIN disk
  /\ disk' = Removed(prompt.path)
  /\ ItemDone

(* Another program removes something, with all that is in it, or puts      *)
(* something where nothing is.                                             *)
RemoveElsewhere ==
  /\ Change
  /\ \E path \in DOMAIN disk : disk' = Removed(path)
  /\ UNCHANGED <<lists, current, tree, loaded, selected, prompt, catalogFile, sessionRoots,
                 written>>

CreateElsewhere ==
  /\ Change
  /\ \E path \in DOMAIN disk, name \in TypedNames, kind \in {"directory", "other"} :
       LET place == Append(path, name)
       IN  /\ IsDirectory(path) /\ IsValidWorkspaceName(name) /\ place \notin DOMAIN disk
           /\ disk' = Placed(place, kind)
           /\ prompt' = [prompt EXCEPT !.taken = @ \/ place = prompt.target]
  /\ UNCHANGED <<lists, current, tree, loaded, selected, catalogFile, sessionRoots, written>>

-----------------------------------------------------------------------------
(* Sessions and launches.                                                  *)

SnapshotSession ==
  /\ prompt.target = NoPath
  /\ sessionRoots' = roots
  /\ UNCHANGED <<disk, lists, current, tree, loaded, selected, prompt, catalogFile, written,
                 changes>>

(* The catalog is read, then the session's roots are added; without a      *)
(* session nothing is rendered.                                            *)
CatalogRelaunch ==
  LET read == Deserialize(catalogFile)
      all  == AddRoots(read, sessionRoots)
  IN  /\ Change
      /\ prompt' = NoPrompt /\ UNCHANGED <<disk, sessionRoots>>
      /\ \/ all.roots # <<>> /\ StartWorkspaceScan(Last(all.roots), all)
         \/ /\ \/ all.roots = <<>> /\ BecomeLists(all)
               \/ BecomeLists(read)
            /\ current' = NoPath /\ tree' = {} /\ loaded' = {} /\ selected' = NoPath
            /\ written' = (Lists' = catalogFile)
            /\ UNCHANGED catalogFile

-----------------------------------------------------------------------------
CatalogNext ==
  \/ LoadWorkspaceChildren \/ SelectItem
  \/ OpenFolder \/ OpenFromManager \/ ToggleFavoriteWorkspace \/ RemoveWorkspaceRoot
  \/ AskForItem \/ CancelPrompt
  \/ CheckWorkspaceItem \/ CreateWorkspaceItem \/ RenameWorkspaceItem \/ RecycleWorkspaceItem
  \/ RemoveElsewhere \/ CreateElsewhere \/ SnapshotSession \/ CatalogRelaunch

CatalogSpec == CatalogInit /\ [][CatalogNext]_catalogVars

IsList(list) == list \in Seq(PathsOfItems) /\ IsInjective(list)

ListRecords == [roots : Seq(PathsOfItems), recent : Seq(PathsOfItems),
                favorites : Seq(PathsOfItems)]

IsLists(all) ==
  /\ all \in ListRecords
  /\ IsList(all.roots) /\ IsList(all.recent) /\ IsList(all.favorites)
  /\ Len(all.recent) <= RecentLimit
  /\ ToSet(all.roots) \subseteq ToSet(all.recent) \/ Len(all.recent) = RecentLimit

(* Types; no list names a path twice, and all that are roots are recent,   *)
(* unless there were too many of them.  No path has a separator in a name. *)
CatalogTypeOK ==
  /\ IsDisk(disk)
  /\ IsLists(Lists) /\ IsLists(catalogFile) /\ IsList(sessionRoots)
  /\ {current, selected} \cup tree \cup loaded \subseteq PathsOfItems
  /\ selected \in tree \cup {NoPath}
  /\ prompt \in [kind : {"none", "create", "rename", "recycle"}, path : PathsOfItems,
                 target : PathsOfItems, taken : BOOLEAN]
  /\ written \in BOOLEAN /\ changes \in 0 .. MaxChanges

(* Paths where a step adds, removes or replaces something.                 *)
Touched ==
  {path \in DOMAIN disk \cup DOMAIN disk' :
     ~(path \in DOMAIN disk \cap DOMAIN disk' /\ disk'[path] = disk[path])}

(* workspace_state.cpp:86, main.cpp:3513: creating, renaming and recycling *)
(* change nothing but what is inside a root, whatever became of the        *)
(* selected item.  Nothing there is lost but the item that is renamed or   *)
(* recycled, and what another program puts where the item is to go after   *)
(* the check that the name is free and before the rename; a root goes with *)
(* an item only if it is inside another root.                              *)
ItemsStayInside ==
  [][(CreateWorkspaceItem \/ RenameWorkspaceItem \/ RecycleWorkspaceItem) =>
       /\ \A path \in Touched : \E i \in DOMAIN roots : IsStrictPrefix(roots[i], path)
       /\ \A path \in Touched \cap DOMAIN disk :
            \/ prompt.kind # "create" /\ IsPrefix(prompt.path, path)
            \/ prompt.taken /\ path = prompt.target]_catalogVars

(* main.cpp:3584, 4014, workspace_state.cpp:126: if its file was written,  *)
(* the catalog is there again at the next launch: the favourites, the      *)
(* roots that still are directories, in their order, and the same recents  *)
(* (in the opposite order).  What else is a root comes from the session.   *)
RestartKeepsCatalog ==
  [][(CatalogRelaunch /\ written) =>
       /\ favorites' = favorites
       /\ IsPrefix(Among(roots, {path \in ToSet(roots) : IsDirectory(path)}), roots')
       /\ ToSet(roots') \subseteq ToSet(roots) \cup ToSet(sessionRoots)
       /\ ToSet(sessionRoots) \subseteq ToSet(roots) => ToSet(recent') = ToSet(recent)]_catalogVars
=============================================================================
