------------------------------ MODULE Pickers -------------------------------
(***************************************************************************)
(* Choosing directories in the terminal: the guest directories to back up, *)
(* with the loader that lists them first, and the browser of the host's    *)
(* directories that the create form opens.                                 *)
(*                                                                         *)
(* The guest's directories are a sequence sorted by path.  A node has its  *)
(* depth, the index of its parent (0 for none), whether its name starts    *)
(* with a dot and whether it contains what the user filters for.           *)
(***************************************************************************)
EXTENDS Integers, Sequences, FiniteSets, FiniteSetsExt

CONSTANTS
  PickTrees,   \* the directories a guest may have
  HostDirs,    \* [directory] the sequence of its subdirectories
  HostUp,      \* [directory] its parent; the root is its own
  DotDirs,     \* directories whose name starts with a dot
  PageHeight   \* rows of a page

VARIABLES
  pk,     \* BackupLoaderModel and BackupPickerModel
  cache,  \* the cached list of the VM's directories, or <<>>
  hp      \* hostDirPickerModel

pickerVars == <<pk, cache>>

tree == pk.tree
Nodes == DOMAIN tree

(* The loops over "everything under a node" run from the node to the next   *)
(* one that is no deeper.                                                   *)
under(i) == {j \in Nodes : j > i /\ \A k \in (i + 1)..j : tree[k].depth > tree[i].depth}
childrenIn(i) == {j \in under(i) : tree[j].depth = tree[i].depth + 1}
hasChildren(i) == \E j \in Nodes : j > i /\ tree[j].up = i

ancestors(i) == LET up[j \in 0..Len(tree)] == IF j = 0 THEN {} ELSE {j} \cup up[tree[j].up]
                IN up[tree[i].up]

visibleFiltered ==
  LET plain == {i \in Nodes : pk.hidden \/ ~tree[i].dot}
      hits  == {i \in plain : pk.filter = "hit" /\ tree[i].hit}
  IN IF pk.filter = "" THEN plain \cap pk.vis
     ELSE plain \cap (hits \cup UNION {ancestors(i) : i \in hits})

rows == Cardinality(visibleFiltered)
row(i) == Cardinality({j \in visibleFiltered : j < i})
nodeAt(c) == LET shown == visibleFiltered IN
             CHOOSE i \in shown : Cardinality({j \in shown : j < i}) = c

-----------------------------------------------------------------------------
(* The loader.                                                              *)

buildNodes(t) ==
  LET base == IF t = <<>> THEN 0 ELSE t[1].depth
      kids(i) == \E j \in DOMAIN t : j > i /\ t[j].up = i
  IN [pk EXCEPT !.st = "pick", !.tree = t,
        !.vis = {i \in DOMAIN t : t[i].depth <= base + 2},
        !.exp = {i \in DOMAIN t : t[i].depth <= base + 1 /\ kids(i)}]

(* Before there is a list, and, with what was picked, after the program.    *)
noList(st, picked) ==
  [st |-> st, tree |-> <<>>, vis |-> {}, exp |-> {}, chk |-> picked, cur |-> 0,
   filter |-> "", typing |-> FALSE, hidden |-> FALSE, stale |-> FALSE]

PickersInit == cache \in PickTrees \cup {<<>>} /\ pk = noList("start", {})

(* A cached list is shown at once, and listed again for the next time; what *)
(* is shown stays.                                                          *)
startEnum ==
  /\ pk.st = "start"
  /\ IF cache # <<>> THEN pk' = [buildNodes(cache) EXCEPT !.stale = TRUE] ELSE pk' = [pk EXCEPT !.st = "stream"]
  /\ UNCHANGED cache

(* The stream ends: with an error, with nothing, or with the directories it *)
(* brought.  That ssh failed halfway is not noticed.                        *)
streamDone ==
  /\ pk.st = "stream"
  /\ \/ pk' = noList("left", {}) /\ UNCHANGED cache
     \/ \E t \in PickTrees : pk' = buildNodes(t) /\ cache' \in {t, cache}

backgroundRefresh ==
  /\ pk.st = "pick" /\ pk.stale
  /\ pk' = [pk EXCEPT !.stale = FALSE]
  /\ cache' \in PickTrees \cup {cache}

-----------------------------------------------------------------------------
(* The picker's keys.                                                       *)

clamp(c) == IF c < 0 THEN 0 ELSE IF c >= rows THEN rows - 1 ELSE c

moveCursor ==
  /\ \/ \E d \in {-1, 1, -PageHeight, PageHeight} : rows > 0 /\ pk' = [pk EXCEPT !.cur = clamp(@ + d)]
     \/ pk' = [pk EXCEPT !.cur = 0]
     \/ pk' = [pk EXCEPT !.cur = rows - 1]

toggleCheck(i) ==
  IF i \in pk.chk THEN pk' = [pk EXCEPT !.chk = @ \ ({i} \cup under(i))]
  ELSE pk' = [pk EXCEPT !.chk = @ \cup {i} \cup under(i)]

setChildrenVisible(i) ==
  [pk EXCEPT !.exp = @ \cup {i}, !.vis = @ \cup childrenIn(i)]

hide(i) == [pk EXCEPT !.exp = @ \ ({i} \cup under(i)), !.vis = @ \ under(i), !.cur = row(i)]

(* The descent goes through nodes that have children.                       *)
expandRecursive(i) ==
  LET below  == {i} \cup under(i)
      opened == {j \in below : \A k \in below : j \in {k} \cup under(k) => hasChildren(k)}
  IN [pk EXCEPT !.exp = @ \cup opened, !.vis = @ \cup UNION {childrenIn(j) : j \in opened}]

toggleExpand(i) == pk' = IF i \in pk.exp THEN hide(i) ELSE setChildrenVisible(i)

expandAll(i) == pk' = expandRecursive(i)

jumpToParent(i) ==
  LET before == {j \in Nodes : j < i /\ tree[j].depth < tree[i].depth}
  IN IF before # {} /\ Max(before) \in visibleFiltered THEN [pk EXCEPT !.cur = row(Max(before))] ELSE pk

collapse(i) == pk' = IF i \in pk.exp THEN hide(i) ELSE jumpToParent(i)

(* Keys that act on the node under the cursor: nothing past the end, an     *)
(* index out of range before the beginning.                                 *)
onNode ==
  /\ pk.cur < rows
  /\ IF pk.cur < 0 THEN pk' = [pk EXCEPT !.st = "panic"]
     ELSE \E i \in {nodeAt(pk.cur)} :
            toggleCheck(i) \/ toggleExpand(i) \/ expandAll(i) \/ collapse(i)

toggleAll ==
  pk' = [pk EXCEPT !.chk = IF visibleFiltered \cap @ # {} THEN @ \ visibleFiltered ELSE @ \cup visibleFiltered]

toggleHidden == pk' = [pk EXCEPT !.hidden = ~@, !.cur = 0]
startFilter == pk' = [pk EXCEPT !.typing = TRUE, !.filter = ""]
clearFilter == pk' = [pk EXCEPT !.filter = "", !.cur = 0]

updateFilter ==
  \/ pk' = [pk EXCEPT !.typing = FALSE, !.cur = 0]
  \/ \E f \in {"", "hit", "miss"} : pk' = [pk EXCEPT !.filter = f]
  \/ pk' = noList("left", {})

pickKey ==
  /\ pk.st = "pick"
  /\ \/ pk.typing /\ updateFilter
     \/ /\ ~pk.typing
        /\ \/ moveCursor \/ toggleAll \/ toggleHidden \/ startFilter \/ clearFilter
           \/ onNode
           \/ pk' = noList("left", {})
           \/ pk' = noList("done", pk.chk)
  /\ UNCHANGED cache

PickersNext == startEnum \/ streamDone \/ backgroundRefresh \/ pickKey

-----------------------------------------------------------------------------
(* The browser of host directories.                                         *)

entries(d, hidden) == SelectSeq(HostDirs[d], LAMBDA e : hidden \/ e \notin DotDirs)

cd(d) == [hp EXCEPT !.cwd = d, !.cur = 0]

BrowseInit == \E d \in DOMAIN HostDirs : hp = [cwd |-> d, cur |-> 0, hidden |-> FALSE, st |-> "open"]

here == entries(hp.cwd, hp.hidden)

(* A page down in an empty directory leaves the cursor before its start.    *)
browseKey ==
  /\ hp.st = "open"
  /\ \/ hp.cur > 0 /\ hp' = [hp EXCEPT !.cur = @ - 1]
     \/ hp.cur < Len(here) - 1 /\ hp' = [hp EXCEPT !.cur = @ + 1]
     \/ hp' = [hp EXCEPT !.cur = IF @ - PageHeight < 0 THEN 0 ELSE @ - PageHeight]
     \/ hp' = [hp EXCEPT !.cur = IF @ + PageHeight >= Len(here) THEN Len(here) - 1 ELSE @ + PageHeight]
     \/ here # <<>> /\ (hp' = cd(here[hp.cur + 1]) \/ UNCHANGED hp)
     \/ hp' = cd(HostUp[hp.cwd])
     \/ hp' = [hp EXCEPT !.hidden = ~@, !.cur = 0]
     \/ hp' = [hp EXCEPT !.st = "chosen"]
     \/ hp' = [hp EXCEPT !.st = "left"]

-----------------------------------------------------------------------------
(* Properties.                                                              *)

(* The directories are in the order of the tree: what is under a node       *)
(* follows it.  Sorting by path gives that unless a name extends another    *)
(* by a character before "/", as code.old does code.                        *)
TreeOrdered == \A i, j \in Nodes : i \in ancestors(j) <=> j \in under(i)

(* A directory is listed when, and only when, its parent is unfolded,       *)
(* however the tree was folded, unfolded and filtered before.               *)
FoldsAgree ==
  TreeOrdered => \A j \in Nodes : tree[j].up # 0 => (j \in pk.vis <=> tree[j].up \in pk.exp)

(* The cursor is on a row of the list, unless the list is empty.            *)
CursorOnRow == pk.st = "pick" /\ ~pk.typing /\ rows > 0 => pk.cur \in 0..(rows - 1)

(* In the browser the cursor is on a subdirectory if there is one.          *)
BrowserOnRow == here # <<>> => hp.cur \in 0..(Len(here) - 1)

=============================================================================
