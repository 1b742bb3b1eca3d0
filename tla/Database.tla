------------------------------ MODULE Database ------------------------------
(***************************************************************************)
(* The tiny database (tiny_db): a B+ tree of pages, kept in memory and     *)
(* written to the file by .exit only.  Page 0 is the first leaf for ever,  *)
(* so 0 as a parent or a next leaf means none.  An internal page has room  *)
(* for one child more than its array before it is split.  A row is its key. *)
(***************************************************************************)
EXTENDS Integers, Sequences, SequencesExt, FiniteSets

CONSTANTS Keys,                     \* the ids a user inserts
          MaxCells, MaxChildren,    \* kMaxCells, kMaxChildren
          MaxExits                  \* bound: .exit is used so often


VARIABLES obj

\* The parent of a new root is read as it was in memory that nobody cleared.
Junk == -1

Leaf(parent, cells, next) ==
    [leaf |-> TRUE, parent |-> parent, cells |-> cells, next |-> next, children |-> <<>>, right |-> 0]
Internal(parent, children, right) ==
    [leaf |-> FALSE, parent |-> parent, cells |-> <<>>, next |-> 0, children |-> children, right |-> right]
Child(page, max) == [page |-> page, max |-> max]

\* running: the program runs and page 0 was clean.
Init ==
    obj = [running |-> FALSE, pages |-> <<>>, file |-> <<>>, root |-> 0, first |-> 0, last |-> 0,
           keys |-> {}, saved |-> {}, exits |-> 0,   \* history: what was inserted; the same at the last .exit
           stale |-> FALSE,                     \* history: a cell behind the last of a leaf was compared
           failedAt |-> {}]                     \* history: what was inserted when the program gave up

PageNum(o) == Cardinality(DOMAIN o.pages)
NewPage(o, node) == [o EXCEPT !.pages = [p \in 0..PageNum(o) |-> IF p = PageNum(o) THEN node ELSE o.pages[p]]]

(***************************************************************************)
(* Table: the constructor, which follows the parents of page 0 up.         *)
(***************************************************************************)
RECURSIVE Up(_, _), Down(_, _, _)
Up(pages, p) == IF p = Junk \/ pages[p].parent = 0 THEN p ELSE Up(pages, pages[p].parent)
Down(pages, p, side) ==
    IF pages[p].leaf THEN p
    ELSE Down(pages, IF side = "first" THEN pages[p].children[1].page ELSE pages[p].right, side)

\* A new file: page 0 is used as it was allocated, and only if that was zero is it an
\* empty leaf.  A junk parent ends the program.
Open ==
    /\ ~obj.running
    /\ \/ /\ obj.file = <<>>
          /\ obj' = [obj EXCEPT !.running = TRUE, !.pages = [p \in {0} |-> Leaf(0, <<>>, 0)],
                                !.root = 0, !.first = 0, !.last = 0]
       \/ /\ obj.file # <<>>
          /\ LET root == Up(obj.file, 0)
             IN  /\ root # Junk
                 /\ obj' = [obj EXCEPT !.running = TRUE, !.pages = obj.file, !.root = root,
                                       !.first = Down(obj.file, root, "first"), !.last = Down(obj.file, root, "last")]

\* .exit
Exit ==
    /\ obj.running /\ obj.exits < MaxExits
    /\ obj' = [obj EXCEPT !.running = FALSE, !.pages = <<>>, !.file = obj.pages, !.saved = obj.keys, !.exits = @ + 1]

\* Killed, or exit(EXIT_FAILURE): the table is not destroyed, no page is written.
Killed(o) == [o EXCEPT !.running = FALSE, !.pages = <<>>, !.keys = o.saved]
GiveUp(o) == [Killed(o) EXCEPT !.failedAt = o.keys]
Kill == obj.running /\ obj' = Killed(obj)

(***************************************************************************)
(* lower_bound, from the page p down: the leaf and the index in it.        *)
(***************************************************************************)
Smaller(cells, key) == Cardinality({i \in DOMAIN cells : cells[i] < key})
RECURSIVE LowerBound(_, _, _)
LowerBound(o, key, p) ==
    LET node == o.pages[p]
        before == Cardinality({i \in DOMAIN node.children : node.children[i].max < key})
    IN  IF node.leaf THEN [page |-> p, index |-> Smaller(node.cells, key)]
        ELSE LowerBound(o, key, IF before = Len(node.children) THEN node.right ELSE node.children[before + 1].page)

(***************************************************************************)
(* split_internal_node: the root only; of the children that move only the  *)
(* last is told its new parent.                                            *)
(***************************************************************************)
SplitInternal(o, q, parent) ==
    LET total == MaxChildren + 2
        split == total \div 2
        cs == o.pages[q].children
        new == PageNum(o)
        moved == Internal(new + 1, SubSeq(cs, split + 1, Len(cs)), o.pages[q].right)
        kept == Internal(new + 1, SubSeq(cs, 1, split - 1), cs[split].page)
        split2 == [NewPage(o, moved) EXCEPT !.pages[q] = kept, !.pages[moved.right].parent = new]
        max == Last(o.pages[kept.right].cells)
    IN  IF o.pages[q].parent # 0 THEN GiveUp(o)
        ELSE [NewPage(split2, Internal(parent, <<Child(q, max)>>, new)) EXCEPT !.root = new + 1]

(***************************************************************************)
(* Insert and SplitAndInsert at a position.                                *)
(***************************************************************************)
Insert(cells, index, key) == InsertAt(cells, index + 1, key)

\* The new sibling in the parent, beside the page p.
AddChild(node, p, left, new, right) ==
    IF node.right = p THEN [node EXCEPT !.children = Append(@, Child(p, Last(left))), !.right = new]
    ELSE LET j == CHOOSE j \in DOMAIN node.children : node.children[j].page = p
         IN  [node EXCEPT !.children = SubSeq(@, 1, j - 1) \o <<Child(p, Last(left)), Child(new, Last(right))>>
                                       \o SubSeq(@, j + 1, Len(@))]

SplitAndInsert(o, pos, key, parent) ==
    LET p == pos.page
        old == o.pages[p]
        split == (MaxCells + 1) \div 2
        keep == IF pos.index < split THEN MaxCells - split ELSE MaxCells - split + 1
        l == SubSeq(old.cells, 1, keep)
        r == SubSeq(old.cells, keep + 1, MaxCells)
        left == IF pos.index < split THEN Insert(l, pos.index, key) ELSE l
        right == IF pos.index < split THEN r ELSE Insert(r, pos.index - split, key)
        new == PageNum(o)
        up == IF old.parent = 0 THEN new + 1 ELSE old.parent
        split2 == [NewPage(o, Leaf(up, right, old.next)) EXCEPT !.pages[p] = Leaf(up, left, new),
                                                                !.last = IF @ = p THEN new ELSE @]
        node == o.pages[up]
        added == [split2 EXCEPT !.pages[up] = AddChild(node, p, left, new, right)]
    IN  IF old.parent = 0
        THEN [NewPage(split2, Internal(parent, <<Child(p, Last(left))>>, new)) EXCEPT !.root = up]
        ELSE IF node.right # p /\ \A j \in DOMAIN node.children : node.children[j].page # p THEN GiveUp(o)
        ELSE IF Len(added.pages[up].children) > MaxChildren THEN SplitInternal(added, up, parent)
        ELSE added

(***************************************************************************)
(* ExecuteInsert.                                                          *)
(***************************************************************************)
AtEnd(o, pos) == pos.page = o.last /\ pos.index = Len(o.pages[o.last].cells)
Holds(o, pos, key) == pos.index < Len(o.pages[pos.page].cells) /\ o.pages[pos.page].cells[pos.index + 1] = key

ExecuteInsert(key, parent) ==
    /\ obj.running
    /\ LET pos == LowerBound(obj, key, obj.root)
           o == [obj EXCEPT !.stale = @ \/ (~AtEnd(obj, pos) /\ pos.index = Len(obj.pages[pos.page].cells)),
                            !.keys = @ \union {key}]
       IN  /\ ~Holds(obj, pos, key)         \* else "Duplicate key"
           /\ obj' = IF Len(obj.pages[pos.page].cells) = MaxCells THEN SplitAndInsert(o, pos, key, parent)
                     ELSE [o EXCEPT !.pages[pos.page].cells = Insert(@, pos.index, key)]

Next ==
    \/ Open \/ Exit \/ Kill
    \/ \E key \in Keys, parent \in {0, Junk} : ExecuteInsert(key, parent)

Spec == Init /\ [][Next]_obj

(***************************************************************************)
(* Properties.                                                             *)
(***************************************************************************)
\* ExecuteSelect: the rows from first along next_leaf to last.
RECURSIVE Rows(_, _)
Rows(o, p) == o.pages[p].cells \o IF p = o.last THEN <<>> ELSE Rows(o, o.pages[p].next)

\* Whatever was split, stored and opened again: the rows are those inserted, in order
\* and once, and each is found from the root; no cell behind a leaf's last is compared.
TableIsWhole ==
    /\ ~obj.stale
    /\ obj.running =>
        /\ LET rows == Rows(obj, obj.first)
           IN  ToSet(rows) = obj.keys /\ \A i \in 2..Len(rows) : rows[i - 1] < rows[i]
        /\ \A key \in obj.keys : Holds(obj, LowerBound(obj, key, obj.root), key)
        /\ obj.pages[obj.last].next = 0

\* The program gives up only when an internal page, not a leaf, was full before: not
\* before MaxChildren + 2 leaves, one of them full, and unless the root had a junk parent
\* not before the root was split.
GivesUpLate ==
    LET leaf == (MaxCells + 1) \div 2
    IN  obj.failedAt # {} => Cardinality(obj.failedAt) > (MaxChildren + 1) * leaf + MaxCells - leaf
=============================================================================
