------------------------- MODULE ContainerTemplates -------------------------
(***************************************************************************)
(* Vector, List, SharedPtr and UniquePtr of src/pycstl: where their        *)
(* elements live.  A slot or a node is raw memory or holds an element;     *)
(* each operation constructs, assigns, destroys, allocates and frees as    *)
(* the templates do, next to the sequence a container of the standard      *)
(* library would hold.  Elements may throw when moved, so move_if_noexcept *)
(* copies.  The second vector of an operation is any that has been         *)
(* constructed and grown.                                                  *)
(***************************************************************************)
EXTENDS Naturals, Sequences, SequencesExt, FiniteSetsExt

CONSTANTS Values, MaxSize,   \* of a vector
          MaxNodes           \* of both lists

VARIABLES obj

Raw == 0
Seqs == BoundedSeq(Values, MaxSize)
\* The arguments of a loop: from, from + 1, ... below to, and back.
Upward(from, to) == [k \in 1..(IF to > from THEN to - from ELSE 0) |-> from + k - 1]
Downward(from, to) == Reverse(Upward(to, from))
Cut(seq, from, to) == SubSeq(seq, 1, from) \o SubSeq(seq, to + 1, Len(seq))
Paste(seq, at, new) == SubSeq(seq, 1, at) \o new \o SubSeq(seq, at + 1, Len(seq))

(***************************************************************************)
(* Vector: slots is the memory at data_, counted from 0 in the code.       *)
(***************************************************************************)
Fresh(seq) == [slots |-> seq, size |-> Len(seq), capacity |-> Len(seq), model |-> seq,
               odd |-> {},        \* history: what was done that the lifetimes do not survive
               faults |-> {}]     \* history: what it led to
Fault(v, what) == [v EXCEPT !.faults = @ \union {what}]
Odd(v, what) == [v EXCEPT !.odd = @ \union {what}]
If(v, test, what) == IF test THEN Fault(v, what) ELSE v
\* The constructor with an allocator only leaves size, capacity and address unset: whatever
\* is done with the vector, its destruction included, goes astray.
Unset == Fault(Odd(Fresh(<<>>), "unset"), "wild")

Construct(v, i, x) ==
    IF i >= Len(v.slots) THEN Fault(v, "wild")
    ELSE If(If([v EXCEPT !.slots[i + 1] = x], v.slots[i + 1] # Raw, "lost"), x = Raw, "raw")
Assign(v, i, x) ==
    IF i >= Len(v.slots) THEN Fault(v, "wild")
    ELSE If([v EXCEPT !.slots[i + 1] = x], Raw \in {x, v.slots[i + 1]}, "raw")
Destroy(v, i) ==
    IF i >= Len(v.slots) THEN Fault(v, "wild")
    ELSE If([v EXCEPT !.slots[i + 1] = Raw], v.slots[i + 1] = Raw, "raw")

\* deallocate(data_, capacity_), which is not called with no capacity.
Release(v) ==
    LET live == \E i \in DOMAIN v.slots : v.slots[i] # Raw
        lost == If([v EXCEPT !.slots = <<>>], live \/ (v.capacity = 0 /\ v.slots # <<>>), "lost")
    IN  If(lost, v.capacity # 0 /\ v.capacity # Len(v.slots), "size")

\* The elements are copied into n slots, and those they were copied from are not destroyed.
Regrow(v, n) ==
    LET empty == [Release(v) EXCEPT !.slots = [i \in 1..n |-> Raw], !.capacity = n]
        copied == FoldLeft(LAMBDA w, i : Construct(w, i, v.slots[i + 1]), empty, Upward(0, v.size))
    IN  IF v.size > 0 THEN Odd(copied, "regrown") ELSE copied

Reserve(v, count) == IF count <= v.capacity THEN v ELSE Regrow(v, Max({count, 2 * v.size}))
ShrinkToFit(v) == IF v.capacity = v.size THEN v ELSE Regrow(v, v.size)

Clear(v) == [FoldLeft(Destroy, v, Upward(0, v.size)) EXCEPT !.size = 0, !.model = <<>>]
Destruct(v) == Release(Clear(v))

\* An argument: a value, or a reference to an element of the vector itself.
Value(x) == <<"value", x>>
Element(i) == <<"element", i>>
Meaning(v, arg) == IF arg[1] = "value" THEN arg[2] ELSE v.model[arg[2] + 1]
\* What a reference that was taken in v refers to in w.
ConstructFrom(v, w, i, arg) ==
    IF arg[1] = "value" THEN Construct(w, i, arg[2])
    ELSE IF "regrown" \in w.odd \ v.odd \/ Len(w.slots) # Len(v.slots) \/ w.slots[arg[2] + 1] = Raw THEN Fault(w, "freed")
    ELSE Construct(w, i, w.slots[arg[2] + 1])

PushBack(v, arg) ==
    [ConstructFrom(v, Reserve(v, v.size + 1), v.size, arg) EXCEPT !.size = @ + 1, !.model = Append(@, Meaning(v, arg))]

\* Insert: the elements from at on move up, the last one first.
Insert(v, at, args) ==
    LET count == Len(args)
        move(w, offset) == Destroy(Construct(w, offset + count, w.slots[offset + 1]), offset)
        moved == FoldLeft(move, Reserve(v, v.size + count), Downward(v.size, at))
        filled == FoldLeft(LAMBDA w, k : ConstructFrom(v, w, at + k - 1, args[k]), moved, [k \in 1..count |-> k])
        shifted == \E k \in DOMAIN args : args[k][1] = "element" /\ args[k][2] >= at
        done == [filled EXCEPT !.size = @ + count, !.model = Paste(@, at, [k \in 1..count |-> Meaning(v, args[k])])]
    IN  IF count = 0 THEN v ELSE IF shifted THEN Odd(done, "shifted") ELSE done

Erase(v, first, last) ==
    LET diff == last - first
        moved == FoldLeft(LAMBDA w, i : Assign(w, i - diff, w.slots[i + 1]), v, Upward(last, v.size))
        shorter == [moved EXCEPT !.size = @ - diff, !.model = Cut(@, first, last)]
    IN  FoldLeft(Destroy, shorter, Upward(v.size - diff, v.size))

Resize(v, count, x) ==
    LET fewer == FoldLeft(Destroy, v, Upward(count, v.size))
        more == FoldLeft(LAMBDA w, i : Construct(w, i, x), Reserve(v, count), Upward(v.size, count))
    IN  [(IF count < v.size THEN fewer ELSE IF count > v.size THEN more ELSE v)
            EXCEPT !.size = count, !.model = [i \in 1..count |-> IF i <= v.size THEN @[i] ELSE x]]

\* Assignments: of the old elements none is destroyed, and the capacity is that which is used.
CopyAssign(v, other) ==
    LET copied == FoldLeft(LAMBDA w, i : Construct(w, i, other.slots[i + 1]), Reserve(v, other.size), Upward(0, other.size))
    IN  Odd([copied EXCEPT !.size = other.size, !.capacity = other.size, !.model = other.model], "copied")
Take(v, other) ==
    Odd([v EXCEPT !.slots = other.slots, !.size = other.size, !.capacity = other.size, !.model = other.model], "moved")
MoveAssign(v, other) == Take(Release(v), other)
ListAssign(v, seq) ==
    LET raw == [If(v, v.slots # <<>>, "lost") EXCEPT !.slots = [i \in 1..Len(seq) |-> Raw], !.size = Len(seq), !.capacity = Len(seq), !.model = seq]
    IN  Odd(FoldLeft(LAMBDA w, i : Assign(w, i, seq[i + 1]), raw, Upward(0, Len(seq))), "listed")

Others == {Fresh(seq) : seq \in Seqs}
            \union {Reserve(Fresh(<<>>), n) : n \in 1..MaxSize}
            \union {PushBack(Reserve(Fresh(<<>>), MaxSize), Value(x)) : x \in Values}

\* A vector that is destroyed is gone; another one may be constructed in its place.
VectorNext ==
    LET v == obj.v
        args == {Value(x) : x \in Values} \union {Element(i) : i \in 0..v.size - 1}
        next(w) == obj' = [obj EXCEPT !.v = w]
    IN  /\ obj.kind = "vector"
        /\ \/ /\ obj.gone
              /\ \/ obj' = [obj EXCEPT !.v = Unset, !.gone = FALSE]
                 \/ \E w \in Others :
                       \/ obj' = [obj EXCEPT !.v = w, !.gone = FALSE]
                       \/ obj' = [obj EXCEPT !.v = Take(Fresh(<<>>), w), !.gone = FALSE]
           \/ /\ ~obj.gone /\ v.faults \intersect {"wild", "freed"} = {}
              /\ \/ obj' = [obj EXCEPT !.v = Destruct(v), !.gone = TRUE]
                 \/ next(Clear(v)) \/ next(ShrinkToFit(v))
                 \/ \E n \in 1..MaxSize : next(Reserve(v, n)) \/ \E x \in Values : next(Resize(v, n, x))
                 \/ \E arg \in args : v.size < MaxSize /\ next(PushBack(v, arg))
                 \/ \E at \in 0..v.size : \/ \E arg \in args : v.size < MaxSize /\ next(Insert(v, at, <<arg>>))
                                          \/ \E arg \in args : v.size + 2 <= MaxSize /\ next(Insert(v, at, <<arg, arg>>))
                 \/ \E first, last \in 0..v.size : first < last /\ next(Erase(v, first, last))
                 \/ \E seq \in Seqs : next(ListAssign(v, seq)) \/ next(Insert(Clear(v), 0, [k \in DOMAIN seq |-> Value(seq[k])]))
                 \/ \E other \in Others : next(CopyAssign(v, other)) \/ next(MoveAssign(v, other))

(***************************************************************************)
(* List: two lists; a node is its number, the numbers after are dummies.   *)
(***************************************************************************)
Lists == 1..2
Dummy(l) == MaxNodes + l
Cells == 1..MaxNodes + 2

RECURSIVE Follow(_, _, _)
Follow(o, l, n) == IF n = Dummy(l) THEN <<>> ELSE <<n>> \o Follow(o, l, o.next[n])
\* begin() to end(), of a list that is closed
Nodes(o, l) == Follow(o, l, o.next[Dummy(l)])
Broken(o, l) == o.next[Dummy(l)] > MaxNodes /\ o.next[Dummy(l)] # Dummy(l)
Free(o) == {n \in 1..MaxNodes : o.value[n] = Raw}

Emplace(o, l, pos, x) ==
    LET curr == Min(Free(o))
        linked == [o EXCEPT !.prev[curr] = o.prev[pos], !.next[curr] = pos, !.value[curr] = x]
    IN  [linked EXCEPT !.next[o.prev[pos]] = curr, !.prev[pos] = curr, !.size[l] = @ + 1]

\* insert of a range before pos, element by element; push_back is one at the end.
InsertAll(o, l, pos, seq) ==
    LET at == IF pos = Dummy(l) THEN Len(o.model[l]) ELSE SelectInSeq(Nodes(o, l), LAMBDA n : n = pos) - 1
    IN  [FoldLeft(LAMBDA p, x : Emplace(p, l, pos, x), o, seq) EXCEPT !.model[l] = Paste(@, at, seq)]

Unlink(o, l, node) ==
    [o EXCEPT !.next[o.prev[node]] = o.next[node], !.prev[o.next[node]] = o.prev[node], !.value[node] = Raw, !.size[l] = @ - 1]
EraseNodes(o, l, first, last) ==
    LET seq == Nodes(o, l)
        gone == SubSeq(seq, first, last)
    IN  [FoldLeft(LAMBDA p, n : Unlink(p, l, n), o, gone) EXCEPT !.model[l] = Cut(@, first - 1, last)]

\* remove: elements equal to one of the list itself, or to another value; the reference
\* is read again for every element.
RemoveEqual(o, l, node, x) ==
    LET step(p, n) == IF p.freed \/ (node # Raw /\ p.value[node] = Raw) THEN [p EXCEPT !.freed = TRUE]
                      ELSE IF p.value[n] = (IF node = Raw THEN x ELSE p.value[node]) THEN Unlink(p, l, n) ELSE p
    IN  [FoldLeft(step, o, Nodes(o, l)) EXCEPT !.model[l] = SelectSeq(@, LAMBDA y : y # x)]

ClearList(o, l) ==
    [o EXCEPT !.value = [n \in DOMAIN @ |-> IF n \in ToSet(Nodes(o, l)) THEN Raw ELSE @[n]], !.size[l] = 0, !.model[l] = <<>>,
              !.next[Dummy(l)] = Dummy(l), !.prev[Dummy(l)] = Dummy(l)]

\* _uninit_move_assign, after clear: the dummy is copied, its neighbours point back to it.
MoveList(o, l, other) ==
    LET first == o.next[Dummy(other)]
        final == o.prev[Dummy(other)]
        copied == [o EXCEPT !.next[Dummy(l)] = first, !.prev[Dummy(l)] = final]
        closed == [copied EXCEPT !.next[final] = Dummy(l), !.prev[first] = Dummy(l)]
    IN  [closed EXCEPT !.next[Dummy(other)] = Dummy(other), !.prev[Dummy(other)] = Dummy(other),
                       !.size[l] = o.size[other], !.size[other] = 0,
                       !.model[l] = o.model[other], !.model[other] = <<>>,
                       !.fromEmpty = IF o.size[other] = 0 THEN @ \union {l} ELSE @]

ListNext ==
    \E l \in Lists :
        LET other == 3 - l
            seq == Nodes(obj, l)
            fits(n) == Cardinality(Free(obj)) >= n
        IN  /\ obj.kind = "list" /\ ~obj.freed /\ \A m \in Lists : ~Broken(obj, m)
            /\ \/ \E x \in Values, pos \in ToSet(seq) \union {Dummy(l)} : fits(1) /\ obj' = InsertAll(obj, l, pos, <<x>>)
               \/ \E pos \in ToSet(seq) \union {Dummy(l)} :           \* splice copies
                     fits(obj.size[other]) /\ obj' = InsertAll(obj, l, pos, obj.model[other])
               \/ \E first, last \in DOMAIN seq : first <= last /\ obj' = EraseNodes(obj, l, first, last)
               \/ \E x \in Values : obj' = RemoveEqual(obj, l, Raw, x)
               \/ \E n \in ToSet(seq) : obj' = RemoveEqual(obj, l, n, obj.value[n])
               \/ obj' = ClearList(obj, l)
               \/ LET empty == ClearList(obj, l)                       \* copy assignment
                  IN  Cardinality(Free(empty)) >= obj.size[other] /\ obj' = InsertAll(empty, l, Dummy(l), obj.model[other])
               \/ obj' = MoveList(ClearList(obj, l), l, other)

(***************************************************************************)
(* SharedPtr or, when `exclusive`, UniquePtr: two local pointers and one   *)
(* that each thing on the heap has as a member; thing n is counted by      *)
(* counter n.  A pointer is assigned to by moving from another one or from *)
(* a temporary: the operator= that would copy does not compile.            *)
(***************************************************************************)
Things == 1..2
Locals == 1..2
Member(n) == 2 + n
Pointers == Locals \union {Member(n) : n \in Things}
Wild == 3                                      \* a ptr_ that nothing was written to
Points(ptr, owner) == [ptr |-> ptr, owner |-> owner]
Nothing == Points(0, 0)

Exists(p, h) == h \in Locals \/ \E n \in Things : h = Member(n) /\ p.state[n] = "live"
Wrong(p, what) == [p EXCEPT !.faults = @ \union {what}]
Incref(p, n) == [p EXCEPT !.count[n] = @ + 1]

\* The last one deletes the thing, and with it the pointer that is its member.
RECURSIVE Decref(_, _)
Decref(p, n) ==
    IF n = 0 THEN p
    ELSE IF p.count[n] > 1 THEN [p EXCEPT !.count[n] = @ - 1]
    ELSE LET dead == [p EXCEPT !.count[n] = 0, !.state[n] = "dead"]
             told == IF p.state[n] = "dead" THEN Wrong(dead, "deleted twice")
                     ELSE IF p.class[n] = "array" THEN Wrong(dead, "array deleted as one") ELSE dead
         IN  Decref(told, p.at[Member(n)].owner)

\* reset, the destructor, and the assignment from a temporary: the old is let go first.
Become(p, h, new) == [Decref(p, p.at[h].owner) EXCEPT !.at[h] = new]

MoveFrom(p, h, g) ==
    LET less == Decref(p, p.at[h].owner)
    IN  IF h = g THEN p
        ELSE IF ~Exists(less, g) THEN Wrong(less, "read after delete")
        ELSE [less EXCEPT !.at[h] = less.at[g], !.at[g] = Nothing]

\* A new thing: only one that derives from EnableSharedFromThis of its own class is told
\* who counts it.
Own(p, h, n, class) ==
    Become([p EXCEPT !.state[n] = "live", !.class[n] = class, !.count[n] = 1,
                     !.self[n] = IF class = "aware" /\ ~p.exclusive THEN n ELSE 0], h, Points(n, n))

Copy(p, h, g) == IF p.at[g].owner = 0 THEN Become(p, h, p.at[g]) ELSE Become(Incref(p, p.at[g].owner), h, p.at[g])
\* A cast shares the owner without a test; DynamicPointerCast, unless the thing is of the class.
Cast(p, h, g) == IF p.at[g].owner = 0 THEN Wrong(p, "cast of an empty pointer") ELSE Copy(p, h, g)
DynamicCast(p, h, g) ==
    IF p.at[g].ptr = Wild THEN Wrong(p, "cast of an empty pointer")
    ELSE IF p.at[g].ptr # 0 /\ p.class[p.at[g].ptr] = "derived" THEN Cast(p, h, g)
    ELSE Become(p, h, Points(Wild, 0))
FromThis(p, h, n) ==
    IF p.self[n] = 0 THEN Wrong(p, "no owner was set") ELSE Become(Incref(p, p.self[n]), h, Points(n, p.self[n]))

\* What the program can name: its locals, and the members of what it can get to.
RECURSIVE Named(_, _)
Named(p, hs) ==
    LET more == hs \union {Member(p.at[h].ptr) : h \in {g \in hs : p.at[g].owner # 0}}
    IN  IF more = hs THEN hs ELSE Named(p, more)

PointerNext ==
    /\ obj.kind = "pointers" /\ obj.faults = {}
    /\ \E h \in Named(obj, Locals) :
          \/ obj' = Become(obj, h, Nothing)
          \/ h \in Locals /\ ~obj.exclusive /\ obj' = Become(obj, h, Points(Wild, 0))
          \/ \E n \in Things, class \in {"aware", "derived", "array"} :
                (obj.exclusive => class # "array") /\ obj.state[n] = "raw" /\ obj' = Own(obj, h, n, class)
          \/ \E g \in Named(obj, Locals) :
                \/ obj' = [MoveFrom(obj, h, g) EXCEPT !.inner = h # g /\ g \notin Named([obj EXCEPT !.at[h] = Nothing], Locals)]
                \/ /\ ~obj.exclusive
                   /\ \/ obj' \in {Copy(obj, h, g), Cast(obj, h, g), DynamicCast(obj, h, g)}
                      \/ obj.at[g].owner # 0 /\ obj' = FromThis(obj, h, obj.at[g].ptr)
                      \/ obj' = [obj EXCEPT !.at[h] = obj.at[g], !.at[g] = obj.at[h]]          \* swap
          \/ ~obj.exclusive /\ obj' = Wrong(obj, "owner of null")   \* from an empty UniquePtr, told to nobody

Init ==
    \/ obj = [kind |-> "vector", v |-> Fresh(<<>>), gone |-> FALSE]
    \/ obj = [kind |-> "list", next |-> [n \in Cells |-> n], prev |-> [n \in Cells |-> n], value |-> [n \in 1..MaxNodes |-> Raw],
              size |-> [l \in Lists |-> 0], model |-> [l \in Lists |-> <<>>],
              freed |-> FALSE,        \* remove has read an element it had destroyed
              fromEmpty |-> {}]       \* history: lists that took the place of an empty one
    \/ \E exclusive \in BOOLEAN :
         obj = [kind |-> "pointers", exclusive |-> exclusive, at |-> [h \in Pointers |-> Nothing],
                state |-> [n \in Things |-> "raw"], class |-> [n \in Things |-> "none"],
                count |-> [n \in Things |-> 0], self |-> [n \in Things |-> 0],
                inner |-> FALSE,      \* history: the last pointer moved from was one that only the target led to
                faults |-> {}]        \* where the behaviour is no more defined

Next == VectorNext \/ ListNext \/ PointerNext

(***************************************************************************)
(* Properties.                                                             *)
(***************************************************************************)
\* Whatever is done to a vector, it holds what a sequence would, within its memory; but
\* not after the insertion of an element of its own that had to move for it, or that the
\* vector freed when it grew; and only one made with an allocator alone goes astray, whose
\* members the constructor leaves as they are.
VectorIsSequence ==
    obj.kind = "vector" /\ ~obj.gone =>
        LET v == obj.v
        IN  /\ v.size <= v.capacity /\ v.capacity <= Len(v.slots) /\ ("wild" \in v.faults => v.odd = {"unset"})
            /\ "shifted" \notin v.odd /\ "freed" \notin v.faults => SubSeq(v.slots, 1, v.size) = v.model

\* No element is lost, read or destroyed when it is not there, and no memory returned with
\* another size, but by growing and by the assignments.
LifetimesAsKnown ==
    obj.kind = "vector" =>
        LET v == obj.v
            after(causes) == v.odd \intersect causes # {}
        IN  /\ "lost" \in v.faults => after({"regrown", "copied", "moved", "listed"})
            /\ "size" \in v.faults => after({"copied", "moved"})
            /\ "raw" \in v.faults => after({"listed"})
            /\ "freed" \in v.faults => after({"regrown", "shifted"})

\* A list is one ring of its nodes, in both directions, with as many as it counts; no
\* node is in no list.  One that took the place of an empty list is no ring any more.
ListIsRing ==
    obj.kind = "list" =>
        /\ \A l \in Lists : Broken(obj, l) => l \in obj.fromEmpty
        /\ (\A l \in Lists : ~Broken(obj, l)) /\ ~obj.freed =>
              /\ \A l \in Lists :
                    LET seq == Nodes(obj, l)
                    IN  /\ [i \in DOMAIN seq |-> obj.value[seq[i]]] = obj.model[l] /\ obj.size[l] = Len(seq)
                        /\ \A i \in DOMAIN seq : obj.prev[seq[i]] = IF i = 1 THEN Dummy(l) ELSE seq[i - 1]
                        /\ obj.prev[Dummy(l)] = IF seq = <<>> THEN Dummy(l) ELSE Last(seq)
              /\ UNION {ToSet(Nodes(obj, l)) : l \in Lists} = 1..MaxNodes \ Free(obj)

\* A thing lives as long as a pointer owns it, and is counted by those that do; moving from
\* a pointer that dies with what the target held is the only way to something deleted.
OwnedIsAlive ==
    obj.kind = "pointers" =>
        /\ obj.faults = {} =>
              /\ \A n \in Things :
                    LET owners == {h \in Pointers : Exists(obj, h) /\ obj.at[h].owner = n}
                    IN  obj.count[n] = Cardinality(owners) /\ (obj.state[n] = "live" <=> owners # {})
              /\ obj.exclusive => \A n \in Things : obj.count[n] <= 1
        /\ "deleted twice" \notin obj.faults
        /\ "read after delete" \in obj.faults => obj.inner
=============================================================================
