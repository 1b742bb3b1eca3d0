------------------------- MODULE ParallelAlgorithms -------------------------
(***************************************************************************)
(* ParallelFind (parallel_algorithm.h) and ParallelQuickSort (sorter.h).   *)
(*                                                                         *)
(* The search cuts the elements into blocks, one for each thread started   *)
(* and the rest for the caller; `found` and the promise are shared.  The   *)
(* threads are joined by the destructors, when the value to return has     *)
(* been computed.                                                          *)
(*                                                                         *)
(* The sorter puts the lower part of what it sorts on a stack, where any   *)
(* thread may take it, sorts the higher part itself and then sorts other   *)
(* chunks until its lower part is done.  DoSort calls itself; a thread is  *)
(* a stack of frames.                                                      *)
(***************************************************************************)
EXTENDS Naturals, Sequences, FiniteSets

CONSTANTS MaxLength,            \* bound: elements to search
          PerThread, Hardware,  \* kMinPerThread and the processors
          MaxElements, MaxKey   \* bounds: elements to sort, their values

VARIABLES obj, th

vars == <<obj, th>>

AtMost(a, b) == IF a < b THEN a ELSE b
AtLeast(a, b) == IF a < b THEN b ELSE a
TaskThreadNum(length) == AtMost(AtLeast(Hardware, 2), (length + PerThread - 1) \div PerThread)

\* The block of thread i; the last thread is the caller.
Begin(i, n, k) == (i - 1) * (n \div k) + 1
End(i, n, k) == IF i = k THEN n + 1 ELSE i * (n \div k) + 1

\* Elements 1..n, those that match; n + 1 is `last`.
FindInit ==
    \E n \in 1..MaxLength : \E match \in SUBSET (1..n) :
        LET k == TaskThreadNum(n)
        IN  /\ obj = [kind |-> "find", n |-> n, match |-> match, threads |-> k, found |-> FALSE, value |-> 0,
                      ret |-> 0, crashed |-> FALSE,
                      early |-> FALSE]      \* history: `last` was chosen while a thread was searching
            /\ th = [i \in 1..k |-> [pc |-> "search", at |-> Begin(i, n, k)]]

Go(i, pc) == th' = [th EXCEPT ![i].pc = pc]

\* The test of the loop and, if it goes on, of the element.
Search(i) ==
    /\ th[i].pc = "search"
    /\ UNCHANGED obj
    /\ \/ /\ th[i].at = End(i, obj.n, obj.threads) \/ obj.found
          /\ Go(i, "done")
       \/ /\ th[i].at # End(i, obj.n, obj.threads) /\ ~obj.found
          /\ IF th[i].at \in obj.match THEN Go(i, "found") ELSE th' = [th EXCEPT ![i].at = @ + 1]

SetFound(i) ==
    /\ th[i].pc = "found"
    /\ obj' = [obj EXCEPT !.found = TRUE]
    /\ Go(i, "set")

\* The second set_value throws; in a thread nobody catches it.
SetValue(i) ==
    /\ th[i].pc = "set"
    /\ obj' = IF obj.value = 0 THEN [obj EXCEPT !.value = th[i].at] ELSE [obj EXCEPT !.crashed = TRUE]
    /\ Go(i, "done")

\* The caller, after its own block: get waits for the value.
Answer ==
    /\ th[obj.threads].pc = "done"
    /\ obj.ret = 0
    /\ \/ /\ ~obj.found
          /\ obj' = [obj EXCEPT !.ret = obj.n + 1, !.early = \E i \in DOMAIN th : th[i].pc # "done"]
       \/ obj.value # 0 /\ obj' = [obj EXCEPT !.ret = obj.value]
    /\ UNCHANGED th

FindNext ==
    /\ obj.kind = "find" /\ ~obj.crashed
    /\ \/ Answer
       \/ \E i \in DOMAIN th : Search(i) \/ SetFound(i) \/ SetValue(i)

-----------------------------------------------------------------------------
(* The sorter.  An element has a value and a number; a chunk is a set, its *)
(* pivot the first of a list that std::partition has left in any order.    *)

\* The caller is thread 0.  A frame: what DoSort sorts, for the promise of which chunk
\* (0: for the frame below), and how far it is.
Frame(data, chunk) == [data |-> data, chunk |-> chunk, pc |-> "split", pivot |-> <<0, 0>>, lower |-> 0, result |-> <<>>]
SortInit ==
    \E n \in 1..MaxElements : \E value \in [1..n -> 1..MaxKey] :
        LET data == {<<value[i], i>> : i \in 1..n}
        IN  /\ obj = [kind |-> "sort", data |-> data,
                      chunks |-> <<>>,            \* the stack: the chunks that nobody has taken
                      parts |-> <<>>,             \* their elements, and those of the chunks that were taken
                      promise |-> <<>>,           \* the results, NotReady at first
                      ret |-> <<>>, pushing |-> 0,
                      raced |-> FALSE]            \* two threads have changed threads_ at once: undefined
            /\ th = <<<<Frame(data, 0)>>>>

Top(t) == th[t][1]
On(t, pc) == th[t] # <<>> /\ Top(t).pc = pc
Put(t, f) == [th EXCEPT ![t][1] = f]

NotReady == <<<<0, 0>>>>       \* a future without a value

\* The pivot, and the lower part on the stack.
Split(t) ==
    /\ On(t, "split") /\ Top(t).data # {}
    /\ \E pivot \in Top(t).data :
        LET lower == {e \in Top(t).data : e[1] < pivot[1]}
            id == Len(obj.parts) + 1
        IN  /\ obj' = [obj EXCEPT !.parts = Append(@, lower), !.promise = Append(@, NotReady), !.chunks = <<id>> \o @]
            /\ th' = Put(t, [Top(t) EXCEPT !.pc = "start", !.pivot = pivot, !.lower = id])
SplitEmpty(t) ==
    /\ On(t, "split") /\ Top(t).data = {}
    /\ th' = Put(t, [Top(t) EXCEPT !.pc = "return"])
    /\ UNCHANGED obj

\* threads_, which nothing protects.  A thread that is started sorts one chunk.
StartThread(t) ==
    /\ On(t, "start")
    /\ LET more == Len(th) - 1 + obj.pushing < Hardware - 1
       IN  /\ obj' = IF more THEN [obj EXCEPT !.pushing = @ + 1, !.raced = obj.pushing > 0] ELSE obj
           /\ th' = Put(t, [Top(t) EXCEPT !.pc = IF more THEN "started" ELSE "higher"])
Started(t) ==
    /\ On(t, "started")
    /\ obj' = [obj EXCEPT !.pushing = @ - 1]
    /\ th' = Append(Put(t, [Top(t) EXCEPT !.pc = "higher"]), <<[Frame({}, 0) EXCEPT !.pc = "try"]>>)

\* DoSort of what is left.
Higher(t) ==
    /\ On(t, "higher")
    /\ LET f == Top(t)
       IN  th' = [th EXCEPT ![t] = <<Frame(f.data \ (obj.parts[f.lower] \union {f.pivot}), 0), [f EXCEPT !.pc = "wait"]>> \o Tail(@)]
    /\ UNCHANGED obj

\* TrySortChunk, by a thread that waits for a chunk or by a new thread.
TrySortChunk(t) ==
    /\ On(t, "wait") \/ On(t, "try")
    /\ On(t, "wait") => obj.promise[Top(t).lower] = NotReady
    /\ LET rest == IF On(t, "try") THEN Tail(th[t]) ELSE th[t]
       IN  IF obj.chunks = <<>> THEN th' = [th EXCEPT ![t] = rest] /\ UNCHANGED obj
           ELSE /\ th' = [th EXCEPT ![t] = <<Frame(obj.parts[Head(obj.chunks)], Head(obj.chunks))>> \o rest]
                /\ obj' = [obj EXCEPT !.chunks = Tail(@)]
LowerReady(t) ==
    /\ On(t, "wait") /\ obj.promise[Top(t).lower] # NotReady
    /\ LET f == Top(t)
       IN  th' = Put(t, [f EXCEPT !.pc = "return", !.result = obj.promise[f.lower] \o <<f.pivot>> \o f.result])
    /\ UNCHANGED obj

\* To the promise, to the frame below, or to the caller of ParallelQuickSort.
ReturnSorted(t) ==
    /\ On(t, "return")
    /\ LET f == Top(t)
           rest == Tail(th[t])
       IN  /\ th' = [th EXCEPT ![t] = IF f.chunk # 0 \/ rest = <<>> THEN rest
                                      ELSE <<[rest[1] EXCEPT !.result = f.result]>> \o Tail(rest)]
           /\ obj' = IF f.chunk # 0 THEN [obj EXCEPT !.promise[f.chunk] = f.result]
                     ELSE IF rest = <<>> THEN [obj EXCEPT !.ret = f.result] ELSE obj

SortNext ==
    /\ obj.kind = "sort" /\ ~obj.raced
    /\ \E t \in DOMAIN th :
        \/ Split(t) \/ SplitEmpty(t) \/ StartThread(t) \/ Started(t) \/ Higher(t)
        \/ TrySortChunk(t) \/ LowerReady(t) \/ ReturnSorted(t)

-----------------------------------------------------------------------------
Init == FindInit \/ SortInit
Next == FindNext \/ SortNext
Spec == Init /\ [][Next]_vars

(***************************************************************************)
(* Properties.                                                             *)
(***************************************************************************)
\* What is returned is a match; `last` is returned although there is one only if some
\* thread had not finished when the caller looked at `found`; and the promise is set
\* twice only if several blocks hold a match.
FindAnswers ==
    obj.kind = "find" =>
        /\ obj.ret \in 1..obj.n => obj.ret \in obj.match
        /\ obj.ret = obj.n + 1 /\ obj.match # {} => obj.early
        /\ obj.crashed => Cardinality({i \in DOMAIN th :
                \E e \in obj.match : Begin(i, obj.n, obj.threads) <= e /\ e < End(i, obj.n, obj.threads)}) > 1

\* The caller gets all elements in their order; a chunk is sorted once, and is on the stack
\* or being sorted until it is; and as long as the caller has no answer there is a thread
\* that does not only wait: those that wait for chunks of each other take what is on the
\* stack, and a chunk on top of another was made later.
SortEnds ==
    obj.kind = "sort" /\ ~obj.raced =>
        /\ obj.ret # <<>> => /\ {obj.ret[i] : i \in DOMAIN obj.ret} = obj.data
                             /\ Len(obj.ret) = Cardinality(obj.data)
                             /\ \A i \in 2..Len(obj.ret) : obj.ret[i - 1][1] <= obj.ret[i][1]
        /\ \A id \in DOMAIN obj.parts :
                LET sorting == {<<t, i>> \in (DOMAIN th) \X (1..2 * MaxElements + 2) : i \in DOMAIN th[t] /\ th[t][i].chunk = id}
                    onStack == {i \in DOMAIN obj.chunks : obj.chunks[i] = id}
                IN  Cardinality(sorting) + Cardinality(onStack) = (IF obj.promise[id] = NotReady THEN 1 ELSE 0)
        /\ obj.ret # <<>> \/ obj.chunks # <<>> \/
                \E t \in DOMAIN th : th[t] # <<>> /\ (On(t, "wait") => obj.promise[Top(t).lower] # NotReady)
=============================================================================
