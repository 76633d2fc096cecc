------------------------------ MODULE GoSlice ------------------------------
(***************************************************************************)
(* Go slices, as far as the subscription lists of the hub depend on them.  *)
(*                                                                         *)
(* A slice is a header [arr |-> a, len |-> n] over a backing array; copies *)
(* of a header share the array.  heap is the sequence of arrays allocated  *)
(* so far, heap[a].cells the array (its length is the capacity).  append   *)
(* writes in place while the header's capacity allows and moves to a new   *)
(* array otherwise; append(s[:i], s[i+1:]...) shifts the tail in place,    *)
(* under every header that shares the array.                               *)
(*                                                                         *)
(* heap[a].of is auxiliary: the name of the list the array was made for.   *)
(***************************************************************************)
EXTENDS Naturals, Sequences

\* The empty composite literal []*Client{}: no backing array.
EmptySlice == [arr |-> 0, len |-> 0]

CellsOf(heap, s) == IF s.arr = 0 THEN <<>> ELSE heap[s.arr].cells

Elements(heap, s) == SubSeq(CellsOf(heap, s), 1, s.len)

HasRoom(heap, s) == s.len < Len(CellsOf(heap, s))

\* The runtime doubles the capacity of small slices (1, 2, 4, 8, ...).
NewCap(n) == IF n = 0 THEN 1 ELSE 2 * n

\* The array that append(s, x) allocates when s has no room.
GrownArray(heap, s, x, of, unset) ==
  [of    |-> of,
   cells |-> [j \in 1 .. NewCap(s.len) |->
                IF j <= s.len THEN CellsOf(heap, s)[j]
                              ELSE IF j = s.len + 1 THEN x ELSE unset]]

\* The memory and the header after append(s, x).
HeapAfterAppend(heap, s, x, of, unset) ==
  IF HasRoom(heap, s)
  THEN [heap EXCEPT ![s.arr].cells[s.len + 1] = x]
  ELSE Append(heap, GrownArray(heap, s, x, of, unset))

SliceAfterAppend(heap, s) ==
  [arr |-> IF HasRoom(heap, s) THEN s.arr ELSE Len(heap) + 1, len |-> s.len + 1]

\* The cells after append(s[:i], s[i+1:]...) on a slice of length n.
Shifted(cells, i, n) ==
  [j \in DOMAIN cells |-> IF j \in i .. n - 1 THEN cells[j + 1] ELSE cells[j]]

HeapAfterRemove(heap, s, i) ==
  [heap EXCEPT ![s.arr].cells = Shifted(@, i, s.len)]

SliceAfterRemove(s) == [s EXCEPT !.len = @ - 1]

=============================================================================
