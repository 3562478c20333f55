------------------------------ MODULE ManagedList ------------------------------
(***************************************************************************)
(* What the operations of ListW promise (shared/listw.hpp): a              *)
(* sequence, the request made last and how it was answered.  An index or   *)
(* a range outside of the list is answered by an exception and changes     *)
(* nothing.  Indices count from 0, as in the code.                         *)
(***************************************************************************)
EXTENDS Integers, Sequences

CONSTANTS
  Values,   \* what the elements are
  Default,  \* the element that stands for none
  Indices,  \* what callers pass as an index or a count
  Spans,    \* lengths of the spans that are copied to
  MaxLen    \* the longest range that is inserted

VARIABLES
  contents,  \* the elements of the list
  request,   \* the last operation, with its arguments
  result     \* "ok" or "throw", and what was answered

vars == <<contents, request, result>>

Init ==
  /\ contents \in UNION {[1 .. k -> Values] : k \in 0 .. MaxLen}
  /\ request = <<"New">>
  /\ result = [is |-> "ok", value |-> <<>>]

(* An operation either is legal and leaves the list as next, or throws.    *)
Perform(op, legal, next) ==
  /\ request' = op
  /\ result' = [is |-> IF legal THEN "ok" ELSE "throw", value |-> <<>>]
  /\ contents' = IF legal THEN next ELSE contents

PushBack(x) ==
  Perform(<<"push_back", x>>, TRUE, Append(contents, x))

InsertAt(i, x) ==
  Perform(<<"insert_at", i, x>>, i <= Len(contents),
          SubSeq(contents, 1, i) \o <<x>> \o SubSeq(contents, i + 1, Len(contents)))

(* A write through the reference that at() returns. *)
Write(i, x) ==
  Perform(<<"at", i, x>>, i < Len(contents), [contents EXCEPT ![i + 1] = x])

EraseAt(i) ==
  Perform(<<"erase_at", i>>, i < Len(contents),
          SubSeq(contents, 1, i) \o SubSeq(contents, i + 2, Len(contents)))

(* Nothing is erased when nothing is asked for. *)
EraseRange(i, n) ==
  Perform(<<"erase_range", i, n>>, n <= 0 \/ (i >= 0 /\ i + n <= Len(contents)),
          IF n <= 0 THEN contents
          ELSE SubSeq(contents, 1, i) \o SubSeq(contents, i + n + 1, Len(contents)))

InsertRange(xs) ==
  Perform(<<"insert_range", xs>>, TRUE, contents \o xs)

Clear == Perform(<<"clear">>, TRUE, <<>>)

(* Questions to the list, and their answers.                               *)
Read(op, value) ==
  /\ request' = op
  /\ result' = [is |-> "ok", value |-> value]
  /\ UNCHANGED contents

TryGet(i) == Read(<<"try_get", i>>, SubSeq(contents, i + 1, IF i < Len(contents) THEN i + 1 ELSE i))

IndexOf(x) ==
  \E k \in -1 .. Len(contents) - 1 :
    /\ k >= 0 => contents[k + 1] = x
    /\ \A j \in 1 .. (IF k >= 0 THEN k ELSE Len(contents)) : contents[j] # x
    /\ Read(<<"index_of", x>>, <<k>>)

(* The first and the last element that satisfies pred: k is its place, and *)
(* none is before it or after it.                                          *)
FrontOrDefault(pred) ==
  \E k \in 1 .. Len(contents) + 1 :
    /\ \A j \in 1 .. k - 1 : contents[j] \notin pred
    /\ k <= Len(contents) => contents[k] \in pred
    /\ Read(<<"front_or_default", pred>>, IF k <= Len(contents) THEN <<contents[k]>> ELSE <<Default>>)

BackOrDefault(pred) ==
  \E k \in 0 .. Len(contents) :
    /\ \A j \in k + 1 .. Len(contents) : contents[j] \notin pred
    /\ k > 0 => contents[k] \in pred
    /\ Read(<<"back_or_default", pred>>, IF k > 0 THEN <<contents[k]>> ELSE <<Default>>)

ToArray == Read(<<"to_array">>, contents)

(* The copy starts at index i of the span.                                 *)
CopyTo(d, i) ==
  LET blank(n) == [k \in 1 .. n |-> Default]
  IN  IF i >= 0 /\ i + Len(contents) <= d
        THEN Read(<<"copy_to", d, i>>, blank(i) \o contents \o blank(d - i - Len(contents)))
        ELSE Perform(<<"copy_to", d, i>>, FALSE, contents)

Next ==
  \/ \E x \in Values : PushBack(x)
  \/ \E i \in Indices \intersect Nat, x \in Values : InsertAt(i, x) \/ Write(i, x)
  \/ \E i \in Indices \intersect Nat : EraseAt(i)
  \/ \E i, n \in Indices : EraseRange(i, n)
  \/ \E k \in 0 .. MaxLen : \E xs \in [1 .. k -> Values] : InsertRange(xs)
  \/ Clear
  \/ \E i \in Indices \intersect Nat : TryGet(i)
  \/ \E x \in Values : IndexOf(x)
  \/ \E pred \in SUBSET Values : FrontOrDefault(pred) \/ BackOrDefault(pred)
  \/ ToArray
  \/ \E d \in Spans, i \in Indices : CopyTo(d, i)

Spec == Init /\ [][Next]_vars

================================================================================
