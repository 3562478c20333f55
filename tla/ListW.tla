-------------------------------- MODULE ListW ----------------------------------
(***************************************************************************)
(* ListW (shared/listw.hpp): C++ code that edits a managed List<T> through *)
(* its fields _items, _size and _version, as the managed code does.        *)
(*                                                                         *)
(* size() is unsigned and 64 bits wide, so a difference that would be      *)
(* negative wraps; Wrapped is that.                                        *)
(***************************************************************************)
EXTENDS Integers, Sequences, FiniteSetsExt

CONSTANTS
  Values,      \* element values
  Default,     \* T{}: the null of a reference type, a zero value otherwise
  RefType,     \* whether type_check::ref_type<T> holds
  MaxCapacity, \* 2146435071 in the code, and the bound of the model
  Indices,     \* arguments that callers pass as an index or a count
  Spans,       \* lengths of the spans that copy_to gets
  Unchecked    \* whether callers pass what is not checked: an index beyond the
               \* size to erase_range, a negative one to copy_to

ASSUME DefaultAssumption == Default \in Values
ASSUME RefTypeAssumption == RefType \in BOOLEAN
ASSUME CapacityAssumption == MaxCapacity \in Nat /\ MaxCapacity >= 4
ASSUME IndicesAssumption == Indices \subseteq Int /\ Spans \subseteq Nat /\ Unchecked \in BOOLEAN
(* The sum of an int and a size is far from the width of a size.           *)
ASSUME WidthAssumption == MaxCapacity < 2 ^ 16 /\ \A i \in Indices : i + MaxCapacity < 2 ^ 16

VARIABLES
  _items,    \* the array: a function on 0 .. capacity - 1
  _size,
  _version,
  request,   \* history: the last operation and its arguments
  result     \* history: how it ended, and what it answered, if anything

vars == <<_items, _size, _version, request, result>>

Capacity(a) == IF DOMAIN a = {} THEN 0 ELSE CHOOSE n \in 1 .. MaxCapacity : DOMAIN a = 0 .. n - 1

Array == UNION {[0 .. n - 1 -> Values] : n \in 0 .. MaxCapacity}

TypeOK ==
  /\ _items \in Array
  /\ _size \in 0 .. Capacity(_items)
  /\ _version \in Nat
  /\ result.is \in {"ok", "throw"}

(* ListW(n): object_new and set_capacity(n); or a list of the elements of  *)
(* a container, which sets _size itself.                                   *)
Init ==
  /\ \/ \E n \in 0 .. MaxCapacity : _items = [k \in 0 .. n - 1 |-> Default] /\ _size = 0
     \/ _items \in Array /\ _size = Capacity(_items)
  /\ _version = 0
  /\ request = <<"New">>
  /\ result = [is |-> "ok", value |-> <<>>]

--------------------------------------------------------------------------------
(* Unsigned arithmetic on sizes; 2^16 stands for the code's 2^64. *)
Wrapped(n) == n % (2 ^ 16)

(* Deviation: one element too few is copied. *)
ReallocatedShort(a, n, k) == [j \in 0 .. n - 1 |-> IF j < k - 1 THEN a[j] ELSE Default]

(* ArrayW(n) with the first k elements of a copied. *)
Reallocated(a, n, k) == [j \in 0 .. n - 1 |-> IF j < k THEN a[j] ELSE Default]

(* set_capacity as ensure_capacity calls it, never below the size. *)
set_capacity(a, n) == IF n = Capacity(a) THEN a ELSE Reallocated(a, n, _size)

Clamped(n) == IF n > MaxCapacity THEN MaxCapacity ELSE n

Grown(n) == IF n = 0 THEN 4 ELSE Clamped(2 * n)

ensure_capacity(a, min) ==
  IF Capacity(a) >= min THEN a
  ELSE set_capacity(a, IF Grown(Capacity(a)) < min THEN min ELSE Grown(Capacity(a)))

(* std::copy and std::copy_backward of [first, last) to dest; std::fill.   *)
copy(a, first, last, dest) ==
  [j \in DOMAIN a |-> IF j \in dest .. dest + (last - first) - 1 THEN a[first + (j - dest)] ELSE a[j]]

fill(a, first, last) == [j \in DOMAIN a |-> IF j \in first .. last - 1 THEN Default ELSE a[j]]

(* if constexpr (ref_type<T>) std::fill(...) *)
release(a, first, last) == IF RefType THEN fill(a, first, last) ELSE a

--------------------------------------------------------------------------------
Answer(op, how) == request' = op /\ result' = [is |-> how, value |-> <<>>]

(* A reading operation; what is answered is a sequence.                    *)
Read(op, value) ==
  /\ request' = op
  /\ result' = [is |-> "ok", value |-> value]
  /\ UNCHANGED <<_items, _size, _version>>

Throw(op) == Answer(op, "throw") /\ UNCHANGED <<_items, _size, _version>>

push_back(x) ==
  /\ _size < MaxCapacity
  /\ Answer(<<"push_back", x>>, "ok")
  /\ _version' = _version + 1
  /\ _items' = [ensure_capacity(_items, _size + 1) EXCEPT ![_size] = x]
  /\ _size' = _size + 1

insert_at(i, x) ==
  IF i > _size THEN Throw(<<"insert_at", i, x>>)
  ELSE LET a == IF _size = Capacity(_items) THEN ensure_capacity(_items, _size + 1) ELSE _items
       IN  /\ _size < MaxCapacity
           /\ Answer(<<"insert_at", i, x>>, "ok")
           /\ _items' = [copy(a, i, _size, i + 1) EXCEPT ![i] = x]
           /\ _version' = _version + 1
           /\ _size' = _size + 1

(* at(i) = x: the reference is written by the caller, and nothing tells    *)
(* the list.                                                               *)
at(i, x) ==
  IF i >= _size THEN Throw(<<"at", i, x>>)
  ELSE /\ Answer(<<"at", i, x>>, "ok")
       /\ _items' = [_items EXCEPT ![i] = x]
       /\ UNCHANGED <<_size, _version>>

(* Deviation: the last element stays behind in the spare capacity. *)
erase_atKeepsLast(i) ==
  IF i >= _size THEN Throw(<<"erase_at", i>>)
  ELSE /\ Answer(<<"erase_at", i>>, "ok")
       /\ _version' = _version + 1
       /\ _items' = copy(_items, i + 1, _size, i)
       /\ _size' = _size - 1

erase_at(i) ==
  IF i >= _size THEN Throw(<<"erase_at", i>>)
  ELSE /\ Answer(<<"erase_at", i>>, "ok")
       /\ _version' = _version + 1
       /\ _items' = release(copy(_items, i + 1, _size, i), _size - 1, _size)
       /\ _size' = _size - 1

(* Deviation: the range is not checked. *)
erase_rangeUnchecked(i, n) ==
  IF n <= 0 THEN Answer(<<"erase_range", i, n>>, "ok") /\ UNCHANGED <<_items, _size, _version>>
  ELSE /\ Answer(<<"erase_range", i, n>>, "ok")
       /\ _version' = _version + 1
       /\ _items' = release(copy(_items, i + n, _size, i), _size - n, _size)
       /\ _size' = _size - n

(* index and count are int, size() is unsigned.  An index past the end     *)
(* skips the copy; the fill would then start below the array.              *)
erase_range(i, n) ==
  CASE n <= 0 -> Answer(<<"erase_range", i, n>>, "ok") /\ UNCHANGED <<_items, _size, _version>>
    [] n > 0 /\ (i < 0 \/ Wrapped(_size - i) < n) -> Throw(<<"erase_range", i, n>>)
    [] OTHER ->
       /\ Answer(<<"erase_range", i, n>>, "ok")
       /\ _version' = _version + 1
       /\ _items' = release(IF i < _size THEN copy(_items, i + n, _size, i) ELSE _items,
                            _size - n, _size)
       /\ _size' = _size - n

(* xs is a range of its own, or a copy of one of the list: the old array   *)
(* stays valid when ensure_capacity replaces it.                           *)
insert_range(xs) ==
  IF xs = <<>> THEN Answer(<<"insert_range", xs>>, "ok") /\ UNCHANGED <<_items, _size, _version>>
  ELSE LET a == ensure_capacity(_items, _size + Len(xs))
       IN  /\ _size + Len(xs) <= MaxCapacity
           /\ Answer(<<"insert_range", xs>>, "ok")
           /\ _items' = [j \in DOMAIN a |->
                IF j \in _size .. _size + Len(xs) - 1 THEN xs[j - _size + 1] ELSE a[j]]
           /\ _size' = _size + Len(xs)
           /\ _version' = _version + 1

(* Deviation: a clear that enumerators do not notice. *)
clearUnversioned ==
  /\ Answer(<<"clear">>, "ok")
  /\ _items' = release(_items, 0, _size)
  /\ _size' = 0
  /\ UNCHANGED _version

clear ==
  /\ Answer(<<"clear">>, "ok")
  /\ _version' = _version + 1
  /\ _items' = release(_items, 0, _size)
  /\ _size' = 0

contents == [k \in 1 .. _size |-> _items[k - 1]]

(* find_if and rfind_if; a predicate is the set of values it holds for.    *)
hits(pred) == {k \in 0 .. _size - 1 : _items[k] \in pred}

try_get(i) == Read(<<"try_get", i>>, IF i >= _size THEN <<>> ELSE <<_items[i]>>)

index_of(x) == Read(<<"index_of", x>>, IF hits({x}) = {} THEN <<-1>> ELSE <<Min(hits({x}))>>)

front_or_default(pred) ==
  Read(<<"front_or_default", pred>>, IF hits(pred) = {} THEN <<Default>> ELSE <<_items[Min(hits(pred))]>>)

back_or_default(pred) ==
  Read(<<"back_or_default", pred>>, IF hits(pred) = {} THEN <<Default>> ELSE <<_items[Max(hits(pred))]>>)

to_array == Read(<<"to_array">>, contents)

(* Into a span of length d, whose elements are Default.  The sum of the    *)
(* index, an int, and the size is unsigned; a negative index that passes   *)
(* the check writes before the span.                                       *)
copy_to(d, i) ==
  CASE Wrapped(i + _size) > d -> Throw(<<"copy_to", d, i>>)
    [] Wrapped(i + _size) <= d /\ i < 0 ->
         Answer(<<"copy_to", d, i>>, "overrun") /\ UNCHANGED <<_items, _size, _version>>
    [] OTHER ->
         Read(<<"copy_to", d, i>>,
              [k \in 1 .. d |-> IF k - 1 \in i .. i + _size - 1 THEN _items[k - 1 - i] ELSE Default])

(* The ranges handed to insert_range: short ones and the list itself.      *)
Ranges == {<<>>, contents} \union {<<x>> : x \in Values} \union {<<x, x>> : x \in Values}

Next ==
  \/ \E x \in Values : push_back(x)
  \/ \E i \in Indices \intersect Nat, x \in Values : insert_at(i, x) \/ at(i, x)
  \/ \E i \in Indices \intersect Nat : erase_at(i)
  \/ \E i \in {k \in Indices : Unchecked \/ k <= _size}, n \in Indices : erase_range(i, n)
  \/ \E xs \in Ranges : insert_range(xs)
  \/ clear
  \/ \E i \in Indices \intersect Nat : try_get(i)
  \/ \E x \in Values : index_of(x)
  \/ \E pred \in {Values, Values \ {Default}} : front_or_default(pred) \/ back_or_default(pred)
  \/ to_array
  \/ \E d \in Spans, i \in {k \in Indices : Unchecked \/ k >= 0} : copy_to(d, i)

Spec == Init /\ [][Next]_vars

--------------------------------------------------------------------------------
(* Properties. *)

(* The array edits are the sequence operations that the requests name,     *)
(* searches and copies answer what they find in the sequence, and what is  *)
(* out of bounds throws and changes nothing.                               *)
List == INSTANCE ManagedList WITH MaxLen <- MaxCapacity

ImplementsManagedList == List!Spec

(* Erased elements do not linger in the spare capacity, where the garbage  *)
(* collector would still find them.                                        *)
NoStaleReferences ==
  RefType => \A k \in DOMAIN _items : k >= _size => _items[k] = Default

(* A managed enumerator, which compares _version, notices every change of  *)
(* the elements but a write through a reference, and a request that threw  *)
(* does not disturb it.                                                    *)
VersionTracksContents ==
  [][/\ contents' # contents => _version' # _version \/ request'[1] = "at"
     /\ result'.is = "throw" => _version' = _version]_vars

================================================================================
