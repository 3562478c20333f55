------------------------------ MODULE FindMethod -------------------------------
(***************************************************************************)
(* find_method and its caches (find_method_cached, src/find.cpp).  A       *)
(* thread looks the query up under the shared lock, searches without a     *)
(* lock when it misses, and writes what it found, failures too, under the  *)
(* exclusive lock; other threads and the game run in between.  Searching   *)
(* initializes the classes it goes through (Class_Init), whose methods are *)
(* not there before.                                                       *)
(***************************************************************************)
EXTENDS Overload

CONSTANTS
  Threads,
  Queries  \* the queries in use: records of a class and a find_method_info

ASSUME QueriesAssumption ==
  \A q \in Queries :
    /\ q.kind \in {"name", "args", "types"} /\ q.klass \in Classes
    /\ q.kind = "args" => q.args \in Nat

VARIABLES
  args_cache,   \* caches: functions from keys to methods
  types_cache,
  initialized,  \* classes with initialized_and_no_error
  pc,           \* pc[t]: "idle", "search", "store" or "done"
  query,        \* query[t]: what t looks for
  found,        \* found[t]: the search's result, then the answer
  crashed       \* a null type or class was dereferenced

vars == <<args_cache, types_cache, initialized, pc, query, found, crashed>>

caches == <<args_cache, types_cache>>

(* The tuple under which a query is cached; a name alone has -1 arguments. *)
key(q) ==
  CASE q.kind = "name" -> <<q.klass, q.name, -1>>
    [] q.kind = "args" -> <<q.klass, q.name, q.args>>
    [] q.kind = "types" -> <<q.klass, q.name, q.generics, q.params>>

by_types(q) == q.kind = "types"

cache_of(q) == IF by_types(q) THEN types_cache ELSE args_cache

MethodIds == UNION {{<<c, j>> : j \in DOMAIN Methods[c]} : c \in Classes}

Keys(types) == {key(q) : q \in {r \in Queries : by_types(r) = types}}

NoQuery == [kind |-> "none"]

TypeOK ==
  /\ DOMAIN args_cache \subseteq Keys(FALSE)
  /\ DOMAIN types_cache \subseteq Keys(TRUE)
  /\ \A k \in DOMAIN args_cache : args_cache[k] \in MethodIds \union {NoMethod}
  /\ \A k \in DOMAIN types_cache : types_cache[k] \in MethodIds \union {NoMethod}
  /\ initialized \subseteq Classes
  /\ pc \in [Threads -> {"idle", "search", "store", "done"}]
  /\ query \in [Threads -> Queries \union {NoQuery}]
  /\ found \in [Threads -> MethodIds \union {NoMethod}]
  /\ crashed \in BOOLEAN

Init ==
  /\ args_cache = <<>>
  /\ types_cache = <<>>
  /\ initialized \in SUBSET {Object}
  /\ pc = [t \in Threads |-> "idle"]
  /\ query = [t \in Threads |-> NoQuery]
  /\ found = [t \in Threads |-> NoMethod]
  /\ crashed = FALSE

--------------------------------------------------------------------------------
Goto(t, l) == pc' = [pc EXCEPT ![t] = l]

(* The lookup under the shared lock. *)
Lookup(t, q) ==
  /\ pc[t] = "idle"
  /\ query' = [query EXCEPT ![t] = q]
  /\ IF key(q) \in DOMAIN cache_of(q)
       THEN Goto(t, "done") /\ found' = [found EXCEPT ![t] = cache_of(q)[key(q)]]
       ELSE Goto(t, "search") /\ UNCHANGED found
  /\ UNCHANGED <<caches, initialized, crashed>>

(* Deviation: the parents are not initialized. *)
visited_own(q) == {q.klass}

(* The classes that a search for q goes through: all, or those up to the   *)
(* class with the first exact match.                                       *)
visited(q) ==
  LET all == Chain[q.klass]
      hits == {p[1] : p \in matching(candidates(q.klass, Classes), q, "exact")}
  IN  {all[i] : i \in {k \in DOMAIN all : \A h \in hits : k <= h}}

(* find_method(klass, match).  Class_Init does nothing to a class that is  *)
(* initialized already, so other threads cannot tell when it is called.    *)
Search(t) ==
  /\ pc[t] = "search"
  /\ LET places == candidates(query[t].klass, initialized \union visited(query[t]))
     IN  IF by_types(query[t]) /\ crashes_among(places, query[t])
           THEN crashed' = TRUE /\ UNCHANGED found
           ELSE found' = [found EXCEPT ![t] = find_among(places, query[t])] /\ UNCHANGED crashed
  /\ initialized' = initialized \union visited(query[t])
  /\ Goto(t, "store")
  /\ UNCHANGED <<caches, query>>

Stored(cache, q, id) == [k \in DOMAIN cache \union {key(q)} |-> IF k = key(q) THEN id ELSE cache[k]]

(* Deviation: one cache for all keys. *)
StoreInOne(t) ==
  /\ pc[t] = "store"
  /\ args_cache' = Stored(args_cache, query[t], found[t])
  /\ Goto(t, "done")
  /\ UNCHANGED <<types_cache, initialized, query, found, crashed>>

(* The write under the exclusive lock, whatever was written meanwhile.     *)
Store(t) ==
  /\ pc[t] = "store"
  /\ IF by_types(query[t])
       THEN types_cache' = Stored(types_cache, query[t], found[t]) /\ UNCHANGED args_cache
       ELSE args_cache' = Stored(args_cache, query[t], found[t]) /\ UNCHANGED types_cache
  /\ Goto(t, "done")
  /\ UNCHANGED <<initialized, query, found, crashed>>

Return(t) ==
  /\ pc[t] = "done"
  /\ Goto(t, "idle")
  /\ query' = [query EXCEPT ![t] = NoQuery]
  /\ found' = [found EXCEPT ![t] = NoMethod]
  /\ UNCHANGED <<caches, initialized, crashed>>

(* The game uses a class, and with it its parents, for the first time.     *)
(* Only classes with methods matter.                                       *)
GameInit(c) ==
  /\ c \notin initialized /\ Methods[c] # <<>>
  /\ initialized' = initialized \union ToSet(Chain[c])
  /\ UNCHANGED <<caches, pc, query, found, crashed>>

Next ==
  /\ ~crashed
  /\ \/ \E t \in Threads : (\E q \in Queries : Lookup(t, q)) \/ Search(t) \/ Store(t) \/ Return(t)
     \/ \E c \in Classes : GameInit(c)

Spec == Init /\ [][Next]_vars

--------------------------------------------------------------------------------
(* Properties. *)

(* The answer to a query by a single thread in a fully initialized game.   *)
find_method(q) == find_among(candidates(q.klass, Classes), q)

(* What a query is answered depends on neither the cache, the queries      *)
(* before it or beside it, nor the classes initialized so far; a failure   *)
(* that was cached was and is a failure.                                   *)
FreshAnswers ==
  \A t \in Threads : pc[t] = "done" => found[t] = find_method(query[t])

(* An entry, once written, is never replaced by another one, though two    *)
(* threads may both miss and both write.                                   *)
EntriesAreFinal ==
  [][/\ \A k \in DOMAIN args_cache : args_cache'[k] = args_cache[k]
     /\ \A k \in DOMAIN types_cache : types_cache'[k] = types_cache[k]]_vars

(* All argument types are known, so that no parameter goes unweighed.      *)
known(q) == by_types(q) /\ \A i \in DOMAIN q.params : q.params[i] # NoType

(* m is closer to the arguments than n in a parameter and as close in the  *)
(* others; interfaces count as further away than classes on purpose.       *)
closer(m, n) ==
  /\ Len(m.params) = Len(n.params)
  /\ \A i \in DOMAIN m.params :
       \/ m.params[i].class = n.params[i].class
       \/ m.params[i].class \notin InterfaceTypes
          /\ class_is_assignable_from(n.params[i].class, m.params[i].class)
  /\ \E i \in DOMAIN m.params : m.params[i].class # n.params[i].class

best(id, q) ==
  \A other \in MethodIds :
    (other[1] \in ToSet(Chain[q.klass]) /\ matches(method(other), q) # "none")
      => ~closer(method(other), method(id))

(* "Finds the best match of all methods with a given name, based on        *)
(* generics and argument types": no applicable overload is closer to the   *)
(* arguments than the one that is found.                                   *)
BestMatch ==
  \A t \in Threads :
    (pc[t] = "done" /\ known(query[t]) /\ found[t] # NoMethod) => best(found[t], query[t])

(* The same where no interfaces are counted against the distance of the    *)
(* overload that is found.                                                 *)
plain(m) == \A i \in DOMAIN m.params : Interfaces[m.params[i].class] = <<>>

BestPlainMatch ==
  \A t \in Threads :
    (/\ pc[t] = "done" /\ known(query[t])
     /\ found[t] # NoMethod /\ plain(method(found[t]))) => best(found[t], query[t])

(* find_method, which is noexcept, answers: weighing the overloads reads   *)
(* neither a null type nor the interfaces of a null class.                 *)
AlwaysAnswers == ~crashed

================================================================================
