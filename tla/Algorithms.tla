------------------------------- MODULE Algorithms -------------------------------
(***************************************************************************)
(* The library's pure functions, each called once on an input, with what   *)
(* their results must be.                                                  *)
(***************************************************************************)
EXTENDS Patterns, Strings, Instructions, Members

CONSTANTS
  Memories,     \* sequences of bytes, at the addresses from 1 on
  Borders,      \* where the second of two regions of them may begin
  SomePatterns, \* patterns to look for in them
  Texts,        \* texts, as sequences of characters
  Codes,        \* the instructions of a function
  Copied,       \* how many of a function's words a hook may overwrite
  MemberCalls,  \* calls of managed members
  CodeAt, BufferAt, Words \* where the function and flamingo's buffer are, and all words of memory

VARIABLES input, result

vars == <<input, result>>

NoResult == [none |-> TRUE]

ASSUME MemoriesAssumption ==
  /\ \A mem \in Memories : mem \in Seq(Range(mem))
  /\ Borders \subseteq Nat \ {0}
ASSUME PatternsAssumption == \A toks \in SomePatterns : toks \in Seq(Range(toks))

(* A character has units in both encodings, in UTF-8 at least as many as   *)
(* in UTF-16, and the UTF-16 of no other character begins with its.        *)
ASSUME TextsAssumption ==
  /\ Null \notin Texts \union Seq(Nat)
  /\ \A text \in Texts : text \in Seq(Range(text))
  /\ LET chars == UNION {Range(text) : text \in Texts}
     IN  \A char \in chars :
           /\ char.utf8 \in Seq(Nat) /\ char.utf16 \in Seq(Nat)
           /\ 1 <= Len(char.utf16) /\ Len(char.utf16) <= Len(char.utf8)
           /\ \A other \in chars \ {char} : differences(char.utf16, other.utf16) # {}

(* A hook fits the function it is in, and its buffer is elsewhere.  The    *)
(* words after the function, as many as it has itself, are no code.        *)
ASSUME LayoutAssumption ==
  /\ CodeAt \in Int /\ BufferAt \in Int /\ Words \subseteq Int
  /\ \A insns \in Codes : insns \in Seq(Range(insns))
  /\ \A insns \in Codes, k \in Copied :
       LET around == CodeAt .. (CodeAt + 2 * Len(insns) - 1)
           buffer == BufferAt .. (BufferAt + k - 1)
       IN  /\ k \in Nat /\ k <= Len(insns)
           /\ around \union buffer \subseteq Words
           /\ around \intersect buffer = {}

(* What a C++ value refers to is of its type.  C++ types are no generic    *)
(* parameters, and the slot of a class that a call names is one it has, or *)
(* past the end of the object's.                                           *)
ASSUME CallsAssumption ==
  \A c \in MemberCalls :
    /\ c.klass \in Classes
    /\ c.returns.mvar \in Int /\ c.returns.mvar < 0
    /\ c.returns.class \in Classes \ ParameterClasses
    /\ c.args \in Seq(ToSet(c.args))
    /\ \A v \in ToSet(c.args) :
         v.type = NoType \/ v.object = null
         \/ (/\ v.type.class \in Classes /\ v.object \in Classes
             /\ class_is_assignable_from(v.type.class, v.object))
    /\ c.op \in {"set_property", "set_field"} => Len(c.args) = 1
    /\ (c.op = "run_method" /\ c.info.kind = "args") => "klass" \in DOMAIN c.info
    /\ (c.op = "run_method" /\ c.info.kind = "vtable") =>
         /\ c.info.slot \in Nat
         /\ c.info.declaring \in ToSet(Chain[c.klass]) =>
              \/ \E id \in Inherited(c.info.declaring) : method(id).slot = c.info.slot
              \/ c.info.slot >= vtable_count(c.klass)

PatternInput(i) ==
  \E mem \in Memories, toks \in {p \in SomePatterns : IsPattern(p)} : \E border \in {b \in Borders : b <= Len(mem)} :
    i = [kind |-> "pattern", mem |-> mem, toks |-> toks, border |-> border]

StringInput(i) ==
  \E a, b, c \in Texts \union {Null} : i = [kind |-> "strings", a |-> a, b |-> b, c |-> c]

CodeInput(i) ==
  \E insns \in Codes, k \in Copied, n \in 1..2, r \in -1..1, include \in BOOLEAN :
    i = [kind |-> "code", insns |-> insns, copied |-> k, n |-> n, rets |-> r, include_r |-> include]

CallInput(i) == \E c \in MemberCalls : i = [kind |-> "call", call |-> c]

Init ==
  /\ result = NoResult
  /\ \/ PatternInput(input)
     \/ StringInput(input)
     \/ CodeInput(input)
     \/ CallInput(input)

--------------------------------------------------------------------------------
(* The scan of a region, and of a file mapped as two adjacent regions.     *)
Halves(i) == <<[start |-> 1, end |-> i.border, readable |-> TRUE],
               [start |-> i.border, end |-> Len(i.mem) + 1, readable |-> TRUE]>>

scanned(i) ==
  [find |-> find_pattern(i.mem, 1, i.toks, Len(i.mem)),
   unique |-> find_unique_pattern(i.mem, FALSE, 1, i.toks, Len(i.mem)),
   mapped |-> mapped_file_unique_pattern(i.mem, FALSE, i.toks, Halves(i))]

Scan ==
  /\ input.kind = "pattern" /\ result = NoResult
  /\ result' = scanned(input)
  /\ UNCHANGED input

str(text) == IF text = Null THEN Null ELSE alloc_str(text)

added(i) ==
  [sum |-> strappend(str(i.a), str(i.b)),
   byte_sum |-> IF i.b = Null THEN Null ELSE strappend_bytes(str(i.a), i.b),
   sum_to_bytes |-> IF i.a = Null THEN Null ELSE strappend_to_bytes(i.a, str(i.b))]

Compare ==
  /\ input.kind = "strings" /\ result = NoResult
  /\ result' = added(input)
  /\ UNCHANGED input

(* The function as it is, and with its first words overwritten by a jump   *)
(* to a hook.                                                              *)
plain(i) ==
  [w \in Words |-> IF w - CodeAt + 1 \in DOMAIN i.insns THEN i.insns[w - CodeAt + 1] ELSE [id |-> "invalid"]]

hooked(i) ==
  [w \in Words |-> IF w \in CodeAt..(CodeAt + i.copied - 1) THEN [id |-> "BR"]
                   ELSE IF w \in BufferAt..(BufferAt + i.copied - 1) THEN i.insns[w - BufferAt + 1]
                   ELSE plain(i)[w]]

hooks(i) == [a \in IF i.copied = 0 THEN {} ELSE {CodeAt} |-> [addr |-> BufferAt, size |-> i.copied]]

traced(i) ==
  [b |-> find_nth_b(hooked(i), hooks(i), CodeAt, i.n, i.include_r, i.rets, Len(i.insns)),
   bl |-> find_nth_bl(hooked(i), hooks(i), CodeAt, i.n, i.include_r, i.rets, Len(i.insns)),
   pcaddr |-> getpcaddr(hooked(i), hooks(i), CodeAt, i.n, 1, Len(i.insns))]

Trace ==
  /\ input.kind = "code" /\ result = NoResult
  /\ result' = traced(input)
  /\ UNCHANGED input

CallMember ==
  /\ input.kind = "call" /\ result = NoResult
  /\ result' = call(input.call)
  /\ UNCHANGED input

Next == Scan \/ Compare \/ Trace \/ CallMember

Spec == Init /\ [][Next]_vars

--------------------------------------------------------------------------------
Got(kind) == input.kind = kind /\ result # NoResult

end_of(i) == Len(i.mem) + 1

(* A match is noticed for sure when there is room after it for the         *)
(* pattern's text, which is longer than the bytes it stands for.           *)
roomy(i, start, end) == \A a \in occurrences(i.mem, start, i.toks, end) : a + text_length(i.toks) < end

(* "Returns the first match, if any": find_pattern returns only addresses  *)
(* that match; where all matches have room after them it returns the first *)
(* one, overlapping attempts notwithstanding.                              *)
FindsFirstMatch ==
  Got("pattern") =>
    LET all == occurrences(input.mem, 1, input.toks, end_of(input))
    IN  /\ result.find \in all \union {0}
        /\ roomy(input, 1, end_of(input)) => result.find = (IF all = {} THEN 0 ELSE Min(all))

(* "Sets multiple iff multiple matches are found": find_unique_pattern     *)
(* does where the matches have room, and never when there is one.  For a   *)
(* mapped file this is so per region: one match in each of two regions is  *)
(* not multiple.                                                           *)
MultipleMeansMultiple ==
  Got("pattern") =>
    LET all == occurrences(input.mem, 1, input.toks, end_of(input))
        in_region(r) == occurrences(input.mem, r.start, input.toks, r.end)
        all_roomy == \A r \in Range(Halves(input)) : roomy(input, r.start, r.end)
    IN  /\ result.unique.multiple => Cardinality(all) > 1
        /\ roomy(input, 1, end_of(input)) => result.unique.multiple = (Cardinality(all) > 1)
        /\ result.unique.first = result.find
        /\ all_roomy =>
             /\ result.mapped.multiple = (\E r \in Range(Halves(input)) : Cardinality(in_region(r)) > 1)
             /\ result.mapped.first =
                  (LET seen == UNION {in_region(r) : r \in Range(Halves(input))}
                   IN  IF seen = {} THEN 0 ELSE Min(seen))

(* StringW's == and < agree: of two strings exactly one is less or they    *)
(* are equal, < is transitive, nulls come first and prefixes before what   *)
(* they begin; a UTF-8 view equals a string only if it is ASCII.           *)
StringsAreOrdered ==
  Got("strings") =>
    LET a == str(input.a)  b == str(input.b)  c == str(input.c)
    IN  /\ (IF strless(a, b) THEN 1 ELSE 0) + (IF strless(b, a) THEN 1 ELSE 0)
             + (IF strcomp(a, b) THEN 1 ELSE 0) = 1
        /\ strless(a, b) /\ strless(b, c) => strless(a, c)
        /\ strstart(a, b) /\ ~strcomp(a, b) => strless(b, a)
        /\ strcomp(a, b) = (input.a = input.b)
        /\ a # Null => (strcomp_impl(a, utf8(input.a)) = (utf8(input.a) = a))

(* A sum starts with its left and ends with its right operand; a string    *)
(* ends with nothing else of that length; and adding a UTF-8 text is       *)
(* adding the string it makes, but for the '\0' it appends for every byte  *)
(* that is not a unit.                                                     *)
SumsHaveTheirEnds ==
  Got("strings") =>
    LET a == str(input.a)  b == str(input.b)
    IN  /\ a # Null /\ b # Null =>
             /\ strstart(result.sum, a) /\ strend(result.sum, b)
             /\ Len(result.sum) = Len(a) + Len(b)
             /\ strend(a, b) = IsSuffix(b, a)
        /\ a # Null /\ b # Null =>
             /\ Len(result.byte_sum) = Len(a) + Len(utf8(input.b))
             /\ strstart(result.byte_sum, result.sum)
             /\ Len(result.sum_to_bytes) = Len(b) + Len(utf8(input.a))
             /\ strend(result.sum_to_bytes, b)

(* The n-th of the instructions that count, unless a return ends the       *)
(* search before.                                                          *)
nth(i, counts(_)) ==
  LET rets(k) == Cardinality({j \in 1..k : i.insns[j].id = "RET"})
      nths == {k \in DOMAIN i.insns : counts(i.insns[k]) /\ Cardinality({j \in 1..k : counts(i.insns[j])}) = i.n}
  IN  {k \in nths : i.rets = -1 \/ rets(k) <= i.rets}

(* A search finds the n-th instruction whether the function is hooked or   *)
(* not.  What that points to is right unless the hook has moved it.        *)
HooksAreTransparent ==
  Got("code") =>
    \A id \in {"B", "BL"} :
      LET i == input
          found == IF id = "B" THEN result.b ELSE result.bl
          skip == IF i.include_r THEN (IF id = "B" THEN {"BR"} ELSE {"BLR"}) ELSE {}
          ks == nth(i, LAMBDA insn : insn.id \in {id} \union skip)
      IN  IF \E k \in ks : i.insns[k].id = id
            THEN \E k \in ks :
                   /\ found # None
                   /\ k > i.copied => found.dst = CodeAt + k - 1 + i.insns[k].target
                   /\ k <= i.copied => found.dst = BufferAt + k - 1 + i.insns[k].target
            ELSE found = None

(* getpcaddr adds what the n-th ADR or ADRP of a function and the first    *)
(* use of its register after it say, when no hook has moved the former.    *)
PcAddrAddsUp ==
  Got("code") =>
    LET i == input
        ks == nth([i EXCEPT !.rets = -1], LAMBDA insn : insn.id \in {"ADR", "ADRP"})
        uses(k) == {j \in DOMAIN i.insns : j > k /\ i.insns[j].id \in {"ADD", "LDR"} /\ i.insns[j].base = i.insns[k].reg}
    IN  \A k \in ks : k > i.copied =>
          result.pcaddr = IF uses(k) = {}
                            THEN None
                            ELSE [at |-> CodeAt + Min(uses(k)) - 1, reg |-> i.insns[Min(uses(k))].reg,
                                  dst |-> CodeAt + k - 1 + i.insns[k].target + i.insns[Min(uses(k))].imm]

--------------------------------------------------------------------------------
(* Calls of members. *)
Called(ops) == Got("call") /\ input.call.op \in ops /\ result.is = "value"

(* A reference of class c, or null, can be where type is declared; enums   *)
(* stand for their base type.                                              *)
fits(c, type) ==
  \/ c = null \/ class_is_assignable_from(type.class, c)
  \/ EnumBase[type.class] # null /\ class_is_assignable_from(EnumBase[type.class], c)

(* By name, argument count or slot, and for properties and fields, every   *)
(* argument whose type is known fits the parameter it is passed for, after *)
(* generic arguments have been put in.                                     *)
ArgumentsFit ==
  LET c == input.call
  IN  (/\ Called({"run_method", "set_property", "set_field"})
       /\ c.op = "run_method" => c.info.kind \in {"name", "args", "slot", "vtable"}) =>
        \A k \in DOMAIN c.args : c.args[k].type # NoType => fits(c.args[k].object, result.params[k])

(* The value that is returned fits the type that was asked for.            *)
ReturnFits == fits(result.returned.class, input.call.returns)

(* The method that declaring's slot means for an object of class klass:    *)
(* the nearest with the same name and parameters.                          *)
override(klass, declaring, slot) ==
  LET in_slot == {id \in Inherited(declaring) : method(id).slot = slot}
      meant == IF declaring \in InterfaceTypes THEN method(<<declaring, slot + 1>>)
               ELSE method(CHOOSE id \in in_slot : TRUE)
      same(c) == {j \in DOMAIN Methods[c] : Methods[c][j].name = meant.name /\ Methods[c][j].params = meant.params}
      nearest == Min({i \in DOMAIN Chain[klass] : same(Chain[klass][i]) # {}})
  IN  <<Chain[klass][nearest], Min(same(Chain[klass][nearest]))>>

derives(klass, declaring) ==
  klass \notin InterfaceTypes /\ (declaring \in ToSet(Chain[klass]) \/ declaring \in DOMAIN Offsets[klass])

SlotsResolve ==
  LET c == input.call
  IN  (Called({"run_method"}) /\ c.info.kind = "vtable" /\ derives(c.klass, c.info.declaring))
        => result.method = override(c.klass, c.info.declaring, c.info.slot)

(* A call that is made runs the member that was asked for, with arguments  *)
(* and a result of the declared types: "will throw on error, including a   *)
(* mismatch between T and the property type".  Return types are not        *)
(* checked in calls by name and by types; see ReturnsAreChecked.           *)
CallsFit ==
  /\ ArgumentsFit
  /\ (/\ Called({"run_method", "get_property", "get_field", "cast"})
      /\ input.call.op = "run_method" => input.call.info.kind \in {"args", "slot", "vtable"}) => ReturnFits
  /\ SlotsResolve

(* "Will check types by default. A MethodInfo const* can be passed         *)
(* directly to the find_method_info to disable this."                      *)
ReturnsAreChecked ==
  LET c == input.call
  IN  (/\ Called({"run_method"}) /\ c.info.kind = "name"
       /\ \A k \in DOMAIN c.args : c.args[k].type # NoType
       /\ Void \notin {c.returns.class, result.returned.class}) => ReturnFits
================================================================================
