--------------------------------- MODULE Strings ---------------------------------
(***************************************************************************)
(* i2c::strs (src/stringw.cpp), the functions under StringW's operators.   *)
(* An Il2CppString is Null or its sequence of UTF-16 units, lhs->chars; a  *)
(* view is the sequence of its units, UTF-16 or the bytes of UTF-8.  A     *)
(* string literal or a std::string is a view of bytes.                     *)
(***************************************************************************)
EXTENDS Integers, Sequences, FiniteSetsExt, SequencesExt

CONSTANT Null

(* std::codecvt, as convstr and string_new_len use it: a character is a    *)
(* record of its units in the two encodings, and a text a sequence of them.*)
utf8(text) == FlattenSeq([i \in DOMAIN text |-> text[i].utf8])
utf16(text) == FlattenSeq([i \in DOMAIN text |-> text[i].utf16])

alloc_str(text) == utf16(text)

(* The new string is as long as the operands have units.  The bytes are    *)
(* decoded into it; what they do not fill stays '\0'.                      *)
Padded(units, length) == units \o [i \in 1..(length - Len(units)) |-> 0]

strappend_bytes(lhs, text) ==
  IF lhs = Null
    THEN alloc_str(text)
    ELSE Padded(lhs \o utf16(text), Len(lhs) + Len(utf8(text)))

strappend_to_bytes(text, rhs) ==
  IF rhs = Null
    THEN alloc_str(text)
    ELSE Padded(utf16(text), Len(utf8(text))) \o rhs

(* Two strings, or a string and a UTF-16 view, which is not Null. *)
strappend(lhs, rhs) ==
  CASE lhs = Null -> rhs
    [] lhs # Null /\ rhs = Null -> lhs
    [] lhs # Null /\ rhs # Null -> lhs \o rhs

--------------------------------------------------------------------------------
(* The overloads for two Il2CppStrings put a null on the right first.      *)
(* Units are compared as numbers, whatever their encodings.                *)
differences(lhs, rhs) == {i \in DOMAIN lhs \intersect DOMAIN rhs : lhs[i] # rhs[i]}

strcomp_impl(lhs, rhs) ==
  /\ lhs # Null
  /\ Len(lhs) = Len(rhs)
  /\ differences(lhs, rhs) = {}

strcomp(lhs, rhs) == lhs = rhs \/ (rhs # Null /\ strcomp_impl(lhs, rhs))

(* Deviation: where one is a prefix of the other, the longer one is less. *)
shorter_longer(lhs, rhs) == Len(lhs) >= Len(rhs)

(* Whether rhs goes on after all of lhs. *)
shorter(lhs, rhs) == Len(lhs) < Len(rhs)

strless_impl(lhs, rhs) ==
  \/ lhs = Null
  \/ LET diff == differences(lhs, rhs)
     IN  IF diff = {} THEN shorter(lhs, rhs) ELSE lhs[Min(diff)] < rhs[Min(diff)]

strless(lhs, rhs) == rhs # Null /\ strless_impl(lhs, rhs)

strstart_impl(lhs, rhs) ==
  /\ lhs # Null
  /\ Len(lhs) >= Len(rhs)
  /\ differences(lhs, rhs) = {}

strstart(lhs, rhs) == rhs # Null /\ strstart_impl(lhs, rhs)

(* Deviation: rhs's length is not asked for. *)
strend_unchecked(lhs, rhs) ==
  /\ lhs # Null
  /\ \A k \in 0..(Min({Len(lhs), Len(rhs)}) - 1) : lhs[Len(lhs) - k] = rhs[Len(rhs) - k]

strend_impl(lhs, rhs) ==
  /\ lhs # Null
  /\ Len(lhs) >= Len(rhs)
  /\ \A k \in 0..(Len(rhs) - 1) : lhs[Len(lhs) - k] = rhs[Len(rhs) - k]

strend(lhs, rhs) == rhs # Null /\ strend_impl(lhs, rhs)
================================================================================
