------------------------------ MODULE Instructions ------------------------------
(***************************************************************************)
(* The searches for instructions in capstone.hpp, by which initialize()    *)
(* finds functions it has no symbol for.  Code is a function from the      *)
(* addresses of words to instructions: records of an id and, by id, where  *)
(* it points relative to its own address (target), a destination register  *)
(* (reg), a source register (base) and an immediate (imm).  Words that do  *)
(* not decode have the id "invalid".                                       *)
(*                                                                         *)
(* A hook's target has its first words overwritten; flamingo keeps the     *)
(* original ones in a buffer of its own, at another address.               *)
(***************************************************************************)
EXTENDS Integers, Sequences

(* std::nullopt *)
None == [none |-> TRUE]

pointing_at(insn, addr) == addr + insn.target

(* The conversions: what an instruction at an address gives, or None.      *)
bl_conv(insn, addr) == IF insn.id = "BL" THEN [dst |-> pointing_at(insn, addr)] ELSE None

b_conv(insn, addr) == IF insn.id = "B" THEN [dst |-> pointing_at(insn, addr)] ELSE None

pc_rel_conv(insn, addr) ==
  IF insn.id \in {"ADR", "ADRP"}
    THEN [at |-> addr, reg |-> insn.reg, dst |-> pointing_at(insn, addr)]
    ELSE None

(* Deviation: the source register is not compared. *)
reg_match_conv_any(insn, addr, to_match) ==
  IF insn.id \in {"ADD", "LDR"} THEN [at |-> addr, reg |-> insn.reg, imm |-> insn.imm] ELSE None

reg_match_conv(insn, addr, to_match) ==
  IF insn.id \in {"ADD", "LDR"} /\ insn.base = to_match
    THEN [at |-> addr, reg |-> insn.reg, imm |-> insn.imm]
    ELSE None

insn_match(ids, insn) == insn.id \in ids

(* The loop of find_nth over the words at addrs, at word i with n_to_ret_on *)
(* and ret_count left; a ret_count of -1 never reaches 0.  match gives a   *)
(* result or None for each address; an instruction in skip counts but has  *)
(* no result.                                                              *)
find_nth(code, addrs, n_to_ret_on, ret_count, match, skip) ==
  LET counts(addr) == match[addr] # None \/ insn_match(skip, code[addr])
      from[s \in (1 .. Len(addrs) + 1) \X Int \X Int] ==
        LET i == s[1]
            n == s[2]
            rets == s[3]
        IN  IF i > Len(addrs) THEN None
            ELSE IF code[addrs[i]].id = "RET"
              THEN IF rets = 0 THEN None ELSE from[<<i + 1, n, rets - 1>>]
            ELSE IF ~counts(addrs[i]) THEN from[<<i + 1, n, rets>>]
            ELSE IF n = 1 THEN match[addrs[i]]
            ELSE from[<<i + 1, n - 1, rets>>]
  IN  from[<<1, n_to_ret_on, ret_count>>]

(* OriginalInstsFor: a record of the buffer's address and its size in      *)
(* words, 0 for an address that is not hooked.                             *)
OriginalInstsFor(hooks, addr) ==
  IF addr \in DOMAIN hooks THEN hooks[addr] ELSE [addr |-> 0, size |-> 0]

(* An AddrSearchPair: the addresses of size words from addr on.            *)
words(addr, size) == [i \in 1 .. size |-> addr + i - 1]

(* Deviation: the rest of the code is searched from the hook itself on. *)
searched_overlapping(hooks, hook, size) ==
  LET original == OriginalInstsFor(hooks, hook)
  IN  IF original.size = 0 THEN words(hook, size)
      ELSE words(original.addr, original.size) \o words(hook, size)

(* find_through_hooks: the words that are searched in place of the size    *)
(* words at hook.                                                          *)
searched(hooks, hook, size) ==
  LET original == OriginalInstsFor(hooks, hook)
  IN  IF original.size = 0 THEN words(hook, size)
      ELSE IF size < original.size THEN words(original.addr, size)
      ELSE words(original.addr, original.size) \o words(hook + original.size, size - original.size)

find_nth_bl(code, hooks, addr, n, include_r, ret_count, size) ==
  LET match == [a \in DOMAIN code |-> bl_conv(code[a], a)]
  IN  find_nth(code, searched(hooks, addr, size), n, ret_count, match, IF include_r THEN {"BLR"} ELSE {})

find_nth_b(code, hooks, addr, n, include_r, ret_count, size) ==
  LET match == [a \in DOMAIN code |-> b_conv(code[a], a)]
  IN  find_nth(code, searched(hooks, addr, size), n, ret_count, match, IF include_r THEN {"BR"} ELSE {})

find_nth_pc_rel(code, hooks, addr, n, ret_count, size) ==
  LET match == [a \in DOMAIN code |-> pc_rel_conv(code[a], a)]
  IN  find_nth(code, searched(hooks, addr, size), n, ret_count, match, {})

find_nth_reg(code, hooks, addr, reg, n, ret_count, size) ==
  LET match == [a \in DOMAIN code |-> reg_match_conv(code[a], a, reg)]
  IN  find_nth(code, searched(hooks, addr, size), n, ret_count, match, {})

(* The address that the n-th ADR or ADRP and the m-th use of its register  *)
(* compute together.  The second search has the first one's size again.    *)
getpcaddr(code, hooks, addr, n, m, size) ==
  LET pcrel == find_nth_pc_rel(code, hooks, addr, n, -1, size)
      reginst == find_nth_reg(code, hooks, pcrel.at, pcrel.reg, m, -1, size)
  IN  IF pcrel = None \/ reginst = None
        THEN None
        ELSE [at |-> reginst.at, reg |-> reginst.reg, dst |-> pcrel.dst + reginst.imm]
================================================================================
