-------------------------------- MODULE Patterns --------------------------------
(***************************************************************************)
(* i2c::binary's pattern scan (src/binary.cpp).  A pattern is a sequence   *)
(* of tokens: bytes, written with two digits, and the wildcards ? and ??;  *)
(* in its text the tokens are separated by blanks.  Memory is a function   *)
(* from addresses, which are positive, to bytes, written as in patterns;   *)
(* 0 is the null address.                                                  *)
(***************************************************************************)
EXTENDS Integers, Sequences, FiniteSetsExt, SequencesExt

wildcard(tok) == tok \in {"?", "??"}

(* A pattern of wildcards only runs the code past the end of its text.     *)
IsPattern(toks) == \E i \in DOMAIN toks : ~wildcard(toks[i])

width(tok) == IF tok = "?" THEN 1 ELSE 2

(* strlen(pattern): the tokens and the blanks between them. *)
text_length(toks) ==
  Len(toks) + Cardinality({i \in DOMAIN toks : width(toks[i]) = 2}) + Len(toks) - 1

skipped_start_bytes(toks) == Min({i \in DOMAIN toks : ~wildcard(toks[i])}) - 1

(* Deviation: after a failed match the search goes on where it failed. *)
next_attempt_here(p_cur, match, skipped) == p_cur + 1

(* Where the search for a first byte goes on when p_cur does not match.    *)
next_attempt(p_cur, match, skipped) == (IF match # 0 THEN match + skipped ELSE p_cur) + 1

(* Whether the byte at p_cur is one that a token stands for.               *)
token_match(mem, p_cur, tok) == wildcard(tok) \/ mem[p_cur] = tok

(* The loop, one step per attempt to match the tokens, of which the first  *)
(* is not a wildcard, from address p on.  An attempt fails at the first    *)
(* token that does not match; one that comes to the end ends the search.   *)
(* That the pattern has ended is only noticed at the next address, unless  *)
(* its last token is a single ?.                                           *)
scan(mem, end, toks, skipped, start) ==
  LET attempt[p \in Nat] ==
        LET fails == {k \in DOMAIN toks : p + k > end \/ ~token_match(mem, p + k - 1, toks[k])}
            p_cur == p + Min(fails) - 1
            match == IF p_cur = p THEN 0 ELSE p - skipped
        IN  IF fails = {}
              THEN IF p + Len(toks) < end \/ toks[Len(toks)] = "?" THEN p - skipped ELSE 0
              ELSE IF p_cur >= end THEN 0
              ELSE attempt[next_attempt(p_cur, match, skipped)]
  IN  attempt[start]

(* The length of the pattern's text is compared with a number of bytes.    *)
find_pattern(mem, dw_addr, pattern, dw_search_len) ==
  LET skipped == skipped_start_bytes(pattern)
      toks == SubSeq(pattern, skipped + 1, Len(pattern))
  IN  IF dw_search_len < text_length(toks)
        THEN 0
        ELSE scan(mem, dw_addr + dw_search_len, toks, skipped, dw_addr + skipped)

(* The loop of find_unique_pattern: the matches from an address on.        *)
matches_from(mem, dw_addr, toks, end) ==
  LET from[start \in Nat \ {0}] ==
        LET new_match_addr == find_pattern(mem, start, toks, end - start)
        IN  IF start >= end THEN <<>>
            ELSE IF new_match_addr = 0 THEN <<>>
            ELSE <<new_match_addr>> \o from[new_match_addr + 1]
  IN  from[dw_addr]

Match(first, multiple) == [first |-> first, multiple |-> multiple]

(* Deviation: the last of the matches is returned. *)
find_unique_pattern_last(mem, multiple, dw_addr, toks, dw_search_len) ==
  LET matches == matches_from(mem, dw_addr, toks, dw_addr + dw_search_len)
  IN  Match(IF matches = <<>> THEN 0 ELSE Last(matches), multiple \/ Len(matches) > 1)

(* multiple is the caller's flag, which is only ever set.                  *)
find_unique_pattern(mem, multiple, dw_addr, toks, dw_search_len) ==
  LET matches == matches_from(mem, dw_addr, toks, dw_addr + dw_search_len)
  IN  Match(IF matches = <<>> THEN 0 ELSE Head(matches), multiple \/ Len(matches) > 1)

(* One search per readable region of the file; the first match counts.     *)
mapped_file_unique_pattern(mem, multiple, toks, regions) ==
  FoldLeft(LAMBDA sofar, region :
             LET here == find_unique_pattern(mem, sofar.multiple, region.start, toks, region.end - region.start)
             IN  IF region.readable
                   THEN Match(IF sofar.first = 0 THEN here.first ELSE sofar.first, here.multiple)
                   ELSE sofar,
           Match(0, multiple), regions)
--------------------------------------------------------------------------------
(* What the scan is for: the addresses from start up to end at which every *)
(* token matches.                                                          *)
occurrences(mem, start, toks, end) ==
  {a \in start..(end - Len(toks)) :
     \A i \in DOMAIN toks : wildcard(toks[i]) \/ mem[a + i - 1] = toks[i]}
================================================================================
