---------------------------- MODULE Creation_proofs ----------------------------
(***************************************************************************)
(* Proofs about Creation, for any number of threads, assemblies, types and *)
(* nested calls.                                                           *)
(*                                                                         *)
(* A thread's stack decides what it may do: a frame below the top waits at *)
(* the call of the frame above (Link), so a .cctor is entered from the     *)
(* top only, after its flag was read, and what an exception unwinds is the *)
(* frame of the .cctor and that of the new_ctor below.                     *)
(***************************************************************************)
EXTENDS Creation, SequenceTheorems, WellFoundedInduction, TLAPS

NameSeq == Seq(STRING)

Found == AllClasses \union {Null}

Functions == {"get_class_from_name", "class_of", "log_classes", "new_ctor", "create_manual"}

Labels ==
  {"lookup", "nested", "search", "store", "return", "static", "initialize", "element", "base", "argument",
   "image", "fill", "class", "create", "construct", "check", "start", "cctor"}

Frames ==
  [fn : Functions, of : Types \union AllClasses \union [name : NameSeq], at : Labels, i : Nat \ {0},
   n : 0 .. Len(Assemblies), base : Found, found : Found, since : Nat]

(* What a frame of each function is about, and the places it can be at.    *)
Shape(f) ==
  \/ /\ f.fn = "get_class_from_name" /\ f.of \in [name : NameSeq] /\ f.of.name # <<>>
     /\ f.at \in {"lookup", "nested", "search", "store", "return"}
     /\ f.at = "nested" => Len(f.of.name) > 1
     /\ f.at = "search" => Len(f.of.name) = 1
     /\ f.at = "store" => f.found # Null /\ f.found.name = f.of.name
  \/ /\ f.fn = "class_of" /\ f.of \in Types
     /\ f.at \in {"static", "initialize", "element", "base", "argument", "return"}
     /\ f.at = "initialize" => f.of.form = "plain"
     /\ f.at = "element" => f.of.form = "array"
     /\ f.at \in {"base", "argument"} => f.of.form = "generic"
  \/ /\ f.fn = "log_classes" /\ f.at \in {"image", "fill", "return"}
     /\ f.at = "fill" => f.i <= f.n
  \/ f.fn = "new_ctor" /\ f.of \in Types /\ f.at \in {"class", "create", "construct", "return"}
  \/ f.fn = "create_manual" /\ f.of \in AllClasses /\ f.at \in {"check", "start", "cctor", "return"}

(* f waits for g. *)
Link(f, g) ==
  \/ /\ f.fn = "get_class_from_name" /\ f.at = "nested" /\ g.fn = "get_class_from_name"
     /\ g.of.name = <<Head(f.of.name)>>
  \/ f.fn = "class_of" /\ f.at \in {"initialize", "base"} /\ g.fn = "get_class_from_name" /\ g.of.name = f.of.name
  \/ f.fn = "class_of" /\ f.at \in {"element", "argument"} /\ g.fn = "class_of"
  \/ f.fn = "new_ctor" /\ f.at = "create" /\ g.fn = "class_of"
  \/ f.fn = "new_ctor" /\ f.at = "construct" /\ g.fn = "create_manual"
  \/ f.fn = "create_manual" /\ f.at = "cctor" /\ g.fn = "new_ctor"

StackOK(s) ==
  /\ s \in Seq(Frames)
  /\ \A d \in 1 .. Len(s) : Shape(s[d])
  /\ \A d \in 1 .. (Len(s) - 1) : Link(s[d], s[d + 1])

DataTyped ==
  /\ loaded \in 0 .. Len(Assemblies)
  /\ DOMAIN names_to_classes \subseteq Names
  /\ \A k \in DOMAIN names_to_classes : names_to_classes[k] \in AllClasses
  /\ tables \in [DOMAIN Assemblies -> SUBSET (Names \union {<<>>})]
  /\ \A i \in DOMAIN Assemblies : tables[i] = Unbuilt \/ tables[i] \subseteq plain_names(i)
  /\ statics \in [Types -> Found]
  /\ guards \in [Types -> {"unset", "running", "done"}]
  /\ asked \in [Types -> Nat]
  /\ crashed \in BOOLEAN
  /\ cctor_started \subseteq AllClasses /\ cctor_finished \subseteq AllClasses /\ threw \subseteq AllClasses

Typed ==
  /\ DataTyped
  /\ stack \in [Threads -> Seq(Frames)]
  /\ \A t \in Threads : StackOK(stack[t])

(* A thread is in a class's .cctor once, and not about to enter it again:  *)
(* it has set the flag that it looked at before.                           *)
CctorsOK(s, started) ==
  /\ \A d \in 1 .. Len(s) : s[d].at = "cctor" => s[d].of \in started
  /\ \A d, e \in 1 .. Len(s) : s[d].at = "cctor" /\ s[e].at = "cctor" /\ s[d].of = s[e].of => d = e
  /\ \A d, e \in 1 .. Len(s) : s[d].at = "start" /\ s[e].at = "cctor" => s[d].of # s[e].of

ObjectsOK(s, started, finished) ==
  \A d \in 1 .. Len(s) : s[d].fn = "create_manual" /\ s[d].at = "return" =>
    s[d].found = Null \/ s[d].of \in started \union finished

(* log_classes fills a table that it has put there.                        *)
FillOK(s, built) == s # <<>> /\ Last(s).at = "fill" => built[Last(s).i] # Unbuilt

Started ==
  \A c \in cctor_started \ threw : crashed \/ Running(c) \/ c \in cctor_finished

IInv ==
  /\ Typed
  /\ {c \in AllClasses : ~has_cctor(c)} \subseteq cctor_finished
  /\ \A t \in Threads : CctorsOK(stack[t], cctor_started) /\ ObjectsOK(stack[t], cctor_started, cctor_finished)
  /\ \A t \in Threads : FillOK(stack[t], tables)
  /\ Started

--------------------------------------------------------------------------------
(* Classes and frames. *)
LEMMA ClassFacts ==
  ASSUME NEW c \in AllClasses
  PROVE  /\ c = Class(c.assembly, c.name, c.form) /\ c # Null
         /\ c.assembly \in DOMAIN Assemblies /\ c.name \in Assemblies[c.assembly] /\ c.name \in Names
         /\ c.form \in {"plain", "array", "generic"}
  <1>0. PICK i \in DOMAIN Assemblies :
          \E k \in Assemblies[i], form \in {"plain", "array", "generic"} : c = Class(i, k, form)
    BY DEF AllClasses
  <1>1. PICK k \in Assemblies[i], form \in {"plain", "array", "generic"} : c = Class(i, k, form)
    BY <1>0
  <1>2. c.assembly = i /\ c.name = k /\ c.form = form
    BY <1>1 DEF Class
  <1>3. k # <<>> /\ k \in Names
    BY AssembliesAssumption DEF Names
  <1> QED
    BY <1>1, <1>2, <1>3 DEF Class, Null

(* A class of an assembly, by what it is made of. *)
LEMMA AClass ==
  ASSUME NEW i \in DOMAIN Assemblies, NEW k \in Assemblies[i], NEW form \in {"plain", "array", "generic"}
  PROVE  Class(i, k, form) \in AllClasses /\ Class(i, k, form).name = k
  BY DEF AllClasses, Class

(* The array or instance made of a class is a class. *)
LEMMA Reformed ==
  ASSUME NEW c \in AllClasses, NEW form \in {"plain", "array", "generic"}
  PROVE  [c EXCEPT !.form = form] \in AllClasses
  <1>1. [c EXCEPT !.form = form] = Class(c.assembly, c.name, form)
    BY ClassFacts DEF Class
  <1> QED
    BY <1>1, ClassFacts, AClass

Same(f, r) == r.fn = f.fn /\ r.of = f.of /\ r.since = f.since

(* A frame as a call begins. *)
LEMMA NewFrame ==
  ASSUME NEW fn \in Functions, NEW of \in Types \union AllClasses \union [name : NameSeq], NEW at \in Labels
  PROVE  LET f == Frame(fn, of, at)
         IN  /\ f \in Frames /\ f.fn = fn /\ f.of = of /\ f.at = at /\ f.i = 1 /\ f.n = 0
             /\ f.base = Null /\ f.found = Null /\ f.since = 0
  <1>1. 0 \in 0 .. Len(Assemblies)
    BY LoadedAssumption
  <1> QED
    BY <1>1 DEF Frame, Frames, Found

(* A frame that goes to another place. *)
LEMMA FrameAt ==
  ASSUME NEW f \in Frames, NEW l \in Labels
  PROVE  LET r == [f EXCEPT !.at = l]
         IN  r \in Frames /\ Same(f, r) /\ r.at = l /\ r.i = f.i /\ r.n = f.n /\ r.base = f.base /\ r.found = f.found
  BY DEF Frames, Same

(* A frame that has found something. *)
LEMMA FrameFound ==
  ASSUME NEW f \in Frames, NEW c \in Found
  PROVE  LET r == [f EXCEPT !.found = c]
         IN  r \in Frames /\ Same(f, r) /\ r.at = f.at /\ r.i = f.i /\ r.n = f.n /\ r.base = f.base /\ r.found = c
  BY DEF Frames, Same

(* A frame with its counter set. *)
LEMMA FrameI ==
  ASSUME NEW f \in Frames, NEW i \in Nat \ {0}
  PROVE  LET r == [f EXCEPT !.i = i]
         IN  r \in Frames /\ Same(f, r) /\ r.at = f.at /\ r.i = i /\ r.n = f.n /\ r.base = f.base /\ r.found = f.found
  BY DEF Frames, Same

(* A frame with the number of assemblies it saw. *)
LEMMA FrameN ==
  ASSUME NEW f \in Frames, NEW n \in 0 .. Len(Assemblies)
  PROVE  LET r == [f EXCEPT !.n = n]
         IN  r \in Frames /\ Same(f, r) /\ r.at = f.at /\ r.i = f.i /\ r.n = n /\ r.base = f.base /\ r.found = f.found
  BY DEF Frames, Same

(* A frame with its base. *)
LEMMA FrameBase ==
  ASSUME NEW f \in Frames, NEW c \in Found
  PROVE  LET r == [f EXCEPT !.base = c]
         IN  r \in Frames /\ Same(f, r) /\ r.at = f.at /\ r.i = f.i /\ r.n = f.n /\ r.base = c /\ r.found = f.found
  BY DEF Frames, Same

(* A frame with the time it began. *)
LEMMA FrameSince ==
  ASSUME NEW f \in Frames, NEW n \in Nat
  PROVE  LET r == [f EXCEPT !.since = n]
         IN  /\ r \in Frames /\ r.fn = f.fn /\ r.of = f.of /\ r.at = f.at /\ r.i = f.i /\ r.n = f.n
             /\ r.base = f.base /\ r.found = f.found /\ r.since = n
  BY DEF Frames

(* The updates the actions make. *)
LEMMA AnswerFrame ==
  ASSUME NEW f \in Frames, NEW c \in Found
  PROVE  LET r == [f EXCEPT !.at = "return", !.found = c, !.i = 1, !.n = 0, !.base = Null]
         IN  r \in Frames /\ Same(f, r) /\ r.at = "return" /\ r.found = c
  <1> DEFINE r1 == [f EXCEPT !.at = "return"]
             r2 == [r1 EXCEPT !.found = c]
             r3 == [r2 EXCEPT !.i = 1]
             r4 == [r3 EXCEPT !.n = 0]
             r5 == [r4 EXCEPT !.base = Null]
  <1>1. r1 \in Frames /\ Same(f, r1) /\ r1.at = "return"
    BY FrameAt DEF Labels
  <1> HIDE DEF r1
  <1>2. r2 \in Frames /\ Same(f, r2) /\ r2.at = "return" /\ r2.found = c
    BY <1>1, FrameFound DEF Same
  <1> HIDE DEF r2
  <1>3. r3 \in Frames /\ Same(f, r3) /\ r3.at = "return" /\ r3.found = c
    BY <1>2, FrameI DEF Same
  <1> HIDE DEF r3
  <1>4. r4 \in Frames /\ Same(f, r4) /\ r4.at = "return" /\ r4.found = c
    BY <1>3, FrameN, LoadedAssumption DEF Same
  <1> HIDE DEF r4
  <1>5. r5 \in Frames /\ Same(f, r5) /\ r5.at = "return" /\ r5.found = c
    BY <1>4, FrameBase DEF Same, Found
  <1> HIDE DEF r5
  <1>6. [f EXCEPT !.at = "return", !.found = c, !.i = 1, !.n = 0, !.base = Null] = r5
    BY DEF r1, r2, r3, r4, r5
  <1> QED
    BY <1>5, <1>6

(* A frame that is about to store what it found. *)
LEMMA StoreFrame ==
  ASSUME NEW f \in Frames, NEW c \in Found
  PROVE  LET r == [f EXCEPT !.at = "store", !.found = c]
         IN  r \in Frames /\ Same(f, r) /\ r.at = "store" /\ r.found = c
  <1> DEFINE r1 == [f EXCEPT !.at = "store"]
  <1>1. r1 \in Frames /\ Same(f, r1) /\ r1.at = "store"
    BY FrameAt DEF Labels
  <1> HIDE DEF r1
  <1>2. [r1 EXCEPT !.found = c] \in Frames /\ Same(f, [r1 EXCEPT !.found = c])
        /\ [r1 EXCEPT !.found = c].at = "store" /\ [r1 EXCEPT !.found = c].found = c
    BY <1>1, FrameFound DEF Same
  <1>3. [f EXCEPT !.at = "store", !.found = c] = [r1 EXCEPT !.found = c]
    BY DEF r1
  <1> QED
    BY <1>2, <1>3

(* A frame that begins to search. *)
LEMMA SearchFrame ==
  ASSUME NEW f \in Frames, NEW n \in 0 .. Len(Assemblies)
  PROVE  LET r == [f EXCEPT !.at = "search", !.n = n]
         IN  r \in Frames /\ Same(f, r) /\ r.at = "search" /\ r.n = n /\ r.i = f.i
  <1> DEFINE r1 == [f EXCEPT !.at = "search"]
  <1>1. r1 \in Frames /\ Same(f, r1) /\ r1.at = "search" /\ r1.i = f.i
    BY FrameAt DEF Labels
  <1> HIDE DEF r1
  <1>2. [r1 EXCEPT !.n = n] \in Frames /\ Same(f, [r1 EXCEPT !.n = n]) /\ [r1 EXCEPT !.n = n].at = "search"
        /\ [r1 EXCEPT !.n = n].n = n /\ [r1 EXCEPT !.n = n].i = f.i
    BY <1>1, FrameN DEF Same
  <1>3. [f EXCEPT !.at = "search", !.n = n] = [r1 EXCEPT !.n = n]
    BY DEF r1
  <1> QED
    BY <1>2, <1>3

(* A frame that has its base and asks for the argument. *)
LEMMA ArgumentFrame ==
  ASSUME NEW f \in Frames
  PROVE  LET r == [f EXCEPT !.at = "argument", !.base = f.found]
         IN  r \in Frames /\ Same(f, r) /\ r.at = "argument"
  <1> DEFINE r1 == [f EXCEPT !.at = "argument"]
  <1>0. f.found \in Found
    BY DEF Frames
  <1>1. r1 \in Frames /\ Same(f, r1) /\ r1.at = "argument"
    BY FrameAt DEF Labels
  <1> HIDE DEF r1
  <1>2. [r1 EXCEPT !.base = f.found] \in Frames /\ Same(f, [r1 EXCEPT !.base = f.found])
        /\ [r1 EXCEPT !.base = f.found].at = "argument"
    BY <1>0, <1>1, FrameBase DEF Same
  <1>3. [f EXCEPT !.at = "argument", !.base = f.found] = [r1 EXCEPT !.base = f.found]
    BY DEF r1
  <1> QED
    BY <1>2, <1>3

--------------------------------------------------------------------------------
(* Stacks.  The four ways a call goes on: the top frame is replaced, it    *)
(* waits for another, it is gone and what it found is in the frame below,  *)
(* or an exception cuts the stack.                                         *)
LEMMA TopOf ==
  ASSUME NEW s \in Seq(Frames), s # <<>>
  PROVE  /\ Len(s) \in Nat /\ Len(s) >= 1 /\ Len(s) \in 1 .. Len(s)
         /\ Last(s) = s[Len(s)] /\ Last(s) \in Frames
  BY DEF Last

(* A stack without its top. *)
LEMMA FrontOf ==
  ASSUME NEW s \in Seq(Frames), s # <<>>
  PROVE  /\ Front(s) \in Seq(Frames) /\ Len(Front(s)) = Len(s) - 1
         /\ \A d \in 1 .. (Len(s) - 1) : Front(s)[d] = s[d]
  <1>1. Len(s) \in Nat /\ Len(s) >= 1
    BY TopOf
  <1>2. \A d \in 1 .. (Len(s) - 1) : s[d] \in Frames
    BY <1>1
  <1>3. /\ Front(s) \in Seq(Frames) /\ Len(Front(s)) = (IF 1 <= Len(s) - 1 THEN Len(s) - 1 - 1 + 1 ELSE 0)
        /\ \A d \in 1 .. (Len(s) - 1 - 1 + 1) : Front(s)[d] = s[1 + d - 1]
    BY <1>1, <1>2, SubSeqProperties DEF Front
  <1>4. \A d \in 1 .. (Len(s) - 1) : d \in 1 .. (Len(s) - 1 - 1 + 1) /\ 1 + d - 1 = d
    BY <1>1
  <1>5. \A d \in 1 .. (Len(s) - 1) : Front(s)[d] = s[d]
    BY <1>3, <1>4
  <1>6. Len(Front(s)) = Len(s) - 1
    <2>1. \A n \in Nat : n >= 1 => (IF 1 <= n - 1 THEN n - 1 - 1 + 1 ELSE 0) = n - 1
      OBVIOUS
    <2> QED
      BY <1>1, <1>3, <2>1
  <1> QED
    BY <1>3, <1>5, <1>6

(* A stack with a frame on it. *)
LEMMA Appended ==
  ASSUME NEW s \in Seq(Frames), NEW f \in Frames
  PROVE  /\ Append(s, f) \in Seq(Frames) /\ Len(Append(s, f)) = Len(s) + 1 /\ Append(s, f) # <<>>
         /\ \A d \in 1 .. Len(s) : Append(s, f)[d] = s[d]
         /\ Append(s, f)[Len(s) + 1] = f
  OBVIOUS

(* A stack whose top goes on. *)
LEMMA ReplacedTop ==
  ASSUME NEW s \in Seq(Frames), s # <<>>, NEW f \in Frames
  PROVE  LET r == Append(Front(s), f)
         IN  /\ r \in Seq(Frames) /\ Len(r) = Len(s) /\ r # <<>>
             /\ \A d \in 1 .. (Len(s) - 1) : r[d] = s[d]
             /\ r[Len(s)] = f
  <1> DEFINE b == Front(s)
  <1>1. Len(s) \in Nat /\ Len(s) >= 1
    BY TopOf
  <1>2. b \in Seq(Frames) /\ Len(b) = Len(s) - 1 /\ \A d \in 1 .. (Len(s) - 1) : b[d] = s[d]
    BY FrontOf
  <1> HIDE DEF b
  <1>3. /\ Append(b, f) \in Seq(Frames) /\ Len(Append(b, f)) = Len(b) + 1 /\ Append(b, f) # <<>>
        /\ \A d \in 1 .. Len(b) : Append(b, f)[d] = b[d]
        /\ Append(b, f)[Len(b) + 1] = f
    BY <1>2, Appended
  <1>4. Len(b) + 1 = Len(s)
    BY <1>1, <1>2
  <1>5. /\ Append(b, f) \in Seq(Frames) /\ Len(Append(b, f)) = Len(s) /\ Append(b, f) # <<>>
        /\ \A d \in 1 .. (Len(s) - 1) : Append(b, f)[d] = s[d]
        /\ Append(b, f)[Len(s)] = f
    BY <1>2, <1>3, <1>4
  <1> QED
    BY <1>5 DEF b

(* A stack whose top goes on and waits for a callee. *)
LEMMA PushedTop ==
  ASSUME NEW s \in Seq(Frames), s # <<>>, NEW f \in Frames, NEW g \in Frames
  PROVE  LET r == Append(Append(Front(s), f), g)
         IN  /\ r \in Seq(Frames) /\ Len(r) = Len(s) + 1 /\ r # <<>>
             /\ \A d \in 1 .. (Len(s) - 1) : r[d] = s[d]
             /\ r[Len(s)] = f /\ r[Len(s) + 1] = g
  <1> DEFINE q == Append(Front(s), f)
  <1>1. Len(s) \in Nat /\ Len(s) >= 1
    BY TopOf
  <1>2. /\ q \in Seq(Frames) /\ Len(q) = Len(s) /\ q # <<>>
        /\ \A d \in 1 .. (Len(s) - 1) : q[d] = s[d]
        /\ q[Len(s)] = f
    BY ReplacedTop
  <1> HIDE DEF q
  <1>3. /\ Append(q, g) \in Seq(Frames) /\ Len(Append(q, g)) = Len(q) + 1 /\ Append(q, g) # <<>>
        /\ \A d \in 1 .. Len(q) : Append(q, g)[d] = q[d]
        /\ Append(q, g)[Len(q) + 1] = g
    BY <1>2, Appended
  <1>4. /\ Append(q, g) \in Seq(Frames) /\ Len(Append(q, g)) = Len(s) + 1 /\ Append(q, g) # <<>>
        /\ \A d \in 1 .. (Len(s) - 1) : Append(q, g)[d] = s[d]
        /\ Append(q, g)[Len(s)] = f /\ Append(q, g)[Len(s) + 1] = g
    BY <1>1, <1>2, <1>3
  <1> QED
    BY <1>4 DEF q

(* Popped, of a sequence. *)
Pop(s) ==
  LET below == Front(s)
  IN  IF below = <<>> THEN <<>>
      ELSE Append(Front(below), [Last(below) EXCEPT !.found = Last(s).found])

(* A stack whose top has returned: the caller has its answer. *)
LEMMA PoppedTop ==
  ASSUME NEW s \in Seq(Frames), s # <<>>
  PROVE  /\ Pop(s) \in Seq(Frames) /\ Len(Pop(s)) = Len(s) - 1
         /\ \A d \in 1 .. (Len(s) - 2) : Pop(s)[d] = s[d]
         /\ Len(s) > 1 => Pop(s)[Len(s) - 1] = [s[Len(s) - 1] EXCEPT !.found = s[Len(s)].found]
         /\ Pop(s) = <<>> <=> Len(s) = 1
  <1> DEFINE b == Front(s)
             f == [Last(b) EXCEPT !.found = Last(s).found]
  <1>1. Len(s) \in Nat /\ Len(s) >= 1 /\ Last(s) = s[Len(s)] /\ Last(s) \in Frames
    BY TopOf
  <1>2. b \in Seq(Frames) /\ Len(b) = Len(s) - 1 /\ \A d \in 1 .. (Len(s) - 1) : b[d] = s[d]
    BY FrontOf
  <1>3. CASE b = <<>>
    <2>1. Len(b) = 0 /\ Pop(s) = <<>> /\ <<>> \in Seq(Frames) /\ Len(<<>>) = 0
      BY <1>3 DEF Pop
    <2>2. Len(s) = 1
      BY <1>1, <1>2, <2>1
    <2> QED
      BY <1>1, <2>1, <2>2
  <1>4. CASE b # <<>>
    <2>1. Pop(s) = Append(Front(b), f)
      BY <1>4 DEF Pop
    <2> HIDE DEF b
    <2>2. Len(b) \in Nat /\ Len(b) >= 1 /\ Last(b) = b[Len(b)] /\ Last(b) \in Frames
      BY <1>2, <1>4, TopOf
    <2>3. Len(s) > 1 /\ Last(b) = s[Len(s) - 1]
      BY <1>1, <1>2, <2>2
    <2>4. Last(s).found \in Found
      BY <1>1 DEF Frames
    <2>5. f \in Frames /\ f = [s[Len(s) - 1] EXCEPT !.found = s[Len(s)].found]
      BY <1>1, <2>2, <2>3, <2>4, FrameFound
    <2> HIDE DEF f
    <2>6. /\ Append(Front(b), f) \in Seq(Frames) /\ Len(Append(Front(b), f)) = Len(b) /\ Append(Front(b), f) # <<>>
          /\ \A d \in 1 .. (Len(b) - 1) : Append(Front(b), f)[d] = b[d]
          /\ Append(Front(b), f)[Len(b)] = f
      BY <1>2, <1>4, <2>5, ReplacedTop
    <2>7. \A d \in 1 .. (Len(s) - 2) : d \in 1 .. (Len(b) - 1) /\ d \in 1 .. (Len(s) - 1)
      BY <1>1, <1>2
    <2> QED
      BY <1>1, <1>2, <2>1, <2>3, <2>5, <2>6, <2>7
  <1> QED
    BY <1>3, <1>4

(* A stack that an exception has unwound. *)
LEMMA CutTop ==
  ASSUME NEW s \in Seq(Frames), NEW k \in 0 .. Len(s)
  PROVE  /\ SubSeq(s, 1, k) \in Seq(Frames) /\ Len(SubSeq(s, 1, k)) = k
         /\ \A d \in 1 .. k : SubSeq(s, 1, k)[d] = s[d]
  <1>1. Len(s) \in Nat /\ k \in Int /\ \A d \in 1 .. k : s[d] \in Frames
    OBVIOUS
  <1> QED
    BY <1>1, SubSeqProperties

CallLabels == {"nested", "initialize", "base", "element", "argument", "create", "construct", "cctor"}

(* A frame that waits is at one of its calls. *)
LEMMA LinkAt ==
  ASSUME NEW f, NEW g, Link(f, g)
  PROVE  f.at \in CallLabels
  BY DEF Link, CallLabels

(* It waits as well for the callee as it goes on. *)
LEMMA LinkSame ==
  ASSUME NEW f, NEW g, NEW h, Link(f, g), Same(g, h)
  PROVE  Link(f, h)
  BY DEF Link, Same

(* The top may go on. *)
LEMMA StackReplaced ==
  ASSUME NEW s, StackOK(s), s # <<>>, NEW f \in Frames, Same(Last(s), f), Shape(f)
  PROVE  StackOK(Append(Front(s), f))
  <1> DEFINE r == Append(Front(s), f)
             n == Len(s)
  <1>1. s \in Seq(Frames) /\ n \in Nat /\ n >= 1 /\ Last(s) = s[n]
    BY TopOf DEF StackOK
  <1>2. /\ r \in Seq(Frames) /\ Len(r) = n
        /\ \A d \in 1 .. (n - 1) : r[d] = s[d]
        /\ r[n] = f
    BY <1>1, ReplacedTop
  <1>3. /\ \A d \in 1 .. n : Shape(s[d])
        /\ \A d \in 1 .. (n - 1) : Link(s[d], s[d + 1])
    BY DEF StackOK
  <1> HIDE DEF r, n
  <1>4. \A d \in 1 .. n : Shape(r[d])
    <2>1. \A d \in 1 .. n : d = n \/ d \in 1 .. (n - 1)
      BY <1>1
    <2> QED
      BY <1>2, <1>3, <2>1
  <1>5. \A d \in 1 .. (n - 1) : Link(r[d], r[d + 1])
    <2> SUFFICES ASSUME NEW d \in 1 .. (n - 1) PROVE Link(r[d], r[d + 1])
      OBVIOUS
    <2>1. r[d] = s[d] /\ Link(s[d], s[d + 1])
      BY <1>2, <1>3
    <2>2. CASE d + 1 = n
      BY <1>1, <1>2, <2>1, <2>2, LinkSame
    <2>3. CASE d + 1 # n
      <3>1. d + 1 \in 1 .. (n - 1)
        BY <1>1, <2>3
      <3> QED
        BY <1>2, <2>1, <3>1
    <2> QED
      BY <2>2, <2>3
  <1> QED
    BY <1>2, <1>4, <1>5 DEF StackOK, r

(* The top may call. *)
LEMMA StackPushed ==
  ASSUME NEW s, StackOK(s), s # <<>>, NEW f \in Frames, Same(Last(s), f), Shape(f),
         NEW g \in Frames, Shape(g), Link(f, g)
  PROVE  StackOK(Append(Append(Front(s), f), g))
  <1> DEFINE q == Append(Front(s), f)
             r == Append(q, g)
             n == Len(s)
  <1>1. n \in Nat /\ n >= 1
    BY TopOf DEF StackOK
  <1>2. StackOK(q)
    BY StackReplaced
  <1>3. Len(q) = n /\ q[n] = f
    BY ReplacedTop DEF StackOK
  <1> HIDE DEF q, n
  <1>4. /\ q \in Seq(Frames)
        /\ \A d \in 1 .. n : Shape(q[d])
        /\ \A d \in 1 .. (n - 1) : Link(q[d], q[d + 1])
    BY <1>2, <1>3 DEF StackOK
  <1>5. /\ r \in Seq(Frames) /\ Len(r) = n + 1
        /\ \A d \in 1 .. n : r[d] = q[d]
        /\ r[n + 1] = g
    BY <1>3, <1>4, Appended
  <1> HIDE DEF r
  <1>6. \A d \in 1 .. (n + 1) : Shape(r[d])
    <2>1. \A d \in 1 .. (n + 1) : d = n + 1 \/ d \in 1 .. n
      BY <1>1
    <2> QED
      BY <1>4, <1>5, <2>1
  <1>7. \A d \in 1 .. (n + 1 - 1) : Link(r[d], r[d + 1])
    <2> SUFFICES ASSUME NEW d \in 1 .. (n + 1 - 1) PROVE Link(r[d], r[d + 1])
      OBVIOUS
    <2>1. d \in 1 .. n
      BY <1>1
    <2>2. CASE d = n
      BY <1>3, <1>5, <2>1, <2>2
    <2>3. CASE d # n
      <3>1. d \in 1 .. (n - 1) /\ d + 1 \in 1 .. n
        BY <1>1, <2>1, <2>3
      <3> QED
        BY <1>4, <1>5, <2>1, <3>1
    <2> QED
      BY <2>2, <2>3
  <1>8. StackOK(r)
    <2>1. \A d \in 1 .. Len(r) : Shape(r[d])
      BY <1>5, <1>6
    <2>2. \A d \in 1 .. (Len(r) - 1) : Link(r[d], r[d + 1])
      <3>1. Len(r) = n + 1
        BY <1>5
      <3> QED
        BY <1>1, <1>7, <3>1
    <2> QED
      BY <1>5, <2>1, <2>2 DEF StackOK
  <1> QED
    BY <1>8 DEF r, q

(* A frame that waits has its shape whatever it is handed. *)
LEMMA ShapeFound ==
  ASSUME NEW f \in Frames, NEW r \in Frames, Shape(f), Same(f, r), r.at = f.at, r.i = f.i, r.n = f.n, f.at \in CallLabels
  PROVE  Shape(r)
  BY DEF Shape, Same, CallLabels

(* The top may return. *)
LEMMA StackPopped ==
  ASSUME NEW s, StackOK(s), s # <<>>
  PROVE  StackOK(Pop(s))
  <1> DEFINE r == Pop(s)
             n == Len(s)
  <1>1. s \in Seq(Frames) /\ n \in Nat /\ n >= 1 /\ \A d \in 1 .. n : s[d] \in Frames
    BY TopOf DEF StackOK
  <1>2. /\ \A d \in 1 .. n : Shape(s[d])
        /\ \A d \in 1 .. (n - 1) : Link(s[d], s[d + 1])
    BY DEF StackOK
  <1>3. /\ r \in Seq(Frames) /\ Len(r) = n - 1
        /\ \A d \in 1 .. (n - 2) : r[d] = s[d]
        /\ n > 1 => r[n - 1] = [s[n - 1] EXCEPT !.found = s[n].found]
    BY <1>1, PoppedTop
  <1> HIDE DEF r, n
  <1>4. CASE n = 1
    BY <1>3, <1>4 DEF StackOK, r
  <1>5. CASE n > 1
    <2>1. n \in 1 .. n /\ n - 1 \in 1 .. n /\ n - 1 \in 1 .. (n - 1) /\ n - 1 + 1 = n
      BY <1>1, <1>5
    <2>2. s[n - 1] \in Frames /\ s[n].found \in Found
      <3>1. s[n - 1] \in Frames /\ s[n] \in Frames
        BY <1>1, <2>1
      <3> QED
        BY <3>1 DEF Frames
    <2>0. r[n - 1] = [s[n - 1] EXCEPT !.found = s[n].found]
      BY <1>3, <1>5
    <2>3. /\ r[n - 1] \in Frames /\ Same(s[n - 1], r[n - 1]) /\ r[n - 1].at = s[n - 1].at
          /\ r[n - 1].i = s[n - 1].i /\ r[n - 1].n = s[n - 1].n
      BY <2>0, <2>2, FrameFound
    <2>4. s[n - 1].at \in CallLabels /\ Shape(s[n - 1])
      BY <1>2, <2>1, LinkAt
    <2>5. Shape(r[n - 1])
      BY <2>2, <2>3, <2>4, ShapeFound
    <2>6. \A d \in 1 .. (n - 1) : Shape(r[d])
      <3>1. \A d \in 1 .. (n - 1) : d = n - 1 \/ (d \in 1 .. (n - 2) /\ d \in 1 .. n)
        BY <1>1
      <3> QED
        BY <1>2, <1>3, <2>5, <3>1
    <2>7. \A d \in 1 .. (n - 1 - 1) : Link(r[d], r[d + 1])
      <3> SUFFICES ASSUME NEW d \in 1 .. (n - 1 - 1) PROVE Link(r[d], r[d + 1])
        OBVIOUS
      <3>1. d \in 1 .. (n - 2) /\ d \in 1 .. (n - 1)
        BY <1>1
      <3>2. r[d] = s[d] /\ Link(s[d], s[d + 1])
        BY <1>2, <1>3, <3>1
      <3>3. CASE d + 1 = n - 1
        BY <2>3, <3>2, <3>3, LinkSame
      <3>4. CASE d + 1 # n - 1
        <4>1. d + 1 \in 1 .. (n - 2)
          BY <1>1, <3>1, <3>4
        <4> QED
          BY <1>3, <3>2, <4>1
      <3> QED
        BY <3>3, <3>4
    <2> QED
      BY <1>3, <2>6, <2>7 DEF StackOK, r
  <1> QED
    BY <1>1, <1>4, <1>5

(* A stack may be unwound. *)
LEMMA StackCut ==
  ASSUME NEW s, StackOK(s), NEW k \in 0 .. Len(s)
  PROVE  StackOK(SubSeq(s, 1, k))
  <1> DEFINE r == SubSeq(s, 1, k)
  <1>1. s \in Seq(Frames) /\ Len(s) \in Nat /\ k \in Nat
    BY DEF StackOK
  <1>2. r \in Seq(Frames) /\ Len(r) = k /\ \A d \in 1 .. k : r[d] = s[d]
    BY <1>1, CutTop
  <1> HIDE DEF r
  <1>3. \A d \in 1 .. k : d \in 1 .. Len(s)
    BY <1>1
  <1>4. \A d \in 1 .. (k - 1) : d \in 1 .. k /\ d + 1 \in 1 .. k /\ d \in 1 .. (Len(s) - 1)
    BY <1>1
  <1>5. /\ \A d \in 1 .. Len(s) : Shape(s[d])
        /\ \A d \in 1 .. (Len(s) - 1) : Link(s[d], s[d + 1])
    BY DEF StackOK
  <1>6. \A d \in 1 .. k : Shape(r[d])
    BY <1>2, <1>3, <1>5
  <1>7. \A d \in 1 .. (k - 1) : Link(r[d], r[d + 1])
    BY <1>2, <1>4, <1>5
  <1> QED
    BY <1>2, <1>6, <1>7 DEF StackOK, r

(* A thread may call when it is in no call. *)
LEMMA StackSingle ==
  ASSUME NEW f \in Frames, Shape(f)
  PROVE  StackOK(<<f>>)
  <1>1. <<f>> \in Seq(Frames) /\ Len(<<f>>) = 1 /\ <<f>>[1] = f
    OBVIOUS
  <1> QED
    BY <1>1 DEF StackOK

(* And be in none. *)
LEMMA StackEmpty == StackOK(<<>>) /\ Len(<<>>) = 0
  BY DEF StackOK
--------------------------------------------------------------------------------
(* Most steps leave the frames of create_manual alone. *)
Quiet(s, r) ==
  /\ StackOK(r)
  /\ \A d \in 1 .. Len(s) : s[d].at = "cctor" =>
       d \in 1 .. Len(r) /\ r[d].at = "cctor" /\ r[d].fn = s[d].fn /\ r[d].of = s[d].of
  /\ \A d \in 1 .. Len(r) : r[d].at \in {"cctor", "start"} =>
       d \in 1 .. Len(s) /\ r[d].at = s[d].at /\ r[d].of = s[d].of
  /\ \A d \in 1 .. Len(r) : r[d].fn = "create_manual" /\ r[d].at = "return" => d \in 1 .. Len(s) /\ r[d] = s[d]

(* Only create_manual is ever at a .cctor. *)
LEMMA OtherLabels ==
  ASSUME NEW f, Shape(f), f.fn # "create_manual"
  PROVE  f.at \notin {"cctor", "start"}
  BY DEF Shape

(* A frame of another function goes on without touching what is said of    *)
(* .cctors and objects.                                                    *)
LEMMA QuietReplaced ==
  ASSUME NEW s, StackOK(s), s # <<>>, Last(s).fn # "create_manual",
         NEW f \in Frames, Same(Last(s), f), Shape(f)
  PROVE  Quiet(s, Append(Front(s), f))
  <1> DEFINE r == Append(Front(s), f)
             n == Len(s)
  <1>1. StackOK(r)
    BY StackReplaced
  <1>2. s \in Seq(Frames) /\ n \in Nat /\ n >= 1 /\ Last(s) = s[n] /\ n \in 1 .. n
    BY TopOf DEF StackOK
  <1>3. Len(r) = n /\ r[n] = f /\ \A d \in 1 .. (n - 1) : r[d] = s[d]
    BY <1>2, ReplacedTop
  <1>4. f.fn # "create_manual" /\ f.at \notin {"cctor", "start"} /\ s[n].at \notin {"cctor", "start"}
    BY <1>2, OtherLabels DEF Same, StackOK
  <1>5. \A d \in 1 .. n : d = n \/ d \in 1 .. (n - 1)
    BY <1>2
  <1> HIDE DEF r, n
  <1>6. \A d \in 1 .. n : s[d].at = "cctor" => r[d] = s[d]
    BY <1>3, <1>4, <1>5
  <1>7. \A d \in 1 .. n : r[d].at \in {"cctor", "start"} \/ r[d].fn = "create_manual" => r[d] = s[d]
    BY <1>3, <1>4, <1>5
  <1>8. Quiet(s, r)
    BY <1>1, <1>3, <1>6, <1>7 DEF Quiet, n
  <1> QED
    BY <1>8 DEF r

(* So does one that calls, from a .cctor too. *)
LEMMA QuietPushed ==
  ASSUME NEW s, StackOK(s), s # <<>>, NEW f \in Frames, Same(Last(s), f), Shape(f),
         Last(s).fn # "create_manual" \/ (Last(s).at = "cctor" /\ f.at = "cctor"),
         NEW g \in Frames, Shape(g), Link(f, g), g.at \notin {"cctor", "start", "return"}
  PROVE  Quiet(s, Append(Append(Front(s), f), g))
  <1> DEFINE r == Append(Append(Front(s), f), g)
             n == Len(s)
  <1>1. StackOK(r)
    BY StackPushed
  <1>2. s \in Seq(Frames) /\ n \in Nat /\ n >= 1 /\ Last(s) = s[n] /\ n \in 1 .. n
    BY TopOf DEF StackOK
  <1>3. Len(r) = n + 1 /\ r[n] = f /\ r[n + 1] = g /\ \A d \in 1 .. (n - 1) : r[d] = s[d]
    BY <1>2, PushedTop
  <1>4. \/ f.fn # "create_manual" /\ f.at \notin {"cctor", "start"} /\ s[n].at \notin {"cctor", "start"}
        \/ s[n].at = "cctor" /\ f.at = "cctor"
    BY <1>2, OtherLabels DEF Same, StackOK
  <1>5. f.fn = s[n].fn /\ f.of = s[n].of
    BY <1>2 DEF Same
  <1>6. \A d \in 1 .. (n + 1) : d = n \/ d = n + 1 \/ d \in 1 .. (n - 1)
    BY <1>2
  <1>7. \A d \in 1 .. n : d = n \/ d \in 1 .. (n - 1)
    BY <1>2
  <1>8. \A d \in 1 .. n : d \in 1 .. (n + 1)
    BY <1>2
  <1>9. \A d \in 1 .. (n - 1) : d \in 1 .. n
    BY <1>2
  <1> HIDE DEF r, n
  <1>10. \A d \in 1 .. n : s[d].at = "cctor" => r[d].at = "cctor" /\ r[d].fn = s[d].fn /\ r[d].of = s[d].of
    BY <1>3, <1>4, <1>5, <1>7
  <1>11. \A d \in 1 .. (n + 1) : r[d].at \in {"cctor", "start"} =>
           d \in 1 .. n /\ r[d].at = s[d].at /\ r[d].of = s[d].of
    BY <1>2, <1>3, <1>4, <1>5, <1>6, <1>9
  <1>12. \A d \in 1 .. (n + 1) : r[d].fn = "create_manual" /\ r[d].at = "return" => d \in 1 .. n /\ r[d] = s[d]
    BY <1>2, <1>3, <1>4, <1>5, <1>6, <1>9
  <1>13. Quiet(s, r)
    BY <1>1, <1>3, <1>8, <1>10, <1>11, <1>12 DEF Quiet, n
  <1> QED
    BY <1>13 DEF r

(* So does one that returns. *)
LEMMA QuietPopped ==
  ASSUME NEW s, StackOK(s), s # <<>>, Last(s).at = "return"
  PROVE  Quiet(s, Pop(s))
  <1> DEFINE r == Pop(s)
             n == Len(s)
  <1>1. StackOK(r)
    BY StackPopped
  <1>2. s \in Seq(Frames) /\ n \in Nat /\ n >= 1 /\ Last(s) = s[n] /\ \A d \in 1 .. n : s[d] \in Frames
    BY TopOf DEF StackOK
  <1>3. /\ Len(r) = n - 1
        /\ \A d \in 1 .. (n - 2) : r[d] = s[d]
        /\ n > 1 => r[n - 1] = [s[n - 1] EXCEPT !.found = s[n].found]
    BY <1>2, PoppedTop
  <1> HIDE DEF r
  <1>4. ASSUME n > 1
        PROVE  Same(s[n - 1], r[n - 1]) /\ r[n - 1].at = s[n - 1].at /\ s[n - 1].at \in CallLabels
    <2>1. n - 1 \in 1 .. n /\ n \in 1 .. n /\ n - 1 \in 1 .. (n - 1) /\ n - 1 + 1 = n
      BY <1>2, <1>4
    <2>2. s[n - 1] \in Frames /\ s[n].found \in Found
      BY <1>2, <2>1 DEF Frames
    <2>3. s[n - 1].at \in CallLabels
      BY <2>1, LinkAt DEF StackOK
    <2>4. r[n - 1] = [s[n - 1] EXCEPT !.found = s[n].found]
      BY <1>3, <1>4
    <2> QED
      BY <2>2, <2>3, <2>4, FrameFound
  <1>5. \A d \in 1 .. (n - 1) : (d = n - 1 /\ n > 1) \/ d \in 1 .. (n - 2)
    BY <1>2
  <1>6. \A d \in 1 .. n : d = n \/ d \in 1 .. (n - 1)
    BY <1>2
  <1>7. \A d \in 1 .. (n - 1) : d \in 1 .. n
    BY <1>2
  <1> HIDE DEF n
  <1>8. ASSUME NEW d, d \in 1 .. (n - 1)
        PROVE  r[d].at = s[d].at /\ r[d].fn = s[d].fn /\ r[d].of = s[d].of /\ (r[d].at = "return" => r[d] = s[d])
    <2>1. CASE d = n - 1 /\ n > 1
      BY <1>4, <2>1 DEF Same, CallLabels
    <2>2. CASE d \in 1 .. (n - 2)
      BY <1>3, <2>2
    <2> QED
      BY <1>5, <1>8, <2>1, <2>2
  <1>9. s[n].at = "return"
    BY <1>2
  <1>10. Len(r) = n - 1
    BY <1>3
  <1>11. ASSUME NEW d, d \in 1 .. Len(r)
         PROVE  d \in 1 .. (n - 1) /\ d \in 1 .. n
    <2>1. d \in 1 .. (n - 1)
      BY <1>10, <1>11
    <2> QED
      BY <1>7, <2>1
  <1>12. ASSUME NEW d, d \in 1 .. n, s[d].at = "cctor"
         PROVE  d \in 1 .. Len(r) /\ r[d].at = "cctor" /\ r[d].fn = s[d].fn /\ r[d].of = s[d].of
    <2>1. d \in 1 .. (n - 1)
      BY <1>6, <1>9, <1>12
    <2>2. d \in 1 .. Len(r)
      BY <1>10, <2>1
    <2> QED
      BY <1>8, <1>12, <2>1, <2>2
  <1>13. Quiet(s, r)
    <2>1. \A d \in 1 .. n : s[d].at = "cctor" =>
            d \in 1 .. Len(r) /\ r[d].at = "cctor" /\ r[d].fn = s[d].fn /\ r[d].of = s[d].of
      BY <1>12
    <2>2. \A d \in 1 .. Len(r) : r[d].at \in {"cctor", "start"} =>
            d \in 1 .. n /\ r[d].at = s[d].at /\ r[d].of = s[d].of
      BY <1>8, <1>11
    <2>3. \A d \in 1 .. Len(r) : r[d].fn = "create_manual" /\ r[d].at = "return" => d \in 1 .. n /\ r[d] = s[d]
      BY <1>8, <1>11
    <2> QED
      BY <1>1, <2>1, <2>2, <2>3 DEF Quiet, n
  <1> QED
    BY <1>13 DEF r

(* So does a first call. *)
LEMMA QuietSingle ==
  ASSUME NEW f \in Frames, Shape(f), f.at \notin {"cctor", "start", "return"}
  PROVE  Quiet(<<>>, <<f>>)
  <1>1. StackOK(<<f>>) /\ Len(<<f>>) = 1 /\ <<f>>[1] = f /\ Len(<<>>) = 0
    BY StackSingle
  <1>2. \A d \in 1 .. 1 : d = 1
    OBVIOUS
  <1>3. \A d \in 1 .. 0 : FALSE
    OBVIOUS
  <1> QED
    BY <1>1, <1>2, <1>3 DEF Quiet

(* So does nothing at all. *)
LEMMA QuietSame ==
  ASSUME NEW s, StackOK(s)
  PROVE  Quiet(s, s)
  BY DEF Quiet

(* What a thread's stack says of .cctors goes on to hold.                  *)
LEMMA QuietCctors ==
  ASSUME NEW s, NEW r, Quiet(s, r), NEW started, NEW finished, CctorsOK(s, started), ObjectsOK(s, started, finished)
  PROVE  CctorsOK(r, started) /\ ObjectsOK(r, started, finished)
  <1>1. \A d \in 1 .. Len(r) : r[d].at = "cctor" => r[d].of \in started
    BY DEF Quiet, CctorsOK
  <1>2. \A d, e \in 1 .. Len(r) : r[d].at = "cctor" /\ r[e].at = "cctor" /\ r[d].of = r[e].of => d = e
    BY DEF Quiet, CctorsOK
  <1>3. \A d, e \in 1 .. Len(r) : r[d].at = "start" /\ r[e].at = "cctor" => r[d].of # r[e].of
    BY DEF Quiet, CctorsOK
  <1>4. ObjectsOK(r, started, finished)
    BY DEF Quiet, ObjectsOK
  <1> QED
    BY <1>1, <1>2, <1>3, <1>4 DEF CctorsOK

--------------------------------------------------------------------------------
(* A step of thread t that makes its stack r. *)
TablesKept == \A i \in DOMAIN Assemblies : tables[i] # Unbuilt => tables'[i] # Unbuilt

KeepsRunning(s, r, c) ==
  \A d \in 1 .. Len(s) : s[d].fn = "create_manual" /\ s[d].of = c /\ s[d].at = "cctor" =>
    \E e \in 1 .. Len(r) : r[e].fn = "create_manual" /\ r[e].of = c /\ r[e].at = "cctor"

(* A table that is being filled stays while tables are kept. *)
LEMMA FillKept ==
  ASSUME NEW s, StackOK(s), FillOK(s, tables), DataTyped, TablesKept
  PROVE  FillOK(s, tables')
  <1> SUFFICES ASSUME s # <<>>, Last(s).at = "fill" PROVE tables'[Last(s).i] # Unbuilt
    BY DEF FillOK
  <1>1. s \in Seq(Frames) /\ Len(s) \in 1 .. Len(s) /\ Last(s) = s[Len(s)] /\ Last(s) \in Frames
    BY TopOf DEF StackOK
  <1>2. Shape(Last(s))
    BY <1>1 DEF StackOK
  <1>3. Last(s).i <= Last(s).n
    BY <1>2 DEF Shape
  <1>4. Last(s).i \in Nat \ {0} /\ Last(s).n \in 0 .. Len(Assemblies)
    BY <1>1 DEF Frames
  <1>5. Len(Assemblies) \in Nat /\ DOMAIN Assemblies = 1 .. Len(Assemblies)
    BY AssembliesAssumption
  <1>6. Last(s).i \in DOMAIN Assemblies
    BY <1>3, <1>4, <1>5
  <1> QED
    BY <1>6 DEF FillOK, TablesKept

(* A step that changes one thread's stack keeps the invariant if the stack *)
(* and the data are as they should be.                                     *)
LEMMA OneStack ==
  ASSUME IInv, NEW t \in Threads, NEW r, stack' = [stack EXCEPT ![t] = r],
         StackOK(r), DataTyped', TablesKept, FillOK(r, tables'),
         cctor_started \subseteq cctor_started', cctor_finished \subseteq cctor_finished',
         CctorsOK(r, cctor_started'), ObjectsOK(r, cctor_started', cctor_finished'), Started'
  PROVE  IInv'
  <1>1. stack \in [Threads -> Seq(Frames)] /\ DataTyped /\ r \in Seq(Frames)
    BY DEF IInv, Typed, StackOK
  <1>2. stack' \in [Threads -> Seq(Frames)] /\ stack'[t] = r
        /\ \A u \in Threads : u # t => stack'[u] = stack[u]
    BY <1>1
  <1>3. \A u \in Threads : StackOK(stack'[u])
    BY <1>2 DEF IInv, Typed
  <1>4. \A u \in Threads : CctorsOK(stack'[u], cctor_started') /\ ObjectsOK(stack'[u], cctor_started', cctor_finished')
    <2> SUFFICES ASSUME NEW u \in Threads, u # t
                 PROVE  CctorsOK(stack[u], cctor_started') /\ ObjectsOK(stack[u], cctor_started', cctor_finished')
      BY <1>2
    <2>1. CctorsOK(stack[u], cctor_started) /\ ObjectsOK(stack[u], cctor_started, cctor_finished)
      BY DEF IInv
    <2> QED
      BY <2>1 DEF CctorsOK, ObjectsOK
  <1>5. \A u \in Threads : FillOK(stack'[u], tables')
    <2> SUFFICES ASSUME NEW u \in Threads, u # t PROVE FillOK(stack[u], tables')
      BY <1>2
    <2>1. StackOK(stack[u]) /\ FillOK(stack[u], tables)
      BY DEF IInv, Typed
    <2> QED
      BY <1>1, <2>1, FillKept
  <1>6. {c \in AllClasses : ~has_cctor(c)} \subseteq cctor_finished'
    BY DEF IInv
  <1> QED
    BY <1>2, <1>3, <1>4, <1>5, <1>6 DEF IInv, Typed

(* A .cctor is still being run when the stack that ran it still does, or   *)
(* another one did.                                                        *)
LEMMA StillRunning ==
  ASSUME Typed, NEW t \in Threads, NEW r \in Seq(Frames), stack' = [stack EXCEPT ![t] = r],
         NEW c, Running(c), KeepsRunning(stack[t], r, c)
  PROVE  Running(c)'
  <1>1. PICK u \in Threads : \E d \in DOMAIN stack[u] :
          stack[u][d].fn = "create_manual" /\ stack[u][d].of = c /\ stack[u][d].at = "cctor"
    BY DEF Running
  <1>2. stack \in [Threads -> Seq(Frames)] /\ stack'[t] = r /\ (u # t => stack'[u] = stack[u])
    BY DEF Typed
  <1>3. CASE u # t
    BY <1>1, <1>2, <1>3 DEF Running
  <1>4. CASE u = t
    <2>1. stack[t] \in Seq(Frames) /\ DOMAIN stack[t] = 1 .. Len(stack[t]) /\ DOMAIN r = 1 .. Len(r)
      BY <1>2
    <2>2. \E e \in DOMAIN r : r[e].fn = "create_manual" /\ r[e].of = c /\ r[e].at = "cctor"
      BY <1>1, <1>4, <2>1 DEF KeepsRunning
    <2> QED
      BY <1>2, <2>2 DEF Running
  <1> QED
    BY <1>3, <1>4

(* A quiet step with data of their types keeps the invariant. *)
LEMMA QuietStep ==
  ASSUME IInv, NEW t \in Threads, NEW r, stack' = [stack EXCEPT ![t] = r], Quiet(stack[t], r),
         DataTyped', TablesKept, FillOK(r, tables'), UNCHANGED <<crashed, creation_vars>>
  PROVE  IInv'
  <1>1. UNCHANGED <<cctor_started, cctor_finished, threw, crashed>>
    BY DEF creation_vars
  <1>2. StackOK(r) /\ r \in Seq(Frames)
    BY DEF Quiet, StackOK
  <1>3. CctorsOK(stack[t], cctor_started) /\ ObjectsOK(stack[t], cctor_started, cctor_finished) /\ Typed /\ Started
    BY DEF IInv
  <1>4. CctorsOK(r, cctor_started) /\ ObjectsOK(r, cctor_started, cctor_finished)
    BY <1>3, QuietCctors
  <1>5. Started'
    <2> SUFFICES ASSUME NEW c \in cctor_started \ threw, Running(c) PROVE Running(c)'
      BY <1>1, <1>3 DEF Started
    <2>1. KeepsRunning(stack[t], r, c)
      BY DEF Quiet, KeepsRunning
    <2> QED
      BY <1>2, <1>3, <2>1, StillRunning
  <1> QED
    BY <1>1, <1>2, <1>4, <1>5, OneStack

(* The end of the program keeps it. *)
LEMMA CrashStep ==
  ASSUME IInv, crashed' = TRUE, stack' = [u \in Threads |-> <<>>], DataTyped',
         UNCHANGED <<cctor_started, cctor_finished>>
  PROVE  IInv'
  <1>1. \A u \in Threads : stack'[u] = <<>>
    OBVIOUS
  <1>2. \A d \in 1 .. 0 : FALSE
    OBVIOUS
  <1>3. StackOK(<<>>) /\ CctorsOK(<<>>, cctor_started) /\ ObjectsOK(<<>>, cctor_started, cctor_finished)
        /\ FillOK(<<>>, tables')
    BY <1>2, StackEmpty DEF CctorsOK, ObjectsOK, FillOK
  <1>4. stack' \in [Threads -> Seq(Frames)]
    OBVIOUS
  <1>5. Started'
    BY DEF Started
  <1> QED
    BY <1>1, <1>3, <1>4, <1>5 DEF IInv, Typed

(* The ways the actions say it. *)
LEMMA TopFacts ==
  ASSUME IInv, NEW t \in Threads, stack[t] # <<>>
  PROVE  /\ Top(t) = Last(stack[t]) /\ Top(t) \in Frames /\ Shape(Top(t)) /\ StackOK(stack[t])
         /\ stack \in [Threads -> Seq(Frames)] /\ DataTyped /\ FillOK(stack[t], tables)
  <1>1. StackOK(stack[t]) /\ stack[t] \in Seq(Frames)
    BY DEF IInv, Typed, StackOK
  <1>2. Len(stack[t]) \in 1 .. Len(stack[t]) /\ Last(stack[t]) = stack[t][Len(stack[t])] /\ Last(stack[t]) \in Frames
    BY <1>1, TopOf
  <1> QED
    BY <1>1, <1>2 DEF Top, StackOK, IInv, Typed

(* The frame that was pushed is the top. *)
LEMMA LastOf ==
  ASSUME NEW s, NEW f
  PROVE  s \in Seq(Frames) /\ f \in Frames => Last(Append(s, f)) = f /\ Append(s, f) # <<>>
  BY DEF Last

(* A frame that goes on keeps the invariant. *)
LEMMA Replaces ==
  ASSUME IInv, NEW t \in Threads, stack[t] # <<>>, Top(t).fn # "create_manual",
         NEW f \in Frames, Same(Top(t), f), Shape(f), With(t, f),
         DataTyped', TablesKept, f.at = "fill" => tables'[f.i] # Unbuilt, UNCHANGED <<crashed, creation_vars>>
  PROVE  IInv'
  <1> DEFINE r == Append(Front(stack[t]), f)
  <1>1. Top(t) = Last(stack[t]) /\ StackOK(stack[t]) /\ stack[t] \in Seq(Frames)
    BY TopFacts DEF StackOK
  <1>2. stack' = [stack EXCEPT ![t] = r]
    BY DEF With
  <1>3. Quiet(stack[t], r)
    BY <1>1, QuietReplaced
  <1>4. Last(r) = f
    BY <1>1, FrontOf, LastOf
  <1> HIDE DEF r
  <1>5. FillOK(r, tables')
    BY <1>4 DEF FillOK
  <1> QED
    BY <1>2, <1>3, <1>5, QuietStep

(* A frame that calls keeps it. *)
LEMMA Waits ==
  ASSUME IInv, NEW t \in Threads, stack[t] # <<>>,
         NEW f \in Frames, Same(Top(t), f), Shape(f),
         Top(t).fn # "create_manual" \/ (Top(t).at = "cctor" /\ f.at = "cctor"),
         NEW g \in Frames, Shape(g), Link(f, g), g.at \notin {"cctor", "start", "return", "fill"},
         stack' = [stack EXCEPT ![t] = Append(Append(Front(stack[t]), f), g)],
         DataTyped', TablesKept, UNCHANGED <<crashed, creation_vars>>
  PROVE  IInv'
  <1> DEFINE q == Append(Front(stack[t]), f)
             r == Append(q, g)
  <1>1. Top(t) = Last(stack[t]) /\ StackOK(stack[t]) /\ stack[t] \in Seq(Frames)
    BY TopFacts DEF StackOK
  <1>2. stack' = [stack EXCEPT ![t] = r]
    OBVIOUS
  <1>3. Quiet(stack[t], r)
    BY <1>1, QuietPushed
  <1>4. q \in Seq(Frames)
    BY <1>1, ReplacedTop
  <1> HIDE DEF q
  <1>5. Last(r) = g
    BY <1>4, LastOf
  <1> HIDE DEF r
  <1>6. FillOK(r, tables')
    BY <1>5 DEF FillOK
  <1> QED
    BY <1>2, <1>3, <1>6, QuietStep

(* Data that do not change are typed. *)
LEMMA DataSame ==
  ASSUME IInv, UNCHANGED <<lookup_vars, creation_vars>>
  PROVE  DataTyped' /\ TablesKept /\ UNCHANGED <<crashed, creation_vars>>
  BY DEF IInv, Typed, DataTyped, TablesKept, lookup_vars, creation_vars, plain_names

(* Any frame may be at its return. *)
LEMMA AnswerShape ==
  ASSUME NEW f, NEW r, Shape(f), Same(f, r), r.at = "return"
  PROVE  Shape(r)
  BY DEF Shape, Same

(* A frame that answers a class or null keeps the invariant. *)
LEMMA Answers ==
  ASSUME IInv, NEW t \in Threads, stack[t] # <<>>, Top(t).fn # "create_manual",
         NEW c \in Found, Answer(t, c), DataTyped', TablesKept, UNCHANGED <<crashed, creation_vars>>
  PROVE  IInv'
  <1> DEFINE f == [Top(t) EXCEPT !.at = "return", !.found = c, !.i = 1, !.n = 0, !.base = Null]
  <1>1. Top(t) \in Frames /\ Shape(Top(t))
    BY TopFacts
  <1>2. f \in Frames /\ Same(Top(t), f) /\ f.at = "return"
    BY <1>1, AnswerFrame
  <1>3. With(t, f)
    BY DEF Answer
  <1> HIDE DEF f
  <1>4. Shape(f)
    BY <1>1, <1>2, AnswerShape
  <1> QED
    BY <1>2, <1>3, <1>4, Replaces

(* So does one that calls what it may call from there. *)
LEMMA CallsOn ==
  ASSUME IInv, NEW t \in Threads, stack[t] # <<>>, Top(t).fn # "create_manual",
         NEW label \in CallLabels, NEW g \in Frames, Calls(t, g, label), Shape(g),
         g.at \notin {"cctor", "start", "return", "fill"},
         Shape([Top(t) EXCEPT !.at = label]), Link([Top(t) EXCEPT !.at = label], g),
         DataTyped', TablesKept, UNCHANGED <<crashed, creation_vars>>
  PROVE  IInv'
  <1> DEFINE f == [Top(t) EXCEPT !.at = label]
  <1>1. Top(t) \in Frames /\ label \in Labels
    BY TopFacts DEF CallLabels, Labels
  <1>2. f \in Frames /\ Same(Top(t), f)
    BY <1>1, FrameAt
  <1>3. stack' = [stack EXCEPT ![t] = Append(Append(Front(stack[t]), f), g)]
    BY DEF Calls
  <1> HIDE DEF f
  <1>4. Shape(f) /\ Link(f, g)
    BY DEF f
  <1> QED
    BY <1>2, <1>3, <1>4, Waits

(* So does one that goes to another place. *)
LEMMA Goes ==
  ASSUME IInv, NEW t \in Threads, stack[t] # <<>>, Top(t).fn # "create_manual",
         NEW label \in Labels, Goto(t, label), Shape([Top(t) EXCEPT !.at = label]),
         DataTyped', TablesKept, label = "fill" => tables'[Top(t).i] # Unbuilt, UNCHANGED <<crashed, creation_vars>>
  PROVE  IInv'
  <1> DEFINE f == [Top(t) EXCEPT !.at = label]
  <1>1. Top(t) \in Frames
    BY TopFacts
  <1>2. f \in Frames /\ Same(Top(t), f) /\ f.at = label /\ f.i = Top(t).i
    BY <1>1, FrameAt
  <1>3. With(t, f)
    BY DEF Goto
  <1>4. Shape(f)
    OBVIOUS
  <1> HIDE DEF f
  <1> QED
    BY <1>2, <1>3, <1>4, Replaces

--------------------------------------------------------------------------------
(* The actions. *)
LEMMA NameFrame ==
  ASSUME DataTyped, NEW name \in NameSeq, name # <<>>
  PROVE  LET g == get_class_from_name(name)
         IN  /\ g \in Frames /\ Shape(g) /\ g.fn = "get_class_from_name" /\ g.of = [name |-> name] /\ g.at = "lookup"
             /\ g.since = loaded
  <1> DEFINE b == Frame("get_class_from_name", [name |-> name], "lookup")
             g == get_class_from_name(name)
  <1>1. [name |-> name] \in [name : NameSeq] /\ [name |-> name].name = name
    OBVIOUS
  <1>2. b \in Frames /\ b.fn = "get_class_from_name" /\ b.of = [name |-> name] /\ b.at = "lookup"
    BY <1>1, NewFrame DEF Functions, Labels
  <1>3. loaded \in Nat
    BY LoadedAssumption DEF DataTyped
  <1>4. g = [b EXCEPT !.since = loaded]
    BY DEF get_class_from_name
  <1> HIDE DEF b, g
  <1>5. g \in Frames /\ g.fn = "get_class_from_name" /\ g.of = [name |-> name] /\ g.at = "lookup" /\ g.since = loaded
    BY <1>2, <1>3, <1>4, FrameSince
  <1>6. Shape(g)
    BY <1>1, <1>5 DEF Shape
  <1> QED
    BY <1>5, <1>6 DEF g

(* A call of class_of as it begins. *)
LEMMA TypeFrame ==
  ASSUME NEW T \in Types
  PROVE  class_of(T) \in Frames /\ Shape(class_of(T)) /\ class_of(T).fn = "class_of" /\ class_of(T).at = "static"
         /\ class_of(T).of = T
  <1>1. class_of(T) \in Frames /\ class_of(T).fn = "class_of" /\ class_of(T).at = "static" /\ class_of(T).of = T
    BY NewFrame DEF class_of, Functions, Labels
  <1> QED
    BY <1>1 DEF Shape

(* A name that is not nested has one part. *)
LEMMA OnePart ==
  ASSUME NEW s \in NameSeq, s # <<>>, ~(Len(s) > 1)
  PROVE  Len(s) = 1
  <1>1. s \in Seq(STRING) /\ Len(s) \in Nat /\ Len(s) # 0
    BY DEF NameSeq
  <1>2. \A n \in Nat : n # 0 /\ ~(n > 1) => n = 1
    OBVIOUS
  <1> QED
    BY <1>1, <1>2

(* The lookup in the cache keeps the invariant: what is cached is a class. *)
LEMMA LookUpStep ==
  ASSUME IInv, NEW t \in Threads, LookUp(t), UNCHANGED creation_vars
  PROVE  IInv'
  <1> DEFINE name == Top(t).of.name
  <1>1. stack[t] # <<>> /\ Top(t).fn = "get_class_from_name" /\ Top(t).at = "lookup"
    BY DEF LookUp, At
  <1>2. Top(t) \in Frames /\ Shape(Top(t)) /\ DataTyped
    BY <1>1, TopFacts
  <1>3. name \in NameSeq /\ name # <<>> /\ Top(t).of \in [name : NameSeq]
    BY <1>1, <1>2 DEF Shape
  <1>4. DataTyped' /\ TablesKept /\ UNCHANGED <<crashed, creation_vars>>
    BY DataSame DEF LookUp
  <1>5. CASE name \in DOMAIN names_to_classes
    <2>1. Answer(t, names_to_classes[name]) /\ names_to_classes[name] \in Found
      BY <1>2, <1>5 DEF LookUp, DataTyped, Found
    <2> QED
      BY <1>1, <1>4, <2>1, Answers
  <1>6. CASE name \notin DOMAIN names_to_classes /\ Len(name) > 1
    <2> DEFINE g == get_class_from_name(<<Head(name)>>)
               f == [Top(t) EXCEPT !.at = "nested"]
    <2>1. Calls(t, g, "nested")
      BY <1>6 DEF LookUp
    <2>2. <<Head(name)>> \in NameSeq /\ <<Head(name)>> # <<>>
      BY <1>3 DEF NameSeq
    <2>3. /\ g \in Frames /\ Shape(g) /\ g.fn = "get_class_from_name" /\ g.of = [name |-> <<Head(name)>>]
          /\ g.at = "lookup"
      BY <1>2, <2>2, NameFrame
    <2>4. f.fn = "get_class_from_name" /\ f.of = Top(t).of /\ f.at = "nested"
      BY <1>1, <1>2, FrameAt DEF Labels, Same
    <2> HIDE DEF f, g
    <2>5. Shape(f)
      BY <1>3, <1>6, <2>4 DEF Shape
    <2>6. Link(f, g)
      BY <2>3, <2>4 DEF Link
    <2> QED
      BY <1>1, <1>4, <2>1, <2>3, <2>5, <2>6, CallsOn DEF f, CallLabels
  <1>7. CASE name \notin DOMAIN names_to_classes /\ ~(Len(name) > 1)
    <2> DEFINE f == [Top(t) EXCEPT !.at = "search", !.n = loaded]
    <2>1. With(t, f)
      BY <1>7 DEF LookUp
    <2>2. f \in Frames /\ Same(Top(t), f) /\ f.at = "search"
      BY <1>2, SearchFrame DEF DataTyped
    <2>3. f.fn = "get_class_from_name" /\ f.of = Top(t).of
      BY <1>1, <2>2 DEF Same
    <2> HIDE DEF f
    <2>4. Len(name) = 1
      BY <1>3, <1>7, OnePart
    <2>5. Shape(f)
      BY <1>3, <2>2, <2>3, <2>4 DEF Shape
    <2> QED
      BY <1>1, <1>4, <2>1, <2>2, <2>5, Replaces
  <1> QED
    BY <1>5, <1>6, <1>7

(* What an image's table can say. *)
LEMMA Table ==
  ASSUME DataTyped, NEW i \in DOMAIN Assemblies
  PROVE  /\ plain_names(i) \subseteq Assemblies[i] /\ Assemblies[i] \subseteq Names /\ plain_names(i) # Unbuilt
         /\ \A name : class_from_name(i, name) => name \in plain_names(i)
  <1>1. \A k \in Assemblies[i] : k # <<>>
    BY AssembliesAssumption
  <1>2. <<>> \notin plain_names(i)
    BY <1>1 DEF plain_names
  <1> QED
    BY <1>2 DEF DataTyped, plain_names, class_from_name, Names, Unbuilt

(* A table that is put into an image is kept from then on. *)
LEMMA TableStep ==
  ASSUME IInv, NEW i \in DOMAIN Assemblies, TableBuilt(i),
         UNCHANGED <<loaded, names_to_classes, statics, guards, asked, crashed>>, UNCHANGED creation_vars
  PROVE  DataTyped' /\ TablesKept /\ UNCHANGED <<crashed, creation_vars>>
  <1>1. DataTyped
    BY DEF IInv, Typed
  <1>2. plain_names(i) \subseteq Names /\ plain_names(i) # Unbuilt /\ plain_names(i)' = plain_names(i)
    BY <1>1, Table DEF plain_names
  <1>3. tables' = [tables EXCEPT ![i] = IF tables[i] = Unbuilt THEN plain_names(i) ELSE tables[i]]
        /\ tables \in [DOMAIN Assemblies -> SUBSET (Names \union {<<>>})]
    BY <1>1 DEF TableBuilt, DataTyped
  <1>4. tables' \in [DOMAIN Assemblies -> SUBSET (Names \union {<<>>})]
    BY <1>2, <1>3
  <1>5. \A j \in DOMAIN Assemblies : tables'[j] = tables[j] \/ (j = i /\ tables'[j] = plain_names(i))
    BY <1>3
  <1>6. \A j \in DOMAIN Assemblies : tables'[j] = Unbuilt \/ tables'[j] \subseteq plain_names(j)
    BY <1>1, <1>5 DEF DataTyped
  <1>7. TablesKept
    BY <1>2, <1>5 DEF TablesKept
  <1> QED
    BY <1>1, <1>4, <1>6, <1>7 DEF DataTyped, creation_vars, plain_names

(* A search that meets the name has the class of that name. *)
LEMMA FoundIn ==
  ASSUME NEW f \in Frames, NEW i \in DOMAIN Assemblies, NEW name \in Assemblies[i],
         f.fn = "get_class_from_name", f.of \in [name : NameSeq], f.of.name = name, name # <<>>
  PROVE  LET r == [f EXCEPT !.at = "store", !.found = Class(i, name, "plain")]
         IN  r \in Frames /\ Same(f, r) /\ r.at = "store" /\ Shape(r)
  <1> DEFINE c == Class(i, name, "plain")
             r == [f EXCEPT !.at = "store", !.found = c]
  <1>1. c \in AllClasses /\ c.name = name
    BY AClass
  <1> HIDE DEF c
  <1>2. c \in Found /\ c # Null
    BY <1>1, ClassFacts DEF Found
  <1>3. r \in Frames /\ Same(f, r) /\ r.at = "store" /\ r.found = c
    BY <1>2, StoreFrame
  <1> HIDE DEF r
  <1>4. r.fn = "get_class_from_name" /\ r.of = f.of
    BY <1>3 DEF Same
  <1>5. Shape(r)
    BY <1>1, <1>2, <1>3, <1>4 DEF Shape
  <1> QED
    BY <1>3, <1>5 DEF r, c

(* A search is within the assemblies. *)
LEMMA Asking ==
  ASSUME NEW f \in Frames, f.i <= f.n
  PROVE  f.i \in DOMAIN Assemblies
  <1>1. f.i \in Nat \ {0} /\ f.n \in 0 .. Len(Assemblies)
    BY DEF Frames
  <1>2. Len(Assemblies) \in Nat /\ DOMAIN Assemblies = 1 .. Len(Assemblies)
    BY AssembliesAssumption
  <1> QED
    BY <1>1, <1>2

(* A step of the search keeps it. *)
LEMMA SearchStep ==
  ASSUME IInv, NEW t \in Threads, Search(t), UNCHANGED creation_vars
  PROVE  IInv'
  <1> DEFINE name == Top(t).of.name
             i == Top(t).i
  <1>1. stack[t] # <<>> /\ Top(t).fn = "get_class_from_name" /\ Top(t).at = "search"
    BY DEF Search, At
  <1>2. Top(t) \in Frames /\ Shape(Top(t)) /\ DataTyped
    BY <1>1, TopFacts
  <1>3. name \in NameSeq /\ name # <<>> /\ Top(t).of \in [name : NameSeq] /\ Len(name) = 1
    BY <1>1, <1>2 DEF Shape
  <1>4. CASE i > Top(t).n
    <2>1. Answer(t, Null) /\ UNCHANGED lookup_vars
      BY <1>4 DEF Search, lookup_vars
    <2>2. DataTyped' /\ TablesKept /\ UNCHANGED <<crashed, creation_vars>>
      BY <2>1, DataSame
    <2> QED
      BY <1>1, <2>1, <2>2, Answers DEF Found
  <1>5. CASE ~(i > Top(t).n)
    <2>1. i \in DOMAIN Assemblies
      <3>1. i \in Nat /\ Top(t).n \in Int
        BY <1>2 DEF Frames
      <3> QED
        BY <1>2, <1>5, <3>1, Asking
    <2>2. TableBuilt(i) /\ UNCHANGED <<loaded, names_to_classes, statics, guards, asked, crashed>>
      BY <1>5 DEF Search
    <2>3. DataTyped' /\ TablesKept /\ UNCHANGED <<crashed, creation_vars>>
      BY <2>1, <2>2, TableStep
    <2>4. CASE class_from_name(i, name)
      <3> DEFINE f == [Top(t) EXCEPT !.at = "store", !.found = Class(i, name, "plain")]
      <3>1. With(t, f)
        BY <1>5, <2>4 DEF Search
      <3>2. name \in Assemblies[i]
        BY <1>2, <2>1, <2>4, Table
      <3>3. f \in Frames /\ Same(Top(t), f) /\ f.at = "store" /\ Shape(f)
        BY <1>1, <1>2, <1>3, <2>1, <3>2, FoundIn
      <3> HIDE DEF f
      <3> QED
        BY <1>1, <2>3, <3>1, <3>3, Replaces
    <2>5. CASE ~class_from_name(i, name)
      <3> DEFINE f == [Top(t) EXCEPT !.i = i + 1]
      <3>1. With(t, f)
        BY <1>5, <2>5 DEF Search
      <3>2. i + 1 \in Nat \ {0}
        BY <1>2 DEF Frames
      <3>3. f \in Frames /\ Same(Top(t), f) /\ f.at = "search"
        BY <1>1, <1>2, <3>2, FrameI
      <3> HIDE DEF f
      <3>4. f.fn = "get_class_from_name" /\ f.of = Top(t).of
        BY <1>1, <3>3 DEF Same
      <3>5. Shape(f)
        BY <1>3, <3>3, <3>4 DEF Shape
      <3> QED
        BY <1>1, <2>3, <3>1, <3>3, <3>5, Replaces
    <2> QED
      BY <2>4, <2>5
  <1> QED
    BY <1>4, <1>5

(* The search for a nested class keeps it. *)
LEMMA NestedStep ==
  ASSUME IInv, NEW t \in Threads, find_nested(t), UNCHANGED creation_vars
  PROVE  IInv'
  <1> DEFINE name == Top(t).of.name
             declaring == Top(t).found
  <1>1. stack[t] # <<>> /\ Top(t).fn = "get_class_from_name" /\ Top(t).at = "nested"
    BY DEF find_nested, At
  <1>2. Top(t) \in Frames /\ Shape(Top(t)) /\ DataTyped
    BY <1>1, TopFacts
  <1>3. name \in NameSeq /\ name # <<>> /\ Top(t).of \in [name : NameSeq]
    BY <1>1, <1>2 DEF Shape
  <1>4. DataTyped' /\ TablesKept /\ UNCHANGED <<crashed, creation_vars>>
    BY DataSame DEF find_nested
  <1>5. CASE declaring # Null /\ name \in Assemblies[declaring.assembly]
    <2> DEFINE f == [Top(t) EXCEPT !.at = "store", !.found = Class(declaring.assembly, name, "plain")]
    <2>1. With(t, f)
      BY <1>5 DEF find_nested
    <2>2. declaring \in AllClasses
      BY <1>2, <1>5 DEF Frames, Found
    <2>3. declaring.assembly \in DOMAIN Assemblies
      BY <2>2, ClassFacts
    <2>4. f \in Frames /\ Same(Top(t), f) /\ f.at = "store" /\ Shape(f)
      BY <1>1, <1>2, <1>3, <1>5, <2>3, FoundIn
    <2> HIDE DEF f
    <2> QED
      BY <1>1, <1>4, <2>1, <2>4, Replaces
  <1>6. CASE ~(declaring # Null /\ name \in Assemblies[declaring.assembly])
    <2>1. Answer(t, Null)
      BY <1>6 DEF find_nested
    <2> QED
      BY <1>1, <1>4, <2>1, Answers DEF Found
  <1> QED
    BY <1>5, <1>6

(* Storing in the cache keeps it: the class has the name it is stored under. *)
LEMMA StoreStep ==
  ASSUME IInv, NEW t \in Threads, Store(t), UNCHANGED creation_vars
  PROVE  IInv'
  <1> DEFINE name == Top(t).of.name
             known == DOMAIN names_to_classes
             c == Top(t).found
  <1>1. stack[t] # <<>> /\ Top(t).fn = "get_class_from_name" /\ Top(t).at = "store"
    BY DEF Store, At
  <1>2. Top(t) \in Frames /\ Shape(Top(t)) /\ DataTyped
    BY <1>1, TopFacts
  <1>3. c # Null /\ c.name = name
    BY <1>1, <1>2 DEF Shape
  <1>4. c \in AllClasses /\ c \in Found
    BY <1>2, <1>3 DEF Frames, Found
  <1>5. name \in Names
    BY <1>3, <1>4, ClassFacts
  <1>6. Answer(t, c) /\ UNCHANGED <<loaded, tables, statics, guards, asked, crashed>>
        /\ names_to_classes' = [k \in known \union {name} |-> IF k \in known THEN names_to_classes[k] ELSE c]
    BY DEF Store
  <1>7. DOMAIN names_to_classes' \subseteq Names
        /\ \A k \in DOMAIN names_to_classes' : names_to_classes'[k] \in AllClasses
    BY <1>2, <1>4, <1>5, <1>6 DEF DataTyped
  <1>8. DataTyped'
    BY <1>2, <1>6, <1>7 DEF DataTyped, creation_vars, plain_names
  <1>9. TablesKept
    BY <1>6 DEF TablesKept
  <1> QED
    BY <1>1, <1>4, <1>6, <1>8, <1>9, Answers

(* Returning keeps it: the caller waits for a class or null. *)
LEMMA ReturnStep ==
  ASSUME IInv, NEW t \in Threads, Return(t), UNCHANGED creation_vars
  PROVE  IInv'
  <1> DEFINE s == stack[t]
             r == Pop(s)
  <1>1. s # <<>> /\ Top(t).at = "return" /\ stack' = [stack EXCEPT ![t] = r]
    BY DEF Return, Popped, Pop, Top
  <1>2. StackOK(s) /\ Last(s).at = "return" /\ s \in Seq(Frames)
    BY <1>1, TopFacts DEF StackOK
  <1>3. DataTyped' /\ TablesKept /\ UNCHANGED <<crashed, creation_vars>>
    BY DataSame DEF Return
  <1> HIDE DEF s
  <1>4. Quiet(s, r)
    BY <1>1, <1>2, QuietPopped
  <1>5. FillOK(r, tables')
    <2> SUFFICES ASSUME r # <<>> PROVE Last(r).at # "fill"
      BY DEF FillOK
    <2>1. /\ Len(s) \in Nat /\ Len(s) >= 1 /\ Len(r) = Len(s) - 1 /\ r \in Seq(Frames)
          /\ Len(s) > 1 => r[Len(s) - 1] = [s[Len(s) - 1] EXCEPT !.found = s[Len(s)].found]
          /\ r = <<>> <=> Len(s) = 1
      BY <1>1, <1>2, TopOf, PoppedTop
    <2> HIDE DEF r
    <2>2. Len(s) > 1 /\ Len(s) - 1 \in 1 .. (Len(s) - 1) /\ Len(s) - 1 + 1 = Len(s)
      BY <2>1
    <2>3. s[Len(s) - 1] \in Frames /\ s[Len(s)] \in Frames
      BY <1>2, <2>1, <2>2
    <2>4. s[Len(s) - 1].at \in CallLabels
      BY <1>2, <2>2, LinkAt DEF StackOK
    <2>5. r[Len(s) - 1].at = s[Len(s) - 1].at
      BY <2>1, <2>2, <2>3, FrameFound DEF Frames
    <2>6. Last(r) = r[Len(s) - 1]
      BY <2>1 DEF Last
    <2> QED
      BY <2>4, <2>5, <2>6 DEF CallLabels
  <1> QED
    BY <1>1, <1>3, <1>4, <1>5, QuietStep DEF s

--------------------------------------------------------------------------------
(* class_of. *)
LEMMA ClassOfTop ==
  ASSUME IInv, NEW t \in Threads, NEW label, At(t, "class_of", label)
  PROVE  /\ stack[t] # <<>> /\ Top(t).fn = "class_of" /\ Top(t).fn # "create_manual" /\ Top(t).at = label
         /\ Top(t) \in Frames /\ Shape(Top(t)) /\ Top(t).of \in Types /\ DataTyped
  <1>1. stack[t] # <<>> /\ Top(t).fn = "class_of" /\ Top(t).at = label
    BY DEF At
  <1>2. Top(t) \in Frames /\ Shape(Top(t)) /\ DataTyped
    BY <1>1, TopFacts
  <1>3. Top(t).of \in Types
    BY <1>1, <1>2 DEF Shape
  <1> QED
    BY <1>1, <1>2, <1>3

(* Reading a static keeps it. *)
LEMMA ReadStaticStep ==
  ASSUME IInv, NEW t \in Threads, ReadStatic(t), UNCHANGED creation_vars
  PROVE  IInv'
  <1>1. At(t, "class_of", "static") /\ Answer(t, statics[Top(t).of])
    BY DEF ReadStatic
  <1>2. stack[t] # <<>> /\ Top(t).fn # "create_manual" /\ statics[Top(t).of] \in Found
    BY <1>1, ClassOfTop DEF DataTyped
  <1>3. DataTyped' /\ TablesKept /\ UNCHANGED <<crashed, creation_vars>>
    BY DataSame DEF ReadStatic
  <1> QED
    BY <1>1, <1>2, <1>3, Answers

(* Beginning to initialize one keeps it. *)
LEMMA BeginStaticStep ==
  ASSUME IInv, NEW t \in Threads, BeginStatic(t), UNCHANGED creation_vars
  PROVE  IInv'
  <1> DEFINE T == Top(t).of
             g == get_class_from_name(T.name)
             f == [Top(t) EXCEPT !.at = "initialize"]
  <1>1. /\ At(t, "class_of", "static") /\ T.form = "plain" /\ Calls(t, g, "initialize")
        /\ guards' = [guards EXCEPT ![T] = "running"] /\ asked' = [asked EXCEPT ![T] = loaded]
        /\ UNCHANGED <<loaded, names_to_classes, tables, statics, crashed>>
    BY DEF BeginStatic
  <1>2. /\ stack[t] # <<>> /\ Top(t).fn = "class_of" /\ Top(t).fn # "create_manual"
        /\ Top(t) \in Frames /\ T \in Types /\ DataTyped
    BY <1>1, ClassOfTop
  <1>3. T.name \in NameSeq /\ T.name # <<>>
    BY <1>1, <1>2, TypesAssumption DEF NameSeq
  <1>4. /\ g \in Frames /\ Shape(g) /\ g.fn = "get_class_from_name" /\ g.of = [name |-> T.name] /\ g.at = "lookup"
    BY <1>2, <1>3, NameFrame
  <1>5. f.fn = "class_of" /\ f.of = T /\ f.at = "initialize"
    BY <1>2, FrameAt DEF Labels, Same
  <1>6. guards' \in [Types -> {"unset", "running", "done"}] /\ asked' \in [Types -> Nat]
    BY <1>1, <1>2, LoadedAssumption DEF DataTyped
  <1>7. DataTyped'
    BY <1>1, <1>2, <1>6 DEF DataTyped, creation_vars, plain_names
  <1>8. TablesKept
    BY <1>1 DEF TablesKept
  <1> HIDE DEF f, g
  <1>9. Shape(f)
    BY <1>1, <1>2, <1>5 DEF Shape
  <1>10. Link(f, g)
    BY <1>4, <1>5 DEF Link
  <1> QED
    BY <1>1, <1>2, <1>4, <1>7, <1>8, <1>9, <1>10, CallsOn DEF f, CallLabels

(* Data are typed with a class or null in a static. *)
LEMMA StaticsSet ==
  ASSUME IInv, NEW T \in Types, NEW c \in Found, statics' = [statics EXCEPT ![T] = c],
         guards' \in [Types -> {"unset", "running", "done"}],
         UNCHANGED <<loaded, names_to_classes, tables, asked, crashed>>, UNCHANGED creation_vars
  PROVE  DataTyped' /\ TablesKept /\ UNCHANGED <<crashed, creation_vars>>
  <1>1. statics' \in [Types -> Found]
    BY DEF IInv, Typed, DataTyped
  <1> QED
    BY <1>1 DEF IInv, Typed, DataTyped, TablesKept, creation_vars, plain_names

(* Initializing the static keeps it. *)
LEMMA EndStaticStep ==
  ASSUME IInv, NEW t \in Threads, EndStatic(t), UNCHANGED creation_vars
  PROVE  IInv'
  <1> DEFINE T == Top(t).of
             f == [Top(t) EXCEPT !.at = "return"]
  <1>1. /\ At(t, "class_of", "initialize") /\ Goto(t, "return") /\ statics' = [statics EXCEPT ![T] = Top(t).found]
        /\ guards' = [guards EXCEPT ![T] = "done"] /\ UNCHANGED <<loaded, names_to_classes, tables, asked, crashed>>
    BY DEF EndStatic
  <1>2. /\ stack[t] # <<>> /\ Top(t).fn # "create_manual" /\ Top(t) \in Frames /\ Shape(Top(t)) /\ T \in Types
        /\ DataTyped
    BY <1>1, ClassOfTop
  <1>3. Top(t).found \in Found
    BY <1>2 DEF Frames
  <1>4. guards' \in [Types -> {"unset", "running", "done"}]
    BY <1>1, <1>2 DEF DataTyped
  <1>5. DataTyped' /\ TablesKept /\ UNCHANGED <<crashed, creation_vars>>
    BY <1>1, <1>2, <1>3, <1>4, StaticsSet
  <1>6. Same(Top(t), f) /\ f.at = "return"
    BY <1>2, FrameAt DEF Labels
  <1> HIDE DEF f
  <1>7. Shape(f)
    BY <1>2, <1>6, AnswerShape
  <1> QED
    BY <1>1, <1>2, <1>5, <1>7, Goes DEF f, Labels

(* Asking for the class of an element keeps it. *)
LEMMA AskElementStep ==
  ASSUME IInv, NEW t \in Threads, AskElement(t), UNCHANGED creation_vars
  PROVE  IInv'
  <1> DEFINE T == Top(t).of
             g == class_of(T.element)
             f == [Top(t) EXCEPT !.at = "element"]
  <1>1. At(t, "class_of", "static") /\ T.form = "array" /\ Calls(t, g, "element")
    BY DEF AskElement
  <1>2. /\ stack[t] # <<>> /\ Top(t).fn = "class_of" /\ Top(t).fn # "create_manual"
        /\ Top(t) \in Frames /\ T \in Types
    BY <1>1, ClassOfTop
  <1>3. T.element \in Types
    BY <1>1, <1>2, TypesAssumption
  <1>4. g \in Frames /\ Shape(g) /\ g.fn = "class_of" /\ g.at = "static"
    BY <1>3, TypeFrame
  <1>5. f.fn = "class_of" /\ f.of = T /\ f.at = "element"
    BY <1>2, FrameAt DEF Labels, Same
  <1>6. DataTyped' /\ TablesKept /\ UNCHANGED <<crashed, creation_vars>>
    BY DataSame DEF AskElement
  <1> HIDE DEF f, g
  <1>7. Shape(f)
    BY <1>1, <1>2, <1>5 DEF Shape
  <1>8. Link(f, g)
    BY <1>4, <1>5 DEF Link
  <1> QED
    BY <1>1, <1>2, <1>4, <1>6, <1>7, <1>8, CallsOn DEF f, CallLabels

(* Making the array's class keeps it. *)
LEMMA MakeArrayStep ==
  ASSUME IInv, NEW t \in Threads, MakeArray(t), UNCHANGED creation_vars
  PROVE  IInv'
  <1> DEFINE T == Top(t).of
             element == Top(t).found
             array == [element EXCEPT !.form = "array"]
  <1>1. At(t, "class_of", "element") /\ UNCHANGED <<loaded, names_to_classes, tables, guards, asked, crashed>>
    BY DEF MakeArray
  <1>2. /\ stack[t] # <<>> /\ Top(t).fn # "create_manual" /\ Top(t) \in Frames /\ T \in Types /\ DataTyped
    BY <1>1, ClassOfTop
  <1>3. CASE element = Null
    <2>1. Answer(t, Null) /\ UNCHANGED lookup_vars
      BY <1>1, <1>3 DEF MakeArray, lookup_vars
    <2>2. DataTyped' /\ TablesKept /\ UNCHANGED <<crashed, creation_vars>>
      BY <2>1, DataSame
    <2> QED
      BY <1>2, <2>1, <2>2, Answers DEF Found
  <1>4. CASE element # Null
    <2>1. statics' = [statics EXCEPT ![T] = array] /\ Answer(t, array)
      BY <1>4 DEF MakeArray
    <2>2. element \in AllClasses
      BY <1>2, <1>4 DEF Frames, Found
    <2>3. array \in Found
      BY <2>2, Reformed DEF Found
    <2>4. guards' \in [Types -> {"unset", "running", "done"}]
      BY <1>1, <1>2 DEF DataTyped
    <2> HIDE DEF array
    <2>5. DataTyped' /\ TablesKept /\ UNCHANGED <<crashed, creation_vars>>
      BY <1>1, <1>2, <2>1, <2>3, <2>4, StaticsSet
    <2> QED
      BY <1>2, <2>1, <2>3, <2>5, Answers
  <1> QED
    BY <1>3, <1>4

(* Asking for the generic class keeps it. *)
LEMMA AskBaseStep ==
  ASSUME IInv, NEW t \in Threads, AskBase(t), UNCHANGED creation_vars
  PROVE  IInv'
  <1> DEFINE T == Top(t).of
             g == get_class_from_name(T.name)
             f == [Top(t) EXCEPT !.at = "base"]
  <1>1. At(t, "class_of", "static") /\ T.form = "generic" /\ Calls(t, g, "base")
    BY DEF AskBase
  <1>2. /\ stack[t] # <<>> /\ Top(t).fn = "class_of" /\ Top(t).fn # "create_manual"
        /\ Top(t) \in Frames /\ T \in Types /\ DataTyped
    BY <1>1, ClassOfTop
  <1>3. T.name \in NameSeq /\ T.name # <<>>
    BY <1>1, <1>2, TypesAssumption DEF NameSeq
  <1>4. /\ g \in Frames /\ Shape(g) /\ g.fn = "get_class_from_name" /\ g.of = [name |-> T.name] /\ g.at = "lookup"
    BY <1>2, <1>3, NameFrame
  <1>5. f.fn = "class_of" /\ f.of = T /\ f.at = "base"
    BY <1>2, FrameAt DEF Labels, Same
  <1>6. DataTyped' /\ TablesKept /\ UNCHANGED <<crashed, creation_vars>>
    BY DataSame DEF AskBase
  <1> HIDE DEF f, g
  <1>7. Shape(f)
    BY <1>1, <1>2, <1>5 DEF Shape
  <1>8. Link(f, g)
    BY <1>4, <1>5 DEF Link
  <1> QED
    BY <1>1, <1>2, <1>4, <1>6, <1>7, <1>8, CallsOn DEF f, CallLabels

(* Asking for its argument keeps it. *)
LEMMA AskArgumentStep ==
  ASSUME IInv, NEW t \in Threads, AskArgument(t), UNCHANGED creation_vars
  PROVE  IInv'
  <1> DEFINE T == Top(t).of
             g == class_of(T.argument)
             f == [Top(t) EXCEPT !.at = "argument", !.base = Top(t).found]
  <1>1. At(t, "class_of", "base") /\ stack' = [stack EXCEPT ![t] = Append(Append(Front(stack[t]), f), g)]
    BY DEF AskArgument
  <1>2. /\ stack[t] # <<>> /\ Top(t).fn = "class_of" /\ Top(t).fn # "create_manual"
        /\ Top(t) \in Frames /\ Shape(Top(t)) /\ T \in Types /\ Top(t).at = "base"
    BY <1>1, ClassOfTop
  <1>3. T.form = "generic"
    BY <1>2 DEF Shape
  <1>4. T.argument \in Types
    BY <1>2, <1>3, TypesAssumption
  <1>5. g \in Frames /\ Shape(g) /\ g.fn = "class_of" /\ g.at = "static"
    BY <1>4, TypeFrame
  <1>6. f \in Frames /\ Same(Top(t), f) /\ f.at = "argument"
    BY <1>2, ArgumentFrame
  <1>7. DataTyped' /\ TablesKept /\ UNCHANGED <<crashed, creation_vars>>
    BY DataSame DEF AskArgument
  <1> HIDE DEF f, g
  <1>8. f.fn = "class_of" /\ f.of = T
    BY <1>2, <1>6 DEF Same
  <1>9. Shape(f)
    BY <1>2, <1>3, <1>6, <1>8 DEF Shape
  <1>10. Link(f, g)
    BY <1>5, <1>6, <1>8 DEF Link
  <1> QED
    BY <1>1, <1>2, <1>5, <1>6, <1>7, <1>9, <1>10, Waits

(* make_generic keeps it: it makes a class, answers null or ends the program. *)
LEMMA GenericStep ==
  ASSUME IInv, NEW t \in Threads, make_generic(t), UNCHANGED creation_vars
  PROVE  IInv'
  <1> DEFINE T == Top(t).of
             base == Top(t).base
             inflated == [base EXCEPT !.form = "generic"]
  <1>1. At(t, "class_of", "argument") /\ UNCHANGED <<loaded, names_to_classes, tables, guards, asked>>
    BY DEF make_generic
  <1>2. /\ stack[t] # <<>> /\ Top(t).fn # "create_manual" /\ Top(t) \in Frames /\ T \in Types /\ DataTyped
    BY <1>1, ClassOfTop
  <1>3. CASE Null \in {base, Top(t).found}
    <2>1. crashed' = TRUE /\ stack' = [u \in Threads |-> <<>>] /\ UNCHANGED statics
      BY <1>3 DEF make_generic, Crash
    <2>2. DataTyped'
      BY <1>1, <1>2, <2>1 DEF DataTyped, creation_vars, plain_names
    <2>3. UNCHANGED <<cctor_started, cctor_finished>>
      BY DEF creation_vars
    <2> QED
      BY <2>1, <2>2, <2>3, CrashStep
  <1>4. CASE Null \notin {base, Top(t).found}
    <2>1. statics' = [statics EXCEPT ![T] = inflated] /\ Answer(t, inflated) /\ UNCHANGED crashed
      BY <1>4 DEF make_generic
    <2>2. base \in AllClasses
      BY <1>2, <1>4 DEF Frames, Found
    <2>3. inflated \in Found
      BY <2>2, Reformed DEF Found
    <2>4. guards' \in [Types -> {"unset", "running", "done"}]
      BY <1>1, <1>2 DEF DataTyped
    <2> HIDE DEF inflated
    <2>5. DataTyped' /\ TablesKept /\ UNCHANGED <<crashed, creation_vars>>
      BY <1>1, <1>2, <2>1, <2>3, <2>4, StaticsSet
    <2> QED
      BY <1>2, <2>1, <2>3, <2>5, Answers
  <1> QED
    BY <1>3, <1>4

--------------------------------------------------------------------------------
(* log_classes, calls from outside and the game. *)
LEMMA NextImageStep ==
  ASSUME IInv, NEW t \in Threads, NextImage(t), UNCHANGED creation_vars
  PROVE  IInv'
  <1> DEFINE i == Top(t).i
  <1>1. /\ stack[t] # <<>> /\ Top(t).fn = "log_classes" /\ Top(t).at = "image"
        /\ UNCHANGED <<loaded, names_to_classes, statics, guards, asked, crashed>>
    BY DEF NextImage, At
  <1>2. Top(t) \in Frames /\ Shape(Top(t)) /\ DataTyped
    BY <1>1, TopFacts
  <1>3. CASE i > Top(t).n
    <2>1. Answer(t, Null) /\ UNCHANGED lookup_vars
      BY <1>1, <1>3 DEF NextImage, lookup_vars
    <2>2. DataTyped' /\ TablesKept /\ UNCHANGED <<crashed, creation_vars>>
      BY <2>1, DataSame
    <2> QED
      BY <1>1, <2>1, <2>2, Answers DEF Found
  <1>4. CASE ~(i > Top(t).n) /\ tables[i] = Unbuilt
    <2> DEFINE f == [Top(t) EXCEPT !.at = "fill"]
    <2>1. Goto(t, "fill") /\ tables' = [tables EXCEPT ![i] = {}]
      BY <1>4 DEF NextImage
    <2>2. i \in Nat \ {0} /\ Top(t).n \in Int
      BY <1>2 DEF Frames
    <2>3. i <= Top(t).n
      BY <1>4, <2>2
    <2>4. i \in DOMAIN Assemblies
      BY <1>2, <2>3, Asking
    <2>5. tables \in [DOMAIN Assemblies -> SUBSET (Names \union {<<>>})]
      BY <1>2 DEF DataTyped
    <2>6. tables' \in [DOMAIN Assemblies -> SUBSET (Names \union {<<>>})] /\ tables'[i] = {}
          /\ \A j \in DOMAIN Assemblies : tables'[j] = tables[j] \/ tables'[j] = {}
      BY <2>1, <2>4, <2>5
    <2>7. {} # Unbuilt
      BY DEF Unbuilt
    <2>8. TablesKept
      BY <2>6, <2>7 DEF TablesKept
    <2>9. \A j \in DOMAIN Assemblies : tables'[j] = Unbuilt \/ tables'[j] \subseteq plain_names(j)
      BY <1>2, <2>6 DEF DataTyped
    <2>10. DataTyped'
      BY <1>1, <1>2, <2>6, <2>9 DEF DataTyped, creation_vars, plain_names
    <2>11. f.fn = "log_classes" /\ f.at = "fill" /\ f.i = i /\ f.n = Top(t).n
      BY <1>1, <1>2, FrameAt DEF Labels, Same
    <2> HIDE DEF f
    <2>12. Shape(f)
      BY <2>3, <2>11 DEF Shape
    <2> QED
      BY <1>1, <2>1, <2>6, <2>7, <2>8, <2>10, <2>12, Goes DEF f, Labels
  <1>5. CASE ~(i > Top(t).n) /\ tables[i] # Unbuilt
    <2> DEFINE f == [Top(t) EXCEPT !.i = i + 1]
    <2>1. With(t, f) /\ UNCHANGED lookup_vars
      BY <1>1, <1>5 DEF NextImage, lookup_vars
    <2>2. i + 1 \in Nat \ {0}
      BY <1>2 DEF Frames
    <2>3. f \in Frames /\ Same(Top(t), f) /\ f.at = "image"
      BY <1>1, <1>2, <2>2, FrameI
    <2>4. DataTyped' /\ TablesKept /\ UNCHANGED <<crashed, creation_vars>>
      BY <2>1, DataSame
    <2> HIDE DEF f
    <2>5. f.fn = "log_classes"
      BY <1>1, <2>3 DEF Same
    <2>6. Shape(f)
      BY <2>3, <2>5 DEF Shape
    <2> QED
      BY <1>1, <2>1, <2>3, <2>4, <2>6, Replaces
  <1> QED
    BY <1>3, <1>4, <1>5

(* Adding types to a table keeps it: the table is in the image already. *)
LEMMA FillStep ==
  ASSUME IInv, NEW t \in Threads, add_type_to_name(t), UNCHANGED creation_vars
  PROVE  IInv'
  <1> DEFINE i == Top(t).i
             missing == plain_names(i) \ tables[i]
  <1>1. /\ stack[t] # <<>> /\ Top(t).fn = "log_classes" /\ Top(t).at = "fill"
        /\ UNCHANGED <<loaded, names_to_classes, statics, guards, asked, crashed>>
    BY DEF add_type_to_name, At
  <1>2. Top(t) \in Frames /\ Shape(Top(t)) /\ DataTyped /\ FillOK(stack[t], tables) /\ Top(t) = Last(stack[t])
    BY <1>1, TopFacts
  <1>3. i \in DOMAIN Assemblies /\ tables[i] # Unbuilt
    <2>1. i <= Top(t).n
      BY <1>1, <1>2 DEF Shape
    <2>2. tables[i] # Unbuilt
      BY <1>1, <1>2 DEF FillOK
    <2> QED
      BY <1>2, <2>1, <2>2, Asking
  <1>4. CASE missing = {}
    <2> DEFINE f == [Top(t) EXCEPT !.at = "image"]
    <2>1. Goto(t, "image") /\ UNCHANGED lookup_vars
      BY <1>1, <1>4 DEF add_type_to_name, lookup_vars
    <2>2. DataTyped' /\ TablesKept /\ UNCHANGED <<crashed, creation_vars>>
      BY <2>1, DataSame
    <2>3. f.fn = "log_classes" /\ f.at = "image"
      BY <1>1, <1>2, FrameAt DEF Labels, Same
    <2> HIDE DEF f
    <2>4. Shape(f)
      BY <2>3 DEF Shape
    <2> QED
      BY <1>1, <2>1, <2>2, <2>4, Goes DEF f, Labels
  <1>5. CASE missing # {}
    <2>1. (\E name \in missing : tables' = [tables EXCEPT ![i] = @ \union {name}]) /\ UNCHANGED stack
      BY <1>5 DEF add_type_to_name
    <2>2. PICK name \in missing : tables' = [tables EXCEPT ![i] = tables[i] \union {name}]
      BY <2>1
    <2>3. tables \in [DOMAIN Assemblies -> SUBSET (Names \union {<<>>})] /\ tables[i] \subseteq plain_names(i)
          /\ plain_names(i) \subseteq Names /\ plain_names(i) # Unbuilt
      BY <1>2, <1>3, Table DEF DataTyped
    <2>4. tables' \in [DOMAIN Assemblies -> SUBSET (Names \union {<<>>})]
          /\ tables'[i] = tables[i] \union {name} /\ tables'[i] \subseteq plain_names(i)
          /\ \A j \in DOMAIN Assemblies : j # i => tables'[j] = tables[j]
      BY <1>3, <2>2, <2>3
    <2>5. \A j \in DOMAIN Assemblies : tables'[j] = Unbuilt \/ tables'[j] \subseteq plain_names(j)
      BY <1>2, <2>4 DEF DataTyped
    <2>6. tables'[i] # Unbuilt
      <3>1. name # <<>>
        BY <1>3, <2>2, AssembliesAssumption DEF plain_names
      <3> QED
        BY <2>4, <3>1 DEF Unbuilt
    <2>7. TablesKept
      BY <2>4, <2>6 DEF TablesKept
    <2>8. DataTyped'
      BY <1>1, <1>2, <2>4, <2>5 DEF DataTyped, creation_vars, plain_names
    <2>9. \A u \in Threads : StackOK(stack[u]) /\ FillOK(stack[u], tables')
      BY <1>2, <2>7, FillKept DEF IInv, Typed
    <2>10. Started'
      BY <1>1, <2>1 DEF IInv, Started, Running, creation_vars
    <2>11. Typed'
      BY <2>1, <2>8 DEF IInv, Typed
    <2> QED
      BY <2>1, <2>9, <2>10, <2>11 DEF IInv, creation_vars
  <1> QED
    BY <1>4, <1>5

(* A first call keeps it. *)
LEMMA CallStep ==
  ASSUME IInv, NEW t \in Threads, NEW f \in Frames, Shape(f), f.at \notin {"cctor", "start", "return", "fill"},
         Call(t, f), UNCHANGED creation_vars
  PROVE  IInv'
  <1>1. stack[t] = <<>> /\ stack' = [stack EXCEPT ![t] = <<f>>] /\ UNCHANGED lookup_vars
    BY DEF Call
  <1>2. Quiet(stack[t], <<f>>)
    BY <1>1, QuietSingle
  <1>3. FillOK(<<f>>, tables')
    BY DEF FillOK, Last
  <1>4. DataTyped' /\ TablesKept /\ UNCHANGED <<crashed, creation_vars>>
    BY <1>1, DataSame
  <1> QED
    BY <1>1, <1>2, <1>3, <1>4, QuietStep

(* Every first call there is keeps it. *)
LEMMA CallingStep ==
  ASSUME IInv, NEW t \in Threads, Calling(t), UNCHANGED creation_vars
  PROVE  IInv'
  <1>0. DataTyped
    BY DEF IInv, Typed
  <1>1. CASE \E name \in Asked : Call(t, get_class_from_name(name))
    <2>1. PICK name \in Asked : Call(t, get_class_from_name(name))
      BY <1>1
    <2>2. name \in NameSeq /\ name # <<>>
      BY AssembliesAssumption, LoadedAssumption DEF Names, NameSeq
    <2>3. get_class_from_name(name) \in Frames /\ Shape(get_class_from_name(name))
          /\ get_class_from_name(name).at = "lookup"
      BY <1>0, <2>2, NameFrame
    <2> QED
      BY <2>1, <2>3, CallStep
  <1>2. CASE \E T \in Types : Call(t, class_of(T))
    <2>1. PICK T \in Types : Call(t, class_of(T))
      BY <1>2
    <2>2. class_of(T) \in Frames /\ Shape(class_of(T)) /\ class_of(T).at = "static"
      BY TypeFrame
    <2> QED
      BY <2>1, <2>2, CallStep
  <1>3. CASE Call(t, log_classes)
    <2> DEFINE b == Frame("log_classes", [name |-> <<>>], "image")
    <2>1. <<>> \in NameSeq
      BY DEF NameSeq
    <2>2. b \in Frames /\ b.fn = "log_classes" /\ b.at = "image"
      BY <2>1, NewFrame DEF Functions, Labels
    <2>3. log_classes = [b EXCEPT !.n = loaded] /\ loaded \in 0 .. Len(Assemblies)
      BY <1>0 DEF log_classes, DataTyped
    <2> HIDE DEF b
    <2>4. log_classes \in Frames /\ log_classes.fn = "log_classes" /\ log_classes.at = "image"
      BY <2>2, <2>3, FrameN DEF Same
    <2>5. Shape(log_classes)
      BY <2>4 DEF Shape
    <2> QED
      BY <1>3, <2>4, <2>5, CallStep
  <1>4. CASE \E T \in Creatable : Call(t, new_ctor(T))
    <2>1. PICK T \in Creatable : Call(t, new_ctor(T))
      BY <1>4
    <2>2. T \in Types
      BY CctorsAssumption
    <2>3. new_ctor(T) \in Frames /\ new_ctor(T).fn = "new_ctor" /\ new_ctor(T).at = "class" /\ new_ctor(T).of = T
      BY <2>2, NewFrame DEF new_ctor, Functions, Labels
    <2>4. Shape(new_ctor(T))
      BY <2>2, <2>3 DEF Shape
    <2> QED
      BY <2>1, <2>3, <2>4, CallStep
  <1> QED
    BY <1>1, <1>2, <1>3, <1>4 DEF Calling, LookupCalls

(* Loading an assembly keeps it. *)
LEMMA LoadStep ==
  ASSUME IInv, LoadAssembly, UNCHANGED creation_vars
  PROVE  IInv'
  <1>1. loaded < Len(Assemblies) /\ loaded' = loaded + 1
        /\ UNCHANGED <<names_to_classes, tables, statics, guards, asked, stack, crashed>>
    BY DEF LoadAssembly
  <1>2. loaded' \in 0 .. Len(Assemblies)
    BY <1>1, AssembliesAssumption DEF IInv, Typed, DataTyped
  <1>3. DataTyped'
    BY <1>1, <1>2 DEF IInv, Typed, DataTyped, creation_vars, plain_names
  <1>4. Started'
    BY <1>1 DEF IInv, Started, Running, creation_vars
  <1>5. Typed'
    BY <1>1, <1>3 DEF IInv, Typed
  <1> QED
    BY <1>1, <1>4, <1>5 DEF IInv, creation_vars

--------------------------------------------------------------------------------
(* new_ctor and create_manual. *)
LEMMA MakeFrame ==
  ASSUME NEW T \in Types
  PROVE  /\ new_ctor(T) \in Frames /\ Shape(new_ctor(T)) /\ new_ctor(T).fn = "new_ctor"
         /\ new_ctor(T).at = "class"
  <1>1. new_ctor(T) \in Frames /\ new_ctor(T).fn = "new_ctor" /\ new_ctor(T).at = "class" /\ new_ctor(T).of = T
    BY NewFrame DEF new_ctor, Functions, Labels
  <1> QED
    BY <1>1 DEF Shape

(* new_ctor asking for its class keeps it. *)
LEMMA AskClassStep ==
  ASSUME IInv, NEW t \in Threads, AskClass(t)
  PROVE  IInv'
  <1> DEFINE T == Top(t).of
             g == class_of(T)
             f == [Top(t) EXCEPT !.at = "create"]
  <1>1. stack[t] # <<>> /\ Top(t).fn = "new_ctor" /\ Top(t).at = "class" /\ Calls(t, g, "create")
    BY DEF AskClass, At
  <1>2. Top(t) \in Frames /\ Shape(Top(t))
    BY <1>1, TopFacts
  <1>3. T \in Types
    BY <1>1, <1>2 DEF Shape
  <1>4. g \in Frames /\ Shape(g) /\ g.fn = "class_of" /\ g.at = "static"
    BY <1>3, TypeFrame
  <1>5. f.fn = "new_ctor" /\ f.of = T /\ f.at = "create"
    BY <1>1, <1>2, FrameAt DEF Labels, Same
  <1>6. DataTyped' /\ TablesKept /\ UNCHANGED <<crashed, creation_vars>>
    BY DataSame DEF AskClass
  <1> HIDE DEF f, g
  <1>7. Shape(f)
    BY <1>3, <1>5 DEF Shape
  <1>8. Link(f, g)
    BY <1>4, <1>5 DEF Link
  <1> QED
    BY <1>1, <1>4, <1>6, <1>7, <1>8, CallsOn DEF f, CallLabels

(* Its way on to create_manual keeps it. *)
LEMMA CreateStep ==
  ASSUME IInv, NEW t \in Threads, Create(t)
  PROVE  IInv'
  <1> DEFINE c == Top(t).found
  <1>1. stack[t] # <<>> /\ Top(t).fn = "new_ctor" /\ Top(t).at = "create"
    BY DEF Create, At
  <1>2. Top(t) \in Frames /\ Shape(Top(t))
    BY <1>1, TopFacts
  <1>3. DataTyped' /\ TablesKept /\ UNCHANGED <<crashed, creation_vars>>
    BY DataSame DEF Create
  <1>4. CASE c = Null
    <2>1. Answer(t, Null)
      BY <1>4 DEF Create, Fail
    <2> QED
      BY <1>1, <1>3, <2>1, Answers DEF Found
  <1>5. CASE c # Null
    <2> DEFINE g == create_manual(c)
               f == [Top(t) EXCEPT !.at = "construct"]
    <2>1. Calls(t, g, "construct")
      BY <1>5 DEF Create
    <2>2. c \in AllClasses
      BY <1>2, <1>5 DEF Frames, Found
    <2>3. g \in Frames /\ g.fn = "create_manual" /\ g.of = c /\ g.at = "check"
      BY <2>2, NewFrame DEF create_manual, Functions, Labels
    <2>4. f.fn = "new_ctor" /\ f.of = Top(t).of /\ f.at = "construct"
      BY <1>1, <1>2, FrameAt DEF Labels, Same
    <2>5. Top(t).of \in Types
      BY <1>1, <1>2 DEF Shape
    <2> HIDE DEF f, g
    <2>6. Shape(f) /\ Shape(g)
      BY <2>2, <2>3, <2>4, <2>5 DEF Shape
    <2>7. Link(f, g)
      BY <2>3, <2>4 DEF Link
    <2> QED
      BY <1>1, <1>3, <2>1, <2>3, <2>6, <2>7, CallsOn DEF f, CallLabels
  <1> QED
    BY <1>4, <1>5

(* Its constructor, if there is one, keeps it. *)
LEMMA ConstructStep ==
  ASSUME IInv, NEW t \in Threads, Construct(t)
  PROVE  IInv'
  <1>1. stack[t] # <<>> /\ Top(t).fn = "new_ctor"
    BY DEF Construct, At
  <1>2. Top(t).found \in Found /\ Null \in Found
    BY <1>1, TopFacts DEF Frames, Found
  <1>3. DataTyped' /\ TablesKept /\ UNCHANGED <<crashed, creation_vars>>
    BY DataSame DEF Construct
  <1>4. PICK c \in Found : Answer(t, c)
    BY <1>2 DEF Construct, Fail
  <1> QED
    BY <1>1, <1>3, <1>4, Answers

(* An object made in a .cctor keeps it. *)
LEMMA NestedCreateStep ==
  ASSUME IInv, NEW t \in Threads, NestedCreate(t)
  PROVE  IInv'
  <1> DEFINE f == [Top(t) EXCEPT !.i = Top(t).i + 1]
  <1>1. stack[t] # <<>> /\ Top(t).fn = "create_manual" /\ Top(t).at = "cctor"
    BY DEF NestedCreate, At
  <1>2. Top(t) \in Frames /\ Shape(Top(t))
    BY <1>1, TopFacts
  <1>3. PICK T \in Creatable : stack' = [stack EXCEPT ![t] = Append(Append(Front(stack[t]), f), new_ctor(T))]
    BY DEF NestedCreate
  <1>4. new_ctor(T) \in Frames /\ Shape(new_ctor(T)) /\ new_ctor(T).fn = "new_ctor" /\ new_ctor(T).at = "class"
    BY CctorsAssumption, MakeFrame
  <1>5. Top(t).i + 1 \in Nat \ {0}
    BY <1>2 DEF Frames
  <1>6. f \in Frames /\ Same(Top(t), f) /\ f.at = "cctor"
    BY <1>1, <1>2, <1>5, FrameI
  <1>7. DataTyped' /\ TablesKept /\ UNCHANGED <<crashed, creation_vars>>
    BY DataSame DEF NestedCreate
  <1> HIDE DEF f
  <1>8. f.fn = "create_manual" /\ f.of = Top(t).of
    BY <1>1, <1>6 DEF Same
  <1>9. Top(t).of \in AllClasses
    BY <1>1, <1>2 DEF Shape
  <1>10. Shape(f)
    BY <1>6, <1>8, <1>9 DEF Shape
  <1>11. Link(f, new_ctor(T))
    BY <1>4, <1>6, <1>8 DEF Link
  <1> QED
    BY <1>1, <1>3, <1>4, <1>6, <1>7, <1>10, <1>11, Waits

(* create_manual's own steps: below the top, every frame waits. *)
LEMMA BelowTop ==
  ASSUME NEW s, StackOK(s)
  PROVE  \A d \in 1 .. (Len(s) - 1) : s[d].at \in CallLabels
  BY LinkAt DEF StackOK

(* create_manual goes on: it enters a .cctor only with the class marked,   *)
(* and answers only started classes.                                       *)
LEMMA CctorReplaced ==
  ASSUME NEW s, StackOK(s), s # <<>>, NEW f \in Frames, Same(Last(s), f), Shape(f),
         NEW started, NEW finished, NEW started2, NEW finished2,
         started \subseteq started2, finished \subseteq finished2,
         CctorsOK(s, started), ObjectsOK(s, started, finished),
         f.at = "cctor" => f.of \in started2 /\ Last(s).at \in {"start", "cctor"},
         f.at = "start" => f.of \notin started,
         f.at = "return" => f.found = Null \/ f.of \in started2 \union finished2
  PROVE  LET r == Append(Front(s), f)
         IN  StackOK(r) /\ CctorsOK(r, started2) /\ ObjectsOK(r, started2, finished2)
  <1> DEFINE r == Append(Front(s), f)
             n == Len(s)
  <1>1. StackOK(r)
    BY StackReplaced
  <1>2. s \in Seq(Frames) /\ n \in Nat /\ n >= 1 /\ Last(s) = s[n] /\ n \in 1 .. n
    BY TopOf DEF StackOK
  <1>3. Len(r) = n /\ r[n] = f /\ \A d \in 1 .. (n - 1) : r[d] = s[d]
    BY <1>2, ReplacedTop
  <1>4. \A d \in 1 .. n : d = n \/ (d \in 1 .. (n - 1) /\ d # n)
    BY <1>2
  <1>5. \A d \in 1 .. (n - 1) : s[d].at # "start" /\ d \in 1 .. n
    BY <1>2, BelowTop DEF CallLabels
  <1>6. f.of = s[n].of
    BY <1>2 DEF Same
  <1> HIDE DEF r
  <1>7. \A d \in 1 .. n : s[d].at = "cctor" => s[d].of \in started
    BY DEF CctorsOK
  <1>8. \A d \in 1 .. n : r[d].at = "cctor" => r[d].of \in started2
    BY <1>3, <1>4, <1>5, <1>7
  <1>9. f.at = "cctor" => \A d \in 1 .. (n - 1) : s[d].at = "cctor" => s[d].of # f.of
    <2> SUFFICES ASSUME f.at = "cctor", NEW d \in 1 .. (n - 1), s[d].at = "cctor" PROVE s[d].of # f.of
      OBVIOUS
    <2>1. d \in 1 .. n /\ d # n
      BY <1>2
    <2>2. CASE s[n].at = "start"
      BY <1>2, <1>6, <2>1, <2>2 DEF CctorsOK
    <2>3. CASE s[n].at = "cctor"
      BY <1>2, <1>6, <2>1, <2>3 DEF CctorsOK
    <2> QED
      BY <1>2, <2>2, <2>3
  <1>10. \A d, e \in 1 .. n : r[d].at = "cctor" /\ r[e].at = "cctor" /\ r[d].of = r[e].of => d = e
    <2> SUFFICES ASSUME NEW d \in 1 .. n, NEW e \in 1 .. n, r[d].at = "cctor", r[e].at = "cctor", r[d].of = r[e].of
                 PROVE  d = e
      OBVIOUS
    <2>1. CASE d = n
      BY <1>3, <1>4, <1>9, <2>1
    <2>2. CASE e = n
      BY <1>3, <1>4, <1>9, <2>2
    <2>3. CASE d # n /\ e # n
      <3>1. r[d] = s[d] /\ r[e] = s[e]
        BY <1>3, <1>4, <2>3
      <3> QED
        BY <3>1 DEF CctorsOK
    <2> QED
      BY <2>1, <2>2, <2>3
  <1>11. \A d, e \in 1 .. n : r[d].at = "start" /\ r[e].at = "cctor" => r[d].of # r[e].of
    <2> SUFFICES ASSUME NEW d \in 1 .. n, NEW e \in 1 .. n, r[d].at = "start", r[e].at = "cctor"
                 PROVE  r[d].of # r[e].of
      OBVIOUS
    <2>1. d = n
      BY <1>3, <1>4, <1>5
    <2>2. f.at = "start" /\ r[d] = f
      BY <1>3, <2>1
    <2>3. e # n
      BY <1>3, <2>2
    <2>4. r[e] = s[e]
      BY <1>3, <1>4, <2>3
    <2> QED
      BY <1>7, <2>2, <2>4
  <1>12. \A d \in 1 .. n : r[d].fn = "create_manual" /\ r[d].at = "return" =>
           r[d].found = Null \/ r[d].of \in started2 \union finished2
    <2> SUFFICES ASSUME NEW d \in 1 .. n, r[d].fn = "create_manual", r[d].at = "return"
                 PROVE  r[d].found = Null \/ r[d].of \in started2 \union finished2
      OBVIOUS
    <2>1. CASE d = n
      BY <1>3, <2>1
    <2>2. CASE d # n
      <3>1. r[d] = s[d]
        BY <1>3, <1>4, <2>2
      <3> QED
        BY <3>1 DEF ObjectsOK
    <2> QED
      BY <2>1, <2>2
  <1>13. CctorsOK(r, started2) /\ ObjectsOK(r, started2, finished2)
    BY <1>3, <1>8, <1>10, <1>11, <1>12 DEF CctorsOK, ObjectsOK
  <1> QED
    BY <1>1, <1>13 DEF r

(* The .cctors below the top are still being run. *)
LEMMA OthersRun ==
  ASSUME NEW s, StackOK(s), s # <<>>, NEW r, NEW k \in 0 .. Len(s), NEW c,
         Len(r) >= k, Len(r) \in Nat, \A d \in 1 .. k : r[d] = s[d],
         \A d \in (k + 1) .. Len(s) : ~(s[d].fn = "create_manual" /\ s[d].at = "cctor" /\ s[d].of = c)
  PROVE  KeepsRunning(s, r, c)
  <1>1. Len(s) \in Nat /\ k \in Nat
    BY DEF StackOK
  <1>2. \A d \in 1 .. Len(s) : d \in (k + 1) .. Len(s) \/ (d \in 1 .. k /\ d \in 1 .. Len(r))
    BY <1>1
  <1> QED
    BY <1>2 DEF KeepsRunning

(* A step of create_manual that marks and enters as it should keeps the    *)
(* invariant.                                                              *)
LEMMA OwnStep ==
  ASSUME IInv, NEW t \in Threads, stack[t] # <<>>, Top(t).fn = "create_manual",
         NEW f \in Frames, Same(Top(t), f), Shape(f), With(t, f), UNCHANGED lookup_vars,
         cctor_started \subseteq cctor_started', cctor_finished \subseteq cctor_finished', UNCHANGED threw,
         cctor_started' \subseteq AllClasses, cctor_finished' \subseteq AllClasses,
         cctor_started' \subseteq cctor_started \union {Top(t).of},
         f.at = "cctor" => f.of \in cctor_started' /\ Top(t).at \in {"start", "cctor"},
         f.at = "start" => f.of \notin cctor_started,
         f.at = "return" => f.found = Null \/ f.of \in cctor_started' \union cctor_finished',
         Top(t).at = "cctor" => Top(t).of \in cctor_finished',
         Top(t).of \in cctor_started' => Top(t).of \in cctor_started \/ f.at = "cctor"
  PROVE  IInv'
  <1> DEFINE s == stack[t]
             r == Append(Front(s), f)
             n == Len(s)
  <1>0. PICK c : c = Top(t).of
    OBVIOUS
  <1>1. Top(t) = Last(s) /\ StackOK(s) /\ DataTyped /\ s \in Seq(Frames)
    BY TopFacts DEF StackOK
  <1>2. CctorsOK(s, cctor_started) /\ ObjectsOK(s, cctor_started, cctor_finished) /\ Started /\ Typed
    BY DEF IInv
  <1>3. stack' = [stack EXCEPT ![t] = r]
    BY DEF With
  <1>4. /\ n \in Nat /\ n >= 1 /\ Last(s) = s[n] /\ Len(r) = n /\ r[n] = f /\ \A d \in 1 .. (n - 1) : r[d] = s[d]
        /\ Last(r) = f /\ r \in Seq(Frames)
    BY <1>1, TopOf, ReplacedTop, LastOf, FrontOf
  <1> HIDE DEF s
  <1>5. StackOK(r) /\ CctorsOK(r, cctor_started') /\ ObjectsOK(r, cctor_started', cctor_finished')
    BY <1>1, <1>2, CctorReplaced DEF s
  <1> HIDE DEF r
  <1>6. DataTyped'
    BY <1>1 DEF DataTyped, lookup_vars, plain_names
  <1>7. TablesKept
    BY DEF TablesKept, lookup_vars
  <1>8. f.at # "fill"
    BY DEF Shape, Same
  <1>9. FillOK(r, tables')
    BY <1>4, <1>8 DEF FillOK
  <1>10. \A x : x # c /\ Running(x) => Running(x)'
    <2> SUFFICES ASSUME NEW x, x # c, Running(x) PROVE Running(x)'
      OBVIOUS
    <2>1. n - 1 \in 0 .. n /\ Len(r) >= n - 1 /\ \A d \in (n - 1 + 1) .. n : d = n
      BY <1>4
    <2>2. \A d \in (n - 1 + 1) .. n : ~(s[d].fn = "create_manual" /\ s[d].at = "cctor" /\ s[d].of = x)
      BY <1>0, <1>1, <1>4, <2>1
    <2>3. KeepsRunning(s, r, x)
      BY <1>1, <1>4, <2>1, <2>2, OthersRun DEF s
    <2> QED
      BY <1>2, <1>3, <1>4, <2>3, StillRunning DEF s
  <1>11. f.at = "cctor" => Running(c)'
    <2> SUFFICES ASSUME f.at = "cctor" PROVE Running(c)'
      OBVIOUS
    <2>1. stack \in [Threads -> Seq(Frames)]
      BY <1>2 DEF Typed
    <2>2. stack'[t] = r /\ n \in DOMAIN r
      BY <1>3, <1>4, <2>1
    <2>3. r[n].fn = "create_manual" /\ r[n].of = c /\ r[n].at = "cctor"
      BY <1>0, <1>4 DEF Same
    <2> QED
      BY <2>2, <2>3 DEF Running
  <1>12. Running(c) => c \in cctor_finished' \/ Running(c)'
    <2> SUFFICES ASSUME Running(c), Top(t).at # "cctor" PROVE Running(c)'
      BY <1>0
    <2>1. n - 1 \in 0 .. n /\ Len(r) >= n - 1 /\ \A d \in (n - 1 + 1) .. n : d = n
      BY <1>4
    <2>2. \A d \in (n - 1 + 1) .. n : ~(s[d].fn = "create_manual" /\ s[d].at = "cctor" /\ s[d].of = c)
      BY <1>1, <1>4, <2>1
    <2>3. KeepsRunning(s, r, c)
      BY <1>1, <1>4, <2>1, <2>2, OthersRun DEF s
    <2> QED
      BY <1>2, <1>3, <1>4, <2>3, StillRunning DEF s
  <1>13. Started'
    <2> SUFFICES ASSUME NEW x \in cctor_started' \ threw PROVE crashed' \/ Running(x)' \/ x \in cctor_finished'
      BY DEF Started
    <2>1. UNCHANGED crashed
      BY DEF lookup_vars
    <2>2. CASE x # c
      <3>1. crashed \/ Running(x) \/ x \in cctor_finished
        BY <1>0, <1>2, <2>2 DEF Started
      <3> QED
        BY <1>10, <2>1, <2>2, <3>1
    <2>3. CASE x = c
      <3>1. CASE f.at = "cctor"
        BY <1>11, <2>3, <3>1
      <3>2. CASE f.at # "cctor"
        <4>1. crashed \/ Running(c) \/ c \in cctor_finished
          BY <1>0, <1>2, <2>3, <3>2 DEF Started
        <4> QED
          BY <1>12, <2>1, <2>3, <4>1
      <3> QED
        BY <3>1, <3>2
    <2> QED
      BY <2>2, <2>3
  <1>14. DataTyped' /\ StackOK(r)
    BY <1>5, <1>6
  <1> QED
    BY <1>3, <1>5, <1>7, <1>9, <1>13, <1>14, OneStack

(* What is known of create_manual at a place. *)
LEMMA ManualTop ==
  ASSUME IInv, NEW t \in Threads, NEW label, At(t, "create_manual", label)
  PROVE  /\ stack[t] # <<>> /\ Top(t).fn = "create_manual" /\ Top(t).at = label
         /\ Top(t) \in Frames /\ Shape(Top(t)) /\ Top(t).of \in AllClasses /\ DataTyped
         /\ StackOK(stack[t]) /\ CctorsOK(stack[t], cctor_started) /\ Top(t) = Last(stack[t])
  <1>1. stack[t] # <<>> /\ Top(t).fn = "create_manual" /\ Top(t).at = label
    BY DEF At
  <1>2. Top(t) \in Frames /\ Shape(Top(t)) /\ DataTyped /\ StackOK(stack[t]) /\ Top(t) = Last(stack[t])
    BY <1>1, TopFacts
  <1>3. Top(t).of \in AllClasses
    BY <1>1, <1>2 DEF Shape
  <1> QED
    BY <1>1, <1>2, <1>3 DEF IInv

(* It may be at any place of its own. *)
LEMMA ManualShape ==
  ASSUME NEW f, NEW r, Shape(f), f.fn = "create_manual", Same(f, r), r.at \in {"check", "start", "cctor", "return"}
  PROVE  Shape(r)
  BY DEF Shape, Same

(* Its answer is null or of a started class, and it leaves a .cctor that   *)
(* is finished.                                                            *)
LEMMA ManualAnswers ==
  ASSUME IInv, NEW t \in Threads, NEW label, At(t, "create_manual", label), NEW c \in Found, Answer(t, c),
         UNCHANGED <<lookup_vars, cctor_started, threw>>, cctor_finished' = cctor_finished \/ cctor_finished' = cctor_finished \union {Top(t).of},
         c = Null \/ Top(t).of \in cctor_started' \union cctor_finished',
         label = "cctor" => Top(t).of \in cctor_finished'
  PROVE  IInv'
  <1> DEFINE f == [Top(t) EXCEPT !.at = "return", !.found = c, !.i = 1, !.n = 0, !.base = Null]
  <1>1. /\ stack[t] # <<>> /\ Top(t).fn = "create_manual" /\ Top(t).at = label
        /\ Top(t) \in Frames /\ Shape(Top(t)) /\ Top(t).of \in AllClasses /\ DataTyped
    BY ManualTop
  <1>2. f \in Frames /\ Same(Top(t), f) /\ f.at = "return" /\ f.found = c
    BY <1>1, AnswerFrame
  <1>3. With(t, f)
    BY DEF Answer
  <1> HIDE DEF f
  <1>4. Shape(f)
    BY <1>1, <1>2, AnswerShape
  <1>5. f.of = Top(t).of
    BY <1>2 DEF Same
  <1>6. cctor_started' \subseteq AllClasses /\ cctor_finished' \subseteq AllClasses /\ cctor_finished \subseteq cctor_finished'
    BY <1>1 DEF DataTyped
  <1>7. UNCHANGED lookup_vars /\ UNCHANGED threw /\ cctor_started' = cctor_started
    OBVIOUS
  <1> QED
    BY <1>1, <1>2, <1>3, <1>4, <1>5, <1>6, <1>7, OwnStep

(* Reading the flags keeps the invariant. *)
LEMMA CreateManualStep ==
  ASSUME IInv, NEW t \in Threads, CreateManual(t)
  PROVE  IInv'
  <1> DEFINE c == Top(t).of
             ready == ~has_cctor(c) \/ c \in cctor_finished \/ c \in cctor_started
  <1>1. At(t, "create_manual", "check") /\ UNCHANGED <<lookup_vars, cctor_started, threw, cctor_finished>>
    BY DEF CreateManual, creation_vars
  <1>2. /\ stack[t] # <<>> /\ Top(t).fn = "create_manual" /\ Top(t).at = "check"
        /\ Top(t) \in Frames /\ Shape(Top(t)) /\ c \in AllClasses /\ DataTyped
    BY <1>1, ManualTop
  <1>3. CASE Answer(t, Null)
    BY <1>1, <1>3, ManualAnswers DEF Found
  <1>4. CASE ready /\ Answer(t, c)
    <2>1. c \in cctor_started \union cctor_finished
      BY <1>2, <1>4 DEF IInv
    <2> QED
      BY <1>1, <1>2, <1>4, <2>1, ManualAnswers DEF Found
  <1>5. CASE ~ready /\ Goto(t, "start")
    <2> DEFINE f == [Top(t) EXCEPT !.at = "start"]
    <2>1. f \in Frames /\ Same(Top(t), f) /\ f.at = "start"
      BY <1>2, FrameAt DEF Labels
    <2>2. With(t, f)
      BY <1>5 DEF Goto
    <2> HIDE DEF f
    <2>3. Shape(f) /\ f.of = c
      BY <1>2, <2>1, ManualShape DEF Same
    <2>4. cctor_started' \subseteq AllClasses /\ cctor_finished' \subseteq AllClasses
      BY <1>1, <1>2 DEF DataTyped
    <2>5. UNCHANGED lookup_vars /\ UNCHANGED threw /\ cctor_started' = cctor_started /\ cctor_finished' = cctor_finished
      BY <1>1
    <2> QED
      BY <1>2, <1>5, <2>1, <2>2, <2>3, <2>4, <2>5, OwnStep
  <1> QED
    BY <1>3, <1>4, <1>5 DEF CreateManual

(* Starting a .cctor keeps it: nobody in this thread's calls is in it. *)
LEMMA StartCctorStep ==
  ASSUME IInv, NEW t \in Threads, StartCctor(t)
  PROVE  IInv'
  <1> DEFINE c == Top(t).of
             f == [Top(t) EXCEPT !.at = "cctor"]
  <1>1. /\ At(t, "create_manual", "start") /\ cctor_started' = cctor_started \union {c} /\ With(t, f)
        /\ UNCHANGED lookup_vars /\ UNCHANGED threw /\ cctor_finished' = cctor_finished
    BY DEF StartCctor, Goto
  <1>2. /\ stack[t] # <<>> /\ Top(t).fn = "create_manual" /\ Top(t).at = "start"
        /\ Top(t) \in Frames /\ Shape(Top(t)) /\ c \in AllClasses /\ DataTyped
    BY <1>1, ManualTop
  <1>3. f \in Frames /\ Same(Top(t), f) /\ f.at = "cctor"
    BY <1>2, FrameAt DEF Labels
  <1> HIDE DEF f
  <1>4. Shape(f) /\ f.of = c
    BY <1>2, <1>3, ManualShape DEF Same
  <1>5. cctor_started' \subseteq AllClasses /\ cctor_finished' \subseteq AllClasses
    BY <1>1, <1>2 DEF DataTyped
  <1> QED
    BY <1>1, <1>2, <1>3, <1>4, <1>5, OwnStep

(* A .cctor that returns keeps it. *)
LEMMA CctorReturnsStep ==
  ASSUME IInv, NEW t \in Threads, CctorReturns(t)
  PROVE  IInv'
  <1> DEFINE c == Top(t).of
  <1>1. At(t, "create_manual", "cctor") /\ cctor_finished' = cctor_finished \union {c} /\ Answer(t, c)
        /\ UNCHANGED <<lookup_vars, cctor_started, threw>>
    BY DEF CctorReturns
  <1>2. c \in Found
    BY <1>1, ManualTop DEF Found
  <1> QED
    BY <1>1, <1>2, ManualAnswers

(* An exception leaves at least the frame of the .cctor; what stays is the *)
(* beginning of the stack.                                                 *)
LEMMA CctorCut ==
  ASSUME NEW s, StackOK(s), NEW k \in 0 .. Len(s), k < Len(s), NEW started, NEW finished,
         CctorsOK(s, started), ObjectsOK(s, started, finished), NEW built
  PROVE  LET r == SubSeq(s, 1, k)
         IN  StackOK(r) /\ CctorsOK(r, started) /\ ObjectsOK(r, started, finished) /\ FillOK(r, built)
  <1> DEFINE r == SubSeq(s, 1, k)
  <1>1. StackOK(r)
    BY StackCut
  <1>2. s \in Seq(Frames) /\ Len(s) \in Nat /\ k \in Nat
    BY DEF StackOK
  <1>3. r \in Seq(Frames) /\ Len(r) = k /\ \A d \in 1 .. k : r[d] = s[d]
    BY <1>2, CutTop
  <1> HIDE DEF r
  <1>4. \A d \in 1 .. k : d \in 1 .. Len(s) /\ d \in 1 .. (Len(s) - 1)
    BY <1>2
  <1>5. CctorsOK(r, started) /\ ObjectsOK(r, started, finished)
    BY <1>3, <1>4 DEF CctorsOK, ObjectsOK
  <1>6. FillOK(r, built)
    <2> SUFFICES ASSUME r # <<>> PROVE Last(r).at # "fill"
      BY DEF FillOK
    <2>1. Last(r) = r[k] /\ k \in 1 .. k
      BY <1>3, TopOf
    <2>2. s[k].at \in CallLabels
      BY <1>4, <2>1, BelowTop
    <2> QED
      BY <1>3, <2>1, <2>2 DEF CallLabels
  <1> QED
    BY <1>1, <1>5, <1>6 DEF r

(* So does an exception that unwinds up to a frame, if no other .cctor is  *)
(* left.                                                                   *)
LEMMA UnwindStep ==
  ASSUME IInv, NEW t \in Threads, At(t, "create_manual", "cctor"), NEW k \in 0 .. Len(stack[t]), k < Len(stack[t]),
         stack' = [stack EXCEPT ![t] = SubSeq(stack[t], 1, k)],
         \A d \in (k + 1) .. (Len(stack[t]) - 1) : stack[t][d].fn # "create_manual",
         UNCHANGED <<lookup_vars, cctor_started, cctor_finished>>, threw' = threw \union {Top(t).of}
  PROVE  IInv'
  <1> DEFINE s == stack[t]
             r == SubSeq(s, 1, k)
             n == Len(s)
  <1>0. PICK c : c = Top(t).of
    OBVIOUS
  <1>1. s # <<>> /\ c \in AllClasses /\ DataTyped /\ StackOK(s) /\ Top(t) = Last(s)
    BY <1>0, ManualTop
  <1>2. ObjectsOK(s, cctor_started, cctor_finished) /\ CctorsOK(s, cctor_started) /\ Started /\ Typed
    BY DEF IInv
  <1>3. StackOK(r) /\ CctorsOK(r, cctor_started) /\ ObjectsOK(r, cctor_started, cctor_finished) /\ FillOK(r, tables')
    BY <1>1, <1>2, CctorCut
  <1>4. s \in Seq(Frames) /\ n \in Nat /\ n >= 1 /\ Last(s) = s[n] /\ k \in Nat
    BY <1>1, TopOf DEF StackOK
  <1>5. r \in Seq(Frames) /\ Len(r) = k /\ \A d \in 1 .. k : r[d] = s[d]
    BY <1>4, CutTop
  <1> HIDE DEF r
  <1>6. threw' \subseteq AllClasses
    BY <1>0, <1>1 DEF DataTyped
  <1>7. DataTyped'
    BY <1>1, <1>6 DEF DataTyped, lookup_vars, plain_names
  <1>8. TablesKept
    BY DEF TablesKept, lookup_vars
  <1>9. \A x : x # c /\ Running(x) => Running(x)'
    <2> SUFFICES ASSUME NEW x, x # c, Running(x) PROVE Running(x)'
      OBVIOUS
    <2>1. \A d \in (k + 1) .. n : d = n \/ d \in (k + 1) .. (n - 1)
      BY <1>4
    <2>2. \A d \in (k + 1) .. n : ~(s[d].fn = "create_manual" /\ s[d].at = "cctor" /\ s[d].of = x)
      BY <1>0, <1>1, <1>4, <2>1
    <2>3. Len(r) >= k /\ Len(r) \in Nat
      BY <1>4, <1>5
    <2>4. KeepsRunning(s, r, x)
      BY <1>1, <1>5, <2>2, <2>3, OthersRun
    <2> QED
      BY <1>2, <1>5, <2>4, StillRunning DEF r
  <1>10. Started'
    <2> SUFFICES ASSUME NEW x \in cctor_started' \ threw' PROVE crashed' \/ Running(x)' \/ x \in cctor_finished'
      BY DEF Started
    <2>1. UNCHANGED crashed
      BY DEF lookup_vars
    <2>2. x # c /\ x \in cctor_started \ threw
      BY <1>0
    <2>3. crashed \/ Running(x) \/ x \in cctor_finished
      BY <1>2, <2>2 DEF Started
    <2> QED
      BY <1>9, <2>1, <2>2, <2>3
  <1>11. cctor_started \subseteq cctor_started' /\ cctor_finished \subseteq cctor_finished'
         /\ CctorsOK(r, cctor_started') /\ ObjectsOK(r, cctor_started', cctor_finished')
    BY <1>3
  <1> QED
    BY <1>3, <1>7, <1>8, <1>10, <1>11, OneStack DEF r

(* So does a .cctor that throws, whoever catches it. *)
LEMMA CctorThrowsStep ==
  ASSUME IInv, NEW t \in Threads, CctorThrows(t)
  PROVE  IInv'
  <1> DEFINE s == stack[t]
             n == Len(s)
  <1>1. /\ At(t, "create_manual", "cctor") /\ threw' = threw \union {Top(t).of} /\ Unwound(t, n - 1)
        /\ UNCHANGED <<loaded, names_to_classes, tables, statics, guards, asked, cctor_started, cctor_finished>>
    BY DEF CctorThrows
  <1>2. s # <<>> /\ Top(t).of \in AllClasses /\ DataTyped /\ StackOK(s)
    BY <1>1, ManualTop
  <1>3. n \in Nat /\ n >= 1 /\ s \in Seq(Frames)
    BY <1>2, TopOf DEF StackOK
  <1>4. CASE Crash
    <2>1. crashed' = TRUE /\ stack' = [u \in Threads |-> <<>>]
      BY <1>4 DEF Crash
    <2>2. threw' \subseteq AllClasses
      BY <1>1, <1>2 DEF DataTyped
    <2>3. DataTyped'
      BY <1>1, <1>2, <2>1, <2>2 DEF DataTyped, plain_names
    <2> QED
      BY <1>1, <2>1, <2>3, CrashStep
  <1>5. CASE n - 1 > 0 /\ s[n - 1].fn = "new_ctor" /\ UNCHANGED crashed
             /\ stack' = [stack EXCEPT ![t] = SubSeq(s, 1, n - 1 - 1)]
    <2>1. n - 1 - 1 \in 0 .. n /\ n - 1 - 1 < n
      BY <1>3, <1>5
    <2>2. \A d \in (n - 1 - 1 + 1) .. (n - 1) : d = n - 1
      BY <1>3
    <2>3. \A d \in (n - 1 - 1 + 1) .. (n - 1) : s[d].fn # "create_manual"
      BY <1>5, <2>2
    <2>4. UNCHANGED <<lookup_vars, cctor_started, cctor_finished>>
      BY <1>1, <1>5 DEF lookup_vars
    <2> QED
      BY <1>1, <1>5, <2>1, <2>3, <2>4, UnwindStep
  <1>6. CASE UNCHANGED crashed /\ stack' = [stack EXCEPT ![t] = SubSeq(s, 1, n - 1)]
    <2>1. n - 1 \in 0 .. n /\ n - 1 < n
      BY <1>3
    <2>2. \A d \in (n - 1 + 1) .. (n - 1) : FALSE
      BY <1>3
    <2>3. UNCHANGED <<lookup_vars, cctor_started, cctor_finished>>
      BY <1>1, <1>6 DEF lookup_vars
    <2>4. \A d \in (n - 1 + 1) .. (n - 1) : s[d].fn # "create_manual"
      BY <2>2
    <2> QED
      BY <1>1, <1>6, <2>1, <2>3, <2>4, UnwindStep
  <1> QED
    BY <1>1, <1>4, <1>5, <1>6 DEF Unwound

--------------------------------------------------------------------------------
(* The invariant holds at first. *)
LEMMA Initially ==
  ASSUME Init
  PROVE  IInv
  <1>1. \A t \in Threads : stack[t] = <<>>
    BY DEF Init, LookupInit
  <1>2. \A d \in 1 .. 0 : FALSE
    OBVIOUS
  <1>3. StackOK(<<>>) /\ CctorsOK(<<>>, cctor_started) /\ ObjectsOK(<<>>, cctor_started, cctor_finished)
        /\ FillOK(<<>>, tables)
    BY <1>2, StackEmpty DEF CctorsOK, ObjectsOK, FillOK
  <1>4. stack \in [Threads -> Seq(Frames)]
    BY DEF Init, LookupInit
  <1>5. /\ loaded \in 0 .. Len(Assemblies) /\ names_to_classes = <<>> /\ crashed \in BOOLEAN
        /\ tables \in [DOMAIN Assemblies -> SUBSET (Names \union {<<>>})]
        /\ \A i \in DOMAIN Assemblies : tables[i] = Unbuilt
        /\ statics \in [Types -> Found] /\ guards \in [Types -> {"unset", "running", "done"}]
        /\ asked \in [Types -> Nat]
    BY LoadedAssumption DEF Init, LookupInit, Unbuilt, Found
  <1>6. DOMAIN names_to_classes = {}
    BY <1>2, <1>5
  <1>7. cctor_started = {} /\ threw = {} /\ cctor_finished = {c \in AllClasses : ~has_cctor(c)}
    BY DEF Init
  <1>8. DataTyped
    BY <1>5, <1>6, <1>7 DEF DataTyped
  <1>9. Started
    BY <1>7 DEF Started
  <1> QED
    BY <1>1, <1>3, <1>4, <1>7, <1>8, <1>9 DEF IInv, Typed

(* It is about the variables only. *)
LEMMA Stuttering ==
  ASSUME IInv, UNCHANGED vars
  PROVE  IInv'
  <1>1. UNCHANGED <<loaded, names_to_classes, tables, statics, guards, asked, crashed, stack, cctor_started,
                    cctor_finished, threw>>
    BY DEF vars, lookup_vars, creation_vars
  <1>2. DataTyped'
    BY <1>1 DEF IInv, Typed, DataTyped, plain_names
  <1>3. Started'
    BY <1>1 DEF IInv, Started, Running
  <1>4. Typed'
    BY <1>1, <1>2 DEF IInv, Typed
  <1> QED
    BY <1>1, <1>3, <1>4 DEF IInv

(* Every step keeps it. *)
LEMMA Steps ==
  ASSUME IInv, [Next]_vars
  PROVE  IInv'
  <1> DEFINE Goal == IInv'
  <1> SUFFICES Goal
    OBVIOUS
  <1>1. ASSUME NEW t \in Threads, Calling(t), UNCHANGED creation_vars PROVE Goal
    BY <1>1, CallingStep
  <1>2. ASSUME NEW t \in Threads, LookUp(t), UNCHANGED creation_vars PROVE Goal
    BY <1>2, LookUpStep
  <1>3. ASSUME NEW t \in Threads, Search(t), UNCHANGED creation_vars PROVE Goal
    BY <1>3, SearchStep
  <1>4. ASSUME NEW t \in Threads, find_nested(t), UNCHANGED creation_vars PROVE Goal
    BY <1>4, NestedStep
  <1>5. ASSUME NEW t \in Threads, Store(t), UNCHANGED creation_vars PROVE Goal
    BY <1>5, StoreStep
  <1>6. ASSUME NEW t \in Threads, Return(t), UNCHANGED creation_vars PROVE Goal
    BY <1>6, ReturnStep
  <1>7. ASSUME NEW t \in Threads, ReadStatic(t), UNCHANGED creation_vars PROVE Goal
    BY <1>7, ReadStaticStep
  <1>8. ASSUME NEW t \in Threads, BeginStatic(t), UNCHANGED creation_vars PROVE Goal
    BY <1>8, BeginStaticStep
  <1>9. ASSUME NEW t \in Threads, EndStatic(t), UNCHANGED creation_vars PROVE Goal
    BY <1>9, EndStaticStep
  <1>10. ASSUME NEW t \in Threads, AskElement(t), UNCHANGED creation_vars PROVE Goal
    BY <1>10, AskElementStep
  <1>11. ASSUME NEW t \in Threads, MakeArray(t), UNCHANGED creation_vars PROVE Goal
    BY <1>11, MakeArrayStep
  <1>12. ASSUME NEW t \in Threads, AskBase(t), UNCHANGED creation_vars PROVE Goal
    BY <1>12, AskBaseStep
  <1>13. ASSUME NEW t \in Threads, AskArgument(t), UNCHANGED creation_vars PROVE Goal
    BY <1>13, AskArgumentStep
  <1>14. ASSUME NEW t \in Threads, make_generic(t), UNCHANGED creation_vars PROVE Goal
    BY <1>14, GenericStep
  <1>15. ASSUME NEW t \in Threads, NextImage(t), UNCHANGED creation_vars PROVE Goal
    BY <1>15, NextImageStep
  <1>16. ASSUME NEW t \in Threads, add_type_to_name(t), UNCHANGED creation_vars PROVE Goal
    BY <1>16, FillStep
  <1>17. ASSUME NEW t \in Threads, AskClass(t) PROVE Goal
    BY <1>17, AskClassStep
  <1>18. ASSUME NEW t \in Threads, Create(t) PROVE Goal
    BY <1>18, CreateStep
  <1>19. ASSUME NEW t \in Threads, Construct(t) PROVE Goal
    BY <1>19, ConstructStep
  <1>20. ASSUME NEW t \in Threads, CreateManual(t) PROVE Goal
    BY <1>20, CreateManualStep
  <1>21. ASSUME NEW t \in Threads, StartCctor(t) PROVE Goal
    BY <1>21, StartCctorStep
  <1>22. ASSUME NEW t \in Threads, NestedCreate(t) PROVE Goal
    BY <1>22, NestedCreateStep
  <1>23. ASSUME NEW t \in Threads, CctorReturns(t) PROVE Goal
    BY <1>23, CctorReturnsStep
  <1>24. ASSUME NEW t \in Threads, CctorThrows(t) PROVE Goal
    BY <1>24, CctorThrowsStep
  <1>25. ASSUME LoadAssembly, UNCHANGED creation_vars PROVE Goal
    BY <1>25, LoadStep
  <1>26. CASE UNCHANGED vars
    BY <1>26, Stuttering
  <1> HIDE DEF Goal
  <1> QED
    BY <1>1, <1>2, <1>3, <1>4, <1>5, <1>6, <1>7, <1>8, <1>9, <1>10, <1>11, <1>12, <1>13, <1>14, <1>15, <1>16,
       <1>17, <1>18, <1>19, <1>20, <1>21, <1>22, <1>23, <1>24, <1>25, <1>26 DEF Next, Gone

(* The inductive invariant holds, whether or not log_classes runs alone.   *)
THEOREM Invariance == Spec => []IInv
  BY Initially, Steps, PTL DEF Spec

(* Every variable has a value of its type, for any number of threads,      *)
(* assemblies and nested calls: what is cached, kept in a static or handed *)
(* from frame to frame is a class of some assembly or null.                *)
THEOREM TypeCorrect == Spec => []TypeOK
  <1>1. IInv => TypeOK
    <2> SUFFICES ASSUME IInv PROVE TypeOK
      OBVIOUS
    <2>1. DataTyped /\ \A t \in Threads : stack[t] \in Seq(Frames)
      BY DEF IInv, Typed
    <2>2. \A t \in Threads : \A d \in DOMAIN stack[t] : stack[t][d].found \in AllClasses \union {Null}
      <3> SUFFICES ASSUME NEW t \in Threads, NEW d \in DOMAIN stack[t] PROVE stack[t][d].found \in Found
        BY DEF Found
      <3>1. stack[t][d] \in Frames
        BY <2>1
      <3> QED
        BY <3>1 DEF Frames
    <2> QED
      BY <2>1, <2>2 DEF TypeOK, DataTyped, Found
  <1> QED
    BY <1>1, Invariance, PTL

(* No thread enters a class's .cctor while it is in it, however deep the   *)
(* .cctors and the objects they make are nested, whatever is thrown: the   *)
(* flag is set between looking at it and the call.                         *)
THEOREM CctorIsNotReentered == Spec => []CctorNotReentered
  <1>1. IInv => CctorNotReentered
    <2> SUFFICES ASSUME IInv, NEW t \in Threads, NEW d \in DOMAIN stack[t], NEW e \in DOMAIN stack[t],
                        stack[t][d].at = "cctor", stack[t][e].at = "cctor", stack[t][d].of = stack[t][e].of
                 PROVE  d = e
      BY DEF CctorNotReentered
    <2>1. CctorsOK(stack[t], cctor_started) /\ DOMAIN stack[t] = 1 .. Len(stack[t])
      BY DEF IInv, Typed
    <2> QED
      BY <2>1 DEF CctorsOK
  <1> QED
    BY <1>1, Invariance, PTL

(* create_manual hands out objects of classes whose .cctor somebody has    *)
(* started, and a started .cctor that has not thrown and that nobody is in *)
(* is finished.                                                            *)
THEOREM ObjectsAreReady == Spec => []ReadyWhenQuiet
  <1>1. IInv => ReadyWhenQuiet
    <2> SUFFICES ASSUME IInv PROVE ReadyWhenQuiet
      OBVIOUS
    <2>1. ASSUME NEW t \in Threads, Returning(t, "create_manual"), Top(t).found # Null
          PROVE  Top(t).of \in cctor_started \union cctor_finished
      <3>1. stack[t] # <<>> /\ Top(t).fn = "create_manual" /\ Top(t).at = "return"
        BY <2>1 DEF Returning
      <3>2. stack[t] \in Seq(Frames) /\ ObjectsOK(stack[t], cctor_started, cctor_finished)
        BY DEF IInv, Typed
      <3>3. Len(stack[t]) \in 1 .. Len(stack[t]) /\ Top(t) = stack[t][Len(stack[t])]
        BY <3>1, <3>2, TopOf DEF Top
      <3> QED
        BY <2>1, <3>1, <3>2, <3>3 DEF ObjectsOK
    <2> QED
      BY <2>1 DEF ReadyWhenQuiet, IInv, Started
  <1> QED
    BY <1>1, Invariance, PTL

--------------------------------------------------------------------------------
(***************************************************************************)
(* Lookups answer what a search of the assemblies would find, while        *)
(* assemblies are loaded and every thread looks up, caches and creates: as *)
(* long as log_classes runs while no other call does (LogsAlone).          *)
(*                                                                         *)
(* Once some assembly has a name, assemblies that are loaded later do not  *)
(* change what is found (Stays): a class is the answer for good, and null  *)
(* is right for the assemblies there were when the lookup began.  A nested *)
(* name's frame and an initialization wait for a lookup that began after   *)
(* them (WaitOK), so a null of the callee will do for the caller.          *)
(***************************************************************************)

(* The m-th assembly is the first that has the outermost class of name.    *)
First(m, name) ==
  /\ m \in 1 .. Len(Assemblies)
  /\ <<Head(name)>> \in Assemblies[m]
  /\ \A j \in 1 .. (m - 1) : <<Head(name)>> \notin Assemblies[j]

(* An answer of a lookup that began with n assemblies, when there are l.   *)
AnswerFor(c, name, n, l) ==
  /\ c \in {Null, first_match(l, name)}
  /\ c = Null => first_match(n, name) = Null

FrameOK(f, l, g) ==
  /\ f.fn = "get_class_from_name" =>
       /\ f.since \in 0 .. l
       /\ f.at = "lookup" => f.i = 1
       /\ f.at = "search" =>
            f.since <= f.n /\ f.n <= l /\ \A j \in 1 .. (f.i - 1) : f.of.name \notin Assemblies[j]
       /\ f.at = "store" => f.found = first_match(l, f.of.name)
       /\ f.at = "return" => AnswerFor(f.found, f.of.name, f.since, l)
  /\ (f.fn = "class_of" /\ f.at = "initialize") => g[f.of] # "unset"

(* What f waits for began after it did.                                    *)
WaitOK(f, callee, a) ==
  /\ (f.fn = "get_class_from_name" /\ f.at = "nested") => callee.since >= f.since
  /\ (f.fn = "class_of" /\ f.at = "initialize") => callee.since >= a[f.of]

(* What the callee has left in the frame that waited.                      *)
TopOK(f, l, a) ==
  /\ (f.fn = "get_class_from_name" /\ f.at = "nested") => AnswerFor(f.found, <<Head(f.of.name)>>, f.since, l)
  /\ (f.fn = "class_of" /\ f.at = "initialize") => a[f.of] \in 0 .. l /\ AnswerFor(f.found, f.of.name, a[f.of], l)

Correct(s, l, g, a) ==
  /\ \A d \in 1 .. Len(s) : FrameOK(s[d], l, g)
  /\ \A d \in 1 .. (Len(s) - 1) : WaitOK(s[d], s[d + 1], a)
  /\ s # <<>> => TopOK(Last(s), l, a)

DataOK ==
  /\ \A k \in DOMAIN names_to_classes : names_to_classes[k] = first_match(loaded, k)
  /\ \A T \in Types : T.form = "plain" => statics[T] \in {Null, first_match(loaded, T.name)}
  /\ \A T \in Types : (guards[T] = "done" /\ statics[T] = Null) => first_match(asked[T], T.name) = Null

Logs(s) == s # <<>> /\ Last(s).fn = "log_classes"

Complete(built, i) == built[i] \in {Unbuilt, plain_names(i)}

(* Only the table that log_classes fills can lack a name.                  *)
TablesOK ==
  \A i \in DOMAIN Assemblies :
    \/ Complete(tables, i)
    \/ \E t \in Threads : stack[t] # <<>> /\ Last(stack[t]).at = "fill" /\ Last(stack[t]).i = i

Alone == \A t, u \in Threads : Logs(stack[t]) /\ u # t => stack[u] = <<>>

CInv ==
  /\ \A t \in Threads : Correct(stack[t], loaded, guards, asked)
  /\ DataOK /\ TablesOK /\ Alone

--------------------------------------------------------------------------------
(* What a search finds. *)
LEMMA Least ==
  ASSUME NEW S, S \subseteq Nat, S # {}
  PROVE  \E m \in S : \A k \in S : m <= k
  <1> DEFINE R == OpToRel(<, Nat)
  <1>1. IsWellFoundedOn(R, Nat)
    BY NatLessThanWellFounded
  <1>2. \A x, y \in Nat : y < x => <<y, x>> \in R
    BY DEF OpToRel
  <1> HIDE DEF R
  <1>3. PICK x \in S : \A y \in S : ~(<<y, x>> \in R)
    BY <1>1, WFMin
  <1>4. ASSUME NEW y \in S PROVE x <= y
    <2>1. x \in Nat /\ y \in Nat
      OBVIOUS
    <2>2. ~(y < x)
      BY <1>2, <1>3, <2>1
    <2> QED
      BY <2>1, <2>2
  <1> QED
    BY <1>4

(* The first match, when some assembly has the outermost class. *)
LEMMA FirstIs ==
  ASSUME NEW n \in Nat, NEW name, NEW m \in 1 .. n, First(m, name)
  PROVE  first_match(n, name) = IF name \in Assemblies[m] THEN Class(m, name, "plain") ELSE Null
  <1> DEFINE having == {i \in 1 .. n : <<Head(name)>> \in Assemblies[i]}
  <1>1. m \in having
    BY DEF First
  <1>2. ASSUME NEW i \in having PROVE m <= i
    <2>1. i \in Nat /\ m \in Nat /\ i >= 1 /\ <<Head(name)>> \in Assemblies[i]
      OBVIOUS
    <2>2. i \notin 1 .. (m - 1)
      BY <2>1 DEF First
    <2> QED
      BY <2>1, <2>2
  <1>3. \A x \in having : (\A y \in having : x <= y) => x = m
    <2> SUFFICES ASSUME NEW x \in having, \A y \in having : x <= y PROVE x = m
      OBVIOUS
    <2>1. x <= m /\ m <= x /\ x \in Nat /\ m \in Nat
      BY <1>1, <1>2
    <2> QED
      BY <2>1
  <1> HIDE DEF having
  <1>4. Min(having) = m
    BY <1>1, <1>2, <1>3 DEF Min
  <1> QED
    BY <1>1, <1>4 DEF first_match, having

(* There is none when no assembly has it. *)
LEMMA NoneIs ==
  ASSUME NEW n \in Nat, NEW name, \A i \in 1 .. n : <<Head(name)>> \notin Assemblies[i]
  PROVE  first_match(n, name) = Null
  BY DEF first_match

(* One or the other. *)
LEMMA FirstOrNone ==
  ASSUME NEW n \in 0 .. Len(Assemblies), NEW name
  PROVE  (\E m \in 1 .. n : First(m, name)) \/ \A i \in 1 .. n : <<Head(name)>> \notin Assemblies[i]
  <1> DEFINE having == {i \in 1 .. n : <<Head(name)>> \in Assemblies[i]}
  <1>0. Len(Assemblies) \in Nat /\ n \in Nat
    BY AssembliesAssumption
  <1> SUFFICES ASSUME having # {} PROVE \E m \in 1 .. n : First(m, name)
    OBVIOUS
  <1>1. having \subseteq Nat
    BY <1>0
  <1> HIDE DEF having
  <1>2. PICK m \in having : \A k \in having : m <= k
    BY <1>1, Least
  <1>3. m \in 1 .. n /\ <<Head(name)>> \in Assemblies[m]
    BY DEF having
  <1>4. ASSUME NEW j \in 1 .. (m - 1) PROVE <<Head(name)>> \notin Assemblies[j]
    <2>1. j \in 1 .. n /\ ~(m <= j)
      BY <1>0, <1>3
    <2> QED
      BY <1>2, <2>1 DEF having
  <1>5. m \in 1 .. Len(Assemblies)
    BY <1>0, <1>3
  <1> QED
    BY <1>3, <1>4, <1>5 DEF First

(* A class is not null. *)
LEMMA ClassIsSome ==
  ASSUME NEW m, m \in 1 .. Len(Assemblies), NEW name
  PROVE  Class(m, name, "plain") # Null
  <1>1. m # 0
    BY AssembliesAssumption
  <1> QED
    BY <1>1 DEF Class, Null

(* What has been found is found for good, whatever is loaded later.        *)
LEMMA Stays ==
  ASSUME NEW n \in 0 .. Len(Assemblies), NEW l \in 0 .. Len(Assemblies), n <= l, NEW name
  PROVE  /\ first_match(n, name) # Null => first_match(l, name) = first_match(n, name)
         /\ first_match(l, name) = Null => first_match(n, name) = Null
  <1>0. Len(Assemblies) \in Nat /\ n \in Nat /\ l \in Nat
    BY AssembliesAssumption
  <1>1. CASE \E m \in 1 .. n : First(m, name)
    <2>1. PICK m \in 1 .. n : First(m, name)
      BY <1>1
    <2>2. m \in 1 .. l
      BY <1>0
    <2>3. first_match(l, name) = first_match(n, name)
      BY <1>0, <2>1, <2>2, FirstIs
    <2> QED
      BY <2>3
  <1>2. CASE \A i \in 1 .. n : <<Head(name)>> \notin Assemblies[i]
    BY <1>0, <1>2, NoneIs
  <1> QED
    BY <1>1, <1>2, FirstOrNone

(* An answer is one for a lookup that began earlier, and when more is loaded. *)
LEMMA AnswerStays ==
  ASSUME NEW n \in 0 .. Len(Assemblies), NEW l \in 0 .. Len(Assemblies), NEW m \in 0 .. Len(Assemblies), n <= m,
         NEW k \in 0 .. Len(Assemblies), l <= k, NEW c, NEW name, AnswerFor(c, name, m, l)
  PROVE  AnswerFor(c, name, n, k)
  <1>1. first_match(m, name) = Null => first_match(n, name) = Null
    BY Stays
  <1>2. first_match(l, name) # Null => first_match(k, name) = first_match(l, name)
    BY Stays
  <1> QED
    BY <1>1, <1>2 DEF AnswerFor

(* The class a nested name is in is in the first assembly that has it.     *)
LEMMA NestedMatch ==
  ASSUME NEW n \in 0 .. Len(Assemblies), NEW name \in NameSeq, name # <<>>
  PROVE  LET outer == first_match(n, <<Head(name)>>)
         IN  /\ outer = Null => first_match(n, name) = Null
             /\ outer # Null =>
                  first_match(n, name) =
                    IF name \in Assemblies[outer.assembly] THEN Class(outer.assembly, name, "plain") ELSE Null
  <1> DEFINE k == <<Head(name)>>
  <1>0. n \in Nat /\ Head(k) = Head(name)
    BY AssembliesAssumption
  <1>1. CASE \E m \in 1 .. n : First(m, name)
    <2>1. PICK m \in 1 .. n : First(m, name)
      BY <1>1
    <2>2. First(m, k) /\ k \in Assemblies[m] /\ m \in 1 .. Len(Assemblies)
      BY <1>0, <2>1 DEF First
    <2>3. first_match(n, k) = Class(m, k, "plain")
      BY <1>0, <2>2, FirstIs
    <2>4. Class(m, k, "plain").assembly = m /\ Class(m, k, "plain") # Null
      BY <2>2, ClassIsSome DEF Class
    <2>5. first_match(n, name) = IF name \in Assemblies[m] THEN Class(m, name, "plain") ELSE Null
      BY <1>0, <2>1, FirstIs
    <2> QED
      BY <2>3, <2>4, <2>5
  <1>2. CASE \A i \in 1 .. n : <<Head(name)>> \notin Assemblies[i]
    <2>1. first_match(n, k) = Null /\ first_match(n, name) = Null
      BY <1>0, <1>2, NoneIs
    <2> QED
      BY <2>1
  <1> QED
    BY <1>1, <1>2, FirstOrNone

(* A name of one part is its own outermost class.                          *)
LEMMA OwnOuter ==
  ASSUME NEW name \in NameSeq, Len(name) = 1
  PROVE  <<Head(name)>> = name
  BY DEF NameSeq

--------------------------------------------------------------------------------
(* Correct stacks: the same four ways a call goes on, a new call, and what *)
(* other threads change meanwhile.                                         *)
LEMMA CorrectReplaced ==
  ASSUME NEW l, NEW g, NEW a, NEW s, Correct(s, l, g, a), StackOK(s), s # <<>>,
         NEW f \in Frames, Same(Last(s), f), FrameOK(f, l, g), TopOK(f, l, a)
  PROVE  Correct(Append(Front(s), f), l, g, a)
  <1> DEFINE r == Append(Front(s), f)
             n == Len(s)
  <1>1. s \in Seq(Frames) /\ n \in Nat /\ n >= 1 /\ Last(s) = s[n]
    BY TopOf DEF StackOK
  <1>2. r \in Seq(Frames) /\ Len(r) = n /\ r # <<>> /\ r[n] = f /\ \A d \in 1 .. (n - 1) : r[d] = s[d]
    BY <1>1, ReplacedTop
  <1>3. Last(r) = f
    BY <1>2 DEF Last
  <1>4. /\ \A d \in 1 .. n : FrameOK(s[d], l, g)
        /\ \A d \in 1 .. (n - 1) : WaitOK(s[d], s[d + 1], a)
    BY DEF Correct
  <1> HIDE DEF r, n
  <1>5. ASSUME NEW d, d \in 1 .. n PROVE FrameOK(r[d], l, g)
    <2>1. d = n \/ (d \in 1 .. (n - 1) /\ d \in 1 .. n)
      BY <1>1, <1>5
    <2> QED
      BY <1>2, <1>4, <2>1
  <1>6. ASSUME NEW d, d \in 1 .. (n - 1) PROVE WaitOK(r[d], r[d + 1], a)
    <2>1. r[d] = s[d] /\ WaitOK(s[d], s[d + 1], a)
      BY <1>2, <1>4, <1>6
    <2>2. d + 1 = n \/ d + 1 \in 1 .. (n - 1)
      BY <1>1, <1>6
    <2>3. r[d + 1].since = s[d + 1].since
      BY <1>1, <1>2, <2>2 DEF Same
    <2> QED
      BY <2>1, <2>3 DEF WaitOK
  <1> QED
    BY <1>2, <1>3, <1>5, <1>6 DEF Correct, r

(* A call keeps a stack correct, if the caller waits for a lookup that     *)
(* began late enough.                                                      *)
LEMMA CorrectPushed ==
  ASSUME NEW l, NEW g, NEW a, NEW s, Correct(s, l, g, a), StackOK(s), s # <<>>,
         NEW f \in Frames, Same(Last(s), f), FrameOK(f, l, g),
         NEW h \in Frames, FrameOK(h, l, g), WaitOK(f, h, a), TopOK(h, l, a)
  PROVE  Correct(Append(Append(Front(s), f), h), l, g, a)
  <1> DEFINE r == Append(Append(Front(s), f), h)
             n == Len(s)
  <1>1. s \in Seq(Frames) /\ n \in Nat /\ n >= 1 /\ Last(s) = s[n]
    BY TopOf DEF StackOK
  <1>2. /\ r \in Seq(Frames) /\ Len(r) = n + 1 /\ r # <<>> /\ r[n] = f /\ r[n + 1] = h
        /\ \A d \in 1 .. (n - 1) : r[d] = s[d]
    BY <1>1, PushedTop
  <1>3. Last(r) = h
    BY <1>2 DEF Last
  <1>4. /\ \A d \in 1 .. n : FrameOK(s[d], l, g)
        /\ \A d \in 1 .. (n - 1) : WaitOK(s[d], s[d + 1], a)
    BY DEF Correct
  <1> HIDE DEF r, n
  <1>5. ASSUME NEW d, d \in 1 .. (n + 1) PROVE FrameOK(r[d], l, g)
    <2>1. d = n + 1 \/ d = n \/ (d \in 1 .. (n - 1) /\ d \in 1 .. n)
      BY <1>1, <1>5
    <2> QED
      BY <1>2, <1>4, <2>1
  <1>6. ASSUME NEW d, d \in 1 .. n PROVE WaitOK(r[d], r[d + 1], a)
    <2>1. CASE d = n
      BY <1>2, <2>1
    <2>2. CASE d # n
      <3>1. d \in 1 .. (n - 1) /\ (d + 1 = n \/ d + 1 \in 1 .. (n - 1))
        BY <1>1, <1>6, <2>2
      <3>2. r[d] = s[d] /\ WaitOK(s[d], s[d + 1], a)
        BY <1>2, <1>4, <3>1
      <3>3. r[d + 1].since = s[d + 1].since
        BY <1>1, <1>2, <3>1 DEF Same
      <3> QED
        BY <3>2, <3>3 DEF WaitOK
    <2> QED
      BY <2>1, <2>2
  <1>7. Len(r) - 1 = n
    BY <1>1, <1>2
  <1>8. Correct(r, l, g, a)
    <2>1. \A d \in 1 .. Len(r) : FrameOK(r[d], l, g)
      BY <1>2, <1>5
    <2>2. \A d \in 1 .. (Len(r) - 1) : WaitOK(r[d], r[d + 1], a)
      BY <1>6, <1>7
    <2>3. TopOK(Last(r), l, a)
      BY <1>3
    <2> QED
      BY <2>1, <2>2, <2>3 DEF Correct
  <1> QED
    BY <1>8 DEF r

(* The callee's answer does for the frame that waited.                     *)
LEMMA AnswerTaken ==
  ASSUME NEW l \in 0 .. Len(Assemblies), NEW g, NEW a \in [Types -> Nat],
         NEW f \in Frames, NEW h \in Frames, Shape(f), Shape(h), Link(f, h), h.at = "return",
         FrameOK(f, l, g), FrameOK(h, l, g), WaitOK(f, h, a)
  PROVE  LET r == [f EXCEPT !.found = h.found]
         IN  r \in Frames /\ Same(f, r) /\ r.at = f.at /\ FrameOK(r, l, g) /\ TopOK(r, l, a)
  <1> DEFINE r == [f EXCEPT !.found = h.found]
  <1>0. h.found \in Found /\ h.since \in Nat /\ f.since \in Nat
    BY DEF Frames
  <1>1. r \in Frames /\ Same(f, r) /\ r.at = f.at /\ r.i = f.i /\ r.n = f.n /\ r.found = h.found
    BY <1>0, FrameFound
  <1> HIDE DEF r
  <1>2. f.at \in CallLabels
    BY LinkAt
  <1>3. FrameOK(r, l, g)
    BY <1>1, <1>2 DEF FrameOK, Same, CallLabels
  <1>4. h.fn = "get_class_from_name" => h.since \in 0 .. l /\ AnswerFor(h.found, h.of.name, h.since, l)
    BY DEF FrameOK
  <1>5. Len(Assemblies) \in Nat /\ l \in Nat /\ l <= Len(Assemblies)
    BY AssembliesAssumption
  <1>6. CASE f.fn = "get_class_from_name" /\ f.at = "nested"
    <2>1. h.fn = "get_class_from_name" /\ h.of.name = <<Head(f.of.name)>> /\ h.since >= f.since
      BY <1>6 DEF Link, WaitOK
    <2>2. h.since \in 0 .. Len(Assemblies) /\ f.since \in 0 .. Len(Assemblies) /\ f.since <= h.since
      BY <1>0, <1>4, <1>5, <2>1
    <2>3. AnswerFor(h.found, <<Head(f.of.name)>>, f.since, l)
      BY <1>4, <1>5, <2>1, <2>2, AnswerStays
    <2> QED
      BY <1>1, <1>3, <1>6, <2>3 DEF TopOK, Same, r
  <1>7. CASE f.fn = "class_of" /\ f.at = "initialize"
    <2>1. h.fn = "get_class_from_name" /\ h.of.name = f.of.name /\ h.since >= a[f.of] /\ f.of \in Types
      BY <1>7 DEF Link, WaitOK, Shape
    <2>2. a[f.of] \in Nat
      BY <2>1
    <2>3. h.since \in 0 .. Len(Assemblies) /\ a[f.of] \in 0 .. Len(Assemblies) /\ a[f.of] \in 0 .. l /\ a[f.of] <= h.since
      BY <1>0, <1>4, <1>5, <2>1, <2>2
    <2>4. AnswerFor(h.found, f.of.name, a[f.of], l)
      BY <1>4, <1>5, <2>1, <2>3, AnswerStays
    <2> QED
      BY <1>1, <1>3, <1>7, <2>3, <2>4 DEF TopOK, Same, r
  <1>8. CASE ~(f.fn = "get_class_from_name" /\ f.at = "nested") /\ ~(f.fn = "class_of" /\ f.at = "initialize")
    BY <1>1, <1>3, <1>8 DEF TopOK, Same, r
  <1> QED
    BY <1>6, <1>7, <1>8

(* A return keeps it correct: the callee's answer is one for the caller. *)
LEMMA CorrectPopped ==
  ASSUME NEW l \in 0 .. Len(Assemblies), NEW g, NEW a \in [Types -> Nat], NEW s, Correct(s, l, g, a),
         StackOK(s), s # <<>>, Last(s).at = "return"
  PROVE  Correct(Pop(s), l, g, a) /\ ~Logs(Pop(s))
  <1> DEFINE r == Pop(s)
             n == Len(s)
  <1>1. s \in Seq(Frames) /\ n \in Nat /\ n >= 1 /\ Last(s) = s[n] /\ \A d \in 1 .. n : s[d] \in Frames /\ Shape(s[d])
    BY TopOf DEF StackOK
  <1>2. /\ r \in Seq(Frames) /\ Len(r) = n - 1
        /\ \A d \in 1 .. (n - 2) : r[d] = s[d]
        /\ n > 1 => r[n - 1] = [s[n - 1] EXCEPT !.found = s[n].found]
        /\ r = <<>> <=> n = 1
    BY <1>1, PoppedTop
  <1>3. /\ \A d \in 1 .. n : FrameOK(s[d], l, g)
        /\ \A d \in 1 .. (n - 1) : WaitOK(s[d], s[d + 1], a)
        /\ \A d \in 1 .. (n - 1) : Link(s[d], s[d + 1])
    BY DEF Correct, StackOK
  <1> HIDE DEF r, n
  <1>4. CASE n = 1
    <2>1. r = <<>> /\ Len(r) = 0 /\ \A d \in 1 .. 0 : FALSE
      BY <1>2, <1>4
    <2>2. Correct(r, l, g, a) /\ ~Logs(r)
      BY <2>1 DEF Correct, Logs
    <2> QED
      BY <2>2 DEF r
  <1>5. CASE n > 1
    <2>1. n \in 1 .. n /\ n - 1 \in 1 .. n /\ n - 1 \in 1 .. (n - 1) /\ n - 1 + 1 = n
      BY <1>1, <1>5
    <2>2. s[n - 1] \in Frames /\ s[n] \in Frames /\ Shape(s[n - 1]) /\ Shape(s[n]) /\ Link(s[n - 1], s[n])
          /\ FrameOK(s[n - 1], l, g) /\ FrameOK(s[n], l, g) /\ WaitOK(s[n - 1], s[n], a) /\ s[n].at = "return"
      BY <1>1, <1>3, <2>1
    <2>3. r[n - 1] \in Frames /\ Same(s[n - 1], r[n - 1]) /\ r[n - 1].at = s[n - 1].at /\ FrameOK(r[n - 1], l, g)
          /\ TopOK(r[n - 1], l, a)
      <3>1. PICK f \in Frames : f = s[n - 1]
        BY <2>2
      <3>2. PICK h \in Frames : h = s[n]
        BY <2>2
      <3>3. r[n - 1] = [f EXCEPT !.found = h.found]
        BY <1>2, <1>5, <3>1, <3>2
      <3>4. [f EXCEPT !.found = h.found] \in Frames /\ Same(f, [f EXCEPT !.found = h.found])
            /\ [f EXCEPT !.found = h.found].at = f.at /\ FrameOK([f EXCEPT !.found = h.found], l, g)
            /\ TopOK([f EXCEPT !.found = h.found], l, a)
        BY <2>2, <3>1, <3>2, AnswerTaken
      <3> QED
        BY <3>1, <3>3, <3>4
    <2>4. Last(r) = r[n - 1] /\ r # <<>>
      BY <1>2, <1>5 DEF Last
    <2>5. ASSUME NEW d, d \in 1 .. (n - 1) PROVE FrameOK(r[d], l, g)
      <3>1. d = n - 1 \/ (d \in 1 .. (n - 2) /\ d \in 1 .. n)
        BY <1>1, <2>5
      <3> QED
        BY <1>2, <1>3, <2>3, <3>1
    <2>6. ASSUME NEW d, d \in 1 .. (n - 2) PROVE WaitOK(r[d], r[d + 1], a)
      <3>1. d \in 1 .. (n - 1) /\ (d + 1 = n - 1 \/ d + 1 \in 1 .. (n - 2))
        BY <1>1, <2>6
      <3>2. r[d] = s[d] /\ WaitOK(s[d], s[d + 1], a)
        BY <1>2, <1>3, <2>6, <3>1
      <3>3. r[d + 1].since = s[d + 1].since
        BY <1>2, <2>3, <3>1 DEF Same
      <3> QED
        BY <3>2, <3>3 DEF WaitOK
    <2>7. Len(r) = n - 1 /\ Len(r) - 1 = n - 2
      BY <1>1, <1>2
    <2>8. Correct(r, l, g, a)
      <3>1. \A d \in 1 .. Len(r) : FrameOK(r[d], l, g)
        BY <2>5, <2>7
      <3>2. \A d \in 1 .. (Len(r) - 1) : WaitOK(r[d], r[d + 1], a)
        BY <2>6, <2>7
      <3> QED
        BY <2>3, <2>4, <3>1, <3>2 DEF Correct
    <2>9. ~Logs(r)
      BY <2>2, <2>3, <2>4 DEF Logs, Link, Same
    <2> QED
      BY <2>8, <2>9 DEF r
  <1> QED
    BY <1>1, <1>4, <1>5

(* An exception leaves a frame that waited for a new_ctor or create_manual,*)
(* which is of no lookup.                                                  *)
LEMMA CorrectCut ==
  ASSUME NEW l, NEW g, NEW a, NEW s, Correct(s, l, g, a), StackOK(s), NEW k \in 0 .. Len(s), k < Len(s),
         s[k + 1].fn \in {"new_ctor", "create_manual"}
  PROVE  Correct(SubSeq(s, 1, k), l, g, a) /\ ~Logs(SubSeq(s, 1, k))
  <1> DEFINE r == SubSeq(s, 1, k)
             n == Len(s)
  <1>1. s \in Seq(Frames) /\ n \in Nat /\ k \in Nat
    BY DEF StackOK
  <1>2. r \in Seq(Frames) /\ Len(r) = k /\ \A d \in 1 .. k : r[d] = s[d]
    BY <1>1, CutTop
  <1>3. /\ \A d \in 1 .. n : FrameOK(s[d], l, g)
        /\ \A d \in 1 .. (n - 1) : WaitOK(s[d], s[d + 1], a)
        /\ \A d \in 1 .. (n - 1) : Link(s[d], s[d + 1])
    BY DEF Correct, StackOK
  <1> HIDE DEF r
  <1>4. ASSUME NEW d, d \in 1 .. k PROVE FrameOK(r[d], l, g)
    <2>1. d \in 1 .. n
      BY <1>1, <1>4
    <2> QED
      BY <1>2, <1>3, <1>4, <2>1
  <1>5. ASSUME NEW d, d \in 1 .. (k - 1) PROVE WaitOK(r[d], r[d + 1], a)
    <2>1. d \in 1 .. (n - 1) /\ d \in 1 .. k /\ d + 1 \in 1 .. k
      BY <1>1, <1>5
    <2> QED
      BY <1>2, <1>3, <2>1
  <1>6. ASSUME r # <<>>
        PROVE  Last(r).fn \notin {"get_class_from_name", "class_of", "log_classes"}
    <2>1. k >= 1 /\ Last(r) = r[k]
      BY <1>2, <1>6, TopOf
    <2>2. k \in 1 .. (n - 1) /\ k \in 1 .. k
      BY <1>1, <2>1
    <2>3. Link(s[k], s[k + 1]) /\ r[k] = s[k]
      BY <1>2, <1>3, <2>2
    <2> QED
      BY <2>1, <2>3 DEF Link
  <1>7. r # <<>> => TopOK(Last(r), l, a)
    BY <1>6 DEF TopOK
  <1>8. ~Logs(r)
    BY <1>6 DEF Logs
  <1>9. Correct(r, l, g, a)
    BY <1>2, <1>4, <1>5, <1>7 DEF Correct
  <1> QED
    BY <1>8, <1>9 DEF r

(* A first call is correct. *)
LEMMA CorrectSingle ==
  ASSUME NEW l, NEW g, NEW a, NEW f \in Frames, FrameOK(f, l, g), TopOK(f, l, a)
  PROVE  Correct(<<f>>, l, g, a) /\ Last(<<f>>) = f
  <1>1. Len(<<f>>) = 1 /\ <<f>>[1] = f /\ Last(<<f>>) = f
    BY DEF Last
  <1>2. \A d \in 1 .. (1 - 1) : FALSE
    OBVIOUS
  <1> QED
    BY <1>1, <1>2 DEF Correct

(* So is no call. *)
LEMMA CorrectEmpty ==
  ASSUME NEW l, NEW g, NEW a
  PROVE  Correct(<<>>, l, g, a) /\ ~Logs(<<>>)
  <1>1. Len(<<>>) = 0 /\ (\A d \in 1 .. 0 : FALSE) /\ (\A d \in 1 .. (0 - 1) : FALSE)
    OBVIOUS
  <1> QED
    BY <1>1 DEF Correct, Logs

(* Assemblies are loaded, and initializations begin and end, under a call. *)
LEMMA CorrectGrown ==
  ASSUME NEW l \in 0 .. Len(Assemblies), NEW k \in 0 .. Len(Assemblies), l <= k, NEW g, NEW g2, NEW a, NEW a2,
         \A T \in Types : g[T] # "unset" => g2[T] # "unset" /\ a2[T] = a[T],
         NEW s, Correct(s, l, g, a), StackOK(s)
  PROVE  Correct(s, k, g2, a2)
  <1>0. Len(Assemblies) \in Nat /\ l \in Nat /\ k \in Nat
    BY AssembliesAssumption
  <1>1. \A d \in 1 .. Len(s) : FrameOK(s[d], l, g) /\ Shape(s[d]) /\ s[d] \in Frames
    BY DEF Correct, StackOK
  <1>2. ASSUME NEW f \in Frames, FrameOK(f, l, g), Shape(f) PROVE FrameOK(f, k, g2)
    <2>1. CASE f.fn = "get_class_from_name"
      <3>1. f.since \in 0 .. l /\ f.since \in 0 .. k /\ f.since \in 0 .. Len(Assemblies) /\ f.since <= f.since
            /\ f.n \in Nat
        BY <1>0, <1>2, <2>1 DEF FrameOK, Frames
      <3>2. f.at = "search" =>
              f.since <= f.n /\ f.n <= k /\ \A j \in 1 .. (f.i - 1) : f.of.name \notin Assemblies[j]
        BY <1>0, <1>2, <2>1, <3>1 DEF FrameOK
      <3>3. f.at = "store" => f.found = first_match(k, f.of.name)
        BY <1>2, <2>1, Stays DEF FrameOK, Shape
      <3>4. f.at = "return" => AnswerFor(f.found, f.of.name, f.since, k)
        <4> SUFFICES ASSUME f.at = "return" PROVE AnswerFor(f.found, f.of.name, f.since, k)
          OBVIOUS
        <4>1. AnswerFor(f.found, f.of.name, f.since, l)
          BY <1>2, <2>1 DEF FrameOK
        <4> QED
          BY <3>1, <4>1, AnswerStays
      <3> QED
        BY <1>2, <2>1, <3>1, <3>2, <3>3, <3>4 DEF FrameOK
    <2>2. CASE f.fn # "get_class_from_name"
      BY <1>2, <2>2 DEF FrameOK, Shape
    <2> QED
      BY <2>1, <2>2
  <1>3. \A d \in 1 .. Len(s) : FrameOK(s[d], k, g2)
    BY <1>1, <1>2
  <1>4. ASSUME NEW f, Shape(f), FrameOK(f, l, g), f.fn = "class_of", f.at = "initialize"
        PROVE  a2[f.of] = a[f.of]
    BY <1>4 DEF FrameOK, Shape
  <1>5. ASSUME NEW d \in 1 .. (Len(s) - 1) PROVE WaitOK(s[d], s[d + 1], a2)
    <2>1. d \in 1 .. Len(s)
      BY DEF StackOK
    <2>2. WaitOK(s[d], s[d + 1], a) /\ Shape(s[d]) /\ FrameOK(s[d], l, g)
      BY <1>1, <2>1 DEF Correct
    <2> QED
      BY <1>4, <2>2 DEF WaitOK
  <1>6. ASSUME s # <<>> PROVE TopOK(Last(s), k, a2)
    <2>0. Len(s) \in 1 .. Len(s) /\ Last(s) = s[Len(s)]
      BY <1>6, TopOf DEF StackOK
    <2> DEFINE f == Last(s)
    <2>1. f \in Frames /\ Shape(f) /\ FrameOK(f, l, g) /\ TopOK(f, l, a)
      BY <1>1, <1>6, <2>0 DEF Correct
    <2> HIDE DEF f
    <2>2. CASE f.fn = "get_class_from_name" /\ f.at = "nested"
      <3>1. f.since \in 0 .. Len(Assemblies) /\ f.since <= f.since /\ AnswerFor(f.found, <<Head(f.of.name)>>, f.since, l)
        BY <1>0, <2>1, <2>2 DEF FrameOK, TopOK
      <3>2. AnswerFor(f.found, <<Head(f.of.name)>>, f.since, k)
        BY <3>1, AnswerStays
      <3> QED
        BY <2>2, <3>2 DEF TopOK, f
    <2>3. CASE f.fn = "class_of" /\ f.at = "initialize"
      <3>1. a2[f.of] = a[f.of] /\ a[f.of] \in 0 .. l /\ AnswerFor(f.found, f.of.name, a[f.of], l)
        BY <1>4, <2>1, <2>3 DEF TopOK
      <3>2. a[f.of] \in 0 .. k /\ a[f.of] \in 0 .. Len(Assemblies) /\ a[f.of] <= a[f.of]
        BY <1>0, <3>1
      <3>3. AnswerFor(f.found, f.of.name, a[f.of], k)
        BY <3>1, <3>2, AnswerStays
      <3> QED
        BY <2>3, <3>1, <3>2, <3>3 DEF TopOK, f
    <2>4. CASE ~(f.fn = "get_class_from_name" /\ f.at = "nested") /\ ~(f.fn = "class_of" /\ f.at = "initialize")
      BY <2>4 DEF TopOK, f
    <2> QED
      BY <2>2, <2>3, <2>4
  <1> QED
    BY <1>3, <1>5, <1>6 DEF Correct

--------------------------------------------------------------------------------
(* Steps of one thread. *)
LEMMA TopCorrect ==
  ASSUME IInv, CInv, NEW t \in Threads, stack[t] # <<>>
  PROVE  /\ FrameOK(Top(t), loaded, guards) /\ TopOK(Top(t), loaded, asked) /\ Top(t) \in Frames /\ Shape(Top(t))
         /\ Correct(stack[t], loaded, guards, asked) /\ StackOK(stack[t]) /\ Top(t) = Last(stack[t])
         /\ loaded \in 0 .. Len(Assemblies) /\ asked \in [Types -> Nat] /\ DataOK
  <1>1. /\ Top(t) = Last(stack[t]) /\ Top(t) \in Frames /\ Shape(Top(t)) /\ StackOK(stack[t])
        /\ loaded \in 0 .. Len(Assemblies) /\ asked \in [Types -> Nat]
    BY TopFacts DEF DataTyped
  <1>2. Len(stack[t]) \in 1 .. Len(stack[t]) /\ Last(stack[t]) = stack[t][Len(stack[t])]
    BY <1>1, TopOf DEF StackOK
  <1>3. Correct(stack[t], loaded, guards, asked) /\ DataOK
    BY DEF CInv
  <1> QED
    BY <1>1, <1>2, <1>3 DEF Correct

(* Nobody fills a table while a thread is in any other call.               *)
LEMMA Settled ==
  ASSUME IInv, CInv, NEW t \in Threads, stack[t] # <<>>, Top(t).at # "fill"
  PROVE  /\ \A i \in DOMAIN Assemblies : Complete(tables, i)
         /\ \A u \in Threads : u # t => ~Logs(stack[u])
  <1>1. \A u \in Threads : u # t => ~Logs(stack[u])
    BY DEF CInv, Alone
  <1>2. ASSUME NEW u \in Threads, stack[u] # <<>>, Last(stack[u]).at = "fill" PROVE FALSE
    <2>1. u # t
      BY <1>2 DEF Top
    <2>2. Shape(Last(stack[u]))
      BY <1>2, TopFacts
    <2>3. Logs(stack[u])
      BY <1>2, <2>2 DEF Shape, Logs
    <2> QED
      BY <1>1, <2>1, <2>3
  <1> QED
    BY <1>1, <1>2 DEF CInv, TablesOK

Grows ==
  /\ loaded <= loaded'
  /\ \A T \in Types : guards[T] # "unset" => guards'[T] # "unset" /\ asked'[T] = asked[T]

StaysComplete == \A i \in DOMAIN Assemblies : Complete(tables, i) => Complete(tables', i)

(* Other threads' stacks stay correct while nothing is forgotten. *)
LEMMA OthersGrow ==
  ASSUME IInv, CInv, IInv', Grows
  PROVE  \A u \in Threads : Correct(stack[u], loaded', guards', asked')
  <1>1. loaded \in 0 .. Len(Assemblies) /\ loaded' \in 0 .. Len(Assemblies)
    BY DEF IInv, Typed, DataTyped
  <1> SUFFICES ASSUME NEW u \in Threads PROVE Correct(stack[u], loaded', guards', asked')
    OBVIOUS
  <1>2. Correct(stack[u], loaded, guards, asked) /\ StackOK(stack[u])
    BY DEF CInv, IInv, Typed
  <1> QED
    BY <1>1, <1>2, CorrectGrown DEF Grows

(* A step of one thread keeps the invariant if its stack and the data are  *)
(* correct.                                                                *)
LEMMA Stepped ==
  ASSUME IInv, CInv, IInv', Grows, DataOK', StaysComplete,
         NEW t \in Threads, stack[t] # <<>>, Top(t).at # "fill",
         NEW r, stack' = [stack EXCEPT ![t] = r], ~Logs(r), Correct(r, loaded', guards', asked')
  PROVE  CInv'
  <1>1. stack'[t] = r /\ \A u \in Threads : u # t => stack'[u] = stack[u]
    BY DEF IInv, Typed
  <1>2. \A u \in Threads : Correct(stack'[u], loaded', guards', asked')
    BY <1>1, OthersGrow
  <1>3. \A i \in DOMAIN Assemblies : Complete(tables', i)
    BY Settled DEF StaysComplete
  <1>4. \A u \in Threads : ~Logs(stack'[u])
    BY <1>1, Settled
  <1>5. TablesOK'
    BY <1>3 DEF TablesOK, Complete, plain_names
  <1>6. Alone'
    BY <1>4 DEF Alone
  <1> QED
    BY <1>2, <1>5, <1>6 DEF CInv

(* So does a frame that goes on correctly. *)
LEMMA Continues ==
  ASSUME IInv, CInv, IInv', Grows, DataOK', StaysComplete,
         NEW t \in Threads, stack[t] # <<>>, Top(t).fn # "log_classes",
         NEW f \in Frames, Same(Top(t), f), FrameOK(f, loaded, guards), TopOK(f, loaded, asked), With(t, f)
  PROVE  CInv'
  <1> DEFINE r == Append(Front(stack[t]), f)
  <1>1. Correct(stack[t], loaded, guards, asked) /\ StackOK(stack[t]) /\ Top(t) = Last(stack[t]) /\ Shape(Top(t))
        /\ stack[t] \in Seq(Frames)
    BY TopCorrect DEF StackOK
  <1>2. Correct(r, loaded, guards, asked)
    BY <1>1, CorrectReplaced
  <1>3. stack' = [stack EXCEPT ![t] = r] /\ Last(r) = f
    BY <1>1, FrontOf, LastOf DEF With
  <1> HIDE DEF r
  <1>4. stack'[t] = r
    BY <1>3 DEF IInv, Typed
  <1>5. StackOK(r) /\ loaded \in 0 .. Len(Assemblies) /\ loaded' \in 0 .. Len(Assemblies)
    BY <1>4 DEF IInv, Typed, DataTyped
  <1>6. Correct(r, loaded', guards', asked')
    BY <1>2, <1>5, CorrectGrown DEF Grows
  <1>7. ~Logs(r)
    BY <1>3 DEF Logs, Same
  <1>8. Top(t).at # "fill"
    BY <1>1 DEF Shape
  <1> QED
    BY <1>3, <1>6, <1>7, <1>8, Stepped

(* So does one that answers correctly. *)
LEMMA AnswersCorrectly ==
  ASSUME IInv, CInv, IInv', Grows, DataOK', StaysComplete,
         NEW t \in Threads, stack[t] # <<>>, Top(t).fn # "log_classes", NEW c \in Found, Answer(t, c),
         Top(t).fn = "get_class_from_name" => AnswerFor(c, Top(t).of.name, Top(t).since, loaded)
  PROVE  CInv'
  <1> DEFINE f == [Top(t) EXCEPT !.at = "return", !.found = c, !.i = 1, !.n = 0, !.base = Null]
  <1>1. Top(t) \in Frames /\ FrameOK(Top(t), loaded, guards)
    BY TopCorrect
  <1>2. f \in Frames /\ Same(Top(t), f) /\ f.at = "return" /\ f.found = c
    BY <1>1, AnswerFrame
  <1>3. With(t, f)
    BY DEF Answer
  <1> HIDE DEF f
  <1>4. FrameOK(f, loaded, guards)
    BY <1>1, <1>2 DEF FrameOK, Same
  <1>5. TopOK(f, loaded, asked)
    BY <1>2 DEF TopOK
  <1> QED
    BY <1>2, <1>3, <1>4, <1>5, Continues

(* So does one that waits for a callee that began late enough. *)
LEMMA WaitsCorrectly ==
  ASSUME IInv, CInv, IInv', Grows, DataOK', StaysComplete,
         NEW t \in Threads, stack[t] # <<>>, Top(t).fn # "log_classes",
         NEW f \in Frames, Same(Top(t), f), NEW h \in Frames, h.fn # "log_classes",
         stack' = [stack EXCEPT ![t] = Append(Append(Front(stack[t]), f), h)],
         FrameOK(f, loaded', guards'), FrameOK(h, loaded', guards'), WaitOK(f, h, asked'), TopOK(h, loaded', asked')
  PROVE  CInv'
  <1> DEFINE q == Append(Front(stack[t]), f)
             r == Append(q, h)
  <1>1. StackOK(stack[t]) /\ Top(t) = Last(stack[t]) /\ Shape(Top(t)) /\ stack[t] \in Seq(Frames)
    BY TopCorrect DEF StackOK
  <1>2. Correct(stack[t], loaded', guards', asked')
    BY OthersGrow
  <1>3. Correct(r, loaded', guards', asked')
    BY <1>1, <1>2, CorrectPushed
  <1>4. q \in Seq(Frames)
    BY <1>1, ReplacedTop
  <1>5. stack' = [stack EXCEPT ![t] = r]
    OBVIOUS
  <1> HIDE DEF q
  <1>6. Last(r) = h
    BY <1>4, LastOf
  <1> HIDE DEF r
  <1>7. ~Logs(r)
    BY <1>6 DEF Logs
  <1>8. Top(t).at # "fill"
    BY <1>1 DEF Shape
  <1> QED
    BY <1>3, <1>5, <1>7, <1>8, Stepped

(* So does one that calls from one of its places. *)
LEMMA CallsCorrectly ==
  ASSUME IInv, CInv, IInv', Grows, DataOK', StaysComplete,
         NEW t \in Threads, stack[t] # <<>>, Top(t).fn # "log_classes",
         NEW label \in CallLabels, NEW h \in Frames, h.fn # "log_classes", Calls(t, h, label),
         FrameOK([Top(t) EXCEPT !.at = label], loaded', guards'), FrameOK(h, loaded', guards'),
         WaitOK([Top(t) EXCEPT !.at = label], h, asked'), TopOK(h, loaded', asked')
  PROVE  CInv'
  <1> DEFINE f == [Top(t) EXCEPT !.at = label]
  <1>1. f \in Frames /\ Same(Top(t), f)
    <2>1. Top(t) \in Frames
      BY TopCorrect
    <2>2. label \in Labels
      BY DEF CallLabels, Labels
    <2> QED
      BY <2>1, <2>2, FrameAt
  <1>2. stack' = [stack EXCEPT ![t] = Append(Append(Front(stack[t]), f), h)]
    BY DEF Calls
  <1> HIDE DEF f
  <1> QED
    BY <1>1, <1>2, WaitsCorrectly DEF f

(* A frame that no lookup's correctness is about.                          *)
LEMMA OtherFrame ==
  ASSUME NEW f, f.fn # "get_class_from_name", f.at # "initialize", NEW l, NEW g, NEW a
  PROVE  FrameOK(f, l, g) /\ TopOK(f, l, a) /\ \A h : WaitOK(f, h, a)
  BY DEF FrameOK, TopOK, WaitOK

(* A lookup that begins has seen nothing and claims nothing. *)
LEMMA NewLookup ==
  ASSUME IInv, NEW name \in NameSeq, name # <<>>, NEW g, NEW a
  PROVE  LET h == get_class_from_name(name)
         IN  /\ h \in Frames /\ h.fn = "get_class_from_name" /\ h.of = [name |-> name] /\ h.since = loaded
             /\ FrameOK(h, loaded, g) /\ TopOK(h, loaded, a)
  <1> DEFINE b == Frame("get_class_from_name", [name |-> name], "lookup")
             h == get_class_from_name(name)
  <1>0. loaded \in 0 .. Len(Assemblies) /\ loaded \in Nat /\ DataTyped
    BY AssembliesAssumption DEF IInv, Typed, DataTyped
  <1>1. b \in Frames /\ b.i = 1
    BY NewFrame DEF Functions, Labels
  <1>2. h = [b EXCEPT !.since = loaded]
    BY DEF get_class_from_name
  <1>3. h \in Frames /\ h.fn = "get_class_from_name" /\ h.of = [name |-> name] /\ h.at = "lookup" /\ h.since = loaded
    BY <1>0, NameFrame
  <1> HIDE DEF b
  <1>4. h.i = 1
    BY <1>0, <1>1, <1>2, FrameSince
  <1> HIDE DEF h
  <1>5. FrameOK(h, loaded, g) /\ TopOK(h, loaded, a)
    BY <1>0, <1>3, <1>4 DEF FrameOK, TopOK
  <1> QED
    BY <1>3, <1>5 DEF h

(* Data that do not change are correct. *)
LEMMA DataUnchanged ==
  ASSUME IInv, CInv, UNCHANGED <<loaded, names_to_classes, statics, guards, asked>>
  PROVE  DataOK' /\ Grows
  <1>1. loaded \in Nat
    BY AssembliesAssumption DEF IInv, Typed, DataTyped
  <1> QED
    BY <1>1 DEF CInv, DataOK, Grows

(* And so are tables. *)
LEMMA AllUnchanged ==
  ASSUME IInv, CInv, UNCHANGED lookup_vars
  PROVE  DataOK' /\ Grows /\ StaysComplete
  BY DataUnchanged DEF lookup_vars, StaysComplete

--------------------------------------------------------------------------------
(* get_class_from_name. *)
LEMMA LookUpIsCorrect ==
  ASSUME IInv, CInv, IInv', NEW t \in Threads, LookUp(t)
  PROVE  CInv'
  <1> DEFINE name == Top(t).of.name
  <1>1. stack[t] # <<>> /\ Top(t).fn = "get_class_from_name" /\ Top(t).fn # "log_classes" /\ Top(t).at = "lookup"
        /\ UNCHANGED lookup_vars
    BY DEF LookUp, At
  <1>2. /\ Top(t) \in Frames /\ Shape(Top(t)) /\ FrameOK(Top(t), loaded, guards) /\ DataOK
        /\ loaded \in 0 .. Len(Assemblies)
    BY <1>1, TopCorrect
  <1>3. name \in NameSeq /\ name # <<>> /\ Top(t).since \in 0 .. loaded /\ Top(t).i = 1
    BY <1>1, <1>2 DEF Shape, FrameOK
  <1>4. DataOK' /\ Grows /\ StaysComplete /\ loaded' = loaded /\ guards' = guards /\ asked' = asked
    BY <1>1, AllUnchanged DEF lookup_vars
  <1>5. CASE name \in DOMAIN names_to_classes
    <2>1. Answer(t, names_to_classes[name])
      BY <1>5 DEF LookUp
    <2>2. names_to_classes[name] = first_match(loaded, name) /\ names_to_classes[name] \in AllClasses
      BY <1>2, <1>5 DEF DataOK, IInv, Typed, DataTyped
    <2>3. AnswerFor(names_to_classes[name], name, Top(t).since, loaded) /\ names_to_classes[name] \in Found
      BY <2>2, ClassFacts DEF AnswerFor, Found
    <2> QED
      BY <1>1, <1>4, <2>1, <2>3, AnswersCorrectly
  <1>6. CASE name \notin DOMAIN names_to_classes /\ Len(name) > 1
    <2> DEFINE k == <<Head(name)>>
               h == get_class_from_name(k)
               f == [Top(t) EXCEPT !.at = "nested"]
    <2>1. Calls(t, h, "nested")
      BY <1>6 DEF LookUp
    <2>2. k \in NameSeq /\ k # <<>>
      BY <1>3 DEF NameSeq
    <2>3. h \in Frames /\ h.fn = "get_class_from_name" /\ h.since = loaded /\ FrameOK(h, loaded, guards)
          /\ TopOK(h, loaded, asked)
      BY <2>2, NewLookup
    <2>4. Same(Top(t), f) /\ f.at = "nested"
      BY <1>2, FrameAt DEF Labels
    <2> HIDE DEF f, h
    <2>5. f.fn = "get_class_from_name" /\ f.since = Top(t).since
      BY <1>1, <2>4 DEF Same
    <2>6. FrameOK(f, loaded, guards)
      BY <1>3, <2>4, <2>5 DEF FrameOK
    <2>7. h.since >= f.since
      BY <1>2, <1>3, <2>3, <2>5 DEF Frames
    <2>8. WaitOK(f, h, asked)
      BY <2>5, <2>7 DEF WaitOK
    <2>9. "nested" \in CallLabels /\ h.fn # "log_classes"
      BY <2>3 DEF CallLabels
    <2> QED
      BY <1>1, <1>4, <2>1, <2>3, <2>6, <2>8, <2>9, CallsCorrectly DEF f
  <1>7. CASE name \notin DOMAIN names_to_classes /\ ~(Len(name) > 1)
    <2> DEFINE f == [Top(t) EXCEPT !.at = "search", !.n = loaded]
    <2>1. With(t, f)
      BY <1>7 DEF LookUp
    <2>2. f \in Frames /\ Same(Top(t), f) /\ f.at = "search" /\ f.n = loaded /\ f.i = 1
      BY <1>2, <1>3, SearchFrame
    <2> HIDE DEF f
    <2>3. f.fn = "get_class_from_name" /\ f.since = Top(t).since /\ f.of = Top(t).of
      BY <1>1, <2>2 DEF Same
    <2>4. \A j \in 1 .. (f.i - 1) : FALSE
      BY <2>2
    <2>5. f.since <= f.n /\ f.n <= loaded
      BY <1>2, <1>3, <2>2, <2>3
    <2>6. FrameOK(f, loaded, guards)
      BY <1>3, <2>2, <2>3, <2>4, <2>5 DEF FrameOK
    <2>7. TopOK(f, loaded, asked)
      BY <2>2 DEF TopOK
    <2> QED
      BY <1>1, <1>4, <2>1, <2>2, <2>6, <2>7, Continues
  <1> QED
    BY <1>5, <1>6, <1>7

(* A table that is complete answers what the assembly has.                 *)
LEMMA CompleteTable ==
  ASSUME IInv, NEW i \in DOMAIN Assemblies, Complete(tables, i), NEW name \in NameSeq, Len(name) = 1
  PROVE  class_from_name(i, name) <=> name \in Assemblies[i]
  BY DEF Complete, class_from_name, plain_names

(* The search keeps it: tables are whole, so an image that does not have   *)
(* the name does not define it.                                            *)
LEMMA SearchIsCorrect ==
  ASSUME IInv, CInv, IInv', NEW t \in Threads, Search(t)
  PROVE  CInv'
  <1> DEFINE name == Top(t).of.name
             i == Top(t).i
             n == Top(t).n
  <1>1. /\ stack[t] # <<>> /\ Top(t).fn = "get_class_from_name" /\ Top(t).fn # "log_classes" /\ Top(t).at = "search"
        /\ UNCHANGED <<loaded, names_to_classes, statics, guards, asked>>
    BY DEF Search, At
  <1>2. /\ Top(t) \in Frames /\ Shape(Top(t)) /\ FrameOK(Top(t), loaded, guards)
        /\ loaded \in 0 .. Len(Assemblies)
    BY <1>1, TopCorrect
  <1>3. /\ name \in NameSeq /\ name # <<>> /\ Len(name) = 1 /\ Top(t).since \in 0 .. loaded
        /\ Top(t).since <= n /\ n <= loaded /\ \A j \in 1 .. (i - 1) : name \notin Assemblies[j]
    BY <1>1, <1>2 DEF Shape, FrameOK
  <1>4. <<Head(name)>> = name
    BY <1>3, OwnOuter
  <1>5. i \in Nat /\ i >= 1 /\ n \in Nat /\ Top(t).since \in Nat /\ loaded \in Nat /\ Len(Assemblies) \in Nat
        /\ n <= Len(Assemblies)
    BY <1>2, AssembliesAssumption DEF Frames
  <1>6. DataOK' /\ Grows
    BY <1>1, DataUnchanged
  <1>7. CASE i > n
    <2>1. Answer(t, Null) /\ StaysComplete
      BY <1>7 DEF Search, StaysComplete
    <2>2. \A j \in 1 .. Top(t).since : j \in 1 .. (i - 1)
      BY <1>3, <1>5, <1>7
    <2>3. first_match(Top(t).since, name) = Null
      BY <1>3, <1>4, <1>5, <2>2, NoneIs
    <2>4. AnswerFor(Null, name, Top(t).since, loaded) /\ Null \in Found
      BY <2>3 DEF AnswerFor, Found
    <2> QED
      BY <1>1, <1>6, <2>1, <2>4, AnswersCorrectly
  <1>8. CASE ~(i > n)
    <2>1. i \in DOMAIN Assemblies
      BY <1>2, <1>5, <1>8, Asking
    <2>2. TableBuilt(i)
      BY <1>8 DEF Search
    <2>3. StaysComplete
      BY <2>1, <2>2 DEF StaysComplete, TableBuilt, Complete, IInv, Typed, DataTyped
    <2>4. Complete(tables, i)
      BY <1>1, <2>1, Settled
    <2>5. class_from_name(i, name) <=> name \in Assemblies[i]
      BY <1>3, <2>1, <2>4, CompleteTable
    <2>6. CASE class_from_name(i, name)
      <3> DEFINE c == Class(i, name, "plain")
                 f == [Top(t) EXCEPT !.at = "store", !.found = c]
      <3>1. With(t, f)
        BY <1>8, <2>6 DEF Search
      <3>2. c \in Found
        BY <2>1, <2>5, <2>6, AClass DEF Found
      <3>3. f \in Frames /\ Same(Top(t), f) /\ f.at = "store" /\ f.found = c
        BY <1>2, <3>2, StoreFrame
      <3>4. First(i, name) /\ i \in 1 .. loaded
        <4>1. i \in 1 .. loaded /\ i \in 1 .. Len(Assemblies)
          BY <1>3, <1>5, <1>8
        <4>2. name \in Assemblies[i]
          BY <2>5, <2>6
        <4> QED
          BY <1>3, <1>4, <4>1, <4>2 DEF First
      <3>5. first_match(loaded, name) = c
        BY <1>5, <2>5, <2>6, <3>4, FirstIs
      <3> HIDE DEF f
      <3>6. f.fn = "get_class_from_name" /\ f.since = Top(t).since /\ f.of.name = name
        BY <1>1, <3>3 DEF Same
      <3> HIDE DEF c
      <3>7. FrameOK(f, loaded, guards)
        BY <1>3, <3>3, <3>5, <3>6 DEF FrameOK
      <3>8. TopOK(f, loaded, asked)
        BY <3>3 DEF TopOK
      <3> QED
        BY <1>1, <1>6, <2>3, <3>1, <3>3, <3>7, <3>8, Continues
    <2>7. CASE ~class_from_name(i, name)
      <3> DEFINE f == [Top(t) EXCEPT !.i = i + 1]
      <3>1. With(t, f)
        BY <1>8, <2>7 DEF Search
      <3>2. i + 1 \in Nat \ {0}
        BY <1>5
      <3>3. f \in Frames /\ Same(Top(t), f) /\ f.at = "search" /\ f.i = i + 1 /\ f.n = n
        BY <1>1, <1>2, <3>2, FrameI
      <3> HIDE DEF f
      <3>4. f.fn = "get_class_from_name" /\ f.since = Top(t).since /\ f.of.name = name
        BY <1>1, <3>3 DEF Same
      <3>5. \A j \in 1 .. (f.i - 1) : j = i \/ j \in 1 .. (i - 1)
        BY <1>5, <3>3
      <3>6. \A j \in 1 .. (f.i - 1) : f.of.name \notin Assemblies[j]
        BY <1>3, <2>5, <2>7, <3>4, <3>5
      <3>7. FrameOK(f, loaded, guards)
        BY <1>3, <3>3, <3>4, <3>6 DEF FrameOK
      <3>8. TopOK(f, loaded, asked)
        BY <3>3 DEF TopOK
      <3> QED
        BY <1>1, <1>6, <2>3, <3>1, <3>3, <3>7, <3>8, Continues
    <2> QED
      BY <2>6, <2>7
  <1> QED
    BY <1>7, <1>8

(* The search for a nested class keeps it: it is in the assembly of the    *)
(* class around it.                                                        *)
LEMMA NestedIsCorrect ==
  ASSUME IInv, CInv, IInv', NEW t \in Threads, find_nested(t)
  PROVE  CInv'
  <1> DEFINE name == Top(t).of.name
             declaring == Top(t).found
             since == Top(t).since
  <1>1. stack[t] # <<>> /\ Top(t).fn = "get_class_from_name" /\ Top(t).fn # "log_classes" /\ Top(t).at = "nested"
        /\ UNCHANGED lookup_vars
    BY DEF find_nested, At
  <1>2. /\ Top(t) \in Frames /\ Shape(Top(t)) /\ FrameOK(Top(t), loaded, guards) /\ TopOK(Top(t), loaded, asked)
        /\ loaded \in 0 .. Len(Assemblies)
    BY <1>1, TopCorrect
  <1>3. name \in NameSeq /\ name # <<>> /\ since \in 0 .. loaded /\ AnswerFor(declaring, <<Head(name)>>, since, loaded)
    BY <1>1, <1>2 DEF Shape, FrameOK, TopOK
  <1>4. DataOK' /\ Grows /\ StaysComplete
    BY <1>1, AllUnchanged
  <1>5. since \in 0 .. Len(Assemblies) /\ since <= loaded
    BY <1>2, <1>3, AssembliesAssumption
  <1>6. declaring = Null => first_match(since, name) = Null
    BY <1>3, <1>5, NestedMatch DEF AnswerFor
  <1>7. declaring # Null =>
          first_match(loaded, name) =
            IF name \in Assemblies[declaring.assembly] THEN Class(declaring.assembly, name, "plain") ELSE Null
    <2> SUFFICES ASSUME declaring # Null
                 PROVE  first_match(loaded, name) =
                          IF name \in Assemblies[declaring.assembly] THEN Class(declaring.assembly, name, "plain") ELSE Null
      OBVIOUS
    <2>1. declaring = first_match(loaded, <<Head(name)>>)
      BY <1>3 DEF AnswerFor
    <2> QED
      BY <1>2, <1>3, <2>1, NestedMatch
  <1>8. CASE declaring # Null /\ name \in Assemblies[declaring.assembly]
    <2> DEFINE c == Class(declaring.assembly, name, "plain")
               f == [Top(t) EXCEPT !.at = "store", !.found = c]
    <2>1. With(t, f)
      BY <1>8 DEF find_nested
    <2>2. declaring \in AllClasses
      BY <1>2, <1>8 DEF Frames, Found
    <2>3. c \in Found
      BY <1>8, <2>2, ClassFacts, AClass DEF Found
    <2>4. f \in Frames /\ Same(Top(t), f) /\ f.at = "store" /\ f.found = c
      BY <1>2, <2>3, StoreFrame
    <2>5. c = first_match(loaded, name)
      BY <1>7, <1>8
    <2> HIDE DEF f
    <2>6. f.fn = "get_class_from_name" /\ f.since = Top(t).since /\ f.of.name = name
      BY <1>1, <2>4 DEF Same
    <2> HIDE DEF c
    <2>7. FrameOK(f, loaded, guards)
      BY <1>3, <2>4, <2>5, <2>6 DEF FrameOK
    <2>8. TopOK(f, loaded, asked)
      BY <2>4 DEF TopOK
    <2> QED
      BY <1>1, <1>4, <2>1, <2>4, <2>7, <2>8, Continues
  <1>9. CASE ~(declaring # Null /\ name \in Assemblies[declaring.assembly])
    <2>1. Answer(t, Null)
      BY <1>9 DEF find_nested
    <2>2. first_match(since, name) = Null
      BY <1>2, <1>5, <1>6, <1>7, <1>9, Stays
    <2>3. AnswerFor(Null, name, since, loaded) /\ Null \in Found
      BY <2>2 DEF AnswerFor, Found
    <2> QED
      BY <1>1, <1>4, <2>1, <2>3, AnswersCorrectly
  <1> QED
    BY <1>8, <1>9

(* Storing keeps it: what is found is the first match, and stays it. *)
LEMMA StoreIsCorrect ==
  ASSUME IInv, CInv, IInv', NEW t \in Threads, Store(t)
  PROVE  CInv'
  <1> DEFINE name == Top(t).of.name
             known == DOMAIN names_to_classes
             c == Top(t).found
  <1>1. /\ stack[t] # <<>> /\ Top(t).fn = "get_class_from_name" /\ Top(t).fn # "log_classes" /\ Top(t).at = "store"
        /\ UNCHANGED <<loaded, tables, statics, guards, asked>> /\ Answer(t, c)
        /\ names_to_classes' = [k \in known \union {name} |-> IF k \in known THEN names_to_classes[k] ELSE c]
    BY DEF Store, At
  <1>2. /\ Top(t) \in Frames /\ Shape(Top(t)) /\ FrameOK(Top(t), loaded, guards) /\ DataOK
    BY <1>1, TopCorrect
  <1>3. c # Null /\ c = first_match(loaded, name) /\ c \in Found
    BY <1>1, <1>2 DEF Shape, FrameOK, Frames
  <1>4. \A k \in DOMAIN names_to_classes' : names_to_classes'[k] = first_match(loaded, k)
    BY <1>1, <1>2, <1>3 DEF DataOK
  <1>5. DataOK'
    BY <1>1, <1>2, <1>4 DEF DataOK
  <1>6. Grows /\ StaysComplete
    <2>1. loaded \in Nat
      BY AssembliesAssumption DEF IInv, Typed, DataTyped
    <2> QED
      BY <1>1, <2>1 DEF Grows, StaysComplete
  <1>7. AnswerFor(c, name, Top(t).since, loaded)
    BY <1>3 DEF AnswerFor
  <1> QED
    BY <1>1, <1>3, <1>5, <1>6, <1>7, AnswersCorrectly

(* Returning keeps it. *)
LEMMA ReturnIsCorrect ==
  ASSUME IInv, CInv, IInv', NEW t \in Threads, Return(t)
  PROVE  CInv'
  <1> DEFINE s == stack[t]
             r == Pop(s)
  <1>1. s # <<>> /\ Top(t).at = "return" /\ stack' = [stack EXCEPT ![t] = r] /\ UNCHANGED lookup_vars
    BY DEF Return, Popped, Pop, Top
  <1>2. /\ StackOK(s) /\ Last(s).at = "return" /\ Correct(s, loaded, guards, asked)
        /\ loaded \in 0 .. Len(Assemblies) /\ asked \in [Types -> Nat]
    BY <1>1, TopCorrect
  <1>3. DataOK' /\ Grows /\ StaysComplete
    BY <1>1, AllUnchanged
  <1> HIDE DEF s
  <1>4. Correct(r, loaded, guards, asked) /\ ~Logs(r)
    BY <1>1, <1>2, CorrectPopped
  <1> HIDE DEF r
  <1>5. Correct(r, loaded', guards', asked')
    BY <1>1, <1>4 DEF lookup_vars
  <1> QED
    BY <1>1, <1>3, <1>4, <1>5, Stepped DEF s

--------------------------------------------------------------------------------
(* class_of. *)
LEMMA ReadStaticIsCorrect ==
  ASSUME IInv, CInv, IInv', NEW t \in Threads, ReadStatic(t)
  PROVE  CInv'
  <1>1. At(t, "class_of", "static") /\ Answer(t, statics[Top(t).of]) /\ UNCHANGED lookup_vars
    BY DEF ReadStatic
  <1>2. stack[t] # <<>> /\ Top(t).fn = "class_of" /\ statics[Top(t).of] \in Found
    BY <1>1, ClassOfTop DEF DataTyped
  <1>3. DataOK' /\ Grows /\ StaysComplete
    BY <1>1, AllUnchanged
  <1> QED
    BY <1>1, <1>2, <1>3, AnswersCorrectly

(* Beginning to initialize a static keeps it: the lookup begins after that. *)
LEMMA BeginStaticIsCorrect ==
  ASSUME IInv, CInv, IInv', NEW t \in Threads, BeginStatic(t)
  PROVE  CInv'
  <1> DEFINE T == Top(t).of
             h == get_class_from_name(T.name)
             f == [Top(t) EXCEPT !.at = "initialize"]
  <1>1. /\ At(t, "class_of", "static") /\ T.form = "plain" /\ guards[T] = "unset" /\ Calls(t, h, "initialize")
        /\ guards' = [guards EXCEPT ![T] = "running"] /\ asked' = [asked EXCEPT ![T] = loaded]
        /\ UNCHANGED <<loaded, names_to_classes, tables, statics>>
    BY DEF BeginStatic
  <1>2. stack[t] # <<>> /\ Top(t).fn = "class_of" /\ Top(t) \in Frames /\ T \in Types /\ DataTyped
    BY <1>1, ClassOfTop
  <1>3. T.name \in NameSeq /\ T.name # <<>>
    BY <1>1, <1>2, TypesAssumption DEF NameSeq
  <1>4. /\ h \in Frames /\ h.fn = "get_class_from_name" /\ h.since = loaded
        /\ FrameOK(h, loaded, guards') /\ TopOK(h, loaded, asked')
    BY <1>3, NewLookup
  <1>5. Same(Top(t), f) /\ f.at = "initialize"
    BY <1>2, FrameAt DEF Labels
  <1>6. guards'[T] = "running" /\ asked'[T] = loaded
        /\ \A S \in Types : S # T => guards'[S] = guards[S] /\ asked'[S] = asked[S]
    BY <1>1, <1>2 DEF DataTyped
  <1>7. loaded \in Nat
    BY <1>2, AssembliesAssumption DEF DataTyped
  <1>8. Grows /\ StaysComplete
    BY <1>1, <1>6, <1>7 DEF Grows, StaysComplete
  <1>9. DataOK'
    <2>1. ASSUME NEW S \in Types, guards'[S] = "done", statics[S] = Null PROVE first_match(asked'[S], S.name) = Null
      <3>1. S # T
        BY <1>6, <2>1
      <3> QED
        BY <1>6, <2>1, <3>1 DEF CInv, DataOK
    <2> QED
      BY <1>1, <2>1 DEF CInv, DataOK
  <1> HIDE DEF f, h
  <1>10. f.fn = "class_of" /\ f.of = T
    BY <1>2, <1>5 DEF Same
  <1>11. FrameOK(f, loaded', guards')
    BY <1>5, <1>6, <1>10 DEF FrameOK
  <1>12. WaitOK(f, h, asked')
    BY <1>4, <1>6, <1>7, <1>10 DEF WaitOK
  <1>13. "initialize" \in CallLabels /\ h.fn # "log_classes" /\ Top(t).fn # "log_classes"
    BY <1>2, <1>4 DEF CallLabels
  <1>14. FrameOK(h, loaded', guards') /\ TopOK(h, loaded', asked')
    BY <1>1, <1>4
  <1> QED
    BY <1>1, <1>2, <1>4, <1>8, <1>9, <1>11, <1>12, <1>13, <1>14, CallsCorrectly DEF f

(* Initializing a static keeps it: what is kept answers a lookup that      *)
(* began after the static was asked for.                                   *)
LEMMA EndStaticIsCorrect ==
  ASSUME IInv, CInv, IInv', NEW t \in Threads, EndStatic(t)
  PROVE  CInv'
  <1> DEFINE c == Top(t).found
             f == [Top(t) EXCEPT !.at = "return"]
  <1>0. PICK T : T = Top(t).of
    OBVIOUS
  <1>1. /\ At(t, "class_of", "initialize") /\ With(t, f) /\ statics' = [statics EXCEPT ![T] = c]
        /\ guards' = [guards EXCEPT ![T] = "done"] /\ UNCHANGED <<loaded, names_to_classes, tables, asked>>
    BY <1>0 DEF EndStatic, Goto
  <1>2. /\ stack[t] # <<>> /\ Top(t).fn = "class_of" /\ Top(t).at = "initialize" /\ Top(t) \in Frames /\ Shape(Top(t))
        /\ T \in Types /\ DataTyped
    BY <1>0, <1>1, ClassOfTop
  <1>3. TopOK(Top(t), loaded, asked) /\ DataOK
    BY <1>2, TopCorrect
  <1>4. AnswerFor(c, T.name, asked[T], loaded)
    BY <1>0, <1>2, <1>3 DEF TopOK
  <1>5. /\ statics'[T] = c /\ \A S \in Types : S # T => statics'[S] = statics[S]
        /\ guards'[T] = "done" /\ \A S \in Types : S # T => guards'[S] = guards[S]
    BY <1>1, <1>2 DEF DataTyped
  <1>6. Grows /\ StaysComplete
    <2>1. loaded \in Nat
      BY <1>2, AssembliesAssumption DEF DataTyped
    <2> QED
      BY <1>1, <1>5, <2>1 DEF Grows, StaysComplete
  <1>7. DataOK'
    <2>1. \A S \in Types : S.form = "plain" => statics'[S] \in {Null, first_match(loaded, S.name)}
      BY <1>3, <1>4, <1>5 DEF DataOK, AnswerFor
    <2>2. \A S \in Types : (guards'[S] = "done" /\ statics'[S] = Null) => first_match(asked[S], S.name) = Null
      BY <1>3, <1>4, <1>5 DEF DataOK, AnswerFor
    <2> QED
      BY <1>1, <1>3, <2>1, <2>2 DEF DataOK
  <1>8. f \in Frames /\ Same(Top(t), f) /\ f.at = "return"
    BY <1>2, FrameAt DEF Labels
  <1> HIDE DEF f
  <1>9. FrameOK(f, loaded, guards) /\ TopOK(f, loaded, asked)
    BY <1>2, <1>8, OtherFrame DEF Same
  <1> QED
    BY <1>1, <1>2, <1>6, <1>7, <1>8, <1>9, Continues

(* Calls between functions that look nothing up keep it. *)
LEMMA CallsOther ==
  ASSUME IInv, CInv, IInv', NEW t \in Threads, NEW label \in CallLabels, NEW h, stack[t] # <<>>,
         Top(t).fn \notin {"get_class_from_name", "log_classes"}, label # "initialize",
         h \in Frames, h.fn \notin {"get_class_from_name", "log_classes"}, h.at # "initialize",
         Calls(t, h, label), UNCHANGED lookup_vars
  PROVE  CInv'
  <1> DEFINE f == [Top(t) EXCEPT !.at = label]
  <1>1. Top(t) \in Frames /\ label \in Labels
    BY TopCorrect DEF CallLabels, Labels
  <1>2. f.fn = Top(t).fn /\ f.at = label
    BY <1>1, FrameAt DEF Same
  <1>3. DataOK' /\ Grows /\ StaysComplete
    BY AllUnchanged
  <1> HIDE DEF f
  <1>4. FrameOK(f, loaded', guards') /\ WaitOK(f, h, asked')
    BY <1>2, OtherFrame
  <1>5. FrameOK(h, loaded', guards') /\ TopOK(h, loaded', asked')
    BY OtherFrame
  <1> QED
    BY <1>3, <1>4, <1>5, CallsCorrectly DEF f

(* Asking for the class of an element keeps it. *)
LEMMA AskElementIsCorrect ==
  ASSUME IInv, CInv, IInv', NEW t \in Threads, AskElement(t)
  PROVE  CInv'
  <1> DEFINE T == Top(t).of
  <1>1. At(t, "class_of", "static") /\ T.form = "array" /\ Calls(t, class_of(T.element), "element")
        /\ UNCHANGED lookup_vars
    BY DEF AskElement
  <1>2. stack[t] # <<>> /\ Top(t).fn = "class_of" /\ T \in Types
    BY <1>1, ClassOfTop
  <1>3. T.element \in Types
    BY <1>1, <1>2, TypesAssumption
  <1>4. class_of(T.element) \in Frames /\ class_of(T.element).fn = "class_of" /\ class_of(T.element).at = "static"
    BY <1>3, TypeFrame
  <1> QED
    BY <1>1, <1>2, <1>4, CallsOther DEF CallLabels

(* A static that takes a class of another form.                            *)
LEMMA StaticMade ==
  ASSUME IInv, CInv, NEW T \in Types, T.form # "plain", NEW c, c # Null,
         statics' = [statics EXCEPT ![T] = c], UNCHANGED <<loaded, names_to_classes, tables, guards, asked>>
  PROVE  DataOK' /\ Grows /\ StaysComplete
  <1>1. statics'[T] = c /\ \A S \in Types : S # T => statics'[S] = statics[S]
    BY DEF IInv, Typed, DataTyped
  <1>2. loaded \in Nat
    BY AssembliesAssumption DEF IInv, Typed, DataTyped
  <1>3. DataOK'
    BY <1>1 DEF CInv, DataOK
  <1> QED
    BY <1>2, <1>3 DEF Grows, StaysComplete

(* Making the array's class keeps it. *)
LEMMA MakeArrayIsCorrect ==
  ASSUME IInv, CInv, IInv', NEW t \in Threads, MakeArray(t)
  PROVE  CInv'
  <1> DEFINE T == Top(t).of
             element == Top(t).found
             array == [element EXCEPT !.form = "array"]
  <1>1. At(t, "class_of", "element") /\ UNCHANGED <<loaded, names_to_classes, tables, guards, asked, crashed>>
    BY DEF MakeArray
  <1>2. stack[t] # <<>> /\ Top(t).fn = "class_of" /\ Top(t).at = "element" /\ T \in Types /\ Top(t) \in Frames
        /\ Shape(Top(t))
    BY <1>1, ClassOfTop
  <1>3. T.form = "array" /\ element \in Found
    BY <1>2 DEF Shape, Frames
  <1>4. CASE element = Null
    <2>1. Answer(t, Null) /\ UNCHANGED lookup_vars
      BY <1>1, <1>4 DEF MakeArray, lookup_vars
    <2>2. DataOK' /\ Grows /\ StaysComplete
      BY <2>1, AllUnchanged
    <2> QED
      BY <1>2, <2>1, <2>2, AnswersCorrectly DEF Found
  <1>5. CASE element # Null
    <2>1. Answer(t, array) /\ statics' = [statics EXCEPT ![T] = array]
      BY <1>5 DEF MakeArray
    <2>2. element \in AllClasses
      BY <1>3, <1>5 DEF Found
    <2>3. array \in AllClasses
      BY <2>2, Reformed
    <2> HIDE DEF array
    <2>4. array \in Found /\ array # Null
      BY <2>3, ClassFacts DEF Found
    <2>5. DataOK' /\ Grows /\ StaysComplete
      BY <1>1, <1>2, <1>3, <2>1, <2>4, StaticMade
    <2> QED
      BY <1>2, <2>1, <2>4, <2>5, AnswersCorrectly
  <1> QED
    BY <1>4, <1>5

(* Asking for the generic class keeps it. *)
LEMMA AskBaseIsCorrect ==
  ASSUME IInv, CInv, IInv', NEW t \in Threads, AskBase(t)
  PROVE  CInv'
  <1> DEFINE T == Top(t).of
             h == get_class_from_name(T.name)
             f == [Top(t) EXCEPT !.at = "base"]
  <1>1. At(t, "class_of", "static") /\ T.form = "generic" /\ Calls(t, h, "base") /\ UNCHANGED lookup_vars
    BY DEF AskBase
  <1>2. stack[t] # <<>> /\ Top(t).fn = "class_of" /\ Top(t) \in Frames /\ T \in Types
    BY <1>1, ClassOfTop
  <1>3. T.name \in NameSeq /\ T.name # <<>>
    BY <1>1, <1>2, TypesAssumption DEF NameSeq
  <1>4. h \in Frames /\ h.fn = "get_class_from_name" /\ FrameOK(h, loaded, guards) /\ TopOK(h, loaded, asked)
    BY <1>3, NewLookup
  <1>5. f.fn = "class_of" /\ f.at = "base"
    BY <1>2, FrameAt DEF Labels, Same
  <1>6. DataOK' /\ Grows /\ StaysComplete /\ loaded' = loaded /\ guards' = guards /\ asked' = asked
    BY <1>1, AllUnchanged DEF lookup_vars
  <1> HIDE DEF f, h
  <1>7. FrameOK(f, loaded, guards) /\ WaitOK(f, h, asked)
    BY <1>5, OtherFrame
  <1>8. "base" \in CallLabels /\ h.fn # "log_classes" /\ Top(t).fn # "log_classes"
    BY <1>2, <1>4 DEF CallLabels
  <1> QED
    BY <1>1, <1>2, <1>4, <1>6, <1>7, <1>8, CallsCorrectly DEF f

(* Asking for the argument keeps it. *)
LEMMA AskArgumentIsCorrect ==
  ASSUME IInv, CInv, IInv', NEW t \in Threads, AskArgument(t)
  PROVE  CInv'
  <1> DEFINE T == Top(t).of
             f == [Top(t) EXCEPT !.at = "argument", !.base = Top(t).found]
             h == class_of(T.argument)
  <1>1. /\ At(t, "class_of", "base") /\ UNCHANGED lookup_vars
        /\ stack' = [stack EXCEPT ![t] = Append(Append(Front(stack[t]), f), h)]
    BY DEF AskArgument
  <1>2. stack[t] # <<>> /\ Top(t).fn = "class_of" /\ Top(t).at = "base" /\ T \in Types /\ Top(t) \in Frames
        /\ Shape(Top(t))
    BY <1>1, ClassOfTop
  <1>3. T.form = "generic"
    BY <1>2 DEF Shape
  <1>4. T.argument \in Types
    BY <1>2, <1>3, TypesAssumption
  <1>5. h \in Frames /\ h.fn = "class_of" /\ h.at = "static"
    BY <1>4, TypeFrame
  <1>6. f \in Frames /\ Same(Top(t), f) /\ f.at = "argument"
    BY <1>2, ArgumentFrame
  <1>7. DataOK' /\ Grows /\ StaysComplete
    BY <1>1, AllUnchanged
  <1> HIDE DEF f, h
  <1>8. FrameOK(f, loaded', guards') /\ WaitOK(f, h, asked')
    BY <1>2, <1>6, OtherFrame DEF Same
  <1>9. FrameOK(h, loaded', guards') /\ TopOK(h, loaded', asked')
    BY <1>5, OtherFrame
  <1> QED
    BY <1>1, <1>2, <1>5, <1>6, <1>7, <1>8, <1>9, WaitsCorrectly

(* The program is gone, with all calls; nobody was filling a table.        *)
LEMMA CrashIsCorrect ==
  ASSUME IInv, CInv, NEW t \in Threads, stack[t] # <<>>, Top(t).at # "fill", stack' = [u \in Threads |-> <<>>],
         DataOK', UNCHANGED tables
  PROVE  CInv'
  <1>1. \A u \in Threads : stack'[u] = <<>>
    OBVIOUS
  <1>2. \A u \in Threads : Correct(stack'[u], loaded', guards', asked') /\ ~Logs(stack'[u])
    BY <1>1, CorrectEmpty
  <1>3. \A i \in DOMAIN Assemblies : Complete(tables, i)
    BY Settled
  <1>4. TablesOK'
    BY <1>3 DEF TablesOK, Complete, plain_names
  <1> QED
    BY <1>2, <1>4 DEF CInv, Alone

(* make_generic keeps it. *)
LEMMA GenericIsCorrect ==
  ASSUME IInv, CInv, IInv', NEW t \in Threads, make_generic(t)
  PROVE  CInv'
  <1> DEFINE T == Top(t).of
             base == Top(t).base
             inflated == [base EXCEPT !.form = "generic"]
  <1>1. At(t, "class_of", "argument") /\ UNCHANGED <<loaded, names_to_classes, tables, guards, asked>>
    BY DEF make_generic
  <1>2. stack[t] # <<>> /\ Top(t).fn = "class_of" /\ Top(t).at = "argument" /\ T \in Types /\ Top(t) \in Frames
        /\ Shape(Top(t))
    BY <1>1, ClassOfTop
  <1>3. T.form = "generic" /\ base \in Found
    BY <1>2 DEF Shape, Frames
  <1>4. CASE Null \in {base, Top(t).found}
    <2>1. stack' = [u \in Threads |-> <<>>] /\ UNCHANGED statics
      BY <1>4 DEF make_generic, Crash
    <2>2. DataOK'
      BY <1>1, <2>1, DataUnchanged
    <2> QED
      BY <1>1, <1>2, <2>1, <2>2, CrashIsCorrect
  <1>5. CASE Null \notin {base, Top(t).found}
    <2>1. Answer(t, inflated) /\ statics' = [statics EXCEPT ![T] = inflated]
      BY <1>5 DEF make_generic
    <2>2. base \in AllClasses
      BY <1>3, <1>5 DEF Found
    <2>3. inflated \in AllClasses
      BY <2>2, Reformed
    <2> HIDE DEF inflated
    <2>4. inflated \in Found /\ inflated # Null
      BY <2>3, ClassFacts DEF Found
    <2>5. DataOK' /\ Grows /\ StaysComplete
      BY <1>1, <1>2, <1>3, <2>1, <2>4, StaticMade
    <2> QED
      BY <1>2, <2>1, <2>4, <2>5, AnswersCorrectly
  <1> QED
    BY <1>4, <1>5

--------------------------------------------------------------------------------
(* log_classes, calls from outside and the game. *)
LEMMA LogTop ==
  ASSUME IInv, CInv, NEW t \in Threads, NEW label, At(t, "log_classes", label)
  PROVE  /\ stack[t] # <<>> /\ Top(t).fn = "log_classes" /\ Top(t).at = label /\ Logs(stack[t])
         /\ Top(t) \in Frames /\ Shape(Top(t)) /\ Top(t) = Last(stack[t])
         /\ \A u \in Threads : u # t => stack[u] = <<>>
  <1>1. stack[t] # <<>> /\ Top(t).fn = "log_classes" /\ Top(t).at = label
    BY DEF At
  <1>2. Top(t) \in Frames /\ Shape(Top(t)) /\ Top(t) = Last(stack[t])
    BY <1>1, TopFacts
  <1>3. Logs(stack[t])
    BY <1>1, <1>2 DEF Logs
  <1> QED
    BY <1>1, <1>2, <1>3 DEF CInv, Alone

(* log_classes keeps it while the only table that is not whole is the one  *)
(* it fills.                                                               *)
LEMMA LogContinues ==
  ASSUME IInv, CInv, NEW t \in Threads, NEW label, At(t, "log_classes", label),
         NEW f \in Frames, Same(Top(t), f), f.at \in {"image", "fill", "return"}, With(t, f),
         \A i \in DOMAIN Assemblies : Complete(tables', i) \/ (f.at = "fill" /\ f.i = i),
         UNCHANGED <<loaded, names_to_classes, statics, guards, asked>>
  PROVE  CInv'
  <1> DEFINE r == Append(Front(stack[t]), f)
  <1>1. stack[t] # <<>> /\ Top(t).fn = "log_classes" /\ \A u \in Threads : u # t => stack[u] = <<>>
    BY LogTop
  <1>2. Correct(stack[t], loaded, guards, asked) /\ StackOK(stack[t]) /\ Top(t) = Last(stack[t])
        /\ stack[t] \in Seq(Frames)
    BY <1>1, TopCorrect DEF StackOK
  <1>3. f.fn = "log_classes" /\ f.at # "initialize"
    BY <1>1 DEF Same
  <1>4. Correct(r, loaded, guards, asked)
    BY <1>1, <1>2, <1>3, OtherFrame, CorrectReplaced
  <1>5. stack' = [stack EXCEPT ![t] = r] /\ Last(r) = f /\ r # <<>>
    BY <1>1, <1>2, FrontOf, LastOf DEF With
  <1> HIDE DEF r
  <1>6. stack'[t] = r /\ \A u \in Threads : u # t => stack'[u] = <<>>
    BY <1>1, <1>5 DEF IInv, Typed
  <1>7. \A u \in Threads : Correct(stack'[u], loaded', guards', asked')
    BY <1>4, <1>6, CorrectEmpty
  <1>8. TablesOK'
    BY <1>5, <1>6 DEF TablesOK, Complete, plain_names
  <1>9. Alone'
    <2>1. \A u \in Threads : u # t => ~Logs(stack'[u])
      BY <1>6 DEF Logs
    <2> QED
      BY <1>6, <2>1 DEF Alone
  <1>10. DataOK'
    BY DataUnchanged
  <1> QED
    BY <1>7, <1>8, <1>9, <1>10 DEF CInv

(* Going to the next image keeps it. *)
LEMMA NextImageIsCorrect ==
  ASSUME IInv, CInv, NEW t \in Threads, NextImage(t)
  PROVE  CInv'
  <1> DEFINE i == Top(t).i
             n == Top(t).n
  <1>1. At(t, "log_classes", "image") /\ UNCHANGED <<loaded, names_to_classes, statics, guards, asked>>
    BY DEF NextImage
  <1>2. stack[t] # <<>> /\ Top(t).at = "image" /\ Top(t) \in Frames
    BY <1>1, LogTop
  <1>3. \A j \in DOMAIN Assemblies : Complete(tables, j)
    BY <1>2, Settled
  <1>4. i \in Nat /\ n \in Int
    BY <1>2 DEF Frames
  <1>5. CASE i > n
    <2> DEFINE f == [Top(t) EXCEPT !.at = "return", !.found = Null, !.i = 1, !.n = 0, !.base = Null]
    <2>1. With(t, f) /\ UNCHANGED tables
      BY <1>5 DEF NextImage, Answer
    <2>2. f \in Frames /\ Same(Top(t), f) /\ f.at = "return"
      BY <1>2, AnswerFrame DEF Found
    <2> HIDE DEF f
    <2> QED
      BY <1>1, <1>3, <2>1, <2>2, LogContinues
  <1>6. CASE ~(i > n) /\ tables[i] = Unbuilt
    <2> DEFINE f == [Top(t) EXCEPT !.at = "fill"]
    <2>1. With(t, f) /\ tables' = [tables EXCEPT ![i] = {}]
      BY <1>6 DEF NextImage, Goto
    <2>2. f \in Frames /\ Same(Top(t), f) /\ f.at = "fill" /\ f.i = i
      BY <1>2, FrameAt DEF Labels
    <2> HIDE DEF f
    <2>3. \A j \in DOMAIN Assemblies : j # i => Complete(tables', j)
      BY <1>3, <2>1 DEF Complete, IInv, Typed, DataTyped
    <2> QED
      BY <1>1, <2>1, <2>2, <2>3, LogContinues
  <1>7. CASE ~(i > n) /\ tables[i] # Unbuilt
    <2> DEFINE f == [Top(t) EXCEPT !.i = i + 1]
    <2>1. With(t, f) /\ UNCHANGED tables
      BY <1>7 DEF NextImage
    <2>2. i + 1 \in Nat \ {0}
      BY <1>4
    <2>3. f \in Frames /\ Same(Top(t), f) /\ f.at = "image"
      BY <1>2, <2>2, FrameI
    <2> HIDE DEF f
    <2> QED
      BY <1>1, <1>3, <2>1, <2>3, LogContinues
  <1> QED
    BY <1>5, <1>6, <1>7

(* Adding types to a table keeps it: the last one makes it whole. *)
LEMMA FillIsCorrect ==
  ASSUME IInv, CInv, NEW t \in Threads, add_type_to_name(t)
  PROVE  CInv'
  <1> DEFINE i == Top(t).i
             missing == plain_names(i) \ tables[i]
  <1>1. At(t, "log_classes", "fill") /\ UNCHANGED <<loaded, names_to_classes, statics, guards, asked>>
    BY DEF add_type_to_name
  <1>2. /\ stack[t] # <<>> /\ Top(t).fn = "log_classes" /\ Top(t).at = "fill" /\ Top(t) \in Frames /\ Shape(Top(t))
        /\ Top(t) = Last(stack[t]) /\ \A u \in Threads : u # t => stack[u] = <<>>
    BY <1>1, LogTop
  <1>3. i \in DOMAIN Assemblies /\ tables[i] # Unbuilt /\ DataTyped
    <2>1. i <= Top(t).n
      BY <1>2 DEF Shape
    <2>2. FillOK(stack[t], tables) /\ DataTyped
      BY <1>2, TopFacts
    <2>3. tables[i] # Unbuilt
      BY <1>2, <2>2 DEF FillOK
    <2> QED
      BY <1>2, <2>1, <2>2, <2>3, Asking
  <1>4. \A j \in DOMAIN Assemblies : j # i => Complete(tables, j)
    BY <1>2 DEF CInv, TablesOK
  <1>5. CASE missing = {}
    <2> DEFINE f == [Top(t) EXCEPT !.at = "image"]
    <2>1. With(t, f) /\ UNCHANGED tables
      BY <1>5 DEF add_type_to_name, Goto
    <2>2. f \in Frames /\ Same(Top(t), f) /\ f.at = "image"
      BY <1>2, FrameAt DEF Labels
    <2> HIDE DEF f
    <2>3. Complete(tables, i)
      BY <1>3, <1>5 DEF DataTyped, Complete
    <2> QED
      BY <1>1, <1>4, <2>1, <2>2, <2>3, LogContinues
  <1>6. CASE missing # {}
    <2>1. (\E name \in missing : tables' = [tables EXCEPT ![i] = @ \union {name}]) /\ UNCHANGED stack
      BY <1>6 DEF add_type_to_name
    <2>2. \A j \in DOMAIN Assemblies : j # i => Complete(tables', j)
      BY <1>3, <1>4, <2>1 DEF Complete, DataTyped
    <2>3. TablesOK'
      BY <1>2, <2>1, <2>2 DEF TablesOK, Complete, plain_names
    <2>4. DataOK'
      BY <1>1, DataUnchanged
    <2>5. Alone'
      BY <2>1 DEF CInv, Alone
    <2>6. \A u \in Threads : Correct(stack'[u], loaded', guards', asked')
      BY <1>1, <2>1 DEF CInv
    <2> QED
      BY <2>3, <2>4, <2>5, <2>6 DEF CInv
  <1> QED
    BY <1>5, <1>6

(* log_classes waits for nothing and is waited for by nothing.             *)
LEMMA LogsIsLogging ==
  ASSUME IInv, NEW u \in Threads, Logs(stack[u])
  PROVE  Logging
  <1> DEFINE s == stack[u]
             n == Len(s)
  <1>1. s \in Seq(Frames) /\ StackOK(s) /\ s # <<>>
    BY DEF IInv, Typed, Logs
  <1> HIDE DEF s
  <1>2. n \in Nat /\ n >= 1 /\ Last(s) = s[n]
    BY <1>1, TopOf
  <1>3. n = 1
    <2> HIDE DEF n
    <2> SUFFICES ASSUME n # 1 PROVE FALSE
      OBVIOUS
    <2>1. n - 1 \in 1 .. (n - 1) /\ n - 1 + 1 = n
      BY <1>2
    <2>2. Link(s[n - 1], s[n])
      BY <1>1, <2>1 DEF StackOK, n
    <2> QED
      BY <1>2, <2>2 DEF Link, Logs, s
  <1> QED
    BY <1>1, <1>2, <1>3 DEF Logs, Logging, s

(* A first call keeps it, as log_classes runs alone. *)
LEMMA CallIsCorrect ==
  ASSUME LogsAlone, IInv, CInv, NEW t \in Threads, NEW f \in Frames,
         FrameOK(f, loaded, guards), TopOK(f, loaded, asked), f.at # "fill", Call(t, f)
  PROVE  CInv'
  <1>1. /\ stack[t] = <<>> /\ stack' = [stack EXCEPT ![t] = <<f>>] /\ UNCHANGED lookup_vars
        /\ ~Logging
        /\ f.fn = "log_classes" => \A u \in Threads : stack[u] = <<>>
    BY DEF Call
  <1>2. stack'[t] = <<f>> /\ \A u \in Threads : u # t => stack'[u] = stack[u]
    BY <1>1 DEF IInv, Typed
  <1>3. Correct(<<f>>, loaded, guards, asked) /\ Last(<<f>>) = f
    BY CorrectSingle
  <1>4. \A u \in Threads : Correct(stack'[u], loaded', guards', asked')
    BY <1>1, <1>2, <1>3 DEF lookup_vars, CInv
  <1>5. \A u \in Threads : ~Logs(stack[u])
    BY <1>1, LogsIsLogging
  <1>6. \A i \in DOMAIN Assemblies : Complete(tables, i)
    <2>1. ASSUME NEW u \in Threads, stack[u] # <<>>, Last(stack[u]).at = "fill" PROVE FALSE
      <3>1. Shape(Last(stack[u]))
        BY <2>1, TopFacts
      <3> QED
        BY <1>5, <2>1, <3>1 DEF Shape, Logs
    <2> QED
      BY <2>1 DEF CInv, TablesOK
  <1>7. TablesOK'
    BY <1>1, <1>6 DEF lookup_vars, TablesOK, Complete, plain_names
  <1>8. Alone'
    <2> SUFFICES ASSUME NEW u \in Threads, NEW v \in Threads, Logs(stack'[u]), v # u PROVE stack'[v] = <<>>
      BY DEF Alone
    <2>1. u = t /\ f.fn = "log_classes"
      BY <1>2, <1>3, <1>5 DEF Logs
    <2> QED
      BY <1>1, <1>2, <2>1
  <1>9. DataOK'
    BY <1>1, AllUnchanged
  <1> QED
    BY <1>4, <1>7, <1>8, <1>9 DEF CInv

(* Every first call there is keeps it. *)
LEMMA CallingIsCorrect ==
  ASSUME LogsAlone, IInv, CInv, NEW t \in Threads, Calling(t)
  PROVE  CInv'
  <1>0. DataTyped
    BY DEF IInv, Typed
  <1>1. CASE \E name \in Asked : Call(t, get_class_from_name(name))
    <2>1. PICK name \in Asked : Call(t, get_class_from_name(name))
      BY <1>1
    <2>2. name \in NameSeq /\ name # <<>>
      BY AssembliesAssumption, LoadedAssumption DEF Names, NameSeq
    <2>3. /\ get_class_from_name(name) \in Frames /\ FrameOK(get_class_from_name(name), loaded, guards)
          /\ TopOK(get_class_from_name(name), loaded, asked)
      BY <2>2, NewLookup
    <2>4. get_class_from_name(name).at # "fill"
      BY <1>0, <2>2, NameFrame
    <2> QED
      BY <2>1, <2>3, <2>4, CallIsCorrect
  <1>2. CASE \E T \in Types : Call(t, class_of(T))
    <2>1. PICK T \in Types : Call(t, class_of(T))
      BY <1>2
    <2>2. class_of(T) \in Frames /\ class_of(T).fn = "class_of" /\ class_of(T).at = "static"
      BY TypeFrame
    <2> QED
      BY <2>1, <2>2, OtherFrame, CallIsCorrect
  <1>3. CASE Call(t, log_classes)
    <2> DEFINE b == Frame("log_classes", [name |-> <<>>], "image")
    <2>1. <<>> \in NameSeq
      BY DEF NameSeq
    <2>2. b \in Frames /\ b.fn = "log_classes" /\ b.at = "image"
      BY <2>1, NewFrame DEF Functions, Labels
    <2>3. log_classes = [b EXCEPT !.n = loaded] /\ loaded \in 0 .. Len(Assemblies)
      BY <1>0 DEF log_classes, DataTyped
    <2> HIDE DEF b
    <2>4. log_classes \in Frames /\ log_classes.fn = "log_classes" /\ log_classes.at = "image"
      BY <2>2, <2>3, FrameN DEF Same
    <2> QED
      BY <1>3, <2>4, OtherFrame, CallIsCorrect
  <1>4. CASE \E T \in Creatable : Call(t, new_ctor(T))
    <2>1. PICK T \in Creatable : Call(t, new_ctor(T))
      BY <1>4
    <2>2. T \in Types
      BY CctorsAssumption
    <2>3. new_ctor(T) \in Frames /\ new_ctor(T).fn = "new_ctor" /\ new_ctor(T).at = "class"
      BY <2>2, MakeFrame
    <2> QED
      BY <2>1, <2>3, OtherFrame, CallIsCorrect
  <1> QED
    BY <1>1, <1>2, <1>3, <1>4 DEF Calling, LookupCalls

(* The game's next assembly changes no answer. *)
LEMMA LoadIsCorrect ==
  ASSUME IInv, CInv, IInv', LoadAssembly
  PROVE  CInv'
  <1>1. loaded' = loaded + 1 /\ UNCHANGED <<names_to_classes, tables, statics, guards, asked, stack, crashed>>
    BY DEF LoadAssembly
  <1>2. loaded \in 0 .. Len(Assemblies) /\ loaded' \in 0 .. Len(Assemblies) /\ loaded <= loaded' /\ DataTyped /\ DataOK
    <2>1. loaded \in 0 .. Len(Assemblies) /\ loaded' \in 0 .. Len(Assemblies) /\ DataTyped /\ DataOK
      BY DEF IInv, Typed, DataTyped, CInv
    <2>2. loaded \in Nat
      BY <2>1, AssembliesAssumption
    <2> QED
      BY <1>1, <2>1, <2>2
  <1>3. Grows
    BY <1>1, <1>2 DEF Grows
  <1>4. \A u \in Threads : Correct(stack'[u], loaded', guards', asked')
    BY <1>1, <1>3, OthersGrow
  <1>5. ASSUME NEW k \in DOMAIN names_to_classes PROVE names_to_classes[k] = first_match(loaded', k)
    <2>1. names_to_classes[k] = first_match(loaded, k) /\ names_to_classes[k] # Null
      BY <1>2, ClassFacts DEF DataTyped, DataOK
    <2> QED
      BY <1>2, <2>1, Stays
  <1>6. ASSUME NEW T \in Types, T.form = "plain" PROVE statics[T] \in {Null, first_match(loaded', T.name)}
    <2>1. statics[T] \in {Null, first_match(loaded, T.name)}
      BY <1>2, <1>6 DEF DataOK
    <2> QED
      BY <1>2, <2>1, Stays
  <1>7. DataOK'
    BY <1>1, <1>2, <1>5, <1>6 DEF DataOK
  <1>8. TablesOK'
    BY <1>1 DEF CInv, TablesOK, Complete, plain_names
  <1>9. Alone'
    BY <1>1 DEF CInv, Alone
  <1> QED
    BY <1>4, <1>7, <1>8, <1>9 DEF CInv

--------------------------------------------------------------------------------
(* new_ctor and create_manual. *)
LEMMA MakesIsCorrect ==
  ASSUME IInv, CInv, IInv', NEW t \in Threads, AskClass(t) \/ Create(t) \/ Construct(t)
  PROVE  CInv'
  <1>1. stack[t] # <<>> /\ Top(t).fn = "new_ctor" /\ UNCHANGED lookup_vars
    BY DEF AskClass, Create, Construct, At
  <1>2. Top(t) \in Frames /\ Shape(Top(t)) /\ Top(t).found \in Found /\ Null \in Found
    BY <1>1, TopFacts DEF Frames, Found
  <1>3. DataOK' /\ Grows /\ StaysComplete
    BY <1>1, AllUnchanged
  <1>4. CASE AskClass(t)
    <2>1. Calls(t, class_of(Top(t).of), "create") /\ Top(t).of \in Types
      BY <1>1, <1>2, <1>4 DEF AskClass, Shape
    <2>2. class_of(Top(t).of) \in Frames /\ class_of(Top(t).of).fn = "class_of" /\ class_of(Top(t).of).at = "static"
      BY <2>1, TypeFrame
    <2> QED
      BY <1>1, <2>1, <2>2, CallsOther DEF CallLabels
  <1>5. CASE Create(t) /\ Top(t).found # Null
    <2> DEFINE h == create_manual(Top(t).found)
    <2>1. Calls(t, h, "construct") /\ Top(t).found \in AllClasses
      BY <1>2, <1>5 DEF Create, Found
    <2>2. h \in Frames /\ h.fn = "create_manual" /\ h.at = "check"
      BY <2>1, NewFrame DEF create_manual, Functions, Labels
    <2> HIDE DEF h
    <2> QED
      BY <1>1, <2>1, <2>2, CallsOther DEF CallLabels
  <1>6. CASE \E c \in Found : Answer(t, c)
    <2>1. PICK c \in Found : Answer(t, c)
      BY <1>6
    <2> QED
      BY <1>1, <1>3, <2>1, AnswersCorrectly
  <1> QED
    BY <1>2, <1>4, <1>5, <1>6 DEF Create, Construct, Fail

(* A function that looks nothing up may go to another place. *)
LEMMA GoesOther ==
  ASSUME IInv, CInv, IInv', NEW t \in Threads, NEW label \in Labels, stack[t] # <<>>,
         Top(t).fn \notin {"get_class_from_name", "log_classes"}, label # "initialize",
         Goto(t, label), UNCHANGED lookup_vars
  PROVE  CInv'
  <1> DEFINE f == [Top(t) EXCEPT !.at = label]
  <1>1. Top(t) \in Frames
    BY TopCorrect
  <1>2. f \in Frames /\ Same(Top(t), f) /\ f.at = label
    BY <1>1, FrameAt
  <1>3. With(t, f)
    BY DEF Goto
  <1>4. DataOK' /\ Grows /\ StaysComplete
    BY AllUnchanged
  <1> HIDE DEF f
  <1>5. FrameOK(f, loaded, guards) /\ TopOK(f, loaded, asked)
    BY <1>2, OtherFrame DEF Same
  <1> QED
    BY <1>2, <1>3, <1>4, <1>5, Continues

(* The steps of create_manual keep it. *)
LEMMA ManualIsCorrect ==
  ASSUME IInv, CInv, IInv', NEW t \in Threads, CreateManual(t) \/ StartCctor(t) \/ NestedCreate(t) \/ CctorReturns(t)
  PROVE  CInv'
  <1>1. stack[t] # <<>> /\ Top(t).fn = "create_manual" /\ UNCHANGED lookup_vars
    BY DEF CreateManual, StartCctor, NestedCreate, CctorReturns, At
  <1>2. Top(t) \in Frames /\ Shape(Top(t)) /\ Top(t).of \in Found /\ Null \in Found
    BY <1>1, TopFacts DEF Shape, Found
  <1>3. DataOK' /\ Grows /\ StaysComplete
    BY <1>1, AllUnchanged
  <1>4. CASE \E c \in Found : Answer(t, c)
    <2>1. PICK c \in Found : Answer(t, c)
      BY <1>4
    <2> QED
      BY <1>1, <1>3, <2>1, AnswersCorrectly
  <1>5. CASE Goto(t, "start") \/ Goto(t, "cctor")
    BY <1>1, <1>5, GoesOther DEF Labels
  <1>6. CASE NestedCreate(t)
    <2> DEFINE f == [Top(t) EXCEPT !.i = Top(t).i + 1]
    <2>1. PICK T \in Creatable : stack' = [stack EXCEPT ![t] = Append(Append(Front(stack[t]), f), new_ctor(T))]
      BY <1>6 DEF NestedCreate
    <2>2. new_ctor(T) \in Frames /\ new_ctor(T).fn = "new_ctor" /\ new_ctor(T).at = "class"
      BY CctorsAssumption, MakeFrame
    <2>3. Top(t).i + 1 \in Nat \ {0} /\ Top(t).at = "cctor"
      BY <1>2, <1>6 DEF Frames, NestedCreate, At
    <2>4. f \in Frames /\ Same(Top(t), f) /\ f.at = "cctor"
      BY <1>2, <2>3, FrameI
    <2> HIDE DEF f
    <2>5. FrameOK(f, loaded', guards') /\ WaitOK(f, new_ctor(T), asked')
      BY <1>1, <2>4, OtherFrame DEF Same
    <2>6. FrameOK(new_ctor(T), loaded', guards') /\ TopOK(new_ctor(T), loaded', asked')
      BY <2>2, OtherFrame
    <2> QED
      BY <1>1, <1>3, <2>1, <2>2, <2>4, <2>5, <2>6, WaitsCorrectly
  <1> QED
    BY <1>2, <1>4, <1>5, <1>6 DEF CreateManual, StartCctor, CctorReturns

(* An exception that unwinds to where new_ctor was called keeps it. *)
LEMMA CutIsCorrect ==
  ASSUME IInv, CInv, IInv', NEW t \in Threads, stack[t] # <<>>, Top(t).at # "fill",
         NEW k \in 0 .. Len(stack[t]), k < Len(stack[t]), stack[t][k + 1].fn \in {"new_ctor", "create_manual"},
         stack' = [stack EXCEPT ![t] = SubSeq(stack[t], 1, k)], UNCHANGED lookup_vars
  PROVE  CInv'
  <1> DEFINE r == SubSeq(stack[t], 1, k)
  <1>1. Correct(stack[t], loaded, guards, asked) /\ StackOK(stack[t])
    BY TopCorrect
  <1>2. Correct(r, loaded, guards, asked) /\ ~Logs(r)
    BY <1>1, CorrectCut
  <1>3. DataOK' /\ Grows /\ StaysComplete
    BY AllUnchanged
  <1>4. stack' = [stack EXCEPT ![t] = r]
    OBVIOUS
  <1> HIDE DEF r
  <1>5. Correct(r, loaded', guards', asked')
    BY <1>2 DEF lookup_vars
  <1> QED
    BY <1>2, <1>3, <1>4, <1>5, Stepped

(* A .cctor that throws keeps it. *)
LEMMA ThrowIsCorrect ==
  ASSUME IInv, CInv, IInv', NEW t \in Threads, CctorThrows(t)
  PROVE  CInv'
  <1> DEFINE s == stack[t]
             n == Len(s)
  <1>1. /\ s # <<>> /\ Top(t).fn = "create_manual" /\ Top(t).at = "cctor" /\ Unwound(t, n - 1)
        /\ UNCHANGED <<loaded, names_to_classes, tables, statics, guards, asked>>
    BY DEF CctorThrows, At
  <1>2. s \in Seq(Frames) /\ Top(t) = Last(s)
    BY <1>1, TopFacts DEF StackOK
  <1>3. n \in Nat /\ n >= 1 /\ Top(t) = s[n]
    BY <1>1, <1>2, TopOf
  <1>4. CASE Crash
    <2>1. stack' = [u \in Threads |-> <<>>]
      BY <1>4 DEF Crash
    <2>2. DataOK'
      BY <1>1, DataUnchanged
    <2> QED
      BY <1>1, <2>1, <2>2, CrashIsCorrect
  <1>5. CASE n - 1 > 0 /\ s[n - 1].fn = "new_ctor" /\ UNCHANGED crashed
             /\ stack' = [stack EXCEPT ![t] = SubSeq(s, 1, n - 1 - 1)]
    <2>1. n - 1 - 1 \in 0 .. n /\ n - 1 - 1 < n /\ n - 1 - 1 + 1 = n - 1
      BY <1>3, <1>5
    <2>2. UNCHANGED lookup_vars
      BY <1>1, <1>5 DEF lookup_vars
    <2>3. s[n - 1 - 1 + 1].fn \in {"new_ctor", "create_manual"}
      BY <1>5, <2>1
    <2> QED
      BY <1>1, <1>5, <2>1, <2>2, <2>3, CutIsCorrect
  <1>6. CASE UNCHANGED crashed /\ stack' = [stack EXCEPT ![t] = SubSeq(s, 1, n - 1)]
    <2>1. n - 1 \in 0 .. n /\ n - 1 < n /\ n - 1 + 1 = n
      BY <1>3
    <2>2. UNCHANGED lookup_vars
      BY <1>1, <1>6 DEF lookup_vars
    <2>3. s[n - 1 + 1].fn \in {"new_ctor", "create_manual"}
      BY <1>1, <1>3, <2>1
    <2> QED
      BY <1>1, <1>6, <2>1, <2>2, <2>3, CutIsCorrect
  <1> QED
    BY <1>1, <1>4, <1>5, <1>6 DEF Unwound

--------------------------------------------------------------------------------
(* It holds at first. *)
LEMMA CorrectInitially ==
  ASSUME Init
  PROVE  CInv
  <1>1. \A t \in Threads : stack[t] = <<>>
    BY DEF Init, LookupInit
  <1>2. \A t \in Threads : Correct(stack[t], loaded, guards, asked) /\ ~Logs(stack[t])
    BY <1>1, CorrectEmpty
  <1>3. DOMAIN names_to_classes = {}
    <2>1. names_to_classes = <<>> /\ \A d \in 1 .. 0 : FALSE
      BY DEF Init, LookupInit
    <2> QED
      BY <2>1
  <1>4. (\A T \in Types : statics[T] = Null /\ guards[T] = "unset") /\ \A i \in DOMAIN Assemblies : tables[i] = Unbuilt
    BY DEF Init, LookupInit
  <1>5. DataOK
    BY <1>3, <1>4 DEF DataOK
  <1> QED
    BY <1>2, <1>4, <1>5 DEF CInv, TablesOK, Alone, Complete

(* Every step keeps it, as log_classes runs alone. *)
LEMMA StaysCorrect ==
  ASSUME LogsAlone, IInv, CInv, IInv', [Next]_vars
  PROVE  CInv'
  <1> DEFINE Goal == CInv'
  <1> SUFFICES Goal
    OBVIOUS
  <1>1. ASSUME NEW t \in Threads, Calling(t) PROVE Goal
    BY <1>1, CallingIsCorrect
  <1>2. ASSUME NEW t \in Threads, LookUp(t) PROVE Goal
    BY <1>2, LookUpIsCorrect
  <1>3. ASSUME NEW t \in Threads, Search(t) PROVE Goal
    BY <1>3, SearchIsCorrect
  <1>4. ASSUME NEW t \in Threads, find_nested(t) PROVE Goal
    BY <1>4, NestedIsCorrect
  <1>5. ASSUME NEW t \in Threads, Store(t) PROVE Goal
    BY <1>5, StoreIsCorrect
  <1>6. ASSUME NEW t \in Threads, Return(t) PROVE Goal
    BY <1>6, ReturnIsCorrect
  <1>7. ASSUME NEW t \in Threads, ReadStatic(t) PROVE Goal
    BY <1>7, ReadStaticIsCorrect
  <1>8. ASSUME NEW t \in Threads, BeginStatic(t) PROVE Goal
    BY <1>8, BeginStaticIsCorrect
  <1>9. ASSUME NEW t \in Threads, EndStatic(t) PROVE Goal
    BY <1>9, EndStaticIsCorrect
  <1>10. ASSUME NEW t \in Threads, AskElement(t) PROVE Goal
    BY <1>10, AskElementIsCorrect
  <1>11. ASSUME NEW t \in Threads, MakeArray(t) PROVE Goal
    BY <1>11, MakeArrayIsCorrect
  <1>12. ASSUME NEW t \in Threads, AskBase(t) PROVE Goal
    BY <1>12, AskBaseIsCorrect
  <1>13. ASSUME NEW t \in Threads, AskArgument(t) PROVE Goal
    BY <1>13, AskArgumentIsCorrect
  <1>14. ASSUME NEW t \in Threads, make_generic(t) PROVE Goal
    BY <1>14, GenericIsCorrect
  <1>15. ASSUME NEW t \in Threads, NextImage(t) PROVE Goal
    BY <1>15, NextImageIsCorrect
  <1>16. ASSUME NEW t \in Threads, add_type_to_name(t) PROVE Goal
    BY <1>16, FillIsCorrect
  <1>17. ASSUME NEW t \in Threads, AskClass(t) \/ Create(t) \/ Construct(t) PROVE Goal
    BY <1>17, MakesIsCorrect
  <1>18. ASSUME NEW t \in Threads, CreateManual(t) \/ StartCctor(t) \/ NestedCreate(t) \/ CctorReturns(t) PROVE Goal
    BY <1>18, ManualIsCorrect
  <1>19. ASSUME NEW t \in Threads, CctorThrows(t) PROVE Goal
    BY <1>19, ThrowIsCorrect
  <1>20. ASSUME LoadAssembly PROVE Goal
    BY <1>20, LoadIsCorrect
  <1>21. CASE UNCHANGED vars
    <2>1. UNCHANGED <<loaded, names_to_classes, tables, statics, guards, asked, stack>>
      BY <1>21 DEF vars, lookup_vars
    <2> QED
      BY <2>1 DEF CInv, DataOK, TablesOK, Alone, Complete, plain_names
  <1> HIDE DEF Goal
  <1> QED
    BY <1>1, <1>2, <1>3, <1>4, <1>5, <1>6, <1>7, <1>8, <1>9, <1>10, <1>11, <1>12, <1>13, <1>14, <1>15, <1>16,
       <1>17, <1>18, <1>19, <1>20, <1>21 DEF Next, Gone

(* Lookups stay correct, as long as log_classes runs alone.                *)
THEOREM CorrectnessIsInvariant ==
  ASSUME LogsAlone
  PROVE  Spec => [](IInv /\ CInv)
  <1>1. Init => IInv /\ CInv
    BY Initially, CorrectInitially
  <1>2. IInv /\ CInv /\ [Next]_vars => IInv' /\ CInv'
    BY Steps, StaysCorrect
  <1> QED
    BY <1>1, <1>2, PTL DEF Spec

(* The class that a lookup answers, that is cached or that a static keeps  *)
(* is the one a search of all assemblies would find now, for any number of *)
(* threads that look up, store and create while assemblies are loaded.     *)
THEOREM FirstIsFound ==
  ASSUME LogsAlone
  PROVE  Spec => []FirstMatch
  <1>1. IInv /\ CInv => FirstMatch
    <2> SUFFICES ASSUME IInv, CInv PROVE FirstMatch
      OBVIOUS
    <2>1. ASSUME NEW t \in Threads, Returning(t, "get_class_from_name")
          PROVE  Top(t).found \in {Null, first_match(loaded, Top(t).of.name)}
      <3>1. stack[t] # <<>> /\ Top(t).fn = "get_class_from_name" /\ Top(t).at = "return"
        BY <2>1 DEF Returning
      <3>2. FrameOK(Top(t), loaded, guards)
        BY <3>1, TopCorrect
      <3> QED
        BY <3>1, <3>2 DEF FrameOK, AnswerFor
    <2> QED
      BY <2>1 DEF FirstMatch, CInv, DataOK
  <1> QED
    BY <1>1, CorrectnessIsInvariant, PTL

(* A lookup that answers null, and a static that keeps null for good, mean *)
(* that no assembly that was loaded when the lookup began has the class.   *)
THEOREM NothingIsMissed ==
  ASSUME LogsAlone
  PROVE  Spec => []FailsOnlyWhenUnloaded
  <1>1. IInv /\ CInv => FailsOnlyWhenUnloaded
    <2> SUFFICES ASSUME IInv, CInv PROVE FailsOnlyWhenUnloaded
      OBVIOUS
    <2>1. ASSUME NEW t \in Threads, Returning(t, "get_class_from_name"), Top(t).found = Null
          PROVE  first_match(Top(t).since, Top(t).of.name) = Null
      <3>1. stack[t] # <<>> /\ Top(t).fn = "get_class_from_name" /\ Top(t).at = "return"
        BY <2>1 DEF Returning
      <3>2. FrameOK(Top(t), loaded, guards)
        BY <3>1, TopCorrect
      <3> QED
        BY <2>1, <3>1, <3>2 DEF FrameOK, AnswerFor
    <2> QED
      BY <2>1 DEF FailsOnlyWhenUnloaded, CInv, DataOK
  <1> QED
    BY <1>1, CorrectnessIsInvariant, PTL

================================================================================
