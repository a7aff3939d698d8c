-------------------------------- MODULE Str --------------------------------
(***************************************************************************)
(* The growable C string str_t of str.c, as tmg_expand (main.c) uses it    *)
(* for the generated chunk and for the rendered output: the buffer is      *)
(* created with str_init(in_size * 2), a long that the call converts to    *)
(* int, and then grows by str_push_chr and str_push.                       *)
(*                                                                         *)
(* What the bytes are does not matter here; where they are stored does.    *)
(* Every operation ends by storing the terminating NUL, which is the       *)
(* highest index it writes, so `top' records that index and the buffer is  *)
(* intact as long as top is inside the malloc'ed block.                    *)
(***************************************************************************)
EXTENDS Integers

CONSTANTS
  IntMax,    \* INT_MAX of the build; an int wraps at IntMax + 1
  InSizes,   \* what ftell may return for a template: -1 if it is not seekable
  OtherArgs, \* the arguments of the other callers: -1, 100, sepsize + 1, ...
  Chunks,    \* the strlen of the strings given to str_push
  MaxLen     \* bound on the length, to keep the model finite

ASSUME IntMaxAssumption == IntMax \in Nat
ASSUME InSizesAssumption == InSizes \subseteq {-1} \cup Nat
ASSUME OtherArgsAssumption == OtherArgs \subseteq {-1} \cup (Nat \ {0})
ASSUME ChunksAssumption == Chunks \subseteq Nat
ASSUME MaxLenAssumption == MaxLen \in Nat

VARIABLES
  live,      \* TRUE between str_init and str_deinit
  len,       \* str->len
  cap,       \* str->cap
  block,     \* bytes of the allocation str->data points to; 0 when it is NULL
  top        \* the highest index the last operation stored to

vars == <<live, len, cap, block, top>>

----------------------------------------------------------------------------

\* The conversion of a long argument to the int parameter of str_init.
ToInt(n) == ((n + IntMax + 1) % (2 * (IntMax + 1))) - (IntMax + 1)

\* What malloc or realloc gives for a byte count that was an int: a negative
\* count becomes a size_t no allocation can satisfy, so the result is NULL.
Alloc(n) == IF n < 0 THEN 0 ELSE n

\* str_init: -1 asks for the default capacity; data[0] = '\0' is stored
\* whatever malloc returned.  (The field cap is a size_t: a negative capacity
\* is a huge one there, but the store has then already gone to NULL.)
StrInit(arg) ==
  LET c == IF arg = -1 THEN 10 ELSE arg
  IN  /\ live = TRUE
      /\ len = 0
      /\ cap = c
      /\ block = Alloc(c)
      /\ top = 0

Init ==
  \/ \E s \in InSizes : StrInit(ToInt(2 * s))
  \/ \E a \in OtherArgs : StrInit(a)

\* A store outside the block is undefined behaviour; the process is taken to
\* stop there, as it does when the block is NULL.
Fault == live /\ top >= block

\* Growing to capacity c is a realloc of c bytes.
Grow(c) ==
  /\ cap' = c
  /\ block' = Alloc(c)

\* Defect: the growth test leaves no room for the NUL.
StrPushChrNoSlack ==
  /\ live /\ ~Fault
  /\ len < MaxLen
  /\ IF len >= cap THEN Grow(2 * cap) ELSE UNCHANGED <<cap, block>>
  /\ len' = len + 1
  /\ top' = len'
  /\ UNCHANGED live

\* str_push_chr: doubles the capacity, then stores the byte and the NUL.
StrPushChr ==
  /\ live /\ ~Fault
  /\ len < MaxLen
  /\ IF len + 2 >= cap THEN Grow(2 * cap) ELSE UNCHANGED <<cap, block>>
  /\ len' = len + 1
  /\ top' = len'
  /\ UNCHANGED live

\* str_push: takes twice what it needs, then copies n bytes and the NUL.
StrPush(n) ==
  /\ live /\ ~Fault
  /\ len + n <= MaxLen
  /\ IF len + n + 1 >= cap THEN Grow((len + n + 1) * 2) ELSE UNCHANGED <<cap, block>>
  /\ len' = len + n
  /\ top' = len'
  /\ UNCHANGED live

\* Defect: an empty buffer is popped too.
StrPopChrUnguarded ==
  /\ live /\ ~Fault
  /\ len' = len - 1
  /\ top' = 0
  /\ UNCHANGED <<live, cap, block>>

\* str_pop_chr: drops the last byte, if there is one.
StrPopChr ==
  /\ live /\ ~Fault
  /\ len > 0
  /\ len' = len - 1
  /\ top' = len'
  /\ UNCHANGED <<live, cap, block>>

\* str_clear: keeps the block.
StrClear ==
  /\ live /\ ~Fault
  /\ len' = 0
  /\ top' = 0
  /\ UNCHANGED <<live, cap, block>>

\* str_deinit: the last operation on a buffer.
StrDeinit ==
  /\ live /\ ~Fault
  /\ live' = FALSE
  /\ len' = 0
  /\ cap' = 0
  /\ block' = 0
  /\ UNCHANGED top

Next ==
  \/ StrPushChr
  \/ \E n \in Chunks : StrPush(n)
  \/ StrPopChr
  \/ StrClear
  \/ StrDeinit

Spec == Init /\ [][Next]_vars

----------------------------------------------------------------------------

\* Types of the variables.
TypeOK ==
  /\ live \in BOOLEAN
  /\ len \in Nat
  /\ cap \in Int
  /\ block \in Nat
  /\ top \in Nat

\* No sequence of pushes, pops and clears ever stores outside the block that
\* str_init or a later realloc obtained (str.c, every function).  The two
\* growth tests, `len + 2 >= cap' and `len + len + 1 >= cap', compare with
\* different slack and the doubling one relies on the capacity it starts from.
NoOverrun == ~Fault

\* The recorded capacity is the size of the block, so that a later growth
\* test decides on the truth, and it leaves room for the terminating NUL.
CapIsBlock == live => cap = block /\ len < block

\* Sizes for which the capacity in_size * 2 is a positive int.
PlainSizes == \A s \in InSizes : s > 0 /\ 2 * s <= IntMax
=============================================================================
