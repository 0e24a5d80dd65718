------------------------------- MODULE Loader -------------------------------
(***************************************************************************)
(* LoadProgram (load_program.c) as Exec uses it (KernelExec, and what      *)
(* TrapKernelHandler makes of its result): the checks, the point of no     *)
(* return, the segments of the new program and the argument block at the   *)
(* top of its stack.  Module Memory has the page frames.                   *)
(*                                                                         *)
(* Memory is the bytes of region 1, numbered from 0.  A string is the      *)
(* sequence of its characters; a word takes WordSize bytes, each of which  *)
(* knows which word it is a part of.                                       *)
(***************************************************************************)
EXTENDS Integers, Sequences, FiniteSets

CONSTANTS
  PAGESIZE, MAX_PT_LEN,
  POST_ARGV_NULL_SPACE, INITIAL_STACK_FRAME_SIZE,
  Chars,       \* the characters of arguments
  ArgLists,    \* the argument vectors that are tried
  Files        \* executables: pages of text, of data and of bss

WordSize == 4

ASSUME LoaderAssumption ==
  /\ PAGESIZE \in Nat \ {0} /\ PAGESIZE % 8 = 0 /\ MAX_PT_LEN \in Nat
  /\ POST_ARGV_NULL_SPACE \in Nat /\ INITIAL_STACK_FRAME_SIZE \in Nat
  /\ ArgLists \subseteq Seq(Seq(Chars))
  /\ \A f \in Files : {f.t_npg, f.id_npg, f.ud_npg} \subseteq Nat

LIMIT == PAGESIZE * MAX_PT_LEN    \* VMEM_1_LIMIT

VARIABLES
  at,      \* what LoadProgram does next; "user" and "exit" are its outcome
  li,      \* the executable
  args,    \* argument vector of the call
  fd,      \* the file is open
  argbuf,  \* a set: the saved arguments if the buffer is allocated
  region1, \* what the pages of a segment hold: "old", "none", "data", "text"
  mem,     \* the bytes of the new stack
  sp, pc   \* user_context of the process; pc is "zero" or "entry"

lvars == <<at, li, args, fd, argbuf, region1, mem, sp, pc>>

NUL  == <<"char", 0>>
NULL == 0
Word(w, k) == <<"word", w, k>>

-----------------------------------------------------------------------------
(* Sizes and addresses.                                                    *)

Bytes(s) == Len(s) + 1     \* strlen(s) + 1

argcount == Len(args)

\* The bytes that the first i strings of a list take.
SizeUpTo(list, i) ==
  LET sum[k \in 0 .. Len(list)] == IF k = 0 THEN 0 ELSE sum[k - 1] + Bytes(list[k])
  IN  sum[i]
size == SizeUpTo(args, argcount)

Down(n, m) == n - (n % m)

cp  == LIMIT - size

cpp == Down(cp - (argcount + 3 + POST_ARGV_NULL_SPACE) * WordSize, 8)
cp2 == cpp - INITIAL_STACK_FRAME_SIZE

stack_npg == (LIMIT - Down(cp2, PAGESIZE)) \div PAGESIZE

data_end == li.t_npg + li.id_npg + li.ud_npg

-----------------------------------------------------------------------------

LTypeOK ==
  /\ at \in {"open", "check", "save", "map", "read", "protect",
             "args", "user", "exit"}
  /\ li \in Files /\ args \in ArgLists
  /\ fd \in BOOLEAN /\ argbuf \subseteq {args}
  /\ region1 \in [{"text", "data", "bss", "stack"} -> {"old", "none", "data", "text"}]
  /\ sp \in {0} \cup data_end * PAGESIZE .. LIMIT - 1
  /\ pc \in {"zero", "entry"}

\* KernelExec has cleared the user context.
LInit ==
  /\ at = "open"
  /\ li \in Files /\ args \in ArgLists
  /\ fd = FALSE /\ argbuf = {}
  /\ region1 = [s \in {"text", "data", "bss", "stack"} |-> "old"]
  /\ mem = [x \in {} |-> NUL]
  /\ sp = 0 /\ pc = "zero"

\* LoadProgram gives ERROR: TrapKernelHandler calls KernelExit.
Error == at' = "exit" /\ UNCHANGED <<li, args, argbuf, region1, mem, sp, pc>>

Open ==
  /\ at = "open"
  /\ \/ Error /\ UNCHANGED fd
     \/ /\ at' = "check" /\ fd' = TRUE
        /\ UNCHANGED <<li, args, argbuf, region1, mem, sp, pc>>

\* At least one page is left between heap and stack.
StackFits == stack_npg + data_end < MAX_PT_LEN

\* LoadInfo does not know the format, the entry point is in region 0, or the
\* program does not fit.  Otherwise sp is set.
Check ==
  /\ at = "check"
  /\ \/ Error /\ fd' = FALSE
     \/ ~StackFits /\ Error /\ fd' = FALSE
     \/ /\ StackFits /\ at' = "save"
        /\ sp' = cp2
        /\ UNCHANGED <<li, args, fd, argbuf, region1, mem, pc>>

\* The arguments are saved in region 0; malloc may fail.
Save ==
  /\ at = "save"
  /\ \/ Error /\ UNCHANGED fd
     \/ /\ at' = "map"
        /\ argbuf' = {args}
        /\ UNCHANGED <<li, args, fd, region1, mem, sp, pc>>

\* The old pages are thrown away and new ones mapped; when frames run out the
\* file stays open and the buffer allocated.
Map ==
  /\ at = "map"
  /\ region1' = [s \in DOMAIN region1 |-> "none"]
  /\ \/ at' = "exit" /\ UNCHANGED <<li, args, fd, argbuf, mem, sp, pc>>
     \/ /\ at' = "read"
        /\ mem' = [x \in (MAX_PT_LEN - stack_npg) * PAGESIZE .. LIMIT - 1 |-> <<"junk">>]
        /\ UNCHANGED <<li, args, fd, argbuf, sp, pc>>

\* A short read gives KILL, which KernelExec does not test for: the process
\* goes on with the pc that KernelExec cleared.
Kill == /\ at' = "user" /\ fd' = FALSE
        /\ UNCHANGED <<li, args, argbuf, mem, sp, pc>>

Read ==
  /\ at = "read"
  /\ \/ Kill /\ UNCHANGED region1
     \/ Kill /\ region1' = [region1 EXCEPT !["text"] = "data"]
     \/ /\ at' = "protect" /\ fd' = FALSE
        /\ region1' = [region1 EXCEPT !["text"] = "data", !["data"] = "data"]
        /\ UNCHANGED <<li, args, argbuf, mem, sp, pc>>

\* The text is made executable, the bss is cleared, the entry point is set.
Protect ==
  /\ at = "protect" /\ at' = "args"
  /\ region1' = [region1 EXCEPT !["text"] = "text", !["bss"] = "data"]
  /\ pc' = "entry"
  /\ UNCHANGED <<li, args, fd, argbuf, mem, sp>>

-----------------------------------------------------------------------------
(* The argument block.                                                     *)

\* The bytes of word w at address a, and those of string s.
WordAt(a, w)   == [x \in a .. a + WordSize - 1 |-> Word(w, x - a)]
StringAt(a, s) == [x \in a .. a + Len(s) |->
                     IF x < a + Len(s) THEN s[x - a + 1] ELSE NUL]

Store(m, new) == [x \in DOMAIN m |-> IF x \in DOMAIN new THEN new[x] ELSE m[x]]

\* Mutant of StringAddr: the terminating NUL is not counted.
StringAddr_NoNul(i) == cp + SizeUpTo(args, i - 1) - (i - 1)

\* Where argument i goes.
StringAddr(i) == cp + SizeUpTo(args, i - 1)

\* memset, argc, then every argument's pointer and string, then two NULLs.
Built ==
  LET saved == CHOOSE a \in argbuf : TRUE
      zeroed == [x \in DOMAIN mem |-> IF x >= cpp THEN NUL ELSE mem[x]]
      Put(m, i) == Store(Store(m, WordAt(cpp + i * WordSize, StringAddr(i))),
                         StringAt(StringAddr(i), saved[i]))
      copied[i \in 0 .. argcount] ==
        IF i = 0 THEN Store(zeroed, WordAt(cpp, argcount)) ELSE Put(copied[i - 1], i)
      end == cpp + (argcount + 1) * WordSize
  IN  Store(Store(copied[argcount], WordAt(end, NULL)), WordAt(end + WordSize, NULL))

Args ==
  /\ at = "args" /\ at' = "user"
  /\ mem' = Built
  /\ argbuf' = {}
  /\ UNCHANGED <<li, args, fd, region1, sp, pc>>

Done == at \in {"user", "exit"} /\ UNCHANGED lvars

LNext == Open \/ Check \/ Save \/ Map \/ Read \/ Protect \/ Args \/ Done

LSpec == LInit /\ [][LNext]_lvars

-----------------------------------------------------------------------------
(* Properties.                                                             *)

\* The bytes of new are in mapped memory.
Holds(m, new) == \A x \in DOMAIN new : x \in DOMAIN m /\ m[x] = new[x]

\* What main finds: argc at sp, argv behind it, each string whole and where
\* argv says, NULL behind argv and behind the empty environment, and all of
\* it inside the pages that are mapped, above the program's data and with a
\* page between them.
MainFinds ==
  LET argv == sp + INITIAL_STACK_FRAME_SIZE + WordSize
  IN
  /\ Holds(mem, WordAt(argv - WordSize, Len(args)))
  /\ \A i \in 1 .. Len(args) : \E a \in DOMAIN mem :
       /\ Holds(mem, WordAt(argv + (i - 1) * WordSize, a))
       /\ Holds(mem, StringAt(a, args[i]))
  /\ \A i \in {0, 1} :
       Holds(mem, WordAt(argv + (Len(args) + i) * WordSize, NULL))
  /\ \A x \in DOMAIN mem : x >= (data_end + 1) * PAGESIZE

\* A program that runs after Exec has not failed finds its arguments.
ArgsIntact ==
  /\ LTypeOK
  /\ at = "user" /\ pc = "entry" => MainFinds

=============================================================================
