----------------------------- MODULE HeapProofs -----------------------------
(***************************************************************************)
(* Theorems about the two heaps.  The kernel's: it and the kernel stack of *)
(* the running process stay mapped, the heap one to one, and no frame has  *)
(* two owners (OwnStack, HeapBacked, IdentityMapped and FramesDistinct of  *)
(* module KernelHeap).  A user program's: the break of the library and the *)
(* break of the kernel agree, and malloc's blocks tile what lies below     *)
(* them (BreaksAgree and BlocksTile of module UserHeap).  And about the    *)
(* library's vsnprintf: it stores nothing behind its buffer and gets to    *)
(* the end of every format (WithinBuffer and Advances of module Printf).   *)
(***************************************************************************)
EXTENDS Printf, KernelHeap, UserHeap, QueueTheorems

\* Virtual memory is on.
Enabled == vm \in {"enabled", "on"}

\* The frames above region 0, which pfn_list hands out.
Upper == VMEM_1 .. NFrames - 1

\* The frames of the kernel stack of a process, and all that belong to it.
StackFrames(w) == {k_stack[w][i].pfn : i \in 1 .. StackSize}
Own(w) == StackFrames(w) \cup frames[w]

\* Until the first program is started there is idle and nobody else.
Booting ==
  /\ vm # "on" => activePCB = 0 /\ DOMAIN k_stack = {0} /\ ~spoilt
  /\ ~Enabled => kernel_brk >= DataEnd
  /\ 0 \in DOMAIN k_stack

\* The heap is mapped, and what is mapped above the text can be written.
HeapInv ==
  /\ asked <= kernel_brk
  /\ vm # "off" => \A i \in DataStart .. StackBase - 1 :
       k_pt[i].valid => k_pt[i].prot = "rw"
  /\ vm = "filled" => \A i \in DataStart .. DataEnd - 1 : k_pt[i].valid
  /\ Enabled => \A i \in DataStart .. kernel_brk - 1 : k_pt[i].valid

\* The stack in region 0 is that of the running process.
StackInv ==
  /\ vm = "filled" => \A i \in Stack : k_pt[i] = PTE(TRUE, "rw", i)
  /\ Enabled => \A i \in 1 .. StackSize :
       k_pt[StackBase + i - 1] = k_stack[activePCB][i]
  /\ Enabled => \A w \in DOMAIN k_stack, i \in 1 .. StackSize : k_stack[w][i].valid

\* The entry below the stack is the one that pages are copied through, and
\* every entry below that one has its own frame number.
IdentityInv ==
  vm # "off" /\ ~spoilt =>
    /\ ~k_pt[StackBase - 1].valid
    /\ \A i \in 0 .. StackBase - 2 : k_pt[i].pfn = i

\* Who owns which frame.
OwnInv ==
  Enabled =>
    /\ NoDup(pfn_list)
    /\ \A i \in 1 .. StackSize : k_stack[0][i].pfn = StackBase + i - 1
    /\ \A w \in DOMAIN k_stack \ {0} : StackFrames(w) \subseteq Upper
    /\ \A w \in DOMAIN k_stack, i, j \in 1 .. StackSize :
         k_stack[w][i].pfn = k_stack[w][j].pfn => i = j
    /\ \A w \in DOMAIN k_stack :
         /\ frames[w] \subseteq Upper
         /\ StackFrames(w) \cap frames[w] = {}
         /\ Own(w) \cap Elems(pfn_list) = {}
    /\ \A w, g \in DOMAIN k_stack : w # g => Own(w) \cap Own(g) = {}

KernelHeapInv ==
  TypeOK /\ Booting /\ HeapInv /\ StackInv /\ IdentityInv /\ OwnInv

-----------------------------------------------------------------------------
(* The parts.                                                              *)

\* The numbers.
LEMMA Numbers ==
  /\ DataStart \in Nat /\ DataEnd \in Nat /\ OrigBrk \in Nat /\ StackBase \in Nat
  /\ NFrames \in Nat /\ NProc \in Nat /\ UserPages \in Nat
  /\ StackSize \in Nat /\ StackSize >= 1
  /\ DataStart <= DataEnd /\ DataEnd <= OrigBrk /\ OrigBrk < StackBase
  /\ StackBase >= 1 /\ VMEM_1 = StackBase + StackSize /\ VMEM_1 <= NFrames
  /\ Pages = 0 .. StackBase + StackSize - 1
  /\ Stack = StackBase .. StackBase + StackSize - 1
  BY KernelHeapAssumption DEF VMEM_1, Pages, Stack

\* An entry is read by its fields.
LEMMA Entry ==
  ASSUME NEW v \in BOOLEAN, NEW pr \in {"rx", "rw", "none"}, NEW f \in 0 .. NFrames - 1
  PROVE  /\ PTE(v, pr, f) \in PTEs
         /\ PTE(v, pr, f).valid = v /\ PTE(v, pr, f).prot = pr /\ PTE(v, pr, f).pfn = f
  BY DEF PTE, PTEs

\* The entry that pages are copied through is the last invalid one.
LEMMA ReservedLast ==
  ASSUME NEW pt \in [Pages -> PTEs], Invalid(pt) # {}
  PROVE  /\ Reserved(pt) \in 0 .. StackBase /\ ~pt[Reserved(pt)].valid
         /\ \A j \in 0 .. StackBase : ~pt[j].valid => j <= Reserved(pt)
<1>1. Invalid(pt) \in SUBSET (0 .. StackBase) /\ StackBase \in Nat
  BY Numbers DEF Invalid
<1>2. \E i \in Invalid(pt) : \A j \in Invalid(pt) : j <= i
  BY <1>1, GreatestExists
<1>3. Reserved(pt) \in Invalid(pt) /\ \A j \in Invalid(pt) : j <= Reserved(pt)
  BY <1>2 DEF Reserved
<1> QED
  BY <1>3 DEF Invalid

\* Copying through that entry takes it and gives it back: the same entry is
\* invalid afterwards, and no other one has changed.
LEMMA GivenBack ==
  ASSUME NEW pt \in [Pages -> PTEs], NEW r \in 0 .. StackBase,
         ~pt[r].valid, \A j \in 0 .. StackBase : ~pt[j].valid => j <= r
  PROVE  /\ Invalid(pt) # {} /\ Reserved(pt) = r
         /\ GiveBack(pt, r) = [i \in Pages |->
              IF i = r THEN PTE(FALSE, "none", 0) ELSE pt[i]]
         /\ GiveBack(pt, r) \in [Pages -> PTEs]
<1>1. r \in Invalid(pt) /\ \A j \in Invalid(pt) : j <= r
  BY DEF Invalid
<1>2. \A j \in Invalid(pt) : j \in Int
  BY Numbers DEF Invalid
<1>3. \A j \in Invalid(pt) : (\A k \in Invalid(pt) : k <= j) => j = r
  BY <1>1, <1>2
<1>4. Reserved(pt) = r
  BY <1>1, <1>3 DEF Reserved
<1>5. r \in Pages
  BY Numbers
<1>6. PTE(FALSE, "none", 0) \in PTEs
  <2>1. 0 \in 0 .. NFrames - 1
    BY Numbers
  <2> QED
    BY <2>1, Entry
<1> QED
  BY <1>1, <1>4, <1>5, <1>6 DEF GiveBack

\* AllocatePFN, h and then m times, takes different frames off the list.
LEMMA Allocated ==
  ASSUME TypeOK, NEW h \in Nat, NEW m \in Nat, h + m <= Len(pfn_list)
  PROVE  /\ Rest(h + m) \in Seq(Upper) /\ Elems(Rest(h + m)) \subseteq Elems(pfn_list)
         /\ Range(Taken(h)) \subseteq Elems(pfn_list)
         /\ Elems(pfn_list) \subseteq Upper
         /\ \A i \in 1 .. h : Reverse(Taken(h))[i] = pfn_list[Len(pfn_list) - i + 1]
         /\ \A i \in 1 .. h : Len(pfn_list) - i + 1 \in 1 .. Len(pfn_list)
         /\ \A i \in 1 .. h : Reverse(Taken(h))[i] \in Range(Taken(h))
         /\ NoDup(pfn_list) =>
              /\ NoDup(Rest(h + m)) /\ Range(Taken(h)) \cap Elems(Rest(h + m)) = {}
<1> DEFINE l == Len(pfn_list)
           t == Taken(h)
           u == Rest(h + m)
<1>1. l \in Nat /\ DOMAIN pfn_list = 1 .. l /\ \A i \in 1 .. l : pfn_list[i] \in Upper
  <2>1. pfn_list \in Seq(Upper)
    BY DEF TypeOK, Upper
  <2> QED
    BY <2>1
<1>2. /\ t \in Seq(Upper) /\ Len(t) = h
      /\ \A i \in 1 .. h : t[i] = pfn_list[l - h + i]
  <2>1. \A i \in l - h + 1 .. l : pfn_list[i] \in Upper
    BY <1>1
  <2>2. /\ t \in Seq(Upper)
        /\ Len(t) = IF l - h + 1 <= l THEN l - (l - h + 1) + 1 ELSE 0
        /\ \A i \in 1 .. l - (l - h + 1) + 1 : t[i] = pfn_list[l - h + 1 + i - 1]
    <3>1. l - h + 1 \in Int /\ l \in Int
      BY <1>1
    <3> HIDE DEF l
    <3> QED
      BY <2>1, <3>1, SubSeqProperties DEF Taken, l
  <2>3. l - (l - h + 1) + 1 = h /\ \A i \in 1 .. h : l - h + 1 + i - 1 = l - h + i
    BY <1>1
  <2>4. Len(t) = h
    <3>1. h = 0 => ~(l - h + 1 <= l)
      BY <1>1
    <3>2. h # 0 => l - h + 1 <= l
      BY <1>1, SMTT(40)
    <3> QED
      BY <2>2, <2>3, <3>1, <3>2
  <2> QED
    BY <2>2, <2>3, <2>4
<1>3. /\ u \in Seq(Upper) /\ Len(u) = l - (h + m)
      /\ \A i \in 1 .. l - (h + m) : u[i] = pfn_list[i]
  <2>1. \A i \in 1 .. l - (h + m) : pfn_list[i] \in Upper
    BY <1>1
  <2>2. /\ u \in Seq(Upper)
        /\ Len(u) = IF 1 <= l - (h + m) THEN l - (h + m) - 1 + 1 ELSE 0
        /\ \A i \in 1 .. l - (h + m) - 1 + 1 : u[i] = pfn_list[1 + i - 1]
    <3>1. 1 \in Int /\ l - (h + m) \in Int
      BY <1>1
    <3> QED
      BY <2>1, <3>1, SubSeqProperties DEF Rest
  <2>3. /\ l - (h + m) - 1 + 1 = l - (h + m)
        /\ \A i \in 1 .. l - (h + m) : 1 + i - 1 = i
    BY <1>1
  <2>4. Len(u) = l - (h + m)
    <3>1. l - (h + m) \in Nat
      BY <1>1
    <3> QED
      BY <2>2, <3>1
  <2> QED
    BY <2>2, <2>3, <2>4
<1> HIDE DEF l, t, u
<1>4. DOMAIN t = 1 .. h /\ DOMAIN u = 1 .. l - (h + m)
  BY <1>2, <1>3
<1>5. /\ \A i \in 1 .. h : l - h + i \in 1 .. l /\ l - i + 1 \in 1 .. l /\ h - i + 1 \in 1 .. h
      /\ \A i \in 1 .. h : l - h + (h - i + 1) = l - i + 1
      /\ \A i \in 1 .. l - (h + m) : i \in 1 .. l
      /\ \A i \in 1 .. h, j \in 1 .. l - (h + m) : l - h + i # j
  BY <1>1 DEF l
<1>6. Elems(u) \subseteq Elems(pfn_list) /\ Range(t) \subseteq Elems(pfn_list)
  <2>1. \A i \in DOMAIN u : \E j \in DOMAIN pfn_list : u[i] = pfn_list[j]
    BY <1>1, <1>3, <1>4, <1>5
  <2>2. \A i \in DOMAIN t : \E j \in DOMAIN pfn_list : t[i] = pfn_list[j]
    BY <1>1, <1>2, <1>4, <1>5
  <2> QED
    BY <2>1, <2>2 DEF Elems, Range
<1>7. \A i \in 1 .. h : Reverse(t)[i] = t[h - i + 1]
  BY <1>2 DEF Reverse
<1>8. /\ \A i \in 1 .. h : Reverse(t)[i] = pfn_list[l - i + 1]
      /\ \A i \in 1 .. h : Reverse(t)[i] \in Range(t)
  <2> SUFFICES ASSUME NEW i \in 1 .. h
               PROVE  Reverse(t)[i] = pfn_list[l - i + 1] /\ Reverse(t)[i] \in Range(t)
    OBVIOUS
  <2>1. h - i + 1 \in 1 .. h /\ l - h + (h - i + 1) = l - i + 1
    BY <1>5
  <2>2. t[h - i + 1] = pfn_list[l - h + (h - i + 1)] /\ Reverse(t)[i] = t[h - i + 1]
    BY <1>2, <1>7, <2>1
  <2> QED
    BY <1>4, <2>1, <2>2 DEF Range
<1>9. ASSUME NoDup(pfn_list)
      PROVE  NoDup(u) /\ Range(t) \cap Elems(u) = {}
  <2>1. NoDup(u)
    BY <1>1, <1>3, <1>4, <1>5, <1>9 DEF NoDup
  <2>2. \A i \in 1 .. h, j \in 1 .. l - (h + m) : t[i] # u[j]
    <3> TAKE i \in 1 .. h, j \in 1 .. l - (h + m)
    <3>1. t[i] = pfn_list[l - h + i] /\ u[j] = pfn_list[j]
      BY <1>2, <1>3
    <3>2. l - h + i \in 1 .. l /\ j \in 1 .. l /\ l - h + i # j
      BY <1>5
    <3> DEFINE c == l - h + i
    <3> HIDE DEF c
    <3>3. c \in DOMAIN pfn_list /\ j \in DOMAIN pfn_list /\ c # j
      BY <1>1, <3>2 DEF c
    <3>4. pfn_list[c] # pfn_list[j]
      BY <1>9, <3>3 DEF NoDup
    <3> QED
      BY <3>1, <3>4 DEF c
  <2> QED
    BY <1>4, <2>1, <2>2 DEF Elems, Range
<1>10. Elems(pfn_list) \subseteq Upper
  BY <1>1 DEF Elems
<1> QED
  BY <1>3, <1>5, <1>6, <1>8, <1>9, <1>10 DEF l, t, u

\* A finite set is listed without duplicates.
LEMMA Listed ==
  ASSUME NEW F, IsFiniteSet(F)
  PROVE  /\ SetToSeq(F) \in Seq(F) /\ Elems(SetToSeq(F)) \subseteq F
         /\ NoDup(SetToSeq(F))
<1>1. Cardinality(F) \in Nat /\ ExistsBijection(1 .. Cardinality(F), F)
  BY FS_CardinalityType
<1>2. \E f \in [1 .. Cardinality(F) -> F] : IsInjective(f)
  BY <1>1 DEF ExistsBijection, Bijection, Injection
<1>3. SetToSeq(F) \in [1 .. Cardinality(F) -> F] /\ IsInjective(SetToSeq(F))
  BY <1>2 DEF SetToSeq
<1> QED
  BY <1>1, <1>3 DEF IsInjective, NoDup, Elems

-----------------------------------------------------------------------------
(* Owners of frames.                                                       *)

\* A process's frames, when its tables do not change.
LEMMA SameOwn ==
  ASSUME NEW w, k_stack'[w] = k_stack[w], frames'[w] = frames[w]
  PROVE  StackFrames(w)' = StackFrames(w) /\ Own(w)' = Own(w)
  BY DEF StackFrames, Own

\* init_process and CopyUPT give the child frames that were free.
LEMMA OwnGrow ==
  ASSUME TypeOK, OwnInv, Enabled, 0 \in DOMAIN k_stack, NEW w \in 1 .. NProc, Make(w),
         Len(pfn_list) >= StackSize + UserPages,
         pfn_list' = Rest(StackSize + UserPages),
         k_stack' = Extend(k_stack, w,
           [i \in 1 .. StackSize |-> PTE(TRUE, "rw", Reverse(Taken(StackSize))[i])]),
         frames' = Extend(frames, w,
           Range(Taken(StackSize + UserPages)) \ Range(Taken(StackSize)))
  PROVE  /\ OwnInv' /\ pfn_list' \in Seq(Upper)
         /\ DOMAIN k_stack' = DOMAIN k_stack \cup {w} /\ DOMAIN frames' = DOMAIN k_stack'
         /\ \A g \in DOMAIN k_stack : k_stack'[g] = k_stack[g]
         /\ k_stack'[w] \in [1 .. StackSize -> PTEs]
         /\ \A i \in 1 .. StackSize : k_stack'[w][i].valid
<1> DEFINE l == Len(pfn_list)
           t == Range(Taken(StackSize))
           both == Range(Taken(StackSize + UserPages))
<1>1. /\ DOMAIN k_stack' = DOMAIN k_stack \cup {w} /\ DOMAIN frames' = DOMAIN k_stack'
      /\ w \notin DOMAIN k_stack /\ w # 0 /\ DOMAIN frames = DOMAIN k_stack
      /\ \A g \in DOMAIN k_stack : k_stack'[g] = k_stack[g] /\ frames'[g] = frames[g]
      /\ frames'[w] = both \ t
      /\ \A i \in 1 .. StackSize : k_stack'[w][i] = PTE(TRUE, "rw", Reverse(Taken(StackSize))[i])
      /\ DOMAIN k_stack'[w] = 1 .. StackSize
      /\ k_stack'[w] = [i \in 1 .. StackSize |-> PTE(TRUE, "rw", Reverse(Taken(StackSize))[i])]
  BY DEF Extend, Make, TypeOK
<1>2. /\ StackSize \in Nat /\ UserPages \in Nat /\ StackSize + UserPages \in Nat
      /\ StackSize + UserPages <= l /\ (StackSize + UserPages) + 0 = StackSize + UserPages
      /\ l \in Nat /\ DOMAIN pfn_list = 1 .. l /\ \A i \in 1 .. l : i \in Int
  <2>1. pfn_list \in Seq(Upper)
    BY DEF TypeOK, Upper
  <2> QED
    BY <2>1, Numbers
<1>3. NoDup(pfn_list)
  BY DEF OwnInv
<1>4. /\ pfn_list' \in Seq(Upper) /\ Elems(pfn_list') \subseteq Elems(pfn_list)
      /\ t \subseteq Elems(pfn_list) /\ Elems(pfn_list) \subseteq Upper
      /\ \A i \in 1 .. StackSize : Reverse(Taken(StackSize))[i] = pfn_list[l - i + 1]
      /\ \A i \in 1 .. StackSize : l - i + 1 \in 1 .. l
      /\ \A i \in 1 .. StackSize : Reverse(Taken(StackSize))[i] \in t
      /\ NoDup(pfn_list') /\ t \cap Elems(pfn_list') = {}
  BY <1>2, <1>3, Allocated
<1>5. /\ both \subseteq Elems(pfn_list) /\ both \cap Elems(pfn_list') = {}
  <2>1. 0 \in Nat
    OBVIOUS
  <2> QED
    BY <1>2, <1>3, <2>1, Allocated
<1> HIDE DEF l, t, both
<1>6. \A i \in 1 .. StackSize :
        /\ Reverse(Taken(StackSize))[i] \in Upper
        /\ k_stack'[w][i] \in PTEs /\ k_stack'[w][i].valid
        /\ k_stack'[w][i].pfn = Reverse(Taken(StackSize))[i]
  <2> TAKE i \in 1 .. StackSize
  <2>1. Reverse(Taken(StackSize))[i] \in Upper
    BY <1>4
  <2>2. Reverse(Taken(StackSize))[i] \in 0 .. NFrames - 1
    BY <2>1, Numbers DEF Upper
  <2>3. \A f \in 0 .. NFrames - 1 : /\ PTE(TRUE, "rw", f) \in PTEs
                                    /\ PTE(TRUE, "rw", f).valid
                                    /\ PTE(TRUE, "rw", f).pfn = f
    BY Entry
  <2>4. k_stack'[w][i] = PTE(TRUE, "rw", Reverse(Taken(StackSize))[i])
    BY <1>1
  <2> QED
    BY <2>1, <2>2, <2>3, <2>4
<1>7. k_stack'[w] \in [1 .. StackSize -> PTEs]
  BY <1>1, <1>6
<1>8. StackFrames(w)' \subseteq t
  <2> SUFFICES ASSUME NEW x \in StackFrames(w)'
               PROVE  x \in t
    OBVIOUS
  <2>1. PICK i \in 1 .. StackSize : x = k_stack'[w][i].pfn
    BY DEF StackFrames
  <2> QED
    BY <1>4, <1>6, <2>1
<1>9. /\ Own(w)' \subseteq Elems(pfn_list) /\ Own(w)' \cap Elems(pfn_list') = {}
      /\ StackFrames(w)' \cap frames'[w] = {}
  BY <1>1, <1>4, <1>5, <1>8 DEF Own
<1>10. \A i, j \in 1 .. StackSize : k_stack'[w][i].pfn = k_stack'[w][j].pfn => i = j
  <2> SUFFICES ASSUME NEW i \in 1 .. StackSize, NEW j \in 1 .. StackSize,
                      k_stack'[w][i].pfn = k_stack'[w][j].pfn
               PROVE  i = j
    OBVIOUS
  <2>1. pfn_list[l - i + 1] = pfn_list[l - j + 1]
    BY <1>4, <1>6
  <2>2. l - i + 1 = l - j + 1
    BY <1>2, <1>3, <1>4, <2>1 DEF NoDup
  <2> QED
    BY <1>2, <2>2
<1>11. \A g \in DOMAIN k_stack : /\ StackFrames(g)' = StackFrames(g) /\ Own(g)' = Own(g)
                                 /\ frames'[g] = frames[g] /\ k_stack'[g] = k_stack[g]
  BY <1>1, SameOwn
<1>12. OwnInv'
  <2>1. \A i \in 1 .. StackSize : k_stack'[0][i].pfn = StackBase + i - 1
    BY <1>11 DEF OwnInv
  <2>2. \A g \in DOMAIN k_stack' \ {0} : StackFrames(g)' \subseteq Upper
    <3> TAKE g \in DOMAIN k_stack' \ {0}
    <3>1. CASE g = w
      BY <1>4, <1>8, <3>1
    <3>2. CASE g \in DOMAIN k_stack
      <4>1. StackFrames(g) \subseteq Upper
        BY <3>2 DEF OwnInv
      <4> QED
        BY <1>11, <3>2, <4>1
    <3> QED
      BY <1>1, <3>1, <3>2
  <2>3. \A g \in DOMAIN k_stack', i, j \in 1 .. StackSize :
          k_stack'[g][i].pfn = k_stack'[g][j].pfn => i = j
    <3> SUFFICES ASSUME NEW g \in DOMAIN k_stack', NEW i \in 1 .. StackSize,
                        NEW j \in 1 .. StackSize, k_stack'[g][i].pfn = k_stack'[g][j].pfn
                 PROVE  i = j
      OBVIOUS
    <3>1. CASE g = w
      BY <1>10, <3>1
    <3>2. CASE g \in DOMAIN k_stack
      BY <1>11, <3>2, ZenonT(60) DEF OwnInv
    <3> QED
      BY <1>1, <3>1, <3>2
  <2>4. \A g \in DOMAIN k_stack' : /\ frames'[g] \subseteq Upper
                                   /\ StackFrames(g)' \cap frames'[g] = {}
                                   /\ Own(g)' \cap Elems(pfn_list') = {}
    <3> TAKE g \in DOMAIN k_stack'
    <3>1. CASE g = w
      BY <1>1, <1>4, <1>5, <1>9, <3>1
    <3>2. CASE g \in DOMAIN k_stack
      <4>1. /\ frames[g] \subseteq Upper /\ StackFrames(g) \cap frames[g] = {}
            /\ Own(g) \cap Elems(pfn_list) = {}
        BY <3>2 DEF OwnInv
      <4>2. StackFrames(g)' = StackFrames(g) /\ Own(g)' = Own(g) /\ frames'[g] = frames[g]
        BY <1>11, <3>2
      <4> QED
        BY <1>4, <4>1, <4>2
    <3> QED
      BY <1>1, <3>1, <3>2
  <2>5. \A g, r \in DOMAIN k_stack' : g # r => Own(g)' \cap Own(r)' = {}
    <3>1. \A g \in DOMAIN k_stack : Own(g)' \cap Own(w)' = {}
      BY <1>9, <1>11, ZenonT(60) DEF OwnInv
    <3>2. \A g, r \in DOMAIN k_stack : g # r => Own(g)' \cap Own(r)' = {}
      BY <1>11 DEF OwnInv
    <3> QED
      BY <1>1, <3>1, <3>2
  <2> QED
    BY <1>4, <2>1, <2>2, <2>3, <2>4, <2>5 DEF OwnInv
<1> QED
  BY <1>1, <1>4, <1>6, <1>7, <1>12

\* KernelExit puts all frames of the process on the free list.
LEMMA OwnExit ==
  ASSUME TypeOK, OwnInv, Enabled, activePCB # 0,
         pfn_list' = pfn_list \o Pfns(k_stack[activePCB]) \o SetToSeq(frames[activePCB]),
         k_stack' = [w \in DOMAIN k_stack \ {activePCB} |-> k_stack[w]],
         frames' = [w \in DOMAIN frames \ {activePCB} |-> frames[w]],
         0 \in DOMAIN k_stack
  PROVE  OwnInv' /\ pfn_list' \in Seq(Upper)
<1> DEFINE me == activePCB
           a == Pfns(k_stack[me])
           b == SetToSeq(frames[me])
<1>1. /\ me \in DOMAIN k_stack /\ DOMAIN frames = DOMAIN k_stack
      /\ pfn_list \in Seq(Upper) /\ StackSize \in Nat
      /\ NoDup(pfn_list) /\ StackFrames(me) \subseteq Upper /\ frames[me] \subseteq Upper
      /\ StackFrames(me) \cap frames[me] = {}
      /\ Own(me) \cap Elems(pfn_list) = {}
      /\ \A i, j \in 1 .. StackSize : k_stack[me][i].pfn = k_stack[me][j].pfn => i = j
  BY Numbers DEF TypeOK, OwnInv, Upper
<1> HIDE DEF me
<1>2. a \in Seq(Upper) /\ Elems(a) = StackFrames(me) /\ NoDup(a)
  <2>1. /\ DOMAIN a = 1 .. StackSize
        /\ \A i \in 1 .. StackSize : a[i] = k_stack[me][i].pfn
    BY DEF Pfns
  <2>2. \A i \in 1 .. StackSize : a[i] \in Upper
    BY <1>1, <2>1 DEF StackFrames
  <2>3. a \in [1 .. StackSize -> Upper]
    BY <2>2 DEF Pfns
  <2> HIDE DEF a
  <2>4. a \in Seq(Upper)
    <3>1. StackSize \in Nat
      BY <1>1
    <3> QED
      BY <2>3, <3>1, SeqDef
  <2>5. Elems(a) = StackFrames(me)
    BY <2>1 DEF Elems, StackFrames
  <2>6. NoDup(a)
    BY <1>1, <2>1 DEF NoDup
  <2> QED
    BY <2>4, <2>5, <2>6
<1>3. b \in Seq(Upper) /\ Elems(b) \subseteq frames[me] /\ NoDup(b)
  <2>1. IsFiniteSet(Upper)
    <3>1. VMEM_1 \in Int /\ NFrames - 1 \in Int
      BY Numbers
    <3> QED
      BY <3>1, FS_Interval DEF Upper
  <2>2. IsFiniteSet(frames[me])
    BY <1>1, <2>1, FS_Subset
  <2>3. b \in Seq(frames[me]) /\ Elems(b) \subseteq frames[me] /\ NoDup(b)
    BY <2>2, Listed
  <2> QED
    BY <1>1, <2>3
<1> HIDE DEF a, b
<1>4. /\ pfn_list \o a \in Seq(Upper) /\ NoDup(pfn_list \o a)
      /\ Elems(pfn_list \o a) = Elems(pfn_list) \cup StackFrames(me)
  <2>1. Elems(pfn_list) \cap Elems(a) = {}
    BY <1>1, <1>2 DEF Own
  <2> QED
    BY <1>1, <1>2, <2>1, ConcatQueue
<1>5. /\ pfn_list' \in Seq(Upper) /\ NoDup(pfn_list')
      /\ Elems(pfn_list') \subseteq Elems(pfn_list) \cup Own(me)
  <2>1. Elems(pfn_list \o a) \cap Elems(b) = {}
    BY <1>1, <1>3, <1>4 DEF Own
  <2>2. pfn_list' = (pfn_list \o a) \o b
    BY DEF a, b, me
  <2> DEFINE c == pfn_list \o a
  <2>3. /\ c \in Seq(Upper) /\ NoDup(c) /\ Elems(c) \cap Elems(b) = {}
        /\ Elems(c) = Elems(pfn_list) \cup StackFrames(me) /\ pfn_list' = c \o b
    BY <1>4, <2>1, <2>2
  <2> HIDE DEF c
  <2>4. /\ c \o b \in Seq(Upper) /\ NoDup(c \o b)
        /\ Elems(c \o b) = Elems(c) \cup Elems(b)
    BY <1>3, <2>3, ConcatQueue
  <2> QED
    BY <1>3, <2>3, <2>4 DEF Own
<1>6. /\ DOMAIN k_stack' = DOMAIN k_stack \ {me} /\ me # 0
      /\ \A g \in DOMAIN k_stack \ {me} : /\ StackFrames(g)' = StackFrames(g)
           /\ Own(g)' = Own(g) /\ frames'[g] = frames[g] /\ k_stack'[g] = k_stack[g]
  <2>1. /\ DOMAIN k_stack' = DOMAIN k_stack \ {me} /\ me # 0
        /\ \A g \in DOMAIN k_stack \ {me} : frames'[g] = frames[g] /\ k_stack'[g] = k_stack[g]
    BY <1>1 DEF me
  <2> QED
    BY <2>1, SameOwn
<1>7. \A g \in DOMAIN k_stack \ {me} : Own(g) \cap Elems(pfn_list') = {}
  BY <1>1, <1>5 DEF OwnInv
<1>8. OwnInv'
  <2>1. \A i \in 1 .. StackSize : k_stack'[0][i].pfn = StackBase + i - 1
    BY <1>6 DEF OwnInv
  <2>2. \A g \in DOMAIN k_stack' \ {0} : StackFrames(g)' \subseteq Upper
    <3> TAKE g \in DOMAIN k_stack' \ {0}
    <3>1. g \in DOMAIN k_stack \ {0} /\ StackFrames(g)' = StackFrames(g)
      BY <1>6
    <3>2. StackFrames(g) \subseteq Upper
      BY <3>1 DEF OwnInv
    <3> QED
      BY <3>1, <3>2
  <2>3. \A g \in DOMAIN k_stack', i, j \in 1 .. StackSize :
          k_stack'[g][i].pfn = k_stack'[g][j].pfn => i = j
    BY <1>6 DEF OwnInv
  <2>4. \A g \in DOMAIN k_stack' : /\ frames'[g] \subseteq Upper
                                   /\ StackFrames(g)' \cap frames'[g] = {}
                                   /\ Own(g)' \cap Elems(pfn_list') = {}
    BY <1>6, <1>7 DEF OwnInv
  <2>5. \A g, r \in DOMAIN k_stack' : g # r => Own(g)' \cap Own(r)' = {}
    BY <1>6, ZenonT(60) DEF OwnInv
  <2> QED
    BY <1>5, <2>1, <2>2, <2>3, <2>4, <2>5 DEF OwnInv
<1> QED
  BY <1>5, <1>8

\* Frames that get lost leave the rest as it was.
LEMMA OwnLoss ==
  ASSUME OwnInv, Enabled, NoDup(pfn_list'), Elems(pfn_list') \subseteq Elems(pfn_list),
         UNCHANGED <<k_stack, frames>>
  PROVE  OwnInv'
<1>1. \A g : StackFrames(g)' = StackFrames(g) /\ Own(g)' = Own(g)
  BY DEF StackFrames, Own
<1> QED
  BY <1>1 DEF OwnInv

-----------------------------------------------------------------------------
(* Boot.                                                                   *)

\* An entry with the number of its page.
LEMMA PageEntry ==
  ASSUME NEW i \in Pages
  PROVE  /\ PTE(TRUE, "rx", i) \in PTEs /\ PTE(TRUE, "rx", i).valid
         /\ PTE(TRUE, "rx", i).prot = "rx" /\ PTE(TRUE, "rx", i).pfn = i
         /\ PTE(TRUE, "rw", i) \in PTEs /\ PTE(TRUE, "rw", i).valid
         /\ PTE(TRUE, "rw", i).prot = "rw" /\ PTE(TRUE, "rw", i).pfn = i
         /\ PTE(FALSE, "none", i) \in PTEs /\ ~PTE(FALSE, "none", i).valid
         /\ PTE(FALSE, "none", i).prot = "none" /\ PTE(FALSE, "none", i).pfn = i
<1>1. i \in 0 .. NFrames - 1
  BY Numbers
<1> QED
  BY <1>1 DEF PTE, PTEs

\* The first state.
LEMMA KernelHeapInit == Init => KernelHeapInv
<1> SUFFICES ASSUME Init PROVE KernelHeapInv
  OBVIOUS
<1>1. PTE(FALSE, "none", 0) \in PTEs
  <2>1. 0 \in 0 .. NFrames - 1
    BY Numbers
  <2> QED
    BY <2>1, Entry
<1>2. /\ k_pt \in [Pages -> PTEs] /\ DOMAIN k_stack = {0} /\ DOMAIN frames = {0}
      /\ k_stack[0] \in [1 .. StackSize -> PTEs]
  BY <1>1 DEF Init
<1>3. TypeOK
  <2>1. pfn_list \in Seq(VMEM_1 .. NFrames - 1) /\ vm \in {"off", "filled", "enabled", "on"}
    BY DEF Init
  <2>2. /\ kernel_brk \in 0 .. StackBase - 1 /\ asked \in 0 .. StackBase
        /\ activePCB = 0 /\ 0 \in 0 .. NProc
    BY Numbers DEF Init
  <2>3. spoilt \in BOOLEAN
    BY DEF Init
  <2> QED
    BY <1>2, <2>1, <2>2, <2>3 DEF TypeOK
<1>4. Booting
  BY <1>2, Numbers DEF Init, Booting, Enabled
<1>5. HeapInv /\ StackInv /\ IdentityInv /\ OwnInv
  BY Numbers DEF Init, HeapInv, StackInv, IdentityInv, OwnInv, Enabled
<1> QED
  BY <1>3, <1>4, <1>5 DEF KernelHeapInv

\* SetRegion0_pt maps text, data, heap and stack one to one.
LEMMA RegionFilled ==
  ASSUME kernel_brk \in 0 .. StackBase - 1
  PROVE  /\ SetRegion0_pt \in [Pages -> PTEs]
         /\ \A i \in DataStart .. StackBase - 1 :
              SetRegion0_pt[i].valid => SetRegion0_pt[i].prot = "rw"
         /\ \A i \in DataStart .. DataEnd - 1 : SetRegion0_pt[i].valid
         /\ \A i \in Stack : SetRegion0_pt[i] = PTE(TRUE, "rw", i)
         /\ ~SetRegion0_pt[StackBase - 1].valid
         /\ \A i \in 0 .. StackBase - 2 : SetRegion0_pt[i].pfn = i
<1> DEFINE pt == SetRegion0_pt
<1>1. /\ \A i \in Pages : i < DataStart => pt[i] = PTE(TRUE, "rx", i)
      /\ \A i \in Pages : ~(i < DataStart) /\ (i < DataEnd \/ i < kernel_brk \/ i \in Stack) =>
           pt[i] = PTE(TRUE, "rw", i)
      /\ \A i \in Pages :
           ~(i < DataStart) /\ ~(i < DataEnd \/ i < kernel_brk \/ i \in Stack) =>
           pt[i] = PTE(FALSE, "none", i)
      /\ DOMAIN pt = Pages /\ pt = [i \in Pages |-> pt[i]]
  BY DEF SetRegion0_pt
<1> HIDE DEF pt
<1>2. \A i \in Pages : /\ pt[i] \in PTEs /\ pt[i].pfn = i
                       /\ ~(i < DataStart) /\ pt[i].valid => pt[i].prot = "rw"
                       /\ ~(i < DataStart) /\ i < DataEnd => pt[i].valid
                       /\ ~(i < DataStart) /\ ~(i < DataEnd) /\ ~(i < kernel_brk)
                            /\ i \notin Stack => ~pt[i].valid
  <2> TAKE i \in Pages
  <2>1. CASE i < DataStart
    <3>1. pt[i] = PTE(TRUE, "rx", i)
      BY <1>1, <2>1
    <3>2. pt[i] \in PTEs /\ pt[i].pfn = i
      BY <3>1, PageEntry, ZenonT(60)
    <3> QED
      BY <2>1, <3>2
  <2>2. CASE ~(i < DataStart) /\ (i < DataEnd \/ i < kernel_brk \/ i \in Stack)
    <3>1. pt[i] = PTE(TRUE, "rw", i)
      BY <1>1, <2>2
    <3>2. /\ PTE(TRUE, "rw", i) \in PTEs /\ PTE(TRUE, "rw", i).valid
          /\ PTE(TRUE, "rw", i).prot = "rw" /\ PTE(TRUE, "rw", i).pfn = i
      BY PageEntry
    <3> QED
      BY <2>2, <3>1, <3>2
  <2>3. CASE ~(i < DataStart) /\ ~(i < DataEnd \/ i < kernel_brk \/ i \in Stack)
    <3>1. pt[i] = PTE(FALSE, "none", i)
      BY <1>1, <2>3
    <3>2. pt[i] \in PTEs /\ pt[i].pfn = i /\ ~pt[i].valid
      BY <3>1, PageEntry, ZenonT(60)
    <3> QED
      BY <2>3, <3>2
  <2> QED
    BY <2>1, <2>2, <2>3
<1>3. pt \in [Pages -> PTEs]
  BY <1>1, <1>2
<1>4. /\ \A i \in DataStart .. StackBase - 1 : i \in Pages /\ ~(i < DataStart)
      /\ \A i \in DataStart .. DataEnd - 1 : i \in Pages /\ ~(i < DataStart) /\ i < DataEnd
      /\ \A i \in Stack : i \in Pages /\ ~(i < DataStart)
      /\ \A i \in 0 .. StackBase - 2 : i \in Pages
  BY Numbers
<1>5. /\ StackBase - 1 \in Pages /\ ~(StackBase - 1 < DataStart)
      /\ ~(StackBase - 1 < DataEnd) /\ ~(StackBase - 1 < kernel_brk)
      /\ StackBase - 1 \notin Stack
  BY Numbers
<1>6. \A i \in Stack : pt[i] = PTE(TRUE, "rw", i)
  BY <1>1, <1>4
<1>7. ~pt[StackBase - 1].valid
  BY <1>2, <1>5
<1> QED
  BY <1>2, <1>3, <1>4, <1>6, <1>7 DEF pt

LEMMA FillStep ==
  ASSUME KernelHeapInv, FillTable
  PROVE  KernelHeapInv'
<1>1. /\ TypeOK /\ Booting /\ HeapInv /\ kernel_brk \in 0 .. StackBase - 1
      /\ vm = "off" /\ vm' = "filled" /\ k_pt' = SetRegion0_pt
      /\ UNCHANGED <<kernel_brk, asked, pfn_list, activePCB, k_stack, frames, spoilt>>
  BY DEF KernelHeapInv, TypeOK, FillTable
<1>2. /\ k_pt' \in [Pages -> PTEs]
      /\ \A i \in DataStart .. StackBase - 1 : k_pt'[i].valid => k_pt'[i].prot = "rw"
      /\ \A i \in DataStart .. DataEnd - 1 : k_pt'[i].valid
      /\ \A i \in Stack : k_pt'[i] = PTE(TRUE, "rw", i)
      /\ ~k_pt'[StackBase - 1].valid
      /\ \A i \in 0 .. StackBase - 2 : k_pt'[i].pfn = i
  BY <1>1, RegionFilled
<1>3. TypeOK'
  BY <1>1, <1>2 DEF TypeOK
<1>4. Booting' /\ HeapInv'
  BY <1>1, <1>2 DEF Booting, HeapInv, Enabled
<1>5. StackInv' /\ IdentityInv' /\ OwnInv'
  BY <1>1, <1>2 DEF StackInv, IdentityInv, OwnInv, Enabled
<1> QED
  BY <1>3, <1>4, <1>5 DEF KernelHeapInv

LEMMA EnableStep ==
  ASSUME KernelHeapInv, EnableVM
  PROVE  KernelHeapInv'
<1>1. /\ TypeOK /\ Booting /\ HeapInv /\ StackInv /\ IdentityInv
      /\ vm = "filled" /\ vm' = "enabled" /\ k_pt' = HeapRepeated
      /\ NFrames - VMEM_1 >= UserPages
      /\ pfn_list' = [i \in 1 .. NFrames - VMEM_1 - UserPages |-> NFrames - i]
      /\ frames' = [frames EXCEPT ![0] = VMEM_1 .. VMEM_1 + UserPages - 1]
      /\ k_stack' = [k_stack EXCEPT ![0] =
           [i \in 1 .. StackSize |-> PTE(TRUE, "rw", k_pt[StackBase + i - 1].pfn)]]
      /\ UNCHANGED <<kernel_brk, asked, activePCB, spoilt>>
  BY DEF KernelHeapInv, EnableVM
<1>2. /\ k_pt \in [Pages -> PTEs] /\ kernel_brk \in 0 .. StackBase - 1
      /\ kernel_brk >= DataEnd /\ activePCB = 0 /\ ~spoilt
      /\ DOMAIN k_stack = {0} /\ DOMAIN frames = {0}
  BY <1>1 DEF TypeOK, Booting, Enabled
<1>3. /\ \A i \in Pages : i >= DataEnd /\ i < kernel_brk => k_pt'[i] = PTE(TRUE, "rw", i)
      /\ \A i \in Pages : ~(i >= DataEnd /\ i < kernel_brk) => k_pt'[i] = k_pt[i]
      /\ k_pt' = [i \in Pages |-> k_pt'[i]]
  BY <1>1 DEF HeapRepeated
<1>4. \A i \in Pages : /\ k_pt'[i] \in PTEs
                       /\ i >= DataEnd /\ i < kernel_brk => k_pt'[i].valid
                       /\ i >= DataEnd /\ i < kernel_brk => k_pt'[i].prot = "rw"
                       /\ i >= DataEnd /\ i < kernel_brk => k_pt'[i].pfn = i
  <2> TAKE i \in Pages
  <2>1. CASE i >= DataEnd /\ i < kernel_brk
    <3>1. k_pt'[i] = PTE(TRUE, "rw", i)
      BY <1>3, <2>1
    <3>2. /\ PTE(TRUE, "rw", i) \in PTEs /\ PTE(TRUE, "rw", i).valid
          /\ PTE(TRUE, "rw", i).prot = "rw" /\ PTE(TRUE, "rw", i).pfn = i
      BY PageEntry
    <3> QED
      BY <3>1, <3>2
  <2>2. CASE ~(i >= DataEnd /\ i < kernel_brk)
    BY <1>2, <1>3, <2>2
  <2> QED
    BY <2>1, <2>2
<1>5. k_pt' \in [Pages -> PTEs]
  BY <1>3, <1>4
<1>6. HeapInv'
  <2>1. \A i \in DataStart .. StackBase - 1 : i \in Pages /\ i \in Int
    BY Numbers
  <2>2. \A i \in DataStart .. StackBase - 1 : k_pt'[i].valid => k_pt'[i].prot = "rw"
    BY <1>1, <1>3, <1>4, <2>1 DEF HeapInv
  <2>3. \A i \in DataStart .. kernel_brk - 1 : k_pt'[i].valid
    <3> TAKE i \in DataStart .. kernel_brk - 1
    <3>1. i \in Pages /\ i \in Int /\ i < kernel_brk /\ i >= DataStart
      BY <1>2, Numbers
    <3>2. CASE i >= DataEnd
      BY <1>4, <3>1, <3>2
    <3>3. CASE ~(i >= DataEnd)
      <4>1. i \in DataStart .. DataEnd - 1
        BY <3>1, <3>3, Numbers
      <4> QED
        BY <1>1, <1>3, <3>1, <3>3, <4>1 DEF HeapInv
    <3> QED
      BY <3>2, <3>3
  <2>4. asked' <= kernel_brk'
    BY <1>1 DEF HeapInv
  <2> QED
    BY <1>1, <2>2, <2>3, <2>4 DEF HeapInv
<1>7. \A i \in 1 .. StackSize :
        /\ k_pt'[StackBase + i - 1] = PTE(TRUE, "rw", StackBase + i - 1)
        /\ k_stack'[0][i] = PTE(TRUE, "rw", StackBase + i - 1)
        /\ k_stack'[0][i] \in PTEs /\ k_stack'[0][i].valid
        /\ k_stack'[0][i].pfn = StackBase + i - 1
  <2> TAKE i \in 1 .. StackSize
  <2>1. /\ StackBase + i - 1 \in Stack /\ StackBase + i - 1 \in Pages
        /\ ~(StackBase + i - 1 < kernel_brk)
    BY <1>2, Numbers
  <2>2. k_pt[StackBase + i - 1] = PTE(TRUE, "rw", StackBase + i - 1)
    BY <1>1, <2>1 DEF StackInv
  <2>3. \A f \in Pages : PTE(TRUE, "rw", f) \in PTEs /\ PTE(TRUE, "rw", f).valid
                         /\ PTE(TRUE, "rw", f).pfn = f
    BY PageEntry
  <2>4. k_pt'[StackBase + i - 1] = k_pt[StackBase + i - 1]
    BY <1>3, <2>1
  <2>5. k_stack'[0][i] = PTE(TRUE, "rw", k_pt[StackBase + i - 1].pfn)
    BY <1>1, <1>2
  <2>6. k_pt[StackBase + i - 1].pfn = StackBase + i - 1
    BY <2>1, <2>2, <2>3
  <2> QED
    BY <2>1, <2>2, <2>3, <2>4, <2>5, <2>6
<1>8. /\ DOMAIN k_stack' = {0} /\ DOMAIN frames' = {0}
      /\ frames'[0] = VMEM_1 .. VMEM_1 + UserPages - 1
      /\ DOMAIN k_stack'[0] = 1 .. StackSize
      /\ k_stack'[0] = [i \in 1 .. StackSize |-> k_stack'[0][i]]
  BY <1>1, <1>2
<1>9. StackInv'
  BY <1>1, <1>2, <1>7, <1>8, ZenonT(60) DEF StackInv
<1>10. IdentityInv'
  <2>1. /\ StackBase - 1 \in Pages /\ ~(StackBase - 1 < kernel_brk)
        /\ \A i \in 0 .. StackBase - 2 : i \in Pages
    BY <1>2, Numbers
  <2>2. ~k_pt'[StackBase - 1].valid
    BY <1>1, <1>2, <1>3, <2>1 DEF IdentityInv
  <2>3. \A i \in 0 .. StackBase - 2 : k_pt'[i].pfn = i
    BY <1>1, <1>2, <1>3, <1>4, <2>1 DEF IdentityInv
  <2> QED
    BY <2>2, <2>3 DEF IdentityInv
<1>11. /\ pfn_list' \in Seq(Upper) /\ NoDup(pfn_list')
       /\ \A x \in Elems(pfn_list') : x \in Int /\ x > VMEM_1 + UserPages - 1
  <2> DEFINE h == NFrames - VMEM_1 - UserPages
  <2>1. h \in Nat
    BY <1>1, Numbers
  <2>2. \A i \in 1 .. h : /\ NFrames - i \in VMEM_1 .. NFrames - 1
                          /\ NFrames - i > VMEM_1 + UserPages - 1
    BY <1>1, Numbers
  <2>3. DOMAIN pfn_list' = 1 .. h /\ \A i \in 1 .. h : pfn_list'[i] = NFrames - i
    BY <1>1
  <2>4. pfn_list' \in [1 .. h -> Upper]
    BY <1>1, <2>2, <2>3 DEF Upper
  <2> HIDE DEF h
  <2>5. pfn_list' \in Seq(Upper)
    BY <2>1, <2>4
  <2>6. NoDup(pfn_list')
    <3>1. \A i, j \in 1 .. h : NFrames - i = NFrames - j => i = j
      BY <2>1, Numbers
    <3> QED
      BY <2>3, <3>1 DEF NoDup
  <2>7. \A x \in Elems(pfn_list') : x \in Int /\ x > VMEM_1 + UserPages - 1
    <3> TAKE x \in Elems(pfn_list')
    <3>1. PICK i \in 1 .. h : x = pfn_list'[i]
      BY <2>3 DEF Elems
    <3>2. x = NFrames - i /\ x \in VMEM_1 .. NFrames - 1 /\ x > VMEM_1 + UserPages - 1
      BY <2>2, <2>3, <3>1 DEF h
    <3> QED
      BY <3>2, Numbers
  <2> QED
    BY <2>5, <2>6, <2>7
<1>12. OwnInv'
  <2>1. \A x \in StackFrames(0)' : x \in Int /\ x < VMEM_1
    <3> TAKE x \in StackFrames(0)'
    <3>1. PICK i \in 1 .. StackSize : x = k_stack'[0][i].pfn
      BY DEF StackFrames
    <3>2. x = StackBase + i - 1
      BY <1>7, <3>1
    <3> QED
      BY <3>2, Numbers
  <2>2. \A x \in frames'[0] : x \in Upper /\ x \in Int /\ x >= VMEM_1
                              /\ x <= VMEM_1 + UserPages - 1
    BY <1>1, <1>8, Numbers DEF Upper
  <2>3. \A x \in StackFrames(0)' : x \notin frames'[0] /\ x \notin Elems(pfn_list')
    <3> TAKE x \in StackFrames(0)'
    <3>1. x \in Int /\ x < VMEM_1
      BY <2>1
    <3>2. x \notin frames'[0]
      BY <2>2, <3>1, Numbers
    <3>3. ~(x > VMEM_1 + UserPages - 1)
      BY <3>1, Numbers
    <3> QED
      BY <1>11, <3>2, <3>3
  <2>4. \A x \in frames'[0] : x \notin Elems(pfn_list')
    <3> TAKE x \in frames'[0]
    <3>1. ~(x > VMEM_1 + UserPages - 1)
      BY <2>2, Numbers
    <3> QED
      BY <1>11, <3>1
  <2>5. \A i, j \in 1 .. StackSize : StackBase + i - 1 = StackBase + j - 1 => i = j
    BY Numbers
  <2>6. Own(0)' \cap Elems(pfn_list') = {}
    <3>1. \A x \in Own(0)' : x \in StackFrames(0)' \/ x \in frames'[0]
      BY DEF Own
    <3> QED
      BY <2>3, <2>4, <3>1
  <2>7. \A i, j \in 1 .. StackSize : k_stack'[0][i].pfn = k_stack'[0][j].pfn => i = j
    <3>1. \A i \in 1 .. StackSize : k_stack'[0][i].pfn = StackBase + i - 1
      BY <1>7
    <3> QED
      BY <2>5, <3>1, Zenon
  <2>8. frames'[0] \subseteq Upper /\ StackFrames(0)' \cap frames'[0] = {}
    BY <2>2, <2>3
  <2> QED
    BY <1>7, <1>8, <1>11, <2>6, <2>7, <2>8 DEF OwnInv
<1>13. TypeOK'
  <2>1. k_stack'[0] \in [1 .. StackSize -> PTEs]
    BY <1>7, <1>8
  <2> QED
    BY <1>1, <1>2, <1>5, <1>8, <1>11, <2>1, Numbers DEF TypeOK, Upper
<1>14. Booting'
  BY <1>1, <1>2, <1>8 DEF Booting, Enabled
<1> QED
  BY <1>6, <1>9, <1>10, <1>12, <1>13, <1>14 DEF KernelHeapInv

-----------------------------------------------------------------------------
(* The kernel heap.                                                        *)

LEMMA BrkStep ==
  ASSUME KernelHeapInv, NEW page \in 0 .. StackBase, SetKernelBrk(page)
  PROVE  KernelHeapInv'
<1>1. /\ TypeOK /\ Booting /\ HeapInv /\ StackInv /\ IdentityInv /\ OwnInv
      /\ page < StackBase /\ asked' = page
      /\ UNCHANGED <<vm, pfn_list, activePCB, k_stack, frames, spoilt>>
  BY DEF KernelHeapInv, SetKernelBrk
<1>2. /\ k_pt \in [Pages -> PTEs] /\ kernel_brk \in 0 .. StackBase - 1
      /\ page \in 0 .. StackBase - 1
  BY <1>1, Numbers, SMTT(40) DEF TypeOK
<1>3. OwnInv'
  <2>1. CASE Enabled
    <3>1. NoDup(pfn_list') /\ Elems(pfn_list') \subseteq Elems(pfn_list)
      BY <1>1, <2>1 DEF OwnInv
    <3> QED
      BY <1>1, <2>1, <3>1, OwnLoss
  <2>2. CASE ~Enabled
    BY <1>1, <2>2 DEF OwnInv, Enabled
  <2> QED
    BY <2>1, <2>2
<1>4. CASE ~Enabled
  <2>1. /\ k_pt' = k_pt /\ kernel_brk' = IF page > kernel_brk THEN page ELSE kernel_brk
    BY <1>4 DEF SetKernelBrk, Enabled
  <2>2. kernel_brk' \in 0 .. StackBase - 1 /\ asked' <= kernel_brk' /\ kernel_brk' >= kernel_brk
    BY <1>1, <1>2, <2>1, Numbers
  <2>3. TypeOK'
    BY <1>1, <2>1, <2>2 DEF TypeOK
  <2>4. Booting'
    <3>1. kernel_brk' >= DataEnd
      BY <1>1, <1>2, <1>4, <2>2, Numbers DEF Booting
    <3> QED
      BY <1>1, <3>1 DEF Booting, Enabled
  <2>5. HeapInv'
    BY <1>1, <1>4, <2>1, <2>2 DEF HeapInv, Enabled
  <2>6. StackInv' /\ IdentityInv'
    BY <1>1, <1>4, <2>1 DEF StackInv, IdentityInv, Enabled
  <2> QED
    BY <1>3, <2>3, <2>4, <2>5, <2>6 DEF KernelHeapInv
<1>5. CASE Enabled
  <2>1. k_pt' = Opened(page) /\ kernel_brk' = page
    BY <1>5 DEF SetKernelBrk, Enabled
  <2> DEFINE new(i) == i >= kernel_brk /\ i < page /\ ~k_pt[i].valid
  <2>2. /\ \A i \in Pages : ~new(i) => k_pt'[i] = k_pt[i]
        /\ \A i \in Pages : new(i) => k_pt'[i] = [k_pt[i] EXCEPT !.valid = TRUE, !.prot = "rw"]
        /\ k_pt' = [i \in Pages |-> k_pt'[i]]
    BY <2>1 DEF Opened
  <2>3. \A i \in Pages : /\ k_pt'[i] \in PTEs
                         /\ k_pt'[i].pfn = k_pt[i].pfn
                         /\ new(i) => k_pt'[i].valid /\ k_pt'[i].prot = "rw"
    <3> TAKE i \in Pages
    <3>1. k_pt[i] \in PTEs
      BY <1>2
    <3>2. CASE ~new(i)
      BY <2>2, <3>1, <3>2
    <3>3. CASE new(i)
      <4>1. k_pt'[i] = [k_pt[i] EXCEPT !.valid = TRUE, !.prot = "rw"]
        BY <2>2, <3>3
      <4>2. /\ k_pt'[i] \in PTEs /\ k_pt'[i].pfn = k_pt[i].pfn
            /\ k_pt'[i].valid /\ k_pt'[i].prot = "rw"
        BY <3>1, <4>1 DEF PTEs
      <4> QED
        BY <4>2
    <3> QED
      BY <3>2, <3>3
  <2>4. k_pt' \in [Pages -> PTEs]
    BY <2>2, <2>3
  <2>5. TypeOK'
    BY <1>1, <1>2, <2>1, <2>4, Numbers DEF TypeOK
  <2>6. Booting'
    BY <1>1, <1>5 DEF Booting, Enabled
  <2>7. \A i \in Pages : ~(i < page) => k_pt'[i] = k_pt[i]
    BY <2>2
  <2>8. StackInv'
    <3>1. /\ \A i \in 1 .. StackSize : StackBase + i - 1 \in Pages /\ ~(StackBase + i - 1 < page)
          /\ vm # "filled" /\ vm' # "filled"
      BY <1>1, <1>2, <1>5, Numbers DEF Enabled
    <3> QED
      BY <1>1, <1>5, <2>7, <3>1 DEF StackInv, Enabled
  <2>9. IdentityInv'
    <3>1. /\ StackBase - 1 \in Pages /\ ~(StackBase - 1 < page)
          /\ \A i \in 0 .. StackBase - 2 : i \in Pages
      BY <1>2, Numbers
    <3> QED
      BY <1>1, <2>3, <2>7, <3>1 DEF IdentityInv
  <2>10. HeapInv'
    <3>1. /\ \A i \in DataStart .. StackBase - 1 : i \in Pages
          /\ \A i \in DataStart .. page - 1 : i \in Pages /\ i < page
          /\ vm # "filled" /\ vm # "off"
      BY <1>2, <1>5, Numbers DEF Enabled
    <3>2. \A i \in DataStart .. StackBase - 1 : k_pt'[i].valid => k_pt'[i].prot = "rw"
      <4> TAKE i \in DataStart .. StackBase - 1
      <4>1. k_pt[i].valid => k_pt[i].prot = "rw"
        BY <1>1, <3>1 DEF HeapInv
      <4> QED
        BY <2>2, <2>3, <3>1, <4>1
    <3>3. \A i \in DataStart .. page - 1 : k_pt'[i].valid
      <4> TAKE i \in DataStart .. page - 1
      <4>1. i \in Pages /\ i < page
        BY <3>1
      <4>2. CASE i < kernel_brk
        <5>1. i \in DataStart .. kernel_brk - 1 /\ ~(i >= kernel_brk)
          BY <1>2, <4>2, Numbers
        <5>2. k_pt[i].valid
          BY <1>1, <1>5, <5>1 DEF HeapInv
        <5> QED
          BY <2>2, <4>1, <5>1, <5>2
      <4>3. CASE ~(i < kernel_brk)
        <5>1. i >= kernel_brk
          BY <1>2, <4>3, Numbers
        <5> QED
          BY <2>2, <2>3, <4>1, <5>1
      <4> QED
        BY <4>2, <4>3
    <3>4. asked' <= kernel_brk'
      BY <1>1, <1>2, <2>1, Numbers
    <3> QED
      BY <1>1, <1>5, <2>1, <3>1, <3>2, <3>3, <3>4 DEF HeapInv, Enabled
  <2> QED
    BY <1>3, <2>5, <2>6, <2>8, <2>9, <2>10 DEF KernelHeapInv
<1> QED
  BY <1>4, <1>5

-----------------------------------------------------------------------------
(* Fork.                                                                   *)

\* The entry that pages are copied through is below the stack, and above
\* the heap.
LEMMA ReservedPlace ==
  ASSUME KernelHeapInv, Enabled, Invalid(k_pt) # {}
  PROVE  LET r == Reserved(k_pt)
         IN  /\ r \in 0 .. StackBase - 1 /\ r \in Pages /\ ~k_pt[r].valid
             /\ \A j \in 0 .. StackBase : ~k_pt[j].valid => j <= r
             /\ r \notin DataStart .. kernel_brk - 1
             /\ ~spoilt => r = StackBase - 1
<1> DEFINE r == Reserved(k_pt)
<1>1. /\ TypeOK /\ HeapInv /\ StackInv /\ IdentityInv
      /\ k_pt \in [Pages -> PTEs]
  BY DEF KernelHeapInv, TypeOK
<1>2. /\ r \in 0 .. StackBase /\ ~k_pt[r].valid
      /\ \A j \in 0 .. StackBase : ~k_pt[j].valid => j <= r
  BY <1>1, ReservedLast
<1> HIDE DEF r
<1>3. k_pt[StackBase].valid
  <2>1. 1 \in 1 .. StackSize /\ StackBase + 1 - 1 = StackBase
    BY Numbers
  <2>2. k_pt[StackBase + 1 - 1] = k_stack[activePCB][1]
    BY <1>1, <2>1 DEF StackInv
  <2>3. k_stack[activePCB][1].valid
    BY <1>1, <2>1 DEF StackInv, TypeOK
  <2> QED
    BY <2>1, <2>2, <2>3
<1>4. r # StackBase
  BY <1>2, <1>3
<1>5. r \in 0 .. StackBase - 1 /\ r \in Pages
  BY <1>2, <1>4, Numbers
<1>6. r \notin DataStart .. kernel_brk - 1
  BY <1>1, <1>2 DEF HeapInv
<1>7. ASSUME ~spoilt
      PROVE  r = StackBase - 1
  <2>1. ~k_pt[StackBase - 1].valid
    BY <1>1, <1>7 DEF IdentityInv, Enabled
  <2>2. StackBase - 1 \in 0 .. StackBase
    BY Numbers
  <2>3. StackBase - 1 <= r
    BY <1>2, <2>1, <2>2
  <2> QED
    BY <1>5, <2>3, Numbers
<1> QED
  BY <1>2, <1>5, <1>6, <1>7 DEF r

\* What becomes of the table when only the entry that pages are copied
\* through is written.
LEMMA ReservedWritten ==
  ASSUME KernelHeapInv, Enabled, NEW r \in 0 .. StackBase - 1, NEW e \in PTEs,
         ~k_pt[r].valid, e.valid => e.prot = "rw",
         k_pt' = [i \in Pages |-> IF i = r THEN e ELSE k_pt[i]],
         UNCHANGED <<kernel_brk, asked, activePCB>>, vm' = "on",
         \A i \in 1 .. StackSize : k_stack'[activePCB][i] = k_stack[activePCB][i],
         \A w \in DOMAIN k_stack', i \in 1 .. StackSize : k_stack'[w][i].valid,
         ~spoilt' => ~spoilt /\ r = StackBase - 1 /\ ~e.valid
  PROVE  k_pt' \in [Pages -> PTEs] /\ HeapInv' /\ StackInv' /\ IdentityInv'
<1>1. /\ TypeOK /\ HeapInv /\ StackInv /\ IdentityInv
      /\ k_pt \in [Pages -> PTEs] /\ kernel_brk \in 0 .. StackBase - 1
      /\ vm # "off" /\ vm # "filled" /\ Enabled'
  BY DEF KernelHeapInv, TypeOK, Enabled
<1>2. /\ \A i \in Pages \ {r} : k_pt'[i] = k_pt[i]
      /\ r \in Pages /\ k_pt'[r] = e
  BY Numbers
<1>3. k_pt' \in [Pages -> PTEs]
  BY <1>1
<1>4. HeapInv'
  <2>1. /\ \A i \in DataStart .. StackBase - 1 : i \in Pages
        /\ \A i \in DataStart .. kernel_brk - 1 : i \in Pages
    BY <1>1, Numbers
  <2>2. \A i \in DataStart .. StackBase - 1 : k_pt'[i].valid => k_pt'[i].prot = "rw"
    BY <1>1, <1>2, <2>1 DEF HeapInv
  <2>3. \A i \in DataStart .. kernel_brk - 1 : k_pt'[i].valid
    BY <1>1, <1>2, <2>1 DEF HeapInv
  <2>4. asked' <= kernel_brk'
    BY <1>1 DEF HeapInv
  <2> QED
    BY <2>2, <2>3, <2>4 DEF HeapInv
<1>5. StackInv'
  <2>1. \A i \in 1 .. StackSize : StackBase + i - 1 \in Pages \ {r}
    BY Numbers
  <2>2. \A i \in 1 .. StackSize : k_pt'[StackBase + i - 1] = k_stack'[activePCB'][i]
    BY <1>1, <1>2, <2>1 DEF StackInv
  <2> QED
    BY <2>2 DEF StackInv
<1>6. IdentityInv'
  <2> SUFFICES ASSUME ~spoilt'
               PROVE  /\ ~k_pt'[StackBase - 1].valid
                      /\ \A i \in 0 .. StackBase - 2 : k_pt'[i].pfn = i
    BY DEF IdentityInv
  <2>1. ~k_pt'[StackBase - 1].valid
    BY <1>2
  <2>2. \A i \in 0 .. StackBase - 2 : i \in Pages \ {r}
    BY Numbers
  <2> QED
    BY <1>1, <1>2, <2>1, <2>2 DEF IdentityInv
<1> QED
  BY <1>3, <1>4, <1>5, <1>6

\* A child is made and its kernel stack copied.
LEMMA ChildStep ==
  ASSUME KernelHeapInv, Enabled, NEW w \in 1 .. NProc, Make(w), Invalid(k_pt) # {},
         Len(pfn_list) >= StackSize + UserPages,
         pfn_list' = Rest(StackSize + UserPages),
         k_stack' = Extend(k_stack, w,
           [i \in 1 .. StackSize |-> PTE(TRUE, "rw", Reverse(Taken(StackSize))[i])]),
         frames' = Extend(frames, w,
           Range(Taken(StackSize + UserPages)) \ Range(Taken(StackSize))),
         k_pt' = [i \in Pages |-> IF i = Reserved(k_pt) THEN PTE(FALSE, "none", 0)
                                                        ELSE k_pt[i]],
         vm' = "on", UNCHANGED <<kernel_brk, asked, activePCB, spoilt>>
  PROVE  KernelHeapInv'
<1>1. /\ TypeOK /\ Booting /\ StackInv /\ OwnInv /\ activePCB \in DOMAIN k_stack
      /\ 0 \in DOMAIN k_stack
  BY DEF KernelHeapInv, TypeOK, Booting
<1>2. /\ OwnInv' /\ pfn_list' \in Seq(Upper)
      /\ DOMAIN k_stack' = DOMAIN k_stack \cup {w} /\ DOMAIN frames' = DOMAIN k_stack'
      /\ \A g \in DOMAIN k_stack : k_stack'[g] = k_stack[g]
      /\ k_stack'[w] \in [1 .. StackSize -> PTEs]
      /\ \A i \in 1 .. StackSize : k_stack'[w][i].valid
  BY <1>1, OwnGrow
<1> DEFINE r == Reserved(k_pt)
           e == PTE(FALSE, "none", 0)
<1>3. /\ r \in 0 .. StackBase - 1 /\ ~k_pt[r].valid
      /\ ~spoilt => r = StackBase - 1
  BY ReservedPlace
<1>4. e \in PTEs /\ ~e.valid
  <2>1. 0 \in 0 .. NFrames - 1
    BY Numbers
  <2> QED
    BY <2>1, Entry
<1>5. k_pt' = [i \in Pages |-> IF i = r THEN e ELSE k_pt[i]]
  OBVIOUS
<1> HIDE DEF r, e
<1>6. /\ \A i \in 1 .. StackSize : k_stack'[activePCB][i] = k_stack[activePCB][i]
      /\ \A g \in DOMAIN k_stack', i \in 1 .. StackSize : k_stack'[g][i].valid
  BY <1>1, <1>2 DEF StackInv
<1>7. k_pt' \in [Pages -> PTEs] /\ HeapInv' /\ StackInv' /\ IdentityInv'
  BY <1>3, <1>4, <1>5, <1>6, ReservedWritten
<1>8. TypeOK'
  <2>1. /\ activePCB' \in 0 .. NProc /\ activePCB' \in DOMAIN k_stack'
        /\ kernel_brk' \in 0 .. StackBase - 1 /\ asked' \in 0 .. StackBase
        /\ pfn_list' \in Seq(VMEM_1 .. NFrames - 1)
        /\ vm' \in {"off", "filled", "enabled", "on"}
    BY <1>1, <1>2 DEF TypeOK, Upper
  <2>2. w \in 0 .. NProc
    BY Numbers
  <2>3. \A g \in DOMAIN k_stack' : g \in 0 .. NProc /\ k_stack'[g] \in [1 .. StackSize -> PTEs]
    BY <1>1, <1>2, <2>2 DEF TypeOK
  <2>4. spoilt' \in BOOLEAN
    BY <1>1 DEF TypeOK
  <2> QED
    BY <1>2, <1>7, <2>1, <2>3, <2>4 DEF TypeOK
<1>9. Booting'
  BY <1>1, <1>2 DEF Booting, Enabled
<1> QED
  BY <1>2, <1>7, <1>8, <1>9 DEF KernelHeapInv

LEMMA StartStep ==
  ASSUME KernelHeapInv, NEW w \in 1 .. NProc, StartProgram(w)
  PROVE  KernelHeapInv'
<1>1. /\ Enabled /\ ~spoilt /\ IdentityInv /\ k_pt \in [Pages -> PTEs]
      /\ ~k_pt[StackBase - 1].valid
  BY DEF KernelHeapInv, TypeOK, Booting, StartProgram, Enabled, IdentityInv
<1>2. Invalid(k_pt) # {}
  <2>1. StackBase - 1 \in 0 .. StackBase
    BY Numbers
  <2> QED
    BY <1>1, <2>1 DEF Invalid
<1> DEFINE r == Reserved(k_pt)
<1>3. /\ r \in 0 .. StackBase /\ ~k_pt[r].valid
      /\ \A j \in 0 .. StackBase : ~k_pt[j].valid => j <= r
  BY <1>1, <1>2, ReservedLast
<1>4. AfterKCCopy(k_pt) = [i \in Pages |-> IF i = r THEN PTE(FALSE, "none", 0) ELSE k_pt[i]]
  BY <1>1, <1>2, <1>3, GivenBack DEF AfterKCCopy
<1>5. KCCopy(k_pt, Reverse(Taken(StackSize))) =
        [i \in 1 .. StackSize |-> PTE(TRUE, "rw", Reverse(Taken(StackSize))[i])]
  BY <1>2 DEF KCCopy
<1> QED
  BY <1>1, <1>2, <1>4, <1>5, ChildStep DEF StartProgram

LEMMA ForkStep ==
  ASSUME KernelHeapInv, NEW w \in 1 .. NProc, KernelFork(w)
  PROVE  KernelHeapInv'
<1> DEFINE r == Reserved(k_pt)
           opened == [k_pt EXCEPT ![r].valid = TRUE, ![r].prot = "rw"]
           pt == GiveBack(opened, r)
<1>1. /\ vm = "on" /\ Invalid(k_pt) # {} /\ k_pt \in [Pages -> PTEs]
      /\ k_stack' = Extend(k_stack, w, KCCopy(pt, Reverse(Taken(StackSize))))
      /\ k_pt' = AfterKCCopy(pt)
  BY DEF KernelHeapInv, TypeOK, KernelFork, Calls
<1>2. /\ r \in 0 .. StackBase /\ ~k_pt[r].valid /\ r \in Pages
      /\ \A j \in 0 .. StackBase : ~k_pt[j].valid => j <= r
  BY <1>1, ReservedPlace, ReservedLast DEF Enabled
<1> HIDE DEF r
<1>3. PTE(FALSE, "none", 0) \in PTEs /\ ~PTE(FALSE, "none", 0).valid
  <2>1. 0 \in 0 .. NFrames - 1
    BY Numbers
  <2> QED
    BY <2>1, Entry
<1>4. DOMAIN opened = Pages /\ \A i \in Pages \ {r} : opened[i] = k_pt[i]
  BY <1>1, <1>2
<1>5. /\ pt = [i \in Pages |-> IF i = r THEN PTE(FALSE, "none", 0) ELSE k_pt[i]]
      /\ pt \in [Pages -> PTEs]
  <2>1. pt = [i \in Pages |-> IF i = r THEN PTE(FALSE, "none", 0) ELSE opened[i]]
    BY <1>2, <1>4 DEF GiveBack
  <2> HIDE DEF opened, pt
  <2>2. pt = [i \in Pages |-> IF i = r THEN PTE(FALSE, "none", 0) ELSE k_pt[i]]
    BY <1>4, <2>1
  <2> QED
    BY <1>1, <1>3, <2>2
<1> HIDE DEF opened, pt
<1>6. ~pt[r].valid /\ \A j \in 0 .. StackBase : ~pt[j].valid => j <= r
  <2>1. \A j \in 0 .. StackBase : j \in Pages
    BY Numbers
  <2>2. \A j \in 0 .. StackBase : j # r => pt[j] = k_pt[j]
    BY <1>5, <2>1
  <2>3. r <= r
    BY <1>2, Numbers
  <2> QED
    BY <1>2, <1>3, <1>5, <2>2, <2>3
<1>7. /\ Invalid(pt) # {} /\ Reserved(pt) = r
      /\ GiveBack(pt, r) = [i \in Pages |-> IF i = r THEN PTE(FALSE, "none", 0) ELSE pt[i]]
  BY <1>2, <1>5, <1>6, GivenBack
<1>8. k_pt' = [i \in Pages |-> IF i = r THEN PTE(FALSE, "none", 0) ELSE k_pt[i]]
  BY <1>1, <1>5, <1>7 DEF AfterKCCopy
<1>9. KCCopy(pt, Reverse(Taken(StackSize))) =
        [i \in 1 .. StackSize |-> PTE(TRUE, "rw", Reverse(Taken(StackSize))[i])]
  BY <1>7 DEF KCCopy
<1>10. /\ Enabled /\ Make(w) /\ Len(pfn_list) >= StackSize + UserPages
       /\ pfn_list' = Rest(StackSize + UserPages)
       /\ frames' = Extend(frames, w,
            Range(Taken(StackSize + UserPages)) \ Range(Taken(StackSize)))
       /\ vm' = "on" /\ UNCHANGED <<kernel_brk, asked, activePCB, spoilt>>
  BY <1>1 DEF KernelFork, Enabled
<1> QED
  BY <1>1, <1>8, <1>9, <1>10, ChildStep DEF r

LEMMA CopyErrorStep ==
  ASSUME KernelHeapInv, KernelForkCopyError
  PROVE  KernelHeapInv'
<1> DEFINE r == Reserved(k_pt)
           f == IF Len(pfn_list) = StackSize THEN k_pt[r].pfn ELSE pfn_list[1]
           e == PTE(TRUE, "rw", f)
<1>1. /\ TypeOK /\ Booting /\ StackInv /\ OwnInv /\ k_pt \in [Pages -> PTEs]
      /\ vm = "on" /\ vm' = "on" /\ Invalid(k_pt) # {} /\ pfn_list' = <<>> /\ spoilt' = TRUE
      /\ UNCHANGED <<kernel_brk, asked, activePCB, k_stack, frames>>
      /\ Len(pfn_list) >= StackSize
      /\ activePCB \in DOMAIN k_stack
  BY DEF KernelHeapInv, KernelForkCopyError, Calls, TypeOK
<1>2. r \in 0 .. StackBase - 1 /\ r \in Pages /\ ~k_pt[r].valid
  BY <1>1, ReservedPlace DEF Enabled
<1>3. k_pt' = [k_pt EXCEPT ![r] = e]
  BY DEF KernelForkCopyError
<1>4. f \in 0 .. NFrames - 1
  <2>1. k_pt[r].pfn \in 0 .. NFrames - 1
    BY <1>1, <1>2 DEF PTEs
  <2>2. pfn_list[1] \in 0 .. NFrames - 1
    <3>1. pfn_list \in Seq(Upper) /\ 1 <= Len(pfn_list)
      BY <1>1, Numbers DEF TypeOK, Upper
    <3>2. pfn_list[1] \in Upper
      BY <3>1
    <3> QED
      BY <3>2, Numbers DEF Upper
  <2> QED
    BY <2>1, <2>2
<1>5. e \in PTEs /\ e.prot = "rw"
  BY <1>4, Entry, ZenonT(60)
<1> HIDE DEF r, f, e
<1>6. k_pt' = [i \in Pages |-> IF i = r THEN e ELSE k_pt[i]]
  BY <1>1, <1>2, <1>3
<1>7. /\ \A i \in 1 .. StackSize : k_stack'[activePCB][i] = k_stack[activePCB][i]
      /\ \A g \in DOMAIN k_stack', i \in 1 .. StackSize : k_stack'[g][i].valid
      /\ Enabled
  BY <1>1 DEF StackInv, Enabled
<1>8. k_pt' \in [Pages -> PTEs] /\ HeapInv' /\ StackInv' /\ IdentityInv'
  BY <1>1, <1>2, <1>5, <1>6, <1>7, ReservedWritten
<1>9. OwnInv'
  <2>1. Elems(<<>>) = {} /\ NoDup(<<>>)
    BY DEF Elems, NoDup
  <2> QED
    BY <1>1, <1>7, <2>1, OwnLoss
<1>10. TypeOK'
  <2>1. pfn_list' \in Seq(VMEM_1 .. NFrames - 1) /\ spoilt' \in BOOLEAN
    BY <1>1
  <2> QED
    BY <1>1, <1>8, <2>1 DEF TypeOK
<1>11. Booting'
  BY <1>1 DEF Booting, Enabled
<1> QED
  BY <1>8, <1>9, <1>10, <1>11 DEF KernelHeapInv

LEMMA NoPageStep ==
  ASSUME KernelHeapInv, KernelForkNoPage
  PROVE  KernelHeapInv'
<1>1. /\ TypeOK /\ Booting /\ HeapInv /\ StackInv /\ IdentityInv /\ OwnInv
      /\ Enabled /\ Len(pfn_list) >= StackSize /\ pfn_list' = Rest(StackSize)
      /\ UNCHANGED <<vm, k_pt, kernel_brk, asked, activePCB, k_stack, frames, spoilt>>
  BY DEF KernelHeapInv, KernelForkNoPage, Calls, Enabled
<1>2. NoDup(pfn_list') /\ Elems(pfn_list') \subseteq Elems(pfn_list) /\ pfn_list' \in Seq(Upper)
  <2>1. StackSize \in Nat /\ 0 \in Nat /\ StackSize + 0 <= Len(pfn_list) /\ StackSize + 0 = StackSize
    BY <1>1, Numbers
  <2>2. NoDup(pfn_list)
    BY <1>1 DEF OwnInv
  <2>3. /\ Rest(StackSize + 0) \in Seq(Upper)
        /\ Elems(Rest(StackSize + 0)) \subseteq Elems(pfn_list) /\ NoDup(Rest(StackSize + 0))
    BY <1>1, <2>1, <2>2, Allocated
  <2> QED
    BY <1>1, <2>1, <2>3
<1>3. OwnInv'
  BY <1>1, <1>2, OwnLoss
<1>4. TypeOK'
  BY <1>1, <1>2 DEF TypeOK, Upper
<1>5. Booting' /\ HeapInv' /\ StackInv' /\ IdentityInv'
  BY <1>1 DEF Booting, HeapInv, StackInv, IdentityInv, Enabled
<1> QED
  BY <1>3, <1>4, <1>5 DEF KernelHeapInv

-----------------------------------------------------------------------------
(* Switching.                                                              *)

\* KCSwitch replaces the stack and nothing else.
LEMMA LoadedStack ==
  ASSUME KernelHeapInv, vm = "on", NEW g \in DOMAIN k_stack, k_pt' = Loaded(g),
         UNCHANGED <<vm, kernel_brk, asked, spoilt>>, activePCB' = g,
         k_stack'[g] = k_stack[g], g \in DOMAIN k_stack',
         DOMAIN k_stack' \subseteq DOMAIN k_stack,
         \A w \in DOMAIN k_stack' : k_stack'[w] = k_stack[w]
  PROVE  k_pt' \in [Pages -> PTEs] /\ HeapInv' /\ StackInv' /\ IdentityInv'
<1>1. /\ TypeOK /\ HeapInv /\ StackInv /\ IdentityInv
      /\ k_pt \in [Pages -> PTEs] /\ kernel_brk \in 0 .. StackBase - 1
      /\ k_stack[g] \in [1 .. StackSize -> PTEs] /\ Enabled /\ Enabled'
  BY DEF KernelHeapInv, TypeOK, Enabled
<1>2. /\ \A i \in Stack : k_pt'[i] = k_stack[g][i - StackBase + 1]
      /\ \A i \in Pages \ Stack : k_pt'[i] = k_pt[i]
      /\ k_pt' = [i \in Pages |-> k_pt'[i]]
  <2>1. \A i \in Stack : i \in Pages
    BY Numbers
  <2> QED
    BY <2>1 DEF Loaded
<1>3. \A i \in Stack : i - StackBase + 1 \in 1 .. StackSize
  BY Numbers
<1>4. k_pt' \in [Pages -> PTEs]
  BY <1>1, <1>2, <1>3
<1>5. /\ \A i \in 0 .. StackBase - 1 : i \in Pages \ Stack
      /\ \A i \in DataStart .. StackBase - 1 : i \in 0 .. StackBase - 1
      /\ \A i \in DataStart .. kernel_brk - 1 : i \in 0 .. StackBase - 1
      /\ \A i \in 0 .. StackBase - 2 : i \in 0 .. StackBase - 1
      /\ StackBase - 1 \in 0 .. StackBase - 1
  BY <1>1, Numbers
<1>6. \A i \in 0 .. StackBase - 1 : k_pt'[i] = k_pt[i]
  BY <1>2, <1>5
<1>7. HeapInv'
  BY <1>1, <1>5, <1>6 DEF HeapInv
<1>8. IdentityInv'
  BY <1>1, <1>5, <1>6 DEF IdentityInv
<1>9. StackInv'
  <2>2. \A i \in 1 .. StackSize : k_pt'[StackBase + i - 1] = k_stack'[activePCB'][i]
    <3> SUFFICES ASSUME NEW i \in 1 .. StackSize, NEW j, j = StackBase + i - 1
                 PROVE  k_pt'[j] = k_stack[g][i]
      OBVIOUS
    <3>1. j \in Stack /\ j - StackBase + 1 = i
      BY Numbers
    <3>2. k_pt'[j] = k_stack[g][j - StackBase + 1]
      BY <1>2, <3>1, Zenon
    <3> QED
      BY <3>1, <3>2, Zenon
  <2>3. \A w \in DOMAIN k_stack', i \in 1 .. StackSize : k_stack'[w][i].valid
    BY <1>1 DEF StackInv
  <2> QED
    BY <2>2, <2>3 DEF StackInv
<1> QED
  BY <1>4, <1>7, <1>8, <1>9

LEMMA SwitchStep ==
  ASSUME KernelHeapInv, NEW g, KCSwitch(g)
  PROVE  KernelHeapInv'
<1>1. /\ TypeOK /\ Booting /\ OwnInv /\ vm = "on" /\ g \in DOMAIN k_stack /\ activePCB' = g
      /\ k_pt' = Loaded(g)
      /\ UNCHANGED <<vm, kernel_brk, asked, pfn_list, k_stack, frames, spoilt>>
  BY DEF KernelHeapInv, KCSwitch
<1>2. k_pt' \in [Pages -> PTEs] /\ HeapInv' /\ StackInv' /\ IdentityInv'
  BY <1>1, LoadedStack
<1>3. TypeOK'
  BY <1>1, <1>2 DEF TypeOK
<1>4. Booting'
  BY <1>1 DEF Booting, Enabled
<1>5. (\A w : StackFrames(w)' = StackFrames(w)) /\ (\A w : Own(w)' = Own(w))
  BY <1>1 DEF StackFrames, Own
<1>6. OwnInv'
  BY <1>1, <1>5 DEF OwnInv, Enabled
<1> QED
  BY <1>2, <1>3, <1>4, <1>6 DEF KernelHeapInv

LEMMA ExitStep ==
  ASSUME KernelHeapInv, NEW g, KernelExit(g)
  PROVE  KernelHeapInv'
<1>1. /\ TypeOK /\ Booting /\ OwnInv /\ vm = "on" /\ vm' = "on" /\ activePCB # 0
      /\ g \in DOMAIN k_stack \ {activePCB} /\ activePCB' = g /\ k_pt' = Loaded(g)
      /\ pfn_list' = pfn_list \o Pfns(k_stack[activePCB]) \o SetToSeq(frames[activePCB])
      /\ k_stack' = [w \in DOMAIN k_stack \ {activePCB} |-> k_stack[w]]
      /\ frames' = [w \in DOMAIN frames \ {activePCB} |-> frames[w]]
      /\ UNCHANGED <<vm, kernel_brk, asked, spoilt>>
      /\ 0 \in DOMAIN k_stack
  BY DEF KernelHeapInv, KernelExit, Calls, Booting
<1>2. OwnInv' /\ pfn_list' \in Seq(Upper)
  BY <1>1, OwnExit DEF Enabled
<1>3. /\ DOMAIN k_stack' = DOMAIN k_stack \ {activePCB}
      /\ \A w \in DOMAIN k_stack' : k_stack'[w] = k_stack[w]
      /\ DOMAIN frames' = DOMAIN k_stack'
  BY <1>1 DEF TypeOK
<1>4. k_pt' \in [Pages -> PTEs] /\ HeapInv' /\ StackInv' /\ IdentityInv'
  BY <1>1, <1>3, LoadedStack
<1>5. TypeOK'
  <2>1. \A w \in DOMAIN k_stack' : w \in 0 .. NProc /\ k_stack'[w] \in [1 .. StackSize -> PTEs]
    BY <1>1, <1>3 DEF TypeOK
  <2>2. g \in 0 .. NProc /\ g \in DOMAIN k_stack'
    BY <1>1, <1>3 DEF TypeOK
  <2>3. pfn_list' \in Seq(VMEM_1 .. NFrames - 1)
    BY <1>2 DEF Upper
  <2> QED
    BY <1>1, <1>3, <1>4, <2>1, <2>2, <2>3 DEF TypeOK
<1>6. Booting'
  BY <1>1, <1>3 DEF Booting, Enabled
<1> QED
  BY <1>2, <1>4, <1>5, <1>6 DEF KernelHeapInv

-----------------------------------------------------------------------------
(* The theorems.                                                           *)

\* KernelHeapInv is inductive.
LEMMA KernelHeapHolds == Spec => []KernelHeapInv
<1>1. KernelHeapInv /\ [Next]_vars => KernelHeapInv'
  <2> SUFFICES ASSUME KernelHeapInv, [Next]_vars PROVE KernelHeapInv'
    OBVIOUS
  <2>1. CASE MoveBrk
    BY <2>1, BrkStep DEF MoveBrk
  <2>2. CASE \E w \in 1 .. NProc : StartProgram(w)
    BY <2>2, StartStep
  <2>3. CASE Fork
    BY <2>3, ForkStep DEF Fork
  <2>4. CASE \E g \in 0 .. NProc : KCSwitch(g) \/ KernelExit(g)
    BY <2>4, SwitchStep, ExitStep
  <2>5. CASE UNCHANGED vars
    BY <2>5 DEF vars, KernelHeapInv, TypeOK, Booting, HeapInv, StackInv, IdentityInv, OwnInv,
       Enabled, StackFrames, Own
  <2> QED
    BY <2>1, <2>2, <2>3, <2>4, <2>5, FillStep, EnableStep, CopyErrorStep, NoPageStep DEF Next
<1> QED
  BY <1>1, KernelHeapInit, PTL DEF Spec

\* Every page of the kernel heap below the last address that malloc got is
\* mapped, however Forks, failed ones too, and exits are mixed with it.
THEOREM HeapBackedCorrect == Spec => []HeapBacked
<1>1. KernelHeapInv => HeapBacked
  <2> SUFFICES ASSUME KernelHeapInv, vm = "on", NEW i \in DataStart .. asked - 1
               PROVE  k_pt[i].valid /\ k_pt[i].prot = "rw"
    BY DEF HeapBacked
  <2>1. /\ HeapInv /\ Enabled /\ vm # "off" /\ kernel_brk \in 0 .. StackBase - 1
        /\ asked \in 0 .. StackBase /\ asked <= kernel_brk
    BY DEF KernelHeapInv, TypeOK, Enabled, HeapInv
  <2>2. i \in DataStart .. kernel_brk - 1 /\ i \in DataStart .. StackBase - 1
    BY <2>1, Numbers
  <2> QED
    BY <2>1, <2>2 DEF HeapInv
<1> QED
  BY <1>1, KernelHeapHolds, PTL

\* The running process is on its own kernel stack, and all of it is valid.
THEOREM OwnStackCorrect == Spec => []OwnStack
<1>1. KernelHeapInv => OwnStack
  BY DEF KernelHeapInv, TypeOK, StackInv, OwnStack, Enabled
<1> QED
  BY <1>1, KernelHeapHolds, PTL

\* The kernel heap is mapped one to one as long as no Fork fails in CopyUPT.
THEOREM IdentityMappedCorrect == Spec => []IdentityMapped
<1>1. KernelHeapInv => IdentityMapped
  <2> SUFFICES ASSUME KernelHeapInv, vm = "on", ~spoilt, NEW i \in 0 .. kernel_brk - 1
               PROVE  k_pt[i].pfn = i
    BY DEF IdentityMapped
  <2>1. IdentityInv /\ kernel_brk \in 0 .. StackBase - 1
    BY DEF KernelHeapInv, TypeOK
  <2>2. i \in 0 .. StackBase - 2
    BY <2>1, Numbers
  <2> QED
    BY <2>1, <2>2 DEF IdentityInv
<1> QED
  BY <1>1, KernelHeapHolds, PTL

\* No frame is mapped twice, and none that is mapped is free, as long as no
\* Fork fails in CopyUPT.
THEOREM FramesDistinctCorrect == Spec => []FramesDistinct
<1> DEFINE stacks(w) == Range(Pfns(k_stack[w]))
           own(w) == stacks(w) \cup frames[w]
           below == {k_pt[i].pfn : i \in {j \in 0 .. StackBase - 1 : k_pt[j].valid}}
<1>1. ASSUME KernelHeapInv, vm = "on", ~spoilt
      PROVE  /\ \A i, j \in {j \in Pages : k_pt[j].valid} :
                  i # j => k_pt[i].pfn # k_pt[j].pfn
             /\ \A w, g \in DOMAIN k_stack : w # g => own(w) \cap own(g) = {}
             /\ \A w \in DOMAIN k_stack :
                  own(w) \cap (below \cup Range(pfn_list)) = {}
             /\ below \cap Range(pfn_list) = {}
  <2>1. /\ TypeOK /\ StackInv /\ IdentityInv /\ OwnInv /\ Enabled /\ vm # "off"
        /\ activePCB \in DOMAIN k_stack
    BY <1>1 DEF KernelHeapInv, Enabled, TypeOK
  <2>2. \A w : own(w) = Own(w)
    BY DEF Own, StackFrames, Pfns, Range
  <2>3. Range(pfn_list) = Elems(pfn_list) /\ Elems(pfn_list) \subseteq Upper
    <3>1. pfn_list \in Seq(Upper)
      BY <2>1 DEF TypeOK, Upper
    <3> QED
      BY <3>1 DEF Range, Elems
  <2>4. \A i \in 0 .. StackBase - 1 : k_pt[i].valid => k_pt[i].pfn = i
    <3> TAKE i \in 0 .. StackBase - 1
    <3>1. i = StackBase - 1 \/ i \in 0 .. StackBase - 2
      BY Numbers
    <3> QED
      BY <1>1, <2>1, <3>1 DEF IdentityInv
  <2>5. \A x \in below : x \in 0 .. StackBase - 1
    BY <2>4
  <2>6. \A x \in 0 .. StackBase - 1 : x \notin Upper /\ x \notin Stack
    BY Numbers DEF Upper
  <2>7. \A w \in DOMAIN k_stack : \A x \in StackFrames(w) : x \in Upper \/ x \in Stack
    <3> SUFFICES ASSUME NEW w \in DOMAIN k_stack, NEW x \in StackFrames(w)
                 PROVE  x \in Upper \/ x \in Stack
      OBVIOUS
    <3>1. CASE w = 0
      <4>1. PICK i \in 1 .. StackSize : x = k_stack[w][i].pfn
        BY DEF StackFrames
      <4>2. x = StackBase + i - 1
        BY <2>1, <3>1, <4>1 DEF OwnInv
      <4> QED
        BY <4>2, Numbers
    <3>2. CASE w # 0
      <4>1. StackFrames(w) \subseteq Upper
        BY <2>1, <3>2 DEF OwnInv
      <4> QED
        BY <4>1
    <3> QED
      BY <3>1, <3>2
  <2>8. \A w \in DOMAIN k_stack : \A x \in Own(w) : x \notin 0 .. StackBase - 1
    <3> SUFFICES ASSUME NEW w \in DOMAIN k_stack, NEW x \in Own(w)
                 PROVE  x \in Upper \/ x \in Stack
      BY <2>6
    <3>1. frames[w] \subseteq Upper
      BY <2>1 DEF OwnInv
    <3> QED
      BY <2>7, <3>1 DEF Own
  <2>9. \A i, j \in {j \in Pages : k_pt[j].valid} : i # j => k_pt[i].pfn # k_pt[j].pfn
    <3>1. \A i \in Pages : i \in 0 .. StackBase - 1
                           \/ \E k \in 1 .. StackSize : i = StackBase + k - 1
      <4> TAKE i \in Pages
      <4>1. CASE i < StackBase
        BY <4>1, Numbers
      <4>2. CASE ~(i < StackBase)
        <5>1. i - StackBase + 1 \in 1 .. StackSize /\ i = StackBase + (i - StackBase + 1) - 1
          BY <4>2, Numbers
        <5> QED
          BY <5>1
      <4> QED
        BY <4>1, <4>2
    <3>2. \A k \in 1 .. StackSize : /\ k_pt[StackBase + k - 1].pfn = k_stack[activePCB][k].pfn
                                    /\ k_stack[activePCB][k].pfn \in StackFrames(activePCB)
      BY <2>1 DEF StackInv, StackFrames
    <3>3. \A k \in 1 .. StackSize : k_pt[StackBase + k - 1].pfn \notin 0 .. StackBase - 1
      BY <2>1, <2>8, <3>2 DEF Own
    <3>4. \A k, m \in 1 .. StackSize :
            k_pt[StackBase + k - 1].pfn = k_pt[StackBase + m - 1].pfn => k = m
      BY <2>1, <3>2 DEF OwnInv
    <3> SUFFICES ASSUME NEW i \in Pages, NEW j \in Pages, k_pt[i].valid, k_pt[j].valid,
                        k_pt[i].pfn = k_pt[j].pfn
                 PROVE  i = j
      OBVIOUS
    <3>5. CASE i \in 0 .. StackBase - 1 /\ j \in 0 .. StackBase - 1
      BY <2>4, <3>5
    <3>6. CASE i \in 0 .. StackBase - 1 /\ j \notin 0 .. StackBase - 1
      BY <2>4, <3>1, <3>3, <3>6
    <3>7. CASE i \notin 0 .. StackBase - 1 /\ j \in 0 .. StackBase - 1
      BY <2>4, <3>1, <3>3, <3>7
    <3>8. CASE i \notin 0 .. StackBase - 1 /\ j \notin 0 .. StackBase - 1
      <4>1. PICK k \in 1 .. StackSize : i = StackBase + k - 1
        BY <3>1, <3>8
      <4>2. PICK m \in 1 .. StackSize : j = StackBase + m - 1
        BY <3>1, <3>8
      <4>3. k = m
        BY <3>4, <4>1, <4>2
      <4> QED
        BY <4>1, <4>2, <4>3
    <3> QED
      BY <3>5, <3>6, <3>7, <3>8
  <2>10. \A w, g \in DOMAIN k_stack : w # g => own(w) \cap own(g) = {}
    BY <2>1, <2>2 DEF OwnInv
  <2> HIDE DEF own, below
  <2>11. \A w \in DOMAIN k_stack : own(w) \cap (below \cup Range(pfn_list)) = {}
    <3> TAKE w \in DOMAIN k_stack
    <3>1. Own(w) \cap Elems(pfn_list) = {}
      BY <2>1 DEF OwnInv
    <3> QED
      BY <2>2, <2>3, <2>5, <2>8, <3>1
  <2>12. below \cap Range(pfn_list) = {}
    BY <2>3, <2>5, <2>6
  <2> QED
    BY <2>9, <2>10, <2>11, <2>12
<1>2. KernelHeapInv => FramesDistinct
  BY <1>1 DEF FramesDistinct, KernelHeapInv
<1> QED
  BY <1>2, KernelHeapHolds, PTL

-----------------------------------------------------------------------------
(* UserHeap: the break of the library in bytes and that of the kernel in   *)
(* pages.                                                                  *)

\* Division by a positive number, which may be any.
LEMMA Divides ==
  ASSUME NEW x \in Int, NEW m \in Nat \ {0}
  PROVE  /\ x \div m \in Int
         /\ (x \div m) * m <= x /\ x < (x \div m) * m + m
  OBVIOUS

\* A quotient is known by its bounds.
LEMMA Quotient ==
  ASSUME NEW g \in Int, NEW m \in Nat \ {0}
  PROVE  (g * m + m - 1) \div m = g /\ (g * m) \div m = g
  OBVIOUS

\* Up gives the next multiple, and a multiple is its own.
LEMMA UpMultiple ==
  ASSUME NEW x \in Int, NEW m \in Nat \ {0}
  PROVE  /\ Up(x, m) \in Int /\ x <= Up(x, m)
         /\ (Up(x, m) \div m) * m = Up(x, m)
         /\ Up(Up(x, m), m) = Up(x, m)
         /\ Up(x, m) \div m \in Int
         /\ x <= 0 => Up(x, m) \div m <= 0
<1> DEFINE g == (x + m - 1) \div m
<1>1. g \in Int /\ g * m <= x + m - 1 /\ x + m - 1 < g * m + m
  BY Divides
<1>2. Up(x, m) = g * m
  BY DEF Up
<1>3. (g * m + m - 1) \div m = g /\ (g * m) \div m = g
  <2> HIDE DEF g
  <2> QED
    BY <1>1, Quotient
<1>4. g * m \in Int
  <2> HIDE DEF g
  <2> QED
    BY <1>1
<1>5. x <= 0 => g <= 0
  <2> SUFFICES ASSUME x <= 0, g >= 1
               PROVE  FALSE
    BY <1>1
  <2>1. g * m >= m
    <3> HIDE DEF g
    <3> QED
      BY <1>1
  <2> HIDE DEF g
  <2> QED
    BY <1>1, <1>4, <2>1
<1>6. x <= g * m
  <2> HIDE DEF g
  <2> QED
    BY <1>1, <1>4
<1> HIDE DEF g
<1>7. Up(g * m, m) = g * m
  BY <1>3 DEF Up
<1> QED
  BY <1>1, <1>2, <1>3, <1>4, <1>5, <1>6, <1>7

\* What is assumed of the constants.
LEMMA HeapConstants ==
  /\ PAGESIZE \in Nat \ {0} /\ BasePage \in Nat /\ data_index \in Nat
  /\ stack_index \in Nat /\ NumFrames \in Nat /\ EndOfProgram \in Nat
  /\ PRE_STARTUP_HEAPSIZE \in Nat /\ HeaderSize \in Nat
  /\ HeaderSize <= PRE_STARTUP_HEAPSIZE
  BY HeapAssumption

\* The page of an address: rounding up first changes nothing, the address is
\* not above the page, and there are no addresses below 1 in the heap.
LEMMA PageOfAddress ==
  ASSUME NEW a \in Int
  PROVE  /\ UP_TO_PAGE(a) \in Int /\ a <= UP_TO_PAGE(a) /\ PageOf(a) \in Int
         /\ PageOf(UP_TO_PAGE(a)) = PageOf(a)
         /\ (PageOf(a) + BasePage) * PAGESIZE = UP_TO_PAGE(a)
         /\ data_index < PageOf(a) => a \in Nat /\ a > 0
<1>1. /\ UP_TO_PAGE(a) \in Int /\ a <= UP_TO_PAGE(a)
      /\ (UP_TO_PAGE(a) \div PAGESIZE) * PAGESIZE = UP_TO_PAGE(a)
      /\ UP_TO_PAGE(UP_TO_PAGE(a)) = UP_TO_PAGE(a)
      /\ UP_TO_PAGE(a) \div PAGESIZE \in Int
      /\ a <= 0 => UP_TO_PAGE(a) \div PAGESIZE <= 0
  BY HeapConstants, UpMultiple DEF UP_TO_PAGE
<1> DEFINE g == UP_TO_PAGE(a) \div PAGESIZE
<1>2. PageOf(a) = g - BasePage /\ PageOf(UP_TO_PAGE(a)) = g - BasePage
  BY <1>1 DEF PageOf
<1> HIDE DEF g
<1>3. g \in Int /\ g * PAGESIZE = UP_TO_PAGE(a) /\ (a <= 0 => g <= 0)
  BY <1>1 DEF g
<1>4. g - BasePage + BasePage = g
  BY <1>3, HeapConstants
<1>5. (PageOf(a) + BasePage) * PAGESIZE = UP_TO_PAGE(a)
  BY <1>2, <1>3, <1>4
<1>6. data_index < PageOf(a) => a \in Nat /\ a > 0
  BY <1>2, <1>3, HeapConstants
<1> QED
  BY <1>1, <1>2, <1>3, <1>5, <1>6, HeapConstants

Mem == [current_break : Nat, heap_index : 0 .. stack_index,
        valid : SUBSET (data_index .. stack_index - 1),
        free : 0 .. NumFrames, ok : BOOLEAN]

\* The pages of the heap are mapped, and no frame is counted twice.
Backed(m) ==
  /\ m \in Mem
  /\ data_index < m.heap_index /\ m.heap_index < stack_index
  /\ data_index .. m.heap_index - 1 \subseteq m.valid
  /\ Cardinality(m.valid) + m.free <= NumFrames

\* The sizes of the sets of pages that Grow and Shrink add and take away.
LEMMA PageSets ==
  ASSUME NEW V \in SUBSET (data_index .. stack_index - 1),
         NEW a \in Int, NEW b \in Int, a <= b
  PROVE  /\ Cardinality(V) \in Nat
         /\ Cardinality(a .. b - 1) = b - a
         /\ V \cap (a .. b - 1) = {} =>
              Cardinality(V \cup (a .. b - 1)) = Cardinality(V) + (b - a)
         /\ a .. b - 1 \subseteq V =>
              /\ Cardinality(V \ (a .. b - 1)) = Cardinality(V) - (b - a)
              /\ b - a <= Cardinality(V)
<1>0. ASSUME NEW i \in Int, NEW j \in Int
      PROVE  /\ IsFiniteSet(i .. j - 1)
             /\ i <= j => Cardinality(i .. j - 1) = j - i
  <2> DEFINE k == j - 1
  <2>1. k \in Int /\ k - i + 1 = j - i /\ (i <= j /\ i > k => j - i = 0)
    OBVIOUS
  <2> HIDE DEF k
  <2>2. /\ IsFiniteSet(i .. k)
        /\ Cardinality(i .. k) = IF i > k THEN 0 ELSE k - i + 1
    BY <2>1, FS_Interval
  <2> QED
    BY <2>1, <2>2 DEF k
<1>1. IsFiniteSet(V)
  <2>1. IsFiniteSet(data_index .. stack_index - 1)
    BY <1>0, HeapConstants
  <2> QED
    BY <2>1, FS_Subset
<1>2. IsFiniteSet(a .. b - 1) /\ Cardinality(a .. b - 1) = b - a
  BY <1>0
<1> DEFINE S == a .. b - 1
<1> HIDE DEF S
<1>3. IsFiniteSet(S) /\ Cardinality(S) = b - a
  BY <1>2 DEF S
<1>4. V \cap S = {} => Cardinality(V \cup S) = Cardinality(V) + (b - a)
  <2>1. Cardinality(V \cup S) = Cardinality(V) + Cardinality(S) - Cardinality(V \cap S)
    BY <1>1, <1>3, FS_Union
  <2>2. Cardinality(V) \in Nat /\ Cardinality({}) = 0
    BY <1>1, FS_EmptySet, FS_CardinalityType
  <2> HAVE V \cap S = {}
  <2>3. Cardinality(V \cap S) = 0
    BY <2>2
  <2> QED
    BY <1>3, <2>1, <2>2, <2>3
<1>5. ASSUME S \subseteq V
      PROVE  Cardinality(V \ S) = Cardinality(V) - (b - a) /\ b - a <= Cardinality(V)
  <2>1. V \cap S = S
    BY <1>5
  <2>2. Cardinality(V \ S) = Cardinality(V) - Cardinality(V \cap S)
    BY <1>1, FS_Difference
  <2>3. Cardinality(S) <= Cardinality(V)
    BY <1>1, <1>5, FS_Subset
  <2> QED
    BY <1>1, <1>3, <1>5, <2>1, <2>2, <2>3
<1> QED
  BY <1>1, <1>2, <1>4, <1>5, FS_CardinalityType DEF S

\* The heap grows: all of it or none, although pages may stay behind.
LEMMA GrowBacked ==
  ASSUME NEW m, Backed(m), NEW target \in Int,
         m.heap_index < target, target < stack_index
  PROVE  LET r == Grow(m, target)
         IN  /\ Backed(r) /\ r.current_break = m.current_break
             /\ r.heap_index = IF r.ok THEN target ELSE m.heap_index
<1>1. /\ m \in Mem /\ m.heap_index \in Int /\ m.free \in Nat /\ m.free <= NumFrames
      /\ m.valid \in SUBSET (data_index .. stack_index - 1)
      /\ m.heap_index < stack_index /\ data_index < m.heap_index
      /\ data_index .. m.heap_index - 1 \subseteq m.valid
      /\ Cardinality(m.valid) + m.free <= NumFrames
  BY HeapConstants DEF Backed, Mem
<1> DEFINE h == m.heap_index
           f == m.free
           V == m.valid
           new == h .. target - 1
           some == h .. h + f - 1
<1>w. /\ Cardinality(V) \in Nat
      /\ \A b \in Int : h <= b /\ V \cap (h .. b - 1) = {} =>
           Cardinality(V \cup (h .. b - 1)) = Cardinality(V) + (b - h)
  <2> HIDE DEF V, h
  <2>1. V \in SUBSET (data_index .. stack_index - 1) /\ h \in Int
    BY <1>1 DEF V, h
  <2>2. ASSUME NEW b \in Int, h <= b
        PROVE  /\ Cardinality(V) \in Nat
               /\ V \cap (h .. b - 1) = {} =>
                    Cardinality(V \cup (h .. b - 1)) = Cardinality(V) + (b - h)
    BY <2>1, <2>2, PageSets
  <2>3. Cardinality(V) \in Nat
    BY <2>1, <2>2
  <2> QED
    BY <2>2, <2>3
<1>2. CASE new \cap V # {}
  <2> DEFINE r == [m EXCEPT !.ok = FALSE]
  <2>1. Grow(m, target) = r
    BY <1>2 DEF Grow, ERROR
  <2>2. /\ r \in Mem /\ r.ok = FALSE /\ r.current_break = m.current_break
        /\ r.heap_index = h /\ r.valid = V /\ r.free = f
    BY <1>1 DEF Mem
  <2> QED
    BY <1>1, <2>1, <2>2 DEF Backed
<1>3. CASE new \cap V = {} /\ target - h <= f
  <2> DEFINE r == [m EXCEPT !.heap_index = target, !.valid = V \cup new,
                            !.free = f - (target - h), !.ok = TRUE]
  <2>1. Grow(m, target) = r
    BY <1>3 DEF Grow, Enough
  <2>2. /\ Cardinality(V \cup new) = Cardinality(V) + (target - h)
        /\ Cardinality(V) \in Nat
    BY <1>1, <1>3, <1>w
  <2>3. /\ new \subseteq data_index .. stack_index - 1
        /\ data_index .. target - 1 \subseteq V \cup new
    BY <1>1, HeapConstants
  <2>4. target \in 0 .. stack_index /\ f - (target - h) \in 0 .. NumFrames
    BY <1>1, <1>3, HeapConstants
  <2>5. /\ r.ok = TRUE /\ r.current_break = m.current_break
        /\ r.heap_index = target /\ r.valid = V \cup new /\ r.free = f - (target - h)
    BY <1>1 DEF Mem
  <2>6. r \in Mem
    BY <1>1, <2>3, <2>4 DEF Mem
  <2> HIDE DEF r, V, new
  <2>7. Cardinality(r.valid) + r.free <= NumFrames
    BY <1>1, <2>2, <2>5 DEF V
  <2> QED
    BY <1>1, <2>1, <2>3, <2>5, <2>6, <2>7, HeapConstants DEF Backed
<1>4. CASE new \cap V = {} /\ ~(target - h <= f)
  <2> DEFINE r == [m EXCEPT !.valid = V \cup some, !.free = 0, !.ok = FALSE]
  <2>1. Grow(m, target) = r
    BY <1>4 DEF Grow, Enough
  <2>2. some \subseteq new
    BY <1>1, <1>4
  <2>3. /\ Cardinality(V \cup some) = Cardinality(V) + f
        /\ Cardinality(V) \in Nat
    <3>1. V \cap some = {}
      BY <1>4, <2>2
    <3>2. h + f \in Int /\ h <= h + f
      BY <1>1
    <3> DEFINE b == h + f
    <3>3. b \in Int /\ h <= b /\ some = h .. b - 1
      BY <1>1, <3>2
    <3> HIDE DEF some, V, b
    <3>4. Cardinality(V \cup some) = Cardinality(V) + (b - h) /\ Cardinality(V) \in Nat
      BY <1>w, <3>1, <3>3
    <3> QED
      BY <1>1, <3>4 DEF b
  <2>4. new \subseteq data_index .. stack_index - 1
    BY <1>1, HeapConstants
  <2>5. /\ r.ok = FALSE /\ r.current_break = m.current_break
        /\ r.heap_index = h /\ r.valid = V \cup some /\ r.free = 0
    BY <1>1 DEF Mem
  <2>6. r \in Mem
    <3>1. V \cup some \in SUBSET (data_index .. stack_index - 1) /\ 0 \in 0 .. NumFrames
      BY <1>1, <2>2, <2>4, HeapConstants
    <3> HIDE DEF V, some
    <3> QED
      BY <1>1, <3>1 DEF Mem
  <2> HIDE DEF r, V, new, some
  <2>7. Cardinality(r.valid) + r.free <= NumFrames
    BY <1>1, <2>3, <2>5 DEF V
  <2> QED
    BY <1>1, <2>1, <2>5, <2>6, <2>7 DEF Backed, V
<1> QED
  BY <1>2, <1>3, <1>4

\* The heap shrinks: all its pages are mapped, so this never fails.
LEMMA ShrinkBacked ==
  ASSUME NEW m, Backed(m), NEW target \in Int,
         target <= m.heap_index, data_index < target
  PROVE  LET r == Shrink(m, target)
         IN  /\ Backed(r) /\ r.current_break = m.current_break
             /\ r.ok /\ r.heap_index = target
<1>1. /\ m \in Mem /\ m.heap_index \in Int /\ m.free \in Nat /\ m.free <= NumFrames
      /\ m.valid \in SUBSET (data_index .. stack_index - 1)
      /\ m.heap_index < stack_index /\ data_index < m.heap_index
      /\ data_index .. m.heap_index - 1 \subseteq m.valid
      /\ Cardinality(m.valid) + m.free <= NumFrames
  BY HeapConstants DEF Backed, Mem
<1> DEFINE h == m.heap_index
           f == m.free
           V == m.valid
           old == target .. h - 1
           r == [m EXCEPT !.heap_index = target, !.valid = V \ old,
                          !.free = f + Cardinality(old), !.ok = TRUE]
<1>2. old \subseteq V
  BY <1>1, HeapConstants
<1>3. Shrink(m, target) = r
  BY <1>2 DEF Shrink
<1>4. /\ Cardinality(V) \in Nat /\ Cardinality(old) = h - target
      /\ Cardinality(V \ old) = Cardinality(V) - (h - target)
      /\ h - target <= Cardinality(V)
  <2> HIDE DEF h, V
  <2>1. V \in SUBSET (data_index .. stack_index - 1) /\ h \in Int /\ target <= h
    BY <1>1 DEF V, h
  <2> QED
    BY <1>2, <2>1, PageSets
<1>5. data_index .. target - 1 \subseteq V \ old
  BY <1>1, HeapConstants
<1> HIDE DEF V, old
<1>6. target \in 0 .. stack_index /\ f + Cardinality(old) \in 0 .. NumFrames
  BY <1>1, <1>4, HeapConstants DEF V
<1>7. /\ r.ok = TRUE /\ r.current_break = m.current_break
      /\ r.heap_index = target /\ r.valid = V \ old /\ r.free = f + Cardinality(old)
  BY <1>1 DEF Mem
<1>8. r \in Mem
  BY <1>1, <1>6 DEF Mem, V
<1> HIDE DEF r
<1>9. Cardinality(r.valid) + r.free <= NumFrames
  BY <1>1, <1>4, <1>7 DEF V
<1> QED
  BY <1>1, <1>3, <1>5, <1>7, <1>8, <1>9, HeapConstants DEF Backed

\* KernelBrk moves the break of the kernel or leaves it, and says which.
LEMMA KernelBrkBacked ==
  ASSUME NEW m, Backed(m), NEW addr \in Int
  PROVE  LET r == KernelBrk(m, addr)
         IN  /\ Backed(r) /\ r.current_break = m.current_break
             /\ r.heap_index = IF r.ok THEN PageOf(addr) ELSE m.heap_index
<1> DEFINE target == PageOf(addr)
<1>1. target \in Int /\ m.heap_index \in Int
  BY PageOfAddress, HeapConstants DEF Backed, Mem
<1> HIDE DEF target
<1>2. CASE addr = 0 \/ target >= stack_index \/ target <= data_index
  <2> DEFINE r == [m EXCEPT !.ok = FALSE]
  <2>1. KernelBrk(m, addr) = r
    BY <1>2 DEF KernelBrk, ERROR, target
  <2>2. /\ r \in Mem /\ r.ok = FALSE /\ r.current_break = m.current_break
        /\ r.heap_index = m.heap_index /\ r.valid = m.valid /\ r.free = m.free
    BY DEF Mem, Backed
  <2> HIDE DEF r
  <2> QED
    BY <2>1, <2>2 DEF Backed
<1>3. CASE /\ addr # 0 /\ target < stack_index /\ data_index < target
           /\ m.heap_index < target
  <2>1. KernelBrk(m, addr) = Grow(m, target)
    BY <1>1, <1>3, HeapConstants DEF KernelBrk, target
  <2> QED
    BY <1>1, <1>3, <2>1, GrowBacked DEF target
<1>4. CASE /\ addr # 0 /\ target < stack_index /\ data_index < target
           /\ target <= m.heap_index
  <2>1. KernelBrk(m, addr) = Shrink(m, target)
    BY <1>1, <1>4, HeapConstants DEF KernelBrk, target
  <2> QED
    BY <1>1, <1>4, <2>1, ShrinkBacked DEF target
<1> QED
  BY <1>1, <1>2, <1>3, <1>4, HeapConstants

\* The two breaks agree.
Agrees(m) == Backed(m) /\ m.heap_index = PageOf(m.current_break)

\* Moving the library's break to where the kernel's has gone.
LEMMA SetBreak ==
  ASSUME NEW m, Backed(m), NEW a \in Int, m.heap_index = PageOf(a)
  PROVE  LET r == [m EXCEPT !.current_break = a]
             s == [m EXCEPT !.current_break = a, !.ok = TRUE]
         IN  /\ Agrees(r) /\ r.current_break = a /\ r.ok = m.ok
             /\ Agrees(s) /\ s.current_break = a /\ s.ok = TRUE
<1>1. a \in Nat
  BY PageOfAddress DEF Backed
<1>2. m \in Mem
  BY DEF Backed
<1> DEFINE r == [m EXCEPT !.current_break = a]
           s == [m EXCEPT !.current_break = a, !.ok = TRUE]
<1>3. /\ r \in Mem /\ r.current_break = a /\ r.ok = m.ok
      /\ r.heap_index = m.heap_index /\ r.valid = m.valid /\ r.free = m.free
  BY <1>1, <1>2 DEF Mem
<1>4. /\ s \in Mem /\ s.current_break = a /\ s.ok = TRUE
      /\ s.heap_index = m.heap_index /\ s.valid = m.valid /\ s.free = m.free
  BY <1>1, <1>2 DEF Mem
<1> HIDE DEF r, s
<1>5. Agrees(r)
  BY <1>3 DEF Agrees, Backed
<1>6. Agrees(s)
  BY <1>4 DEF Agrees, Backed
<1> QED
  BY <1>3, <1>4, <1>5, <1>6 DEF r, s

\* brk_unlocked keeps the breaks together; when it succeeds, the break is
\* where it was asked for or a little above, else it has not moved.
LEMMA BrkAgrees ==
  ASSUME NEW m, Agrees(m), NEW addr \in Int
  PROVE  LET r == brk_unlocked(m, addr)
         IN  /\ Agrees(r)
             /\ r.ok => addr <= r.current_break
             /\ ~r.ok => r.current_break = m.current_break
<1> DEFINE a == Up(addr, 8)
           s == KernelBrk(m, UP_TO_PAGE(a))
           r == brk_unlocked(m, addr)
<1>1. a \in Int /\ addr <= a
  <2> DEFINE e == 8
  <2>1. e \in Nat \ {0}
    OBVIOUS
  <2> HIDE DEF e
  <2>2. Up(addr, e) \in Int /\ addr <= Up(addr, e)
    BY <2>1, UpMultiple
  <2> QED
    BY <2>2 DEF e
<1> HIDE DEF a
<1>2. /\ UP_TO_PAGE(a) \in Int /\ PageOf(UP_TO_PAGE(a)) = PageOf(a)
      /\ UP_TO_PAGE(a) = UP_TO_PAGE(m.current_break) =>
           PageOf(a) = PageOf(m.current_break)
  BY <1>1, PageOfAddress DEF PageOf
<1>3. /\ Backed(s) /\ s.current_break = m.current_break
      /\ s.heap_index = IF s.ok THEN PageOf(a) ELSE m.heap_index
  BY <1>2, KernelBrkBacked DEF Agrees
<1>4. r = IF UP_TO_PAGE(a) = UP_TO_PAGE(m.current_break)
          THEN [m EXCEPT !.current_break = a, !.ok = TRUE]
          ELSE IF s.ok THEN [s EXCEPT !.current_break = a] ELSE s
  BY DEF brk_unlocked, a
<1> HIDE DEF s, r
<1>5. CASE UP_TO_PAGE(a) = UP_TO_PAGE(m.current_break)
  <2>1. r = [m EXCEPT !.current_break = a, !.ok = TRUE]
    BY <1>4, <1>5
  <2>2. Backed(m) /\ m.heap_index = PageOf(a)
    BY <1>2, <1>5 DEF Agrees
  <2>3. Agrees(r) /\ r.current_break = a /\ r.ok = TRUE
    BY <1>1, <2>1, <2>2, SetBreak
  <2> QED
    BY <1>1, <2>3 DEF r
<1>6. CASE UP_TO_PAGE(a) # UP_TO_PAGE(m.current_break) /\ s.ok
  <2>1. r = [s EXCEPT !.current_break = a]
    BY <1>4, <1>6
  <2>2. s.heap_index = PageOf(a)
    BY <1>3, <1>6
  <2>3. Agrees(r) /\ r.current_break = a /\ r.ok = s.ok
    BY <1>1, <1>3, <2>1, <2>2, SetBreak
  <2> QED
    BY <1>1, <1>6, <2>3 DEF r
<1>7. CASE UP_TO_PAGE(a) # UP_TO_PAGE(m.current_break) /\ ~s.ok
  <2>1. r = s
    BY <1>4, <1>7
  <2> QED
    BY <1>3, <1>7, <2>1 DEF r, Agrees
<1> QED
  BY <1>5, <1>6, <1>7

-----------------------------------------------------------------------------

\* Blocks that lie one after the other from heap_start to heap_end.
Tiles ==
  /\ blocks[1].at = heap_start
  /\ \A i \in DOMAIN blocks :
       /\ blocks[i].size >= blocks[i].len
       /\ blocks[i].at + HeaderSize + blocks[i].size =
            IF i = Len(blocks) THEN heap_end ELSE blocks[i + 1].at

\* The inductive invariant.
BreakInv ==
  /\ UTypeOK /\ Agrees(mem)
  /\ ready => blocks # <<>>
  /\ ready /\ ~odd => heap_end <= mem.current_break /\ Tiles

LEMMA HeapTypes ==
  UTypeOK <=> /\ mem \in Mem /\ heap_start \in Nat /\ heap_end \in Nat
              /\ ready \in BOOLEAN /\ odd \in BOOLEAN
              /\ blocks \in Seq([at : Nat, size : Int, len : Nat])
  BY DEF UTypeOK, Mem

LEMMA BreakInit == UInit => BreakInv
<1> SUFFICES ASSUME UInit
             PROVE  BreakInv
  OBVIOUS
<1> DEFINE h == PageOf(EndOfProgram)
           V == data_index .. h - 1
           f == NumFrames - (h - data_index)
<1>1. /\ h \in Int /\ data_index < h /\ h < stack_index /\ h - data_index <= NumFrames
  BY LayoutAssumption, HeapConstants, PageOfAddress
<1>2. /\ mem = [current_break |-> EndOfProgram, heap_index |-> h, valid |-> V,
                 free |-> f, ok |-> TRUE]
      /\ heap_start = 0 /\ heap_end = 0 /\ ready = FALSE /\ odd = FALSE /\ blocks = <<>>
  BY DEF UInit
<1> HIDE DEF h, V
<1>3. V \in SUBSET (data_index .. stack_index - 1) /\ h \in 0 .. stack_index
      /\ f \in 0 .. NumFrames
  BY <1>1, HeapConstants DEF V
<1> HIDE DEF f
<1>4. mem \in Mem
  BY <1>2, <1>3, HeapConstants DEF Mem
<1>5. Cardinality(V) = h - data_index
  <2>1. data_index \in Int /\ data_index <= h
    BY <1>1, HeapConstants
  <2> QED
    BY <1>1, <1>3, <2>1, PageSets DEF V
<1>6. /\ mem.current_break = EndOfProgram /\ mem.heap_index = h /\ mem.valid = V
      /\ mem.free = f
  BY <1>2
<1>7. Cardinality(mem.valid) + mem.free <= NumFrames
  BY <1>1, <1>5, <1>6, HeapConstants DEF f
<1>8. Agrees(mem)
  BY <1>1, <1>4, <1>6, <1>7 DEF Agrees, Backed, h, V
<1>9. UTypeOK
  <2>1. /\ heap_start \in Nat /\ heap_end \in Nat /\ ready \in BOOLEAN /\ odd \in BOOLEAN
    BY <1>2
  <2>2. blocks = <<>>
    BY <1>2
  <2>3. blocks \in Seq([at : Nat, size : Int, len : Nat])
    BY <2>2
  <2> QED
    BY <1>4, <2>1, <2>3, HeapTypes
<1> QED
  BY <1>2, <1>8, <1>9 DEF BreakInv

\* init_heap makes the first block.
LEMMA InitHeapStep ==
  ASSUME BreakInv, init_heap
  PROVE  BreakInv'
<1> DEFINE c == mem.current_break
           m == brk_unlocked(mem, c + PRE_STARTUP_HEAPSIZE)
           d == m.current_break
           b == [at |-> c, size |-> d - c - HeaderSize, len |-> 0]
<1>1. Agrees(mem) /\ c \in Nat /\ c + PRE_STARTUP_HEAPSIZE \in Int
  BY HeapConstants DEF BreakInv, Agrees, Backed, Mem
<1>2. /\ mem' = m /\ heap_start' = c /\ heap_end' = d /\ blocks' = <<b>>
      /\ ready' = TRUE /\ odd' = ~m.ok
  BY DEF init_heap
<1>3. /\ Agrees(m)
      /\ m.ok => c + PRE_STARTUP_HEAPSIZE <= d
  <2> DEFINE x == c + PRE_STARTUP_HEAPSIZE
  <2> HIDE DEF x
  <2>1. x \in Int /\ m = brk_unlocked(mem, x)
    BY <1>1 DEF x
  <2> HIDE DEF m
  <2>2. Agrees(m) /\ (m.ok => x <= m.current_break)
    BY <1>1, <2>1, BrkAgrees
  <2> QED
    BY <2>2 DEF x
<1> HIDE DEF m
<1>4. d \in Nat /\ m \in Mem /\ m.ok \in BOOLEAN
  BY <1>3 DEF Agrees, Backed, Mem
<1> HIDE DEF c, d
<1>5. b \in [at : Nat, size : Int, len : Nat]
  BY <1>1, <1>4, HeapConstants
<1>6. UTypeOK'
  <2>1. <<b>> \in Seq([at : Nat, size : Int, len : Nat])
    BY <1>5
  <2> HIDE DEF b
  <2> QED
    BY <1>1, <1>2, <1>4, <2>1 DEF UTypeOK, Mem
<1>7. ASSUME m.ok
      PROVE  Tiles'
  <2>1. b.at = c /\ b.len = 0 /\ b.size = d - c - HeaderSize
    OBVIOUS
  <2>2. b.size >= b.len /\ b.at + HeaderSize + b.size = d
    BY <1>1, <1>3, <1>4, <1>7, <2>1, HeapConstants DEF d
  <2> HIDE DEF b
  <2>3. DOMAIN <<b>> = {1} /\ <<b>>[1] = b /\ Len(<<b>>) = 1
    OBVIOUS
  <2> QED
    BY <1>2, <2>1, <2>2, <2>3 DEF Tiles
<1>8. blocks' # <<>>
  BY <1>2
<1>9. ASSUME m.ok
      PROVE  heap_end' <= mem'.current_break
  BY <1>2, <1>4 DEF d
<1>10. Agrees(mem)'
  BY <1>2, <1>3
<1>11. ~odd' => m.ok
  BY <1>2, <1>4
<1> QED
  BY <1>6, <1>7, <1>8, <1>9, <1>10, <1>11 DEF BreakInv

\* grow_heap appends a block that starts where the last one ends.
LEMMA AppendTile ==
  ASSUME BreakInv, ready, ~odd, NEW len \in Nat, NEW e \in Nat,
         heap_end + len + HeaderSize <= e,
         blocks' = Append(blocks, [at |-> heap_end, len |-> len,
                                   size |-> e - heap_end - HeaderSize]),
         heap_end' = e, heap_start' = heap_start
  PROVE  Tiles'
<1> DEFINE B == [at : Nat, size : Int, len : Nat]
           b == [at |-> heap_end, len |-> len, size |-> e - heap_end - HeaderSize]
           h == Len(blocks)
<1>1. heap_end \in Nat /\ blocks \in Seq(B) /\ blocks # <<>> /\ Tiles
  BY DEF BreakInv, UTypeOK
<1>2. /\ b.at = heap_end /\ b.size >= b.len /\ b.at + HeaderSize + b.size = e
      /\ b \in B
  BY <1>1, HeapConstants
<1> HIDE DEF b
<1>3. /\ h \in Nat /\ h > 0 /\ DOMAIN blocks = 1 .. h /\ DOMAIN blocks' = 1 .. h + 1
      /\ Len(blocks') = h + 1 /\ blocks'[h + 1] = b
      /\ \A i \in 1 .. h : blocks'[i] = blocks[i]
  <2> HIDE DEF B
  <2> QED
    BY <1>1, <1>2 DEF b
<1> HIDE DEF h
<1>4. ASSUME NEW i \in 1 .. h
      PROVE  /\ blocks'[i].size >= blocks'[i].len
             /\ blocks'[i].at + HeaderSize + blocks'[i].size = blocks'[i + 1].at
  <2>1. CASE i = h
    BY <1>1, <1>2, <1>3, <2>1, SMTT(40) DEF Tiles, h
  <2>2. CASE i # h
    <3>1. i + 1 \in 1 .. h
      BY <1>3, <2>2
    <3> QED
      BY <1>1, <1>3, <2>2, <3>1 DEF Tiles, h
  <2> QED
    BY <2>1, <2>2
<1>5. blocks'[1].at = heap_start'
  BY <1>1, <1>3 DEF Tiles
<1>6. ASSUME NEW i \in 1 .. h + 1
      PROVE  /\ blocks'[i].size >= blocks'[i].len
             /\ blocks'[i].at + HeaderSize + blocks'[i].size =
                  IF i = Len(blocks') THEN heap_end' ELSE blocks'[i + 1].at
  <2>1. CASE i = h + 1
    BY <1>2, <1>3, <2>1
  <2>2. CASE i # h + 1
    <3>1. i \in 1 .. h
      BY <1>3, <2>2
    <3> QED
      BY <1>3, <1>4, <2>2, <3>1
  <2> QED
    BY <2>1, <2>2
<1> QED
  BY <1>3, <1>5, <1>6 DEF Tiles

LEMMA GrowHeapStep ==
  ASSUME BreakInv, NEW len \in Nat, grow_heap(len)
  PROVE  BreakInv'
<1> DEFINE x == Request(len)
           m == brk_unlocked(mem, x)
           d == m.current_break
           B == [at : Nat, size : Int, len : Nat]
           b == [at |-> heap_end, len |-> len, size |-> d - heap_end - HeaderSize]
<1>1. Agrees(mem) /\ heap_end \in Nat /\ blocks \in Seq(B) /\ UTypeOK
  BY DEF BreakInv, UTypeOK
<1>2. x \in Int /\ heap_end + len + HeaderSize <= x
  <2> DEFINE y == heap_end + len + HeaderSize
  <2>1. y \in Int
    BY <1>1, HeapConstants
  <2> HIDE DEF y
  <2>2. UP_TO_PAGE(y) \in Int /\ y <= UP_TO_PAGE(y)
    BY <2>1, PageOfAddress
  <2> QED
    BY <2>2 DEF y, Request
<1>3. /\ ready /\ mem' = m /\ UNCHANGED <<heap_start, ready, odd>>
      /\ IF m.ok /\ d >= x
         THEN blocks' = Append(blocks, b) /\ heap_end' = d
         ELSE UNCHANGED <<blocks, heap_end>>
  BY DEF grow_heap
<1> HIDE DEF x
<1>4. Agrees(m) /\ (m.ok => x <= d) /\ (~m.ok => d = mem.current_break)
  <2> HIDE DEF m
  <2>1. m = brk_unlocked(mem, x)
    BY DEF m
  <2> QED
    BY <1>1, <1>2, <2>1, BrkAgrees
<1> HIDE DEF m
<1>5. d \in Nat /\ m \in Mem /\ m.ok \in BOOLEAN /\ mem.current_break \in Nat
  BY <1>1, <1>4 DEF Agrees, Backed, Mem
<1>6. Agrees(mem)'
  BY <1>3, <1>4
<1>7. CASE m.ok
  <2>1. blocks' = Append(blocks, b) /\ heap_end' = d /\ heap_end + len + HeaderSize <= d
    <3> HIDE DEF b, d
    <3> QED
      BY <1>1, <1>2, <1>3, <1>4, <1>5, <1>7, HeapConstants
  <2>2. b \in B
    <3> HIDE DEF d
    <3> QED
      BY <1>1, <1>5, HeapConstants
  <2>3. blocks' \in Seq(B) /\ blocks' # <<>>
    <3> HIDE DEF b, B
    <3> QED
      BY <1>1, <2>1, <2>2
  <2>4. UTypeOK'
    <3> HIDE DEF b, d
    <3> QED
      BY <1>1, <1>3, <1>5, <2>1, <2>3 DEF UTypeOK, Mem
  <2>5. ~odd => Tiles'
    <3> HIDE DEF d
    <3> QED
      BY <1>3, <1>5, <2>1, AppendTile
  <2>6. heap_end' <= mem'.current_break
    BY <1>3, <1>5, <2>1
  <2> QED
    BY <1>3, <1>6, <2>3, <2>4, <2>5, <2>6 DEF BreakInv
<1>8. CASE ~m.ok
  <2>1. UNCHANGED <<blocks, heap_end>> /\ mem'.current_break = mem.current_break
    BY <1>3, <1>4, <1>8
  <2>2. UTypeOK'
    BY <1>1, <1>3, <1>5, <2>1 DEF UTypeOK, Mem
  <2>3. Tiles => Tiles'
    BY <1>3, <2>1 DEF Tiles
  <2> QED
    BY <1>3, <1>6, <2>1, <2>2, <2>3 DEF BreakInv
<1> QED
  BY <1>7, <1>8

\* The program moves the break to wherever it stays with that of the kernel.
LEMMA MovesStep ==
  ASSUME BreakInv, NEW m, Agrees(m), Moves(m)
  PROVE  BreakInv'
<1>1. /\ mem' = m /\ UNCHANGED <<heap_start, heap_end, ready, blocks>>
      /\ odd' = (odd \/ (ready /\ m.current_break < heap_end))
  BY DEF Moves
<1>2. /\ m \in Mem /\ m.current_break \in Nat /\ heap_end \in Nat
      /\ ready \in BOOLEAN /\ odd \in BOOLEAN
  BY DEF Agrees, Backed, Mem, BreakInv, UTypeOK
<1>3. odd' \in BOOLEAN
  BY <1>1, <1>2
<1>4. UTypeOK'
  BY <1>1, <1>2, <1>3 DEF BreakInv, UTypeOK, Mem
<1>5. Tiles => Tiles'
  BY <1>1 DEF Tiles
<1>6. ready' /\ ~odd' => ready /\ ~odd /\ heap_end' <= mem'.current_break
  <2>1. ready' /\ ~odd' => ready /\ ~odd /\ ~(m.current_break < heap_end)
    BY <1>1, <1>2, Zenon
  <2>2. ~(m.current_break < heap_end) => heap_end' <= mem'.current_break
    BY <1>1, <1>2
  <2> QED
    BY <2>1, <2>2
<1>7. Agrees(mem)'
  BY <1>1
<1> QED
  BY <1>1, <1>4, <1>5, <1>6, <1>7 DEF BreakInv

LEMMA BreakStep == BreakInv /\ [UNext]_uvars => BreakInv'
<1> SUFFICES ASSUME BreakInv, [UNext]_uvars
             PROVE  BreakInv'
  OBVIOUS
<1>0. Agrees(mem) /\ mem.current_break \in Nat /\ Backed(mem) /\ mem \in Mem
  BY DEF BreakInv, Agrees, Backed, Mem
<1>1. CASE init_heap
  BY <1>1, InitHeapStep
<1>2. ASSUME NEW len \in Lens, grow_heap(len)
      PROVE  BreakInv'
  BY <1>2, GrowHeapStep, HeapAssumption
<1>3. ASSUME NEW incr \in Increments, sbrk(incr)
      PROVE  BreakInv'
  <2> DEFINE x == mem.current_break + incr
             m == brk_unlocked(mem, x)
  <2>1. x \in Int
    BY <1>0, HeapAssumption
  <2> HIDE DEF x
  <2>2. Agrees(m)
    BY <1>0, <2>1, BrkAgrees
  <2> HIDE DEF m
  <2> QED
    BY <1>3, <2>2, MovesStep DEF sbrk, m, x
<1>4. ASSUME NEW addr \in Addrs, Brk(addr)
      PROVE  BreakInv'
  <2> DEFINE s == KernelBrk(mem, addr)
             m == IF s.ok THEN [s EXCEPT !.current_break = addr] ELSE s
  <2>1. addr \in Int
    BY HeapAssumption
  <2>2. /\ Backed(s) /\ s.current_break = mem.current_break
        /\ s.heap_index = IF s.ok THEN PageOf(addr) ELSE mem.heap_index
    BY <1>0, <2>1, KernelBrkBacked
  <2>3. Moves(m)
    BY <1>4 DEF Brk
  <2> HIDE DEF s
  <2>4. Agrees(m)
    <3>1. CASE s.ok
      BY <2>1, <2>2, <3>1, SetBreak
    <3>2. CASE ~s.ok
      BY <1>0, <2>2, <3>2 DEF Agrees
    <3> QED
      BY <3>1, <3>2
  <2> HIDE DEF m
  <2> QED
    BY <2>3, <2>4, MovesStep
<1>5. CASE OthersTakeFrames
  <2>1. PICK h \in 0 .. NumFrames - Cardinality(mem.valid) :
          mem' = [mem EXCEPT !.free = h]
    BY <1>5 DEF OthersTakeFrames
  <2>2. UNCHANGED <<heap_start, heap_end, ready, odd, blocks>>
    BY <1>5 DEF OthersTakeFrames
  <2>3. Cardinality(mem.valid) \in Nat
    <3>1. mem.valid \in SUBSET (data_index .. stack_index - 1) /\ 0 <= 0
      BY <1>0 DEF Mem
    <3> DEFINE z == 0
    <3>2. z \in Int /\ z <= z
      OBVIOUS
    <3> HIDE DEF z
    <3> QED
      BY <3>1, <3>2, PageSets
  <2>4. h \in 0 .. NumFrames /\ Cardinality(mem.valid) + h <= NumFrames
    BY <2>3, HeapConstants
  <2>5. /\ mem' \in Mem /\ mem'.current_break = mem.current_break
        /\ mem'.heap_index = mem.heap_index /\ mem'.valid = mem.valid /\ mem'.free = h
    BY <1>0, <2>1, <2>4 DEF Mem
  <2>6. Agrees(mem)'
    BY <1>0, <2>4, <2>5 DEF Agrees, Backed
  <2>7. UTypeOK'
    BY <2>2, <2>5 DEF BreakInv, UTypeOK, Mem
  <2>8. Tiles => Tiles'
    BY <2>2 DEF Tiles
  <2> QED
    BY <2>2, <2>5, <2>6, <2>7, <2>8 DEF BreakInv
<1>6. CASE UNCHANGED uvars
  <2>1. UNCHANGED <<mem, heap_start, heap_end, ready, odd, blocks>>
    BY <1>6 DEF uvars
  <2> QED
    BY <2>1 DEF BreakInv, UTypeOK, Agrees, Backed, Tiles
<1> QED
  BY <1>1, <1>2, <1>3, <1>4, <1>5, <1>6 DEF UNext

LEMMA BreakHolds == USpec => []BreakInv
  BY BreakInit, BreakStep, PTL DEF USpec

\* KernelBrk and brk_unlocked count in pages and in bytes, and the two breaks
\* never part, whatever succeeds, fails or fails half way.
THEOREM BreaksAgreeCorrect == USpec => []BreaksAgree
<1>1. BreakInv => BreaksAgree
  BY DEF BreakInv, Agrees, Backed, BreaksAgree
<1> QED
  BY <1>1, BreakHolds, PTL

\* init_heap and grow_heap: the blocks of malloc tile the heap and are mapped.
THEOREM BlocksTileCorrect == USpec => []BlocksTile
<1>1. BreakInv => BlocksTile
  <2> SUFFICES ASSUME BreakInv, ready, ~odd
               PROVE  /\ heap_end <= (mem.heap_index + BasePage) * PAGESIZE
                      /\ Tiles
    BY DEF BlocksTile, Tiles
  <2> DEFINE c == mem.current_break
  <2>1. c \in Nat /\ heap_end \in Nat /\ heap_end <= c /\ mem.heap_index = PageOf(c)
    BY DEF BreakInv, Agrees, Backed, Mem, UTypeOK
  <2> HIDE DEF c
  <2>2. c <= UP_TO_PAGE(c) /\ (PageOf(c) + BasePage) * PAGESIZE = UP_TO_PAGE(c)
        /\ UP_TO_PAGE(c) \in Int
    BY <2>1, PageOfAddress
  <2>3. heap_end <= UP_TO_PAGE(c)
    BY <2>1, <2>2
  <2> QED
    BY <2>1, <2>2, <2>3 DEF BreakInv
<1> QED
  BY <1>1, BreakHolds, PTL

-----------------------------------------------------------------------------
(* vsnprintf: powers and the counting of digits.                          *)

\* Powers have a run.
LEMMA PowerRuns ==
  ASSUME NEW b \in Nat
  PROVE  /\ Power(b, 0) = 1
         /\ \A i \in 0 .. MaxBits : Power(b, i) \in Nat
         /\ \A i \in 1 .. MaxBits : Power(b, i) = b * Power(b, i - 1)
<1> DEFINE g == [i \in 1 .. MaxBits |-> [x \in Nat |-> b * x]]
           Run(f) == f = [i \in 0 .. MaxBits |-> IF i = 0 THEN 1 ELSE b * f[i - 1]]
<1>1. MaxBits \in Nat \ {0}
  BY MaxBitsAssumption
<1>2. /\ g \in [1 .. MaxBits -> [Nat -> Nat]]
      /\ \A i \in 1 .. MaxBits : \A x \in Nat : g[i][x] = b * x
  OBVIOUS
<1> HIDE DEF g
<1>3. \E f \in [0 .. MaxBits -> Nat] :
        f = [i \in 0 .. MaxBits |-> IF i = 0 THEN 1 ELSE g[i][f[i - 1]]]
  <2> DEFINE Loop(T, k, t, e) == \E f \in [0 .. k -> T] :
               f = [i \in 0 .. k |-> IF i = 0 THEN t ELSE e[i][f[i - 1]]]
  <2>1. \A T : \A k \in Nat : \A t \in T : \A e \in [1 .. k -> [T -> T]] : Loop(T, k, t, e)
    BY LoopExists
  <2> HIDE DEF Loop
  <2>2. Loop(Nat, MaxBits, 1, g)
    BY <1>1, <1>2, <2>1
  <2> QED
    BY <2>2 DEF Loop
<1>4. PICK f \in [0 .. MaxBits -> Nat] :
        f = [i \in 0 .. MaxBits |-> IF i = 0 THEN 1 ELSE g[i][f[i - 1]]]
  BY <1>3
<1>5. \A i \in 0 .. MaxBits : i # 0 => i \in 1 .. MaxBits /\ i - 1 \in 0 .. MaxBits
  BY <1>1
<1>6. Run(f)
  <2>1. \A i \in 0 .. MaxBits : f[i] = IF i = 0 THEN 1 ELSE b * f[i - 1]
    <3> TAKE i \in 0 .. MaxBits
    <3>1. f[i] = IF i = 0 THEN 1 ELSE g[i][f[i - 1]]
      BY <1>4
    <3>2. i # 0 => g[i][f[i - 1]] = b * f[i - 1]
      <4> HAVE i # 0
      <4>1. i \in 1 .. MaxBits /\ f[i - 1] \in Nat
        BY <1>5
      <4> QED
        BY <1>2, <4>1
    <3> QED
      BY <3>1, <3>2
  <2> QED
    BY <2>1
<1> DEFINE h == CHOOSE r : Run(r)
<1>7. Run(h)
  <2> HIDE DEF Run
  <2> QED
    BY <1>6
<1>8. \A i : Power(b, i) = h[i]
  BY Zenon DEF Power
<1> HIDE DEF h
<1>9. h[0] = 1 /\ \A i \in 1 .. MaxBits : h[i] = b * h[i - 1]
  <2>1. \A i \in 0 .. MaxBits : h[i] = IF i = 0 THEN 1 ELSE b * h[i - 1]
    BY <1>7
  <2>2. 0 \in 0 .. MaxBits /\ \A i \in 1 .. MaxBits : i \in 0 .. MaxBits /\ i # 0
    BY <1>1
  <2> QED
    BY <2>1, <2>2
<1>10. \A i \in 0 .. MaxBits : h[i] \in Nat
  <2> DEFINE I == {i \in 0 .. MaxBits : h[i] \in Nat}
  <2>1. 0 \in I /\ I \in SUBSET (0 .. MaxBits)
    BY <1>1, <1>9
  <2>2. \A i \in 1 .. MaxBits : i - 1 \in I => i \in I
    <3> TAKE i \in 1 .. MaxBits
    <3> HAVE i - 1 \in I
    <3>1. h[i] = b * h[i - 1] /\ h[i - 1] \in Nat /\ i \in 0 .. MaxBits
      BY <1>1, <1>9
    <3>2. b * h[i - 1] \in Nat
      BY <3>1
    <3> QED
      BY <3>1, <3>2
  <2> HIDE DEF I
  <2>3. I = 0 .. MaxBits
    BY <1>1, <2>1, <2>2, UpTo
  <2> QED
    BY <2>3 DEF I
<1> QED
  BY <1>8, <1>9, <1>10

\* Powers of two are positive, and grow.
LEMMA PowersOfTwo ==
  /\ \A i \in 0 .. MaxBits : Power(2, i) \in Nat \ {0}
  /\ \A i \in 0 .. MaxBits : Power(2, i) <= Power(2, MaxBits)
<1> DEFINE P(i) == Power(2, i)
           I == {i \in 0 .. MaxBits : P(i) \in Nat \ {0}}
           J == {i \in 0 .. MaxBits : P(MaxBits - i) <= P(MaxBits)}
<1>1. MaxBits \in Nat \ {0}
  BY MaxBitsAssumption
<1>2. P(0) = 1 /\ (\A i \in 0 .. MaxBits : P(i) \in Nat)
      /\ \A i \in 1 .. MaxBits : P(i) = 2 * P(i - 1)
  <2>1. 2 \in Nat
    OBVIOUS
  <2> QED
    BY <2>1, PowerRuns
<1> HIDE DEF P
<1>3. I = 0 .. MaxBits
  <2>1. 0 \in I /\ I \in SUBSET (0 .. MaxBits)
    BY <1>1, <1>2
  <2>2. \A i \in 1 .. MaxBits : i - 1 \in I => i \in I
    <3> TAKE i \in 1 .. MaxBits
    <3> HAVE i - 1 \in I
    <3>1. P(i) = 2 * P(i - 1) /\ P(i - 1) \in Nat \ {0} /\ i \in 0 .. MaxBits
      BY <1>1, <1>2
    <3> QED
      BY <3>1
  <2> HIDE DEF I
  <2> QED
    BY <1>1, <2>1, <2>2, UpTo
<1>4. J = 0 .. MaxBits
  <2>1. 0 \in J /\ J \in SUBSET (0 .. MaxBits)
    <3>1. MaxBits - 0 = MaxBits /\ P(MaxBits) \in Nat /\ 0 \in 0 .. MaxBits
      BY <1>1, <1>2
    <3> QED
      BY <3>1
  <2>2. \A i \in 1 .. MaxBits : i - 1 \in J => i \in J
    <3> TAKE i \in 1 .. MaxBits
    <3> HAVE i - 1 \in J
    <3> DEFINE k == MaxBits - (i - 1)
    <3>1. /\ k \in 1 .. MaxBits /\ k \in 0 .. MaxBits /\ k - 1 = MaxBits - i
          /\ k - 1 \in 0 .. MaxBits /\ i \in 0 .. MaxBits /\ MaxBits \in 0 .. MaxBits
      BY <1>1
    <3>2. P(k) <= P(MaxBits)
      OBVIOUS
    <3> HIDE DEF k
    <3>3. P(k) = 2 * P(k - 1) /\ P(k) \in Nat /\ P(k - 1) \in Nat /\ P(MaxBits) \in Nat
      BY <1>2, <3>1
    <3>4. P(k - 1) <= P(MaxBits)
      BY <3>2, <3>3
    <3> QED
      BY <3>1, <3>4
  <2> HIDE DEF J
  <2> QED
    BY <1>1, <2>1, <2>2, UpTo
<1>5. \A i \in 0 .. MaxBits : P(i) \in Nat \ {0}
  BY <1>3
<1>6. \A i \in 0 .. MaxBits : P(i) <= P(MaxBits)
  <2> TAKE i \in 0 .. MaxBits
  <2>1. MaxBits - i \in 0 .. MaxBits /\ MaxBits - (MaxBits - i) = i
    BY <1>1
  <2> QED
    BY <1>4, <2>1
<1> QED
  BY <1>5, <1>6 DEF P

\* Dividing a value of uintmax_t again and again leaves nothing: the digits
\* can be counted, and only 0 has none.
LEMMA DigitsCounted ==
  ASSUME NEW v \in Nat, v < Power(2, MaxBits), NEW base \in Nat, base >= 2
  PROVE  CountDigits(v, base) \in 0 .. MaxBits /\ (v # 0 => CountDigits(v, base) # 0)
<1> DEFINE g == [i \in 1 .. MaxBits |-> [x \in Nat |-> x \div base]]
           Run(f) == f = [i \in 0 .. MaxBits |-> IF i = 0 THEN v ELSE f[i - 1] \div base]
<1>1. MaxBits \in Nat \ {0}
  BY MaxBitsAssumption
<1>2. /\ g \in [1 .. MaxBits -> [Nat -> Nat]]
      /\ \A i \in 1 .. MaxBits : \A x \in Nat : g[i][x] = x \div base
  <2>1. \A x \in Nat : x \div base \in Nat
    OBVIOUS
  <2> QED
    BY <2>1
<1> HIDE DEF g
<1>3. \E f \in [0 .. MaxBits -> Nat] :
        f = [i \in 0 .. MaxBits |-> IF i = 0 THEN v ELSE g[i][f[i - 1]]]
  <2> DEFINE Loop(T, k, t, e) == \E f \in [0 .. k -> T] :
               f = [i \in 0 .. k |-> IF i = 0 THEN t ELSE e[i][f[i - 1]]]
  <2>1. \A T : \A k \in Nat : \A t \in T : \A e \in [1 .. k -> [T -> T]] : Loop(T, k, t, e)
    BY LoopExists
  <2> HIDE DEF Loop
  <2>2. Loop(Nat, MaxBits, v, g)
    BY <1>1, <1>2, <2>1
  <2> QED
    BY <2>2 DEF Loop
<1>4. PICK f \in [0 .. MaxBits -> Nat] :
        f = [i \in 0 .. MaxBits |-> IF i = 0 THEN v ELSE g[i][f[i - 1]]]
  BY <1>3
<1>5. \A i \in 0 .. MaxBits : i # 0 => i \in 1 .. MaxBits /\ i - 1 \in 0 .. MaxBits
  BY <1>1
<1>6. Run(f)
  <2>1. \A i \in 0 .. MaxBits : f[i] = IF i = 0 THEN v ELSE f[i - 1] \div base
    <3> TAKE i \in 0 .. MaxBits
    <3>1. f[i] = IF i = 0 THEN v ELSE g[i][f[i - 1]]
      BY <1>4
    <3>2. i # 0 => g[i][f[i - 1]] = f[i - 1] \div base
      <4> HAVE i # 0
      <4>1. i \in 1 .. MaxBits /\ f[i - 1] \in Nat
        BY <1>5
      <4> QED
        BY <1>2, <4>1
    <3> QED
      BY <3>1, <3>2
  <2> QED
    BY <2>1
<1> DEFINE h == CHOOSE r : Run(r)
<1>7. Run(h)
  <2> HIDE DEF Run
  <2> QED
    BY <1>6
<1>8. CountDigits(v, base) = CHOOSE k \in 0 .. MaxBits :
                               h[k] = 0 /\ \A j \in 0 .. k - 1 : h[j] # 0
  BY Zenon DEF CountDigits
<1> HIDE DEF h
<1>9. h[0] = v /\ \A i \in 1 .. MaxBits : h[i] = h[i - 1] \div base
  <2>1. \A i \in 0 .. MaxBits : h[i] = IF i = 0 THEN v ELSE h[i - 1] \div base
    BY <1>7
  <2>2. 0 \in 0 .. MaxBits /\ \A i \in 1 .. MaxBits : i \in 0 .. MaxBits /\ i # 0
    BY <1>1
  <2> QED
    BY <2>1, <2>2
<1> DEFINE P(i) == Power(2, i)
<1>10. P(0) = 1 /\ (\A i \in 0 .. MaxBits : P(i) \in Nat \ {0})
       /\ \A i \in 1 .. MaxBits : P(i) = 2 * P(i - 1)
  <2>1. 2 \in Nat
    OBVIOUS
  <2>2. P(0) = 1 /\ \A i \in 1 .. MaxBits : P(i) = 2 * P(i - 1)
    BY <2>1, PowerRuns
  <2> QED
    BY <2>2, PowersOfTwo
<1>11. v < P(MaxBits)
  OBVIOUS
<1> HIDE DEF P
<1>12. \A i \in 0 .. MaxBits : h[i] \in Nat /\ P(i) * h[i] <= v
  <2> DEFINE I == {i \in 0 .. MaxBits : h[i] \in Nat /\ P(i) * h[i] <= v}
  <2>1. 0 \in I /\ I \in SUBSET (0 .. MaxBits)
    <3>1. 0 \in 0 .. MaxBits /\ P(0) * h[0] = v
      BY <1>1, <1>9, <1>10
    <3> QED
      BY <1>9, <3>1
  <2>2. \A i \in 1 .. MaxBits : i - 1 \in I => i \in I
    <3> TAKE i \in 1 .. MaxBits
    <3> HAVE i - 1 \in I
    <3> DEFINE x == h[i - 1]
               y == h[i]
               a == P(i - 1)
               c == P(i)
    <3>1. y = x \div base /\ x \in Nat /\ a * x <= v /\ c = 2 * a /\ a \in Nat \ {0}
          /\ i \in 0 .. MaxBits
      <4>1. i \in 0 .. MaxBits /\ i - 1 \in 0 .. MaxBits
        BY <1>1
      <4> QED
        BY <1>9, <1>10, <4>1
    <3> HIDE DEF x, y, a, c
    <3>2. y \in Nat /\ 2 * y <= x
      <4>1. y \in Nat /\ base * y <= x
        BY <3>1
      <4>2. 2 * y <= base * y
        BY <4>1
      <4> QED
        BY <3>1, <4>1, <4>2
    <3>3. c * y = a * (2 * y)
      BY <3>1, <3>2
    <3>4. a * (2 * y) <= a * x
      BY <3>1, <3>2
    <3>5. c * y <= v
      BY <3>1, <3>2, <3>3, <3>4
    <3> QED
      BY <3>1, <3>2, <3>5 DEF y, c
  <2> HIDE DEF I
  <2>3. I = 0 .. MaxBits
    BY <1>1, <2>1, <2>2, UpTo
  <2> QED
    BY <2>3 DEF I
<1>13. h[MaxBits] = 0
  <2>1. MaxBits \in 0 .. MaxBits
    BY <1>1
  <2> DEFINE x == h[MaxBits]
             a == P(MaxBits)
  <2>2. x \in Nat /\ a \in Nat \ {0} /\ a * x <= v /\ v < a
    BY <1>10, <1>11, <1>12, <2>1
  <2> HIDE DEF x, a
  <2>3. x = 0
    <3> SUFFICES ASSUME x >= 1
                 PROVE  FALSE
      BY <2>2
    <3>1. a * x >= a
      BY <2>2
    <3> QED
      BY <2>2, <3>1
  <2> QED
    BY <2>3 DEF x
<1>14. \E k \in 0 .. MaxBits : h[k] = 0 /\ \A j \in 0 .. k - 1 : h[j] # 0
  <2> SUFFICES ASSUME \A k \in 0 .. MaxBits : h[k] = 0 => \E j \in 0 .. k - 1 : h[j] = 0
               PROVE  FALSE
    OBVIOUS
  <2> DEFINE I == {i \in 0 .. MaxBits : \A j \in 0 .. i : h[j] # 0}
  <2>1. 0 \in I /\ I \in SUBSET (0 .. MaxBits)
    <3>1. 0 \in 0 .. MaxBits /\ 0 .. 0 - 1 = {} /\ 0 .. 0 = {0}
      BY <1>1
    <3> QED
      BY <3>1
  <2>2. \A i \in 1 .. MaxBits : i - 1 \in I => i \in I
    <3> TAKE i \in 1 .. MaxBits
    <3> HAVE i - 1 \in I
    <3>1. i \in 0 .. MaxBits /\ \A j \in 0 .. i : j = i \/ j \in 0 .. i - 1
      BY <1>1
    <3>2. h[i] # 0
      BY <3>1
    <3> QED
      BY <3>1, <3>2
  <2> HIDE DEF I
  <2>3. I = 0 .. MaxBits
    BY <1>1, <2>1, <2>2, UpTo
  <2>4. MaxBits \in 0 .. MaxBits
    BY <1>1
  <2> QED
    BY <1>13, <2>3, <2>4 DEF I
<1>15. CountDigits(v, base) \in 0 .. MaxBits /\ h[CountDigits(v, base)] = 0
  BY <1>8, <1>14
<1> QED
  BY <1>9, <1>15

-----------------------------------------------------------------------------
(* What format_int is given and writes.                                    *)

\* A value of uintmax_t.
IsValue(v) == v \in Nat /\ v < Power(2, MaxBits)

\* Arguments are converted to such values.
LEMMA Converts ==
  ASSUME NEW x \in Int, NEW bits \in 1 .. MaxBits
  PROVE  IsValue(SignedVal(x, bits)) /\ IsValue(UnsignedVal(x, bits))
<1>1. MaxBits \in Nat \ {0} /\ bits \in 0 .. MaxBits /\ MaxBits \in 0 .. MaxBits
  BY MaxBitsAssumption
<1> DEFINE P == Power(2, MaxBits)
           b == Power(2, bits)
<1>2. P \in Nat \ {0} /\ b \in Nat \ {0} /\ b <= P
  BY <1>1, PowersOfTwo
<1> HIDE DEF P, b
<1>3. x % b \in Nat /\ x % b < b
  BY <1>2
<1>4. IsValue(UnsignedVal(x, bits))
  <2>1. UnsignedVal(x, bits) = x % b
    BY DEF UnsignedVal, b
  <2> QED
    BY <1>2, <1>3, <2>1 DEF IsValue, P
<1>5. \A y \in Int : IsValue(UMax(y))
  <2> TAKE y \in Int
  <2>1. UMax(y) = y % P
    BY DEF UMax, P
  <2>2. y % P \in Nat /\ y % P < P
    BY <1>2
  <2> QED
    BY <2>1, <2>2 DEF IsValue, P
<1>6. IsValue(SignedVal(x, bits))
  <2> DEFINE u == x % b
             y == IF u >= Power(2, bits - 1) THEN u - b ELSE u
  <2>1. SignedVal(x, bits) = UMax(y)
    BY DEF SignedVal, b
  <2>2. y \in Int
    BY <1>2, <1>3
  <2> HIDE DEF y
  <2> QED
    BY <1>5, <2>1, <2>2
<1> QED
  BY <1>4, <1>6

\* The value without its sign is one, too.
LEMMA MagnitudeValue ==
  ASSUME NEW val, IsValue(val), NEW signed
  PROVE  IsValue(Magnitude(val, signed))
<1> DEFINE P == Power(2, MaxBits)
<1>1. P \in Nat \ {0}
  <2>1. MaxBits \in 0 .. MaxBits
    BY MaxBitsAssumption
  <2> QED
    BY <2>1, PowersOfTwo
<1>2. UMax(-val) = (-val) % P
  BY DEF UMax
<1> HIDE DEF P
<1>3. (-val) % P \in Nat /\ (-val) % P < P
  BY <1>1 DEF IsValue
<1> QED
  BY <1>2, <1>3 DEF Magnitude, IsValue, P

\* At least one digit is written.
LEMMA SomeDigits ==
  ASSUME NEW v, IsValue(v), NEW fl, NEW base \in {8, 10, 16}, NEW pr \in Int
  PROVE  ndigits(v, fl, base, pr) \in Nat \ {0}
<1> DEFINE k == CountDigits(v, base)
           m == IF "#" \in fl /\ base = 8 /\ pr < k + 1 THEN k + 1 ELSE pr
<1>1. k \in Nat /\ (v # 0 => k # 0)
  <2>1. v \in Nat /\ v < Power(2, MaxBits) /\ base \in Nat /\ base >= 2
    BY DEF IsValue
  <2> QED
    BY <2>1, DigitsCounted, MaxBitsAssumption
<1>2. m \in Int
  BY <1>1
<1>3. ndigits(v, fl, base, pr) = IF k < m THEN m ELSE IF v = 0 THEN 1 ELSE k
  BY DEF ndigits
<1> HIDE DEF k, m
<1> QED
  BY <1>1, <1>2, <1>3

\* A text is a sequence, whatever its characters.
IsText(t) == \E S : t \in Seq(S)

\* Texts have lengths, which add up.
LEMMA TextLength ==
  ASSUME NEW s, IsText(s)
  PROVE  Len(s) \in Nat
  BY DEF IsText

LEMMA TextConcat ==
  ASSUME NEW s, NEW t, IsText(s), IsText(t)
  PROVE  IsText(s \o t) /\ Len(s \o t) = Len(s) + Len(t)
<1>1. PICK S : s \in Seq(S)
  BY DEF IsText
<1>2. PICK T : t \in Seq(T)
  BY DEF IsText
<1> DEFINE U == S \cup T
<1>3. s \in Seq(U) /\ t \in Seq(U)
  BY <1>1, <1>2
<1> HIDE DEF U
<1>4. s \o t \in Seq(U) /\ Len(s \o t) = Len(s) + Len(t)
  BY <1>3
<1> QED
  BY <1>4 DEF IsText

\* A function of the first k numbers is a text of length k.
LEMMA TextFunction ==
  ASSUME NEW k \in Nat, NEW f, f = [i \in 1 .. k |-> f[i]]
  PROVE  IsText(f) /\ Len(f) = k
<1> DEFINE S == {f[i] : i \in 1 .. k}
<1>1. \A i \in 1 .. k : f[i] \in S
  OBVIOUS
<1> HIDE DEF S
<1>2. f \in [1 .. k -> S]
  BY <1>1
<1>3. f \in Seq(S)
  BY <1>2, SeqDef
<1>4. DOMAIN f = 1 .. k /\ DOMAIN f = 1 .. Len(f) /\ Len(f) \in Nat
  BY <1>2, <1>3
<1>5. Len(f) = k
  BY <1>4
<1> QED
  BY <1>3, <1>5 DEF IsText

\* What is written are texts.
LEMMA TimesText ==
  ASSUME NEW c, NEW k \in Nat
  PROVE  IsText(Times(c, k)) /\ Len(Times(c, k)) = k
<1> DEFINE f == Times(c, k)
<1>1. f = [i \in 1 .. k |-> f[i]]
  BY DEF Times
<1> HIDE DEF f
<1>2. IsText(f) /\ Len(f) = k
  BY <1>1, TextFunction
<1> QED
  BY <1>2 DEF f

\* The text of no character, and of one.
LEMMA ShortText ==
  /\ IsText(<<>>)
  /\ \A c : IsText(<<c>>)
  /\ \A c, d : IsText(<<c, d>>)
<1>1. <<>> \in Seq({})
  OBVIOUS
<1>2. \A c : <<c>> \in Seq({c})
  OBVIOUS
<1>3. \A c, d : <<c, d>> \in Seq({c, d})
  OBVIOUS
<1> QED
  BY <1>1, <1>2, <1>3 DEF IsText

\* The sign and the prefix.
LEMMA NondigitsText ==
  ASSUME NEW minus \in BOOLEAN, NEW fl, NEW upper, NEW base
  PROVE  IsText(Nondigits(minus, fl, upper, base))
<1> DEFINE s == CASE minus -> <<"-">>
                  [] ~minus /\ "+" \in fl -> <<"+">>
                  [] ~minus /\ "+" \notin fl /\ " " \in fl -> <<" ">>
                  [] OTHER -> <<>>
           t == IF "#" \in fl /\ base = 16 THEN <<"0", IF upper THEN "X" ELSE "x">> ELSE <<>>
<1>1. IsText(s)
  <2>1. s = <<"-">> \/ s = <<"+">> \/ s = <<" ">> \/ s = <<>>
    OBVIOUS
  <2> HIDE DEF s
  <2> QED
    BY <2>1, ShortText
<1>2. IsText(t)
  <2>1. IsText(<<"0", IF upper THEN "X" ELSE "x">>) /\ IsText(<<>>)
    BY ShortText
  <2> QED
    BY <2>1
<1>3. Nondigits(minus, fl, upper, base) = s \o t
  BY DEF Nondigits
<1> HIDE DEF s, t
<1> QED
  BY <1>1, <1>2, <1>3, TextConcat

\* The digits with their tick marks.
LEMMA NumberIsText ==
  ASSUME NEW v, NEW upper, NEW base, NEW nd \in Nat \ {0}, NEW skip \in Nat \ {0}
  PROVE  IsText(NumberText(v, upper, base, nd, skip))
<1> DEFINE total == nd + (nd - 1) \div skip
           f == NumberText(v, upper, base, nd, skip)
<1>1. total \in Nat
  <2>1. nd - 1 \in Nat
    OBVIOUS
  <2>2. \A x \in Nat : x \div skip \in Nat
    OBVIOUS
  <2>3. (nd - 1) \div skip \in Nat
    BY <2>1, <2>2
  <2> QED
    BY <2>3
<1>2. f = [i \in 1 .. total |-> f[i]]
  BY DEF NumberText
<1> HIDE DEF f, total
<1>3. IsText(f)
  BY <1>1, <1>2, TextFunction
<1> QED
  BY <1>3 DEF f

-----------------------------------------------------------------------------
(* Writing inside the buffer.                                              *)

\* Writing began at cell a of a buffer with contents b; size cells may be
\* used.  As long as there is room the pointer and the count agree, and no
\* cell has changed but those.
Inside(s, b, a, size) ==
  /\ s.q \in Nat /\ s.o \in Nat
  /\ DOMAIN s.buffer = DOMAIN b
  /\ s.o < size => s.q = a + s.o
  /\ \A x \in DOMAIN b : s.buffer[x] # b[x] => 0 < size /\ x < a + size

LEMMA EmitInside ==
  ASSUME NEW a \in Nat, NEW size \in Nat, NEW b, DOMAIN b \subseteq Int,
         NEW s, Inside(s, b, a, size), NEW text, IsText(text)
  PROVE  Inside(EMIT(s, text, size), b, a, size)
<1> DEFINE l == Len(text)
           k == Smaller(l, Room(s, size))
           r == EMIT(s, text, size)
<1>1. l \in Nat
  BY TextLength
<1>2. s.q \in Nat /\ s.o \in Nat /\ DOMAIN s.buffer = DOMAIN b
  BY DEF Inside
<1>3. /\ k \in Nat /\ k <= l
      /\ s.o < size => k <= size - s.o /\ (s.o + l < size => k = l)
      /\ ~(s.o < size) => k = 0
  BY <1>1, <1>2 DEF Smaller, Room
<1>4. /\ r.buffer = [x \in DOMAIN s.buffer |->
                       IF x \in s.q .. s.q + k - 1 THEN text[x - s.q + 1] ELSE s.buffer[x]]
      /\ r.q = s.q + k /\ r.o = s.o + l
  BY DEF EMIT
<1> HIDE DEF r, k, l
<1>5. r.q \in Nat /\ r.o \in Nat /\ DOMAIN r.buffer = DOMAIN b
  BY <1>1, <1>2, <1>3, <1>4
<1>6. r.o < size => r.q = a + r.o
  <2> HAVE r.o < size
  <2>1. s.o < size /\ s.o + l < size
    BY <1>1, <1>2, <1>4
  <2>2. s.q = a + s.o /\ k = l
    BY <1>3, <2>1 DEF Inside
  <2> QED
    BY <1>1, <1>2, <1>4, <2>2
<1>7. ASSUME NEW x \in DOMAIN b, r.buffer[x] # b[x]
      PROVE  0 < size /\ x < a + size
  <2>1. CASE x \in s.q .. s.q + k - 1
    <3>1. x \in Int /\ s.q <= x /\ x <= s.q + k - 1 /\ k # 0
      BY <1>2, <1>3, <2>1
    <3>2. s.o < size /\ s.q = a + s.o /\ k <= size - s.o
      BY <1>3, <3>1 DEF Inside
    <3> QED
      BY <1>2, <1>3, <3>1, <3>2
  <2>2. CASE x \notin s.q .. s.q + k - 1
    <3>1. r.buffer[x] = s.buffer[x]
      BY <1>2, <1>4, <2>2
    <3> QED
      BY <1>7, <3>1 DEF Inside
  <2> QED
    BY <2>1, <2>2
<1>8. Inside(r, b, a, size)
  BY <1>5, <1>6, <1>7 DEF Inside
<1> QED
  BY <1>8 DEF r

\* So does the number, although it is written from right to left after q and
\* o were advanced over it.
LEMMA NumberInside ==
  ASSUME NEW a \in Nat, NEW size \in Nat, NEW b, DOMAIN b \subseteq Int,
         NEW s, Inside(s, b, a, size), NEW text, IsText(text)
  PROVE  Inside(PutNumber(s, text, size), b, a, size)
<1> DEFINE l == Len(text)
           r == PutNumber(s, text, size)
<1>1. l \in Nat
  BY TextLength
<1>2. s.q \in Nat /\ s.o \in Nat /\ DOMAIN s.buffer = DOMAIN b
  BY DEF Inside
<1>3. /\ r.buffer = [x \in DOMAIN s.buffer |->
                       IF x \in s.q .. s.q + l - 1 /\ s.o + (x - s.q) < size
                       THEN text[x - s.q + 1] ELSE s.buffer[x]]
      /\ r.q = s.q + l /\ r.o = s.o + l
  BY DEF PutNumber
<1> HIDE DEF r, l
<1>4. r.q \in Nat /\ r.o \in Nat /\ DOMAIN r.buffer = DOMAIN b
  BY <1>1, <1>2, <1>3
<1>5. r.o < size => r.q = a + r.o
  <2> HAVE r.o < size
  <2>1. s.o < size
    BY <1>1, <1>2, <1>3
  <2>2. s.q = a + s.o
    BY <2>1 DEF Inside
  <2> QED
    BY <1>1, <1>2, <1>3, <2>2
<1>6. ASSUME NEW x \in DOMAIN b, r.buffer[x] # b[x]
      PROVE  0 < size /\ x < a + size
  <2>1. CASE x \in s.q .. s.q + l - 1 /\ s.o + (x - s.q) < size
    <3>1. x \in Int /\ s.q <= x /\ s.o < size
      BY <1>1, <1>2, <2>1
    <3>2. s.q = a + s.o
      BY <3>1 DEF Inside
    <3> QED
      BY <1>2, <2>1, <3>1, <3>2
  <2>2. CASE ~(x \in s.q .. s.q + l - 1 /\ s.o + (x - s.q) < size)
    <3>1. r.buffer[x] = s.buffer[x]
      BY <1>2, <1>3, <2>2
    <3> QED
      BY <1>6, <3>1 DEF Inside
  <2> QED
    BY <2>1, <2>2
<1>7. Inside(r, b, a, size)
  BY <1>4, <1>5, <1>6 DEF Inside
<1> QED
  BY <1>7 DEF r

\* format_int writes inside the room it is given.
LEMMA FormatInside ==
  ASSUME NEW b, DOMAIN b \subseteq Int, NEW a \in Nat, NEW size \in Nat,
         NEW val, IsValue(val), NEW fl, NEW signed \in BOOLEAN, NEW upper,
         NEW base \in {8, 10, 16}, NEW wd \in Nat, NEW pr \in Int
  PROVE  Inside(format_int(b, a, size, val, fl, signed, upper, base, wd, pr), b, a, size)
<1> DEFINE v    == Magnitude(val, signed)
           nd   == ndigits(v, fl, base, pr)
           skip == IF "'" \in fl THEN (IF base = 16 THEN 4 ELSE 3) ELSE nd
           num  == NumberText(v, upper, base, nd, skip)
           pre  == Nondigits(IsMinus(val, signed), fl, upper, base)
           fill == IF wd > Len(num) + Len(pre) THEN wd - Len(num) - Len(pre) ELSE 0
           early == IF fl \cap {"-", "0"} = {} THEN Times(" ", fill) ELSE <<>>
           zeros == IF fl \cap {"-", "0"} = {"0"} THEN Times("0", fill) ELSE <<>>
           late  == IF "-" \in fl THEN Times(" ", fill) ELSE <<>>
           s0 == [buffer |-> b, q |-> a, o |-> 0]
           s1 == EMIT(s0, early \o pre \o zeros, size)
           s2 == PutNumber(s1, num, size)
<1>1. format_int(b, a, size, val, fl, signed, upper, base, wd, pr) = EMIT(s2, late, size)
  BY DEF format_int
<1>2. IsValue(v)
  BY MagnitudeValue
<1> HIDE DEF v
<1>3. nd \in Nat \ {0}
  BY <1>2, SomeDigits
<1> HIDE DEF nd
<1>4. skip \in Nat \ {0}
  BY <1>3
<1> HIDE DEF skip
<1>5. IsText(num)
  BY <1>3, <1>4, NumberIsText
<1>6. IsText(pre)
  <2> DEFINE minus == IsMinus(val, signed)
  <2>1. minus \in BOOLEAN
    BY Zenon DEF IsMinus
  <2>2. pre = Nondigits(minus, fl, upper, base)
    OBVIOUS
  <2> HIDE DEF minus, pre
  <2> QED
    BY <2>1, <2>2, NondigitsText
<1> HIDE DEF num, pre
<1>7. fill \in Nat
  <2>1. Len(num) \in Nat /\ Len(pre) \in Nat
    BY <1>5, <1>6, TextLength
  <2> QED
    BY <2>1
<1> HIDE DEF fill
<1>8. IsText(early) /\ IsText(zeros) /\ IsText(late)
  <2>1. IsText(Times(" ", fill)) /\ IsText(Times("0", fill)) /\ IsText(<<>>)
    BY <1>7, TimesText, ShortText
  <2> QED
    BY <2>1
<1> HIDE DEF early, zeros, late
<1>9. IsText(early \o pre \o zeros)
  <2>1. IsText(early \o pre)
    BY <1>6, <1>8, TextConcat
  <2> QED
    BY <1>8, <2>1, TextConcat
<1>10. Inside(s0, b, a, size)
  <2>1. s0.buffer = b /\ s0.q = a /\ s0.o = 0
    OBVIOUS
  <2> HIDE DEF s0
  <2> QED
    BY <2>1 DEF Inside
<1> HIDE DEF s0
<1>11. Inside(s1, b, a, size)
  BY <1>9, <1>10, EmitInside
<1> HIDE DEF s1
<1>12. Inside(s2, b, a, size)
  BY <1>5, <1>11, NumberInside
<1> HIDE DEF s2
<1>13. Inside(EMIT(s2, late, size), b, a, size)
  BY <1>8, <1>12, EmitInside
<1> QED
  BY <1>1, <1>13

-----------------------------------------------------------------------------
(* The machine.                                                            *)

\* Strings of sequences that are put together.
LEMMA FlattenType ==
  ASSUME NEW S, NEW ss \in Seq(Seq(S))
  PROVE  FlattenSeq(ss) \in Seq(S)
<1> DEFINE k == Len(ss)
<1>1. k \in Nat /\ \A i \in 1 .. k : ss[i] \in Seq(S)
  OBVIOUS
<1>2. CASE k = 0
  BY <1>2 DEF FlattenSeq
<1>3. CASE k # 0
  <2> DEFINE m == k - 1
             T == Seq(S)
             s0 == ss[1]
             g == [i \in 1 .. m |-> [s \in T |-> s \o ss[i + 1]]]
             Run(f) == f = [i \in 1 .. k |-> IF i = 1 THEN ss[i] ELSE f[i - 1] \o ss[i]]
  <2>1. m \in Nat /\ s0 \in T
    BY <1>1, <1>3
  <2>2. \A i \in 1 .. m : i + 1 \in 1 .. k /\ ss[i + 1] \in T
    BY <1>1, <1>3
  <2>3. /\ g \in [1 .. m -> [T -> T]]
        /\ \A i \in 1 .. m : \A s \in T : g[i][s] = s \o ss[i + 1]
    BY <2>2, SMTT(40)
  <2> HIDE DEF g, m, s0
  <2>4. \E r \in [0 .. m -> T] : r = [i \in 0 .. m |-> IF i = 0 THEN s0 ELSE g[i][r[i - 1]]]
    <3> DEFINE Loop(U, l, t, e) == \E f \in [0 .. l -> U] :
                 f = [i \in 0 .. l |-> IF i = 0 THEN t ELSE e[i][f[i - 1]]]
    <3>1. \A U : \A l \in Nat : \A t \in U : \A e \in [1 .. l -> [U -> U]] : Loop(U, l, t, e)
      BY LoopExists
    <3> HIDE DEF Loop
    <3>2. Loop(T, m, s0, g)
      BY <2>1, <2>3, <3>1
    <3> QED
      BY <3>2 DEF Loop
  <2>5. PICK r \in [0 .. m -> T] : r = [i \in 0 .. m |-> IF i = 0 THEN s0 ELSE g[i][r[i - 1]]]
    BY <2>4
  <2> DEFINE f1 == [i \in 1 .. k |-> r[i - 1]]
  <2>6. \A i \in 1 .. k : i - 1 \in 0 .. m /\ (i # 1 => i - 1 \in 1 .. m /\ i - 1 \in 1 .. k
                                                       /\ (i - 1) + 1 = i)
    BY <1>1, <1>3 DEF m
  <2>7. Run(f1)
    <3>1. \A i \in 1 .. k : f1[i] = IF i = 1 THEN ss[i] ELSE f1[i - 1] \o ss[i]
      <4> TAKE i \in 1 .. k
      <4>1. f1[i] = r[i - 1]
        OBVIOUS
      <4>2. CASE i = 1
        <5>1. r[0] = s0
          BY <2>1, <2>5
        <5> QED
          BY <4>1, <4>2, <5>1 DEF s0
      <4>3. CASE i # 1
        <5> DEFINE j == i - 1
        <5>1. j \in 0 .. m /\ j # 0 /\ j \in 1 .. m /\ j \in 1 .. k /\ j + 1 = i
          BY <2>6, <4>3
        <5>2. j - 1 \in 0 .. m
          BY <2>1, <5>1
        <5>3. r[j] = g[j][r[j - 1]] /\ r[j - 1] \in T
          BY <2>5, <5>1, <5>2
        <5>4. r[j] = r[j - 1] \o ss[i]
          BY <2>3, <5>1, <5>3
        <5>5. f1[j] = r[j - 1]
          BY <5>1
        <5> QED
          BY <4>1, <4>3, <5>4, <5>5
      <4> QED
        BY <4>2, <4>3
    <3> HIDE DEF f1
    <3>2. f1 = [i \in 1 .. k |-> f1[i]]
      BY DEF f1
    <3> QED
      BY <3>1, <3>2
  <2> DEFINE h == CHOOSE f : Run(f)
  <2>8. Run(h)
    <3> HIDE DEF Run, f1
    <3> QED
      BY <2>7
  <2>9. FlattenSeq(ss) = h[k]
    BY <1>3, Zenon DEF FlattenSeq
  <2> HIDE DEF h
  <2>10. \A i \in 1 .. k : h[i] = IF i = 1 THEN ss[i] ELSE h[i - 1] \o ss[i]
    BY <2>8
  <2> DEFINE I == {i \in 0 .. m : h[i + 1] \in T}
  <2>11. 0 \in I /\ I \in SUBSET (0 .. m)
    <3>1. 1 \in 1 .. k /\ 0 \in 0 .. m
      BY <1>1, <1>3, <2>1
    <3>2. h[0 + 1] = ss[1]
      BY <2>10, <3>1
    <3> QED
      BY <1>1, <3>1, <3>2
  <2>12. \A i \in 1 .. m : i - 1 \in I => i \in I
    <3> TAKE i \in 1 .. m
    <3> HAVE i - 1 \in I
    <3>1. i \in 0 .. m /\ i + 1 \in 1 .. k /\ i + 1 # 1 /\ (i + 1) - 1 = i /\ (i - 1) + 1 = i
      BY <2>1, <2>2
    <3>2. h[i + 1] = h[i] \o ss[i + 1] /\ h[i] \in T /\ ss[i + 1] \in T
      BY <2>2, <2>10, <3>1
    <3>3. h[i + 1] \in T
      BY <3>2
    <3> QED
      BY <3>1, <3>3
  <2> HIDE DEF I
  <2>13. I = 0 .. m
    BY <2>1, <2>11, <2>12, UpTo
  <2>14. m \in 0 .. m /\ m + 1 = k
    BY <1>1, <2>1 DEF m
  <2> QED
    BY <2>9, <2>13, <2>14 DEF I
<1> QED
  BY <1>2, <1>3

\* What is written and the cells before the call.
Cells == [buffer |-> buffer, q |-> q, o |-> o]
Fresh == [x \in 0 .. n + Slack |-> Blank]

\* The inductive invariant: while there is room pointer and count agree, and
\* only the n cells of the buffer have changed.
FormatInv ==
  /\ FTypeOK
  /\ format \in Seq(Characters) /\ args \in Seq(Arguments)
  /\ Inside(Cells, Fresh, 0, n)

\* What is assumed of formats and arguments.
LEMMA PrintfConstants ==
  /\ Sizes \subseteq Nat /\ Slack \in Nat /\ MaxBits \in Nat \ {0}
  /\ PointerBits \in 1 .. MaxBits /\ RankBits \in [-2 .. 2 -> 1 .. MaxBits]
  /\ \A a \in Arguments : a.int \in Int /\ a.str \in Seq(Characters)
  /\ \A d \in Directives : CharsOf(d) \in Seq(Characters) /\ d.args \in Seq(Arguments)
  /\ Formats \subseteq Seq(Directives)
<1>1. ASSUME NEW d \in Directives
      PROVE  CharsOf(d) \in Seq(Characters) /\ d.args \in Seq(Arguments)
  <2>1. /\ d.flags \in Seq(Characters) /\ d.width \in Seq(Characters) /\ d.prec \in Seq(Characters)
        /\ d.mods \in Seq(Characters) /\ d.conv \in Characters /\ d.args \in Seq(Arguments)
    BY PrintfAssumption
  <2>2. "%" \in Characters
    BY PrintfAssumption
  <2> DEFINE S == Characters
             per == "%"
             cv == d.conv
             fl == d.flags
             wd == d.width
             pr == d.prec
             md == d.mods
  <2>3. per \in S /\ cv \in S /\ fl \in Seq(S) /\ wd \in Seq(S) /\ pr \in Seq(S) /\ md \in Seq(S)
    BY <2>1, <2>2
  <2>4. CharsOf(d) = IF cv = "" THEN fl ELSE <<per>> \o fl \o wd \o pr \o md \o <<cv>>
    BY DEF CharsOf
  <2> HIDE DEF S, per, cv, fl, wd, pr, md
  <2>5. <<per>> \o fl \o wd \o pr \o md \o <<cv>> \in Seq(S)
    <3>1. <<per>> \in Seq(S) /\ <<cv>> \in Seq(S)
      BY <2>3
    <3>2. \A s, t \in Seq(S) : s \o t \in Seq(S)
      OBVIOUS
    <3> QED
      BY <2>3, <3>1, <3>2
  <2>6. CharsOf(d) \in Seq(S)
    BY <2>3, <2>4, <2>5
  <2> QED
    BY <2>1, <2>6 DEF S
<1> QED
  BY <1>1, PrintfAssumption, MaxBitsAssumption

\* A digit has a value.
LEMMA DigitValue ==
  ASSUME NEW c, IsDigit(c)
  PROVE  digitval(c) \in Nat
<1> DEFINE d == {i \in 1 .. 16 : lcdigits[i] = c \/ ucdigits[i] = c}
<1>1. d # {} /\ d \subseteq 1 .. 16
  BY DEF IsDigit, DigitsOf
<1>2. digitval(c) = IF d = {} THEN -1 ELSE (CHOOSE i \in d : TRUE) - 1
  BY DEF digitval
<1> HIDE DEF d
<1> DEFINE k == CHOOSE i \in d : TRUE
<1>3. k \in 1 .. 16
  BY <1>1
<1>4. digitval(c) = k - 1
  BY <1>1, <1>2
<1> HIDE DEF k
<1> QED
  BY <1>3, <1>4

\* It holds when vsnprintf begins.
LEMMA FormatInvInit == FInit => FormatInv
<1> SUFFICES ASSUME FInit
             PROVE  FormatInv
  OBVIOUS
<1>1. fmt \in Seq(Directives) /\ n \in Nat /\ Slack \in Nat
  BY PrintfConstants DEF FInit
<1>2. format \in Seq(Characters)
  <2> DEFINE ss == [i \in DOMAIN fmt |-> CharsOf(fmt[i])]
  <2>1. \A i \in 1 .. Len(fmt) : CharsOf(fmt[i]) \in Seq(Characters)
    BY <1>1, PrintfConstants, SMTT(40)
  <2>2. ss \in Seq(Seq(Characters))
    BY <1>1, <2>1
  <2> HIDE DEF ss
  <2>3. FlattenSeq(ss) \in Seq(Characters)
    BY <2>2, FlattenType
  <2> QED
    BY <2>3 DEF FInit, ss
<1>3. args \in Seq(Arguments)
  <2> DEFINE ss == [i \in DOMAIN fmt |-> fmt[i].args]
  <2>1. \A i \in 1 .. Len(fmt) : fmt[i].args \in Seq(Arguments)
    BY <1>1, PrintfConstants
  <2>2. ss \in Seq(Seq(Arguments))
    BY <1>1, <2>1
  <2> HIDE DEF ss
  <2>3. FlattenSeq(ss) \in Seq(Arguments)
    BY <2>2, FlattenType
  <2> QED
    BY <2>3 DEF FInit, ss
<1>4. FTypeOK
  <2>1. p \in 1 .. Len(format) + 1
    BY <1>2 DEF FInit
  <2> QED
    BY <1>1, <2>1 DEF FInit, FTypeOK
<1>5. Inside(Cells, Fresh, 0, n)
  BY <1>1 DEF FInit, Inside, Cells, Fresh
<1> QED
  BY <1>2, <1>3, <1>4, <1>5 DEF FormatInv

\* What va_arg gives has the types it is asked for.
LEMMA VaArg ==
  ASSUME args \in Seq(Arguments)
  PROVE  va_arg \subseteq Arguments /\ va_rest \in Seq(Arguments)
  BY DEF va_arg, va_rest

\* The part of the invariant about the reading of the format.
Parsing ==
  /\ fmt \in Formats /\ n \in Sizes /\ format \in Seq(Characters)
  /\ p \in 1 .. Len(format) + 1 /\ args \in Seq(Arguments)
  /\ state \in {"normal", "flags", "width", "prec", "modifiers", "done", "lost"}
  /\ flags \subseteq {"-", "+", "'", " ", "#", "0"}
  /\ width \in Nat /\ prec \in Int /\ rank \in Int

\* Its parts, one by one.
LEMMA ParsingParts ==
  ASSUME Parsing
  PROVE  /\ n \in Nat /\ Len(format) \in Nat
         /\ p \in Nat /\ p >= 1 /\ p <= Len(format) + 1
         /\ args \in Seq(Arguments)
         /\ width \in Nat /\ prec \in Int /\ rank \in Int
<1>1. n \in Nat
  BY PrintfConstants DEF Parsing
<1>2. format \in Seq(Characters) /\ p \in 1 .. Len(format) + 1
  BY DEF Parsing
<1>3. Len(format) \in Nat
  BY <1>2
<1>4. p \in Nat /\ p >= 1 /\ p <= Len(format) + 1
  BY <1>2, <1>3
<1>5. args \in Seq(Arguments) /\ width \in Nat /\ prec \in Int /\ rank \in Int
  BY DEF Parsing
<1> QED
  BY <1>1, <1>3, <1>4, <1>5

Writes == Inside(Cells, Fresh, 0, n)

LEMMA FormatInvParts == FormatInv <=> Parsing /\ Writes
<1>1. Writes => DOMAIN buffer = 0 .. n + Slack /\ q \in Nat /\ o \in Nat
  BY DEF Writes, Inside, Cells, Fresh
<1> QED
  BY <1>1 DEF FormatInv, FTypeOK, Parsing, Writes

\* A step that writes r writes inside the buffer.
LEMMA WritesNext ==
  ASSUME NEW r, Inside(r, Fresh, 0, n),
         buffer' = r.buffer, q' = r.q, o' = r.o, n' = n
  PROVE  Writes'
<1>1. Fresh' = Fresh
  BY DEF Fresh
<1>2. Cells' = [buffer |-> r.buffer, q |-> r.q, o |-> r.o]
  BY DEF Cells
<1> DEFINE c == [buffer |-> r.buffer, q |-> r.q, o |-> r.o]
<1>3. c.buffer = r.buffer /\ c.q = r.q /\ c.o = r.o
  OBVIOUS
<1> HIDE DEF c
<1>4. Inside(c, Fresh, 0, n)
  BY <1>3 DEF Inside
<1> QED
  BY <1>1, <1>2, <1>4 DEF Writes, c

\* A step that leaves the output alone.
LEMMA WritesSame ==
  ASSUME Writes, UNCHANGED <<n, out>>
  PROVE  Writes'
<1>1. n' = n /\ buffer' = buffer /\ q' = q /\ o' = o
  BY DEF out
<1>2. Cells.buffer = buffer /\ Cells.q = q /\ Cells.o = o
  BY DEF Cells
<1>3. Inside(Cells, Fresh, 0, n)
  BY DEF Writes
<1> QED
  BY <1>1, <1>2, <1>3, WritesNext

\* A step that emits a text.
LEMMA WritesEmit ==
  ASSUME Parsing, Writes, NEW t, IsText(t), n' = n,
         buffer' = EMIT(Cells, t, n).buffer, q' = EMIT(Cells, t, n).q, o' = EMIT(Cells, t, n).o
  PROVE  Writes'
<1> DEFINE z == 0
<1>1. z \in Nat /\ n \in Nat /\ Slack \in Nat
  BY PrintfConstants DEF Parsing
<1>2. DOMAIN Fresh \subseteq Int
  BY <1>1 DEF Fresh
<1>3. Inside(Cells, Fresh, z, n)
  BY DEF Writes
<1> HIDE DEF z
<1>4. Inside(EMIT(Cells, t, n), Fresh, z, n)
  BY <1>1, <1>2, <1>3, EmitInside
<1>5. Inside(EMIT(Cells, t, n), Fresh, 0, n)
  BY <1>4 DEF z
<1> QED
  BY <1>5, WritesNext

\* A step that formats an integer.
LEMMA WritesInteger ==
  ASSUME Parsing, Writes, NEW r,
         Inside(r, buffer, q, IF o < n THEN n - o ELSE 0),
         n' = n, buffer' = r.buffer, q' = q + r.o, o' = o + r.o
  PROVE  Writes'
<1> DEFINE size == IF o < n THEN n - o ELSE 0
           s == [buffer |-> r.buffer, q |-> q + r.o, o |-> o + r.o]
<1>1. n \in Nat /\ Slack \in Nat
  BY PrintfConstants DEF Parsing
<1>2. /\ q \in Nat /\ o \in Nat /\ DOMAIN buffer = DOMAIN Fresh
      /\ o < n => q = 0 + o
      /\ \A x \in DOMAIN Fresh : buffer[x] # Fresh[x] => 0 < n /\ x < 0 + n
  <2>1. Cells.buffer = buffer /\ Cells.q = q /\ Cells.o = o
    BY DEF Cells
  <2> QED
    BY <2>1 DEF Writes, Inside
<1>3. /\ r.q \in Nat /\ r.o \in Nat /\ DOMAIN r.buffer = DOMAIN buffer
      /\ \A x \in DOMAIN buffer : r.buffer[x] # buffer[x] => 0 < size /\ x < q + size
  BY DEF Inside
<1>4. size \in Nat /\ (0 < size => o < n /\ size = n - o)
  BY <1>1, <1>2
<1> HIDE DEF size
<1>5. s.buffer = r.buffer /\ s.q = q + r.o /\ s.o = o + r.o
  OBVIOUS
<1> HIDE DEF s
<1>6. s.q \in Nat /\ s.o \in Nat /\ DOMAIN s.buffer = DOMAIN Fresh
  BY <1>2, <1>3, <1>5
<1>7. s.o < n => s.q = 0 + s.o
  BY <1>1, <1>2, <1>3, <1>5
<1>8. ASSUME NEW x \in DOMAIN Fresh, s.buffer[x] # Fresh[x]
      PROVE  0 < n /\ x < 0 + n
  <2>1. CASE r.buffer[x] = buffer[x]
    BY <1>2, <1>5, <1>8, <2>1
  <2>2. CASE r.buffer[x] # buffer[x]
    <3>1. 0 < size /\ x < q + size
      BY <1>2, <1>3, <2>2
    <3>2. o < n /\ size = n - o /\ q = 0 + o
      BY <1>2, <1>4, <3>1
    <3>3. x \in Int
      BY <1>1 DEF Fresh
    <3> QED
      BY <1>1, <1>2, <3>1, <3>2, <3>3
  <2> QED
    BY <2>1, <2>2
<1>9. Inside(s, Fresh, 0, n)
  BY <1>6, <1>7, <1>8 DEF Inside
<1> QED
  BY <1>5, <1>9, WritesNext

\* Every step of vsnprintf keeps it.
LEMMA FormatInvNext == FormatInv /\ [FNext]_fvars => FormatInv'
<1> SUFFICES ASSUME Parsing, Writes, [FNext]_fvars
             PROVE  Parsing' /\ Writes'
  <2>1. FormatInv <=> Parsing /\ Writes
    BY FormatInvParts
  <2>2. FormatInv' <=> Parsing' /\ Writes'
    BY FormatInvParts, PTL
  <2> QED
    BY <2>1, <2>2
<1>0. /\ Len(format) \in Nat /\ p \in Nat /\ p >= 1 /\ p <= Len(format) + 1
      /\ \A k \in Nat : k <= Len(format) => k + 1 \in 1 .. Len(format) + 1
  <2>1. Len(format) \in Nat /\ p \in Nat /\ p >= 1 /\ p <= Len(format) + 1
    BY ParsingParts
  <2> DEFINE len == Len(format)
  <2> HIDE DEF len
  <2>2. len \in Nat => \A k \in Nat : k <= len => k + 1 \in 1 .. len + 1
    OBVIOUS
  <2> QED
    BY <2>1, <2>2 DEF len
<1>1. va_arg \subseteq Arguments /\ va_rest \in Seq(Arguments)
      /\ \A a \in va_arg : a.int \in Int /\ a.str \in Seq(Characters)
  <2>1. va_arg \subseteq Arguments /\ va_rest \in Seq(Arguments)
    BY VaArg DEF Parsing
  <2> QED
    BY <2>1, PrintfConstants
<1>2. CASE UNCHANGED fvars
  <2>1. UNCHANGED <<n, out>> /\ Parsing'
    BY <1>2 DEF fvars, spec, Parsing
  <2> QED
    BY <2>1, WritesSame
<1>3. CASE Normal
  <2>1. p + 1 \in 1 .. Len(format) + 1
    BY <1>0, <1>3 DEF Normal, Reading
  <2>2. CASE ch = "%"
    <3>1. UNCHANGED <<n, out>>
      BY <1>3, <2>2 DEF Normal
    <3>2. /\ state' = "flags" /\ flags' = {} /\ rank' = 0 /\ width' = 0 /\ prec' = -1
          /\ p' = p + 1 /\ UNCHANGED <<fmt, n, format, args>>
      BY <1>3, <2>2 DEF Normal
    <3>3. width' \in Nat /\ prec' \in Int /\ rank' \in Int
      BY <3>2
    <3>4. Parsing'
      BY <2>1, <3>2, <3>3 DEF Parsing
    <3> QED
      BY <3>1, <3>4, WritesSame
  <2>3. CASE ch # "%"
    <3>1. /\ buffer' = EMIT(Cells, <<ch>>, n).buffer /\ q' = EMIT(Cells, <<ch>>, n).q
          /\ o' = EMIT(Cells, <<ch>>, n).o /\ n' = n
      BY <1>3, <2>3 DEF Normal, Cells
    <3>2. IsText(<<ch>>)
      BY ShortText
    <3>3. Parsing'
      BY <1>3, <2>1, <2>3 DEF Normal, Parsing, spec
    <3> QED
      BY <3>1, <3>2, <3>3, WritesEmit
  <2> QED
    BY <2>2, <2>3
<1>4. CASE Flags
  <2>1. UNCHANGED <<n, out>>
    BY <1>4 DEF Flags
  <2>2. p + 1 \in 1 .. Len(format) + 1
    BY <1>0, <1>4 DEF Flags, Reading
  <2>3. Parsing'
    BY <1>4, <2>2 DEF Flags, Parsing
  <2> QED
    BY <2>1, <2>3, WritesSame
<1>5. CASE Width
  <2>1. UNCHANGED <<n, out>>
    BY <1>5 DEF Width
  <2>2. p + 1 \in 1 .. Len(format) + 1
    BY <1>0, <1>5 DEF Width, Reading
  <2>3. IsDigit(ch) => width * 10 + digitval(ch) \in Nat
    <3> HAVE IsDigit(ch)
    <3>1. digitval(ch) \in Nat
      BY DigitValue
    <3>2. width \in Nat
      BY ParsingParts
    <3> QED
      BY <3>1, <3>2
  <2>4. ASSUME NEW a \in va_arg, Star(a.int)
        PROVE  width' \in Nat /\ flags' \subseteq {"-", "+", "'", " ", "#", "0"}
    <3>1. a.int \in Int
      BY <1>1
    <3>2. width' = IF a.int < 0 THEN -a.int ELSE a.int
      BY <2>4 DEF Star
    <3>3. width' \in Nat
      BY <3>1, <3>2
    <3>4. flags' = flags \/ flags' = flags \cup {"-"}
      BY <2>4 DEF Star
    <3>5. flags \subseteq {"-", "+", "'", " ", "#", "0"}
      BY DEF Parsing
    <3> QED
      BY <3>3, <3>4, <3>5
  <2>5. /\ width' \in Nat /\ flags' \subseteq {"-", "+", "'", " ", "#", "0"}
        /\ args' \in Seq(Arguments) /\ prec' \in Int
        /\ p' \in 1 .. Len(format) + 1
        /\ state' \in {"normal", "flags", "width", "prec", "modifiers", "done", "lost"}
    <3>1. CASE IsDigit(ch) /\ width' = width * 10 + digitval(ch) /\ p' = p + 1
               /\ UNCHANGED <<state, flags, prec, args>>
      BY <2>2, <2>3, <3>1 DEF Parsing
    <3>2. CASE /\ \E a \in va_arg : Star(a.int)
               /\ args' = va_rest /\ p' = p + 1 /\ UNCHANGED <<state, prec>>
      BY <1>1, <2>2, <2>4, <3>2 DEF Parsing
    <3>3. CASE /\ prec' = 0 /\ state' = "prec" /\ p' = p + 1
               /\ UNCHANGED <<width, flags, args>>
      <4>1. prec' \in Int
        BY <3>3
      <4>2. /\ width' \in Nat /\ flags' \subseteq {"-", "+", "'", " ", "#", "0"}
            /\ args' \in Seq(Arguments)
        BY <3>3 DEF Parsing
      <4> QED
        BY <2>2, <3>3, <4>1, <4>2
    <3>4. CASE state' = "modifiers" /\ UNCHANGED <<p, width, flags, prec, args>>
      BY <3>4 DEF Parsing
    <3> QED
      BY <1>5, <3>1, <3>2, <3>3, <3>4 DEF Width
  <2>6. UNCHANGED <<fmt, n, format, rank>>
    BY <1>5 DEF Width
  <2>7. Parsing'
    BY <2>5, <2>6 DEF Parsing
  <2> QED
    BY <2>1, <2>7, WritesSame
<1>6. CASE Prec
  <2>1. UNCHANGED <<n, out>>
    BY <1>6 DEF Prec
  <2>2. p + 1 \in 1 .. Len(format) + 1
    BY <1>0, <1>6 DEF Prec, Reading
  <2>3. CASE IsDigit(ch) /\ prec' = prec * 10 + digitval(ch) /\ p' = p + 1
             /\ UNCHANGED <<state, args>>
    <3>1. digitval(ch) \in Nat
      BY <2>3, DigitValue
    <3>2. prec \in Int
      BY ParsingParts
    <3>3. prec' \in Int
      BY <2>3, <3>1, <3>2
    <3>4. Parsing'
      BY <1>6, <2>2, <2>3, <3>3 DEF Prec, Parsing
    <3> QED
      BY <2>1, <3>4, WritesSame
  <2>4. CASE /\ \E a \in va_arg : prec' = IF a.int < 0 THEN -1 ELSE a.int
             /\ args' = va_rest /\ p' = p + 1 /\ UNCHANGED state
    <3>1. prec' \in Int
      BY <1>1, <2>4
    <3>2. Parsing'
      BY <1>1, <1>6, <2>2, <2>4, <3>1 DEF Prec, Parsing
    <3> QED
      BY <2>1, <3>2, WritesSame
  <2>5. CASE state' = "modifiers" /\ UNCHANGED <<p, prec, args>>
    <3>1. Parsing'
      BY <1>6, <2>5 DEF Prec, Parsing
    <3> QED
      BY <2>1, <3>1, WritesSame
  <2> QED
    BY <1>6, <2>3, <2>4, <2>5 DEF Prec
<1>7. CASE Modifiers
  <2>1. UNCHANGED <<n, out>>
    BY <1>7 DEF Modifiers
  <2>2. p + 1 \in 1 .. Len(format) + 1
    BY <1>0, <1>7 DEF Modifiers, Reading
  <2>3. rank' \in Int
    <3>1. ch \in LengthModifiers /\ rank' = Modified(rank, ch) /\ rank \in Int
      BY <1>7 DEF Modifiers, Parsing
    <3> QED
      BY <3>1 DEF LengthModifiers, Modified
  <2>4. Parsing'
    BY <1>7, <2>2, <2>3 DEF Modifiers, Parsing
  <2> QED
    BY <2>1, <2>4, WritesSame
<1>8. CASE Integer
  <2>1. p + 1 \in 1 .. Len(format) + 1
    BY <1>0, <1>8 DEF Integer, Reading
  <2>2. Parsing'
    BY <1>1, <1>8, <2>1 DEF Integer, Converted, Parsing, spec
  <2> DEFINE pointer == ch \in {"p", "P"}
             bits == IF pointer THEN PointerBits ELSE RankBits[Canonical(rank)]
             signed == ch \in {"d", "i"}
             Val(a) == IF signed THEN SignedVal(a.int, bits) ELSE UnsignedVal(a.int, bits)
             fl  == IF pointer THEN flags \cup {"#"} ELSE flags
             pr  == IF pointer THEN (PointerBits + 3) \div 4 ELSE prec
             size == IF o < n THEN n - o ELSE 0
             F(a) == format_int(buffer, q, size, Val(a), fl, signed,
                                ch \in {"X", "P"}, BaseOf(ch), width, pr)
  <2>3. PICK a \in va_arg : buffer' = F(a).buffer /\ q' = q + F(a).o /\ o' = o + F(a).o
    BY <1>8 DEF Integer
  <2>4. bits \in 1 .. MaxBits
    <3>1. rank \in Int
      BY ParsingParts
    <3>2. Canonical(rank) \in -2 .. 2
      BY <3>1 DEF Canonical
    <3> QED
      BY <3>2, PrintfConstants
  <2>5. IsValue(Val(a))
    <3>1. a.int \in Int
      BY <1>1
    <3> HIDE DEF bits, signed
    <3>2. IsValue(SignedVal(a.int, bits)) /\ IsValue(UnsignedVal(a.int, bits))
      BY <2>4, <3>1, Converts
    <3> QED
      BY <3>2
  <2>6. pr \in Int
    <3>1. (PointerBits + 3) \div 4 \in Nat
      <4>1. PointerBits + 3 \in Nat
        BY PrintfConstants
      <4>2. \A x \in Nat : x \div 4 \in Nat
        OBVIOUS
      <4> QED
        BY <4>1, <4>2
    <3>2. prec \in Int
      BY ParsingParts
    <3> QED
      BY <3>1, <3>2
  <2>7. BaseOf(ch) \in {8, 10, 16}
    <3>1. ch \in IntegerConversions
      BY <1>8 DEF Integer
    <3> QED
      BY <3>1 DEF IntegerConversions, BaseOf
  <2>8. n \in Nat /\ Slack \in Nat /\ q \in Nat /\ o \in Nat /\ DOMAIN buffer \subseteq Int
    <3>1. n \in Nat /\ Slack \in Nat
      BY PrintfConstants DEF Parsing
    <3>2. q \in Nat /\ o \in Nat /\ DOMAIN buffer = 0 .. n + Slack
      BY DEF Writes, Inside, Cells, Fresh
    <3> QED
      BY <3>1, <3>2
  <2>9. size \in Nat /\ signed \in BOOLEAN /\ width \in Nat
    <3>1. size \in Nat
      BY <2>8
    <3>2. width \in Nat
      BY ParsingParts
    <3>3. signed \in BOOLEAN
      BY DEF signed
    <3> QED
      BY <3>1, <3>2, <3>3
  <2>10. Inside(F(a), buffer, q, size)
    <3> DEFINE v == Val(a)
               b == BaseOf(ch)
               u == ch \in {"X", "P"}
    <3>1. F(a) = format_int(buffer, q, size, v, fl, signed, u, b, width, pr)
      OBVIOUS
    <3>2. IsValue(v) /\ b \in {8, 10, 16}
      BY <2>5, <2>7
    <3> HIDE DEF v, b, u, Val, size, fl, signed, pr, F
    <3>3. Inside(format_int(buffer, q, size, v, fl, signed, u, b, width, pr), buffer, q, size)
      BY <2>6, <2>8, <2>9, <3>2, FormatInside
    <3> QED
      BY <3>1, <3>3
  <2>11. n' = n
    BY <1>8 DEF Integer
  <2> DEFINE r == F(a)
  <2>12. Inside(r, buffer, q, IF o < n THEN n - o ELSE 0)
    BY <2>10
  <2>13. buffer' = r.buffer /\ q' = q + r.o /\ o' = o + r.o
    BY <2>3
  <2> HIDE DEF r, F
  <2> QED
    BY <2>2, <2>11, <2>12, <2>13, WritesInteger
<1>9. CASE String
  <2>1. p + 1 \in 1 .. Len(format) + 1
    BY <1>0, <1>9 DEF String, Reading
  <2>2. Parsing'
    BY <1>1, <1>9, <2>1, ZenonT(60) DEF String, Converted, Parsing, spec
  <2> DEFINE Sarg(a) == IF ch = "c" THEN <<a.chr>>
                        ELSE IF a.str = <<"NULL">> THEN NullText ELSE a.str
             Slen(s) == IF prec # -1 /\ Len(s) > prec THEN prec ELSE Len(s)
             Gap(l) == IF width > l THEN width - l ELSE 0
             Pad(k) == Times(IF "0" \in flags /\ "-" \notin flags THEN "0" ELSE " ", k)
             Body(s) == SubSeq(s, 1, Slen(s))
             T(s) == IF "-" \in flags THEN Body(s) \o Pad(Gap(Slen(s)))
                                      ELSE Pad(Gap(Slen(s))) \o Body(s)
  <2>3. PICK a \in va_arg : /\ buffer' = EMIT(Cells, T(Sarg(a)), n).buffer
                            /\ q' = EMIT(Cells, T(Sarg(a)), n).q
                            /\ o' = EMIT(Cells, T(Sarg(a)), n).o
    BY <1>9 DEF String, Cells
  <2> DEFINE s == Sarg(a)
             l == Slen(s)
             k == Gap(l)
  <2>4. \E S : s \in Seq(S)
    <3>1. a.str \in Seq(Characters) /\ <<a.chr>> \in Seq({a.chr})
      BY <1>1
    <3>2. NullText \in Seq({"(", "n", "u", "l", ")"})
      BY DEF NullText
    <3>3. s = <<a.chr>> \/ s = NullText \/ s = a.str
      OBVIOUS
    <3> HIDE DEF s
    <3> QED
      BY <3>1, <3>2, <3>3
  <2> HIDE DEF Sarg, s
  <2>5. PICK S : s \in Seq(S)
    BY <2>4
  <2>6. l \in 0 .. Len(s) /\ Len(s) \in Nat
    <3>1. prec \in Int /\ prec >= -1
      BY <1>9, ParsingParts DEF String
    <3>2. Len(s) \in Nat
      BY <2>5
    <3> QED
      BY <3>1, <3>2
  <2>7. IsText(Body(s))
    <3>1. SubSeq(s, 1, l) \in Seq(S)
      <4> HIDE DEF l
      <4> QED
        BY <2>5, <2>6
    <3> QED
      BY <3>1 DEF IsText
  <2>8. k \in Nat
    <3>1. l \in Nat /\ width \in Nat
      BY <2>6, ParsingParts
    <3> HIDE DEF l
    <3> QED
      BY <3>1
  <2>9. IsText(Pad(k))
    <3> HIDE DEF k
    <3> QED
      BY <2>8, TimesText
  <2>10. IsText(T(s))
    <3> DEFINE x == Body(s)
               y == Pad(k)
    <3>1. T(s) = x \o y \/ T(s) = y \o x
      OBVIOUS
    <3>2. IsText(x) /\ IsText(y)
      BY <2>7, <2>9
    <3> HIDE DEF x, y, T
    <3> QED
      BY <3>1, <3>2, TextConcat
  <2>11. n' = n
    BY <1>9 DEF String
  <2> DEFINE t == T(s)
  <2>12. /\ buffer' = EMIT(Cells, t, n).buffer /\ q' = EMIT(Cells, t, n).q
         /\ o' = EMIT(Cells, t, n).o
    BY <2>3 DEF s
  <2> HIDE DEF t, T
  <2>13. IsText(t)
    BY <2>10 DEF t
  <2> QED
    BY <2>2, <2>11, <2>12, <2>13, WritesEmit
<1>10. CASE Count
  <2>1. UNCHANGED <<n, out>>
    BY <1>10 DEF Count
  <2>2. p + 1 \in 1 .. Len(format) + 1
    BY <1>0, <1>10 DEF Count, Reading
  <2>3. Parsing'
    BY <1>1, <1>10, <2>2 DEF Count, Converted, Parsing, spec
  <2> QED
    BY <2>1, <2>3, WritesSame
<1>11. CASE Other
  <2>1. p + 1 \in 1 .. Len(format) + 1
    BY <1>0, <1>11 DEF Other, Reading
  <2>2. Parsing'
    BY <1>11, <2>1 DEF Other, Converted, Parsing, spec
  <2>3. /\ buffer' = EMIT(Cells, <<ch>>, n).buffer /\ q' = EMIT(Cells, <<ch>>, n).q
        /\ o' = EMIT(Cells, <<ch>>, n).o /\ n' = n
    BY <1>11 DEF Other, Cells
  <2>4. IsText(<<ch>>)
    BY ShortText
  <2> QED
    BY <2>2, <2>3, <2>4, WritesEmit
<1>12. CASE Terminate
  <2>1. Parsing'
    BY <1>12 DEF Terminate, Parsing, spec
  <2>2. n \in Nat /\ Slack \in Nat
    BY PrintfConstants DEF Parsing
  <2>3. /\ q \in Nat /\ o \in Nat /\ DOMAIN buffer = DOMAIN Fresh
        /\ o < n => q = 0 + o
        /\ \A x \in DOMAIN Fresh : buffer[x] # Fresh[x] => 0 < n /\ x < 0 + n
    <3>1. Cells.buffer = buffer /\ Cells.q = q /\ Cells.o = o
      BY DEF Cells
    <3> QED
      BY <3>1 DEF Writes, Inside
  <2> DEFINE r == [buffer |-> buffer', q |-> q, o |-> o]
  <2>4. /\ n' = n /\ q' = q /\ o' = o
        /\ buffer' = [x \in DOMAIN buffer |-> IF x \in EndOfText THEN NUL ELSE buffer[x]]
    BY <1>12 DEF Terminate
  <2>5. \A x \in EndOfText : 0 < n /\ x < 0 + n
    BY <2>2, <2>3 DEF EndOfText
  <2>6. /\ r.q = q /\ r.o = o /\ r.buffer = buffer'
    OBVIOUS
  <2>7. \A x \in DOMAIN Fresh : buffer'[x] # Fresh[x] => 0 < n /\ x < 0 + n
    BY <2>3, <2>4, <2>5
  <2>8. DOMAIN buffer' = DOMAIN Fresh
    BY <2>3, <2>4
  <2> HIDE DEF r
  <2>9. Inside(r, Fresh, 0, n)
    BY <2>3, <2>6, <2>7, <2>8 DEF Inside
  <2> QED
    BY <2>1, <2>4, <2>6, <2>9, WritesNext
<1>13. CASE Returned
  BY <1>2, <1>13 DEF Returned
<1>14. CASE Runaway
  <2>1. p + 1 \in 1 .. Len(format) + 1
    BY <1>0, <1>14 DEF Runaway, Reading
  <2>2. Parsing'
    BY <1>1, <1>14, <2>1 DEF Runaway, Parsing, spec
  <2> DEFINE t == Times("junk", n)
  <2>3. IsText(t)
    BY ParsingParts, TimesText
  <2>4. /\ buffer' = EMIT(Cells, t, n).buffer /\ q' = EMIT(Cells, t, n).q
        /\ o' = EMIT(Cells, t, n).o /\ n' = n
    BY <1>14 DEF Runaway, Cells
  <2> HIDE DEF t
  <2> QED
    BY <2>2, <2>3, <2>4, WritesEmit
<1> QED
  BY <1>2, <1>3, <1>4, <1>5, <1>6, <1>7, <1>8, <1>9, <1>10, <1>11, <1>12, <1>13, <1>14 DEF FNext

\* So it holds throughout.
THEOREM FormatInvCorrect == FSpec => []FormatInv
  BY FormatInvInit, FormatInvNext, PTL DEF FSpec

\* WithinBuffer: vsnprintf stores nothing behind the n cells it is given,
\* whatever the format, the arguments and the size.
THEOREM WithinBufferCorrect == FSpec => []WithinBuffer
<1>1. FormatInv => WithinBuffer
  <2> SUFFICES ASSUME FormatInv
               PROVE  \A x \in DOMAIN buffer : x >= n => buffer[x] = Blank
    BY DEF FormatInv, WithinBuffer
  <2> TAKE x \in DOMAIN buffer
  <2> HAVE x >= n
  <2>1. n \in Nat /\ Slack \in Nat /\ DOMAIN buffer = 0 .. n + Slack
    BY PrintfConstants DEF FormatInv, FTypeOK
  <2>2. x \in DOMAIN Fresh /\ Fresh[x] = Blank /\ x \in Int
    BY <2>1 DEF Fresh
  <2>3. buffer[x] # Fresh[x] => x < 0 + n
    BY <2>2 DEF FormatInv, Inside, Cells
  <2> QED
    BY <2>1, <2>2, <2>3
<1> QED
  BY <1>1, FormatInvCorrect, PTL

\* What vsnprintf has left in its buffer when it returns is a string: the NUL
\* is in the cell that the returned count says, or in the last one.
Terminated ==
  state = "done" /\ n > 0 => buffer[IF o < n THEN o ELSE n - 1] = NUL

\* The string in the buffer ends inside it, however much did not fit, and
\* sprintf and TtyPrintf may read it.
THEOREM TerminatedCorrect == FSpec => []Terminated
<1>1. FInit => Terminated
  BY DEF FInit, Terminated
<1>2. ASSUME FormatInv, Terminated, [FNext]_fvars
      PROVE  Terminated'
  <2>1. CASE Terminate
    <3>1. n \in Nat /\ Slack \in Nat /\ o \in Nat /\ q \in Nat /\ DOMAIN buffer = 0 .. n + Slack
      BY <1>2, PrintfConstants DEF FormatInv, FTypeOK
    <3>2. o < n => q = o
      <4>1. Cells.q = q /\ Cells.o = o
        BY DEF Cells
      <4>2. o < n => q = 0 + o
        BY <1>2, <4>1 DEF FormatInv, Inside
      <4> QED
        BY <3>1, <4>2
    <3>3. /\ n' = n /\ o' = o
          /\ buffer' = [x \in DOMAIN buffer |-> IF x \in EndOfText THEN NUL ELSE buffer[x]]
      BY <2>1 DEF Terminate
    <3> DEFINE last == IF o < n THEN o ELSE n - 1
    <3>4. n > 0 => last \in EndOfText /\ last \in DOMAIN buffer
      BY <3>1, <3>2 DEF EndOfText
    <3>5. n > 0 => buffer'[last] = NUL
      BY <3>3, <3>4
    <3> QED
      BY <3>3, <3>5 DEF Terminated
  <2>2. CASE Returned \/ UNCHANGED fvars
    <3>1. UNCHANGED <<state, n, o, buffer>>
      BY <2>2 DEF Returned, fvars, out
    <3> QED
      BY <1>2, <3>1 DEF Terminated
  <2>3. CASE \/ Normal \/ Flags \/ Width \/ Prec \/ Modifiers
             \/ Integer \/ String \/ Runaway \/ Count \/ Other
    <3>1. state' # "done"
      <4>1. CASE Normal
        BY <4>1 DEF Normal, Reading
      <4>2. CASE Flags \/ Width \/ Prec \/ Modifiers
        BY <4>2 DEF Flags, Width, Prec, Modifiers, Reading
      <4>3. CASE Runaway
        BY <4>3 DEF Runaway
      <4>4. CASE Integer \/ String \/ Count \/ Other
        <5>1. state' = "normal"
          BY <4>4, Zenon DEF Integer, String, Count, Other, Converted
        <5> QED
          BY <5>1
      <4> QED
        BY <2>3, <4>1, <4>2, <4>3, <4>4
    <3> QED
      BY <3>1 DEF Terminated
  <2> QED
    BY <1>2, <2>1, <2>2, <2>3 DEF FNext
<1> QED
  BY <1>1, <1>2, FormatInvCorrect, PTL DEF FSpec

\* Advances: every step of vsnprintf takes a character of the format or goes
\* to a later stage of the directive.
THEOREM AdvancesCorrect == FSpec => Advances
<1> DEFINE Forward == p' > p \/ (p' = p /\ Stage(state') > Stage(state))
<1>1. ASSUME FormatInv, [FNext]_fvars
      PROVE  [Forward]_fvars
  <2>1. Parsing
    BY <1>1, FormatInvParts
  <2>2. p + 1 > p
    <3>1. p \in Nat
      BY <2>1, ParsingParts
    <3> QED
      BY <3>1
  <2>3. CASE Normal \/ Modifiers
    BY <2>2, <2>3 DEF Normal, Modifiers
  <2>4. CASE Integer \/ String \/ Runaway \/ Count \/ Other
    <3>1. p' = p + 1
      BY <2>4, Zenon DEF Integer, String, Runaway, Count, Other, Converted
    <3> QED
      BY <2>2, <3>1
  <2>5. CASE Flags
    <3>1. p' = p + 1 \/ (p' = p /\ state = "flags" /\ state' = "width")
      BY <2>5 DEF Flags, Reading
    <3> QED
      BY <2>2, <3>1 DEF Stage
  <2>6. CASE Width
    <3>1. p' = p + 1 \/ (p' = p /\ state = "width" /\ state' = "modifiers")
      BY <2>6 DEF Width, Reading
    <3> QED
      BY <2>2, <3>1 DEF Stage
  <2>7. CASE Prec
    <3>1. p' = p + 1 \/ (p' = p /\ state = "prec" /\ state' = "modifiers")
      BY <2>7 DEF Prec, Reading
    <3> QED
      BY <2>2, <3>1 DEF Stage
  <2>8. CASE Terminate
    <3>1. state \in {"normal", "flags", "width", "prec", "modifiers"}
      BY <2>1, <2>8 DEF Terminate, Parsing
    <3>2. p' = p /\ state' = "done"
      BY <2>8 DEF Terminate
    <3> QED
      BY <3>1, <3>2 DEF Stage
  <2>9. CASE Returned \/ UNCHANGED fvars
    BY <2>9 DEF Returned
  <2> QED
    BY <1>1, <2>3, <2>4, <2>5, <2>6, <2>7, <2>8, <2>9 DEF FNext
<1> QED
  BY <1>1, FormatInvCorrect, PTL DEF FSpec, Advances
=============================================================================
