--------------------------------- MODULE Gc ----------------------------------
(***************************************************************************)
(* The storage management of the Dis virtual machine: reference counts     *)
(* (libinterp/heap.c) backed by a collector of cycles that marks and       *)
(* sweeps at the same time and a slice at a time (libinterp/gc.c).         *)
(*                                                                         *)
(* A block's color is one of three that rotate with the epoch, or          *)
(* propagator.  In an epoch, a block colored mutator is marked and traced, *)
(* a propagator is marked and still to be traced, a block colored marker   *)
(* has not been reached yet, and one colored sweeper was not reached in    *)
(* the epoch before and is freed when the sweep comes to it.               *)
(*                                                                         *)
(* The machine is held by one process at a time, so an instruction and a   *)
(* slice of the collector do not overlap.  Here a slice inspects one       *)
(* block: quanta varies, so that instructions can run between any two      *)
(* inspections.  The recursion of destroy is a sequence of steps in which  *)
(* nothing else happens.  Memory that poolfree returns is a free block at  *)
(* the same place; the joining of free blocks is left out.  Every object   *)
(* is marked as markheap does it; marklist, which leaves the elements it   *)
(* has passed propagators, to be traced again, is not told apart.          *)
(***************************************************************************)
EXTENDS Integers, FiniteSets

CONSTANTS
    N,       \* blocks of heapmem, in the order of the sweep
    Slots,   \* the pointers in the frames of the Progs
    Tmp,     \* the C variable that holds a pointer taken out of memory
    Fields,  \* the pointers in a heap object
    MaxHalt, \* the nesting of destroy that protects the C stack
    MaxRef   \* bound on a reference count, which garbage can make grow for ever

ASSUME GcAssumption ==
    /\ N \in Nat \ {0} /\ MaxHalt \in Nat /\ MaxRef \in Nat
    /\ IsFiniteSet(Slots) /\ IsFiniteSet(Fields)
    /\ Tmp \notin Slots

VARIABLES
    allocated, \* blocks whose magic is MAGIC_A
    color, ref,
    mem,       \* the pointers in frames and in heap objects
    gccolor,   \* modulo 3
    nprop,     \* a block may have been made propagator since the pass began
    ptr,       \* the next block to inspect; N + 1 at the end of a pass
    pend,      \* where a call of destroy is to come: 1 + its nesting (gchalt); else 0
    epochs     \* epochs execatidle may still complete, Busy when Progs run

gcv == <<gccolor, nprop, ptr>>
vars == <<allocated, color, ref, mem, gcv, pend, epochs>>

Block == 1..N
H == 0
Pointer == Block \cup {H}
propagator == 3
\* A wrong variant: one epoch less.
IdleEpochs_two == 2

\* The epochs that execatidle waits for.
IdleEpochs == 3
Busy == IdleEpochs + 1

\* Before the first epoch the code has marker and sweeper the other way round; no block
\* has either color then.
mutator == gccolor
marker == (gccolor + 2) % 3
sweeper == (gccolor + 1) % 3

\* The places of pointers: in frames, in the objects of B, and Tmp.
Frames == {H} \X Slots
In(B) == B \X Fields
tmp == <<H, Tmp>>
Places == Frames \cup In(Block) \cup {tmp}

TypeOK ==
    /\ allocated \subseteq Block
    /\ color \in [Block -> 0..3] /\ ref \in [Block -> Nat]
    /\ mem \in [Places -> Pointer]
    /\ gccolor \in 0..2 /\ nprop \in BOOLEAN /\ ptr \in 1..(N + 1)
    /\ pend \in [Places -> Nat]
    /\ epochs \in 0..Busy

Init ==
    /\ allocated = {}
    /\ color = [b \in Block |-> 0] /\ ref = [b \in Block |-> 0]
    /\ mem = [l \in Places |-> H]
    /\ gccolor = 0 /\ nprop = FALSE /\ ptr = 1
    /\ pend = [l \in Places |-> 0]
    /\ epochs = Busy

\* The blocks that the places of L refer to.
Refs(L) == {mem[l] : l \in L} \ {H}

-----------------------------------------------------------------------------
(* Instructions. *)

NoDestroy == \A l \in Places : pend[l] = 0

\* A Prog holds the machine.
Interp ==
    /\ NoDestroy /\ ptr # N + 1
    /\ epochs' = Busy

\* Setmark of every block of X: the colors c become, and whether nprop is set.
Shaded(c, X, m) == [b \in Block |-> IF b \in X /\ c[b] # m THEN propagator ELSE c[b]]
Shades(c, X, m) == \E b \in X : c[b] # m

\* What the place l held goes to tmp, for destroy, and v takes its place.
Replace(l, v) ==
    /\ mem' = [mem EXCEPT ![l] = v, ![tmp] = mem[l]]
    /\ pend' = [pend EXCEPT ![tmp] = IF mem[l] = H THEN 0 ELSE 1]

\* heap, nheap: a new block with one reference.
heap(b, c) ==
    /\ b \in Block \ allocated
    /\ allocated' = allocated \cup {b}
    /\ ref' = [ref EXCEPT ![b] = 1]
    /\ color' = [c EXCEPT ![b] = mutator]

\* The places an instruction can address: in a frame, or in an object a frame refers to.
Operands == Frames \cup In(Refs(Frames))

new(l) ==
    /\ Interp
    /\ l \in Operands
    /\ \E b \in Block : heap(b, color) /\ Replace(l, b)
    /\ UNCHANGED gcv

\* cons: the reference in the list variable moves to the new element's tail.
cons(l, f) ==
    /\ Interp
    /\ l \in Operands
    /\ \E b \in Block :
          /\ heap(b, Shaded(color, Refs({l}), mutator))
          /\ mem' = [mem EXCEPT ![<<b, f>>] = mem[l], ![l] = b]
    /\ nprop' = (nprop \/ Shades(color, Refs({l}), mutator))
    /\ UNCHANGED <<gccolor, ptr, pend>>

\* A wrong variant: the pointer is stored without Setmark.
movp_unmarked(l, v) ==
    /\ Interp
    /\ l \in Operands /\ v \in Refs(Operands) \cup {H}
    /\ \/ v = H /\ UNCHANGED ref
       \/ v # H /\ ref[v] < MaxRef /\ ref' = [ref EXCEPT ![v] = @ + 1]
    /\ Replace(l, v)
    /\ UNCHANGED <<allocated, color, gcv>>

\* A wrong variant: an object that is marked already is not counted.
movp_uncounted(l, v) ==
    /\ Interp
    /\ l \in Operands /\ v \in Refs(Operands) \cup {H}
    /\ LET marked == {b \in Block : color[b] = mutator} IN
       \/ v \in marked \cup {H} /\ UNCHANGED ref
       \/ v \notin marked \cup {H} /\ ref[v] < MaxRef /\ ref' = [ref EXCEPT ![v] = @ + 1]
    /\ color' = Shaded(color, {v} \ {H}, mutator)
    /\ nprop' = (nprop \/ Shades(color, {v} \ {H}, mutator))
    /\ Replace(l, v)
    /\ UNCHANGED <<allocated, gccolor, ptr>>

\* movp of the pointer v, nil or what some operand holds.
movp(l, v) ==
    /\ Interp
    /\ l \in Operands /\ v \in Refs(Operands) \cup {H}
    /\ \/ v = H /\ UNCHANGED ref
       \/ v # H /\ ref[v] < MaxRef /\ ref' = [ref EXCEPT ![v] = @ + 1]
    /\ color' = Shaded(color, {v} \ {H}, mutator)
    /\ nprop' = (nprop \/ Shades(color, {v} \ {H}, mutator))
    /\ Replace(l, v)
    /\ UNCHANGED <<allocated, gccolor, ptr>>

\* A call of destroy for the pointer at l.  When it frees the object, freeptrs makes a
\* call for each pointer in it, and these are made before anything else.
destroy(l) ==
    /\ pend[l] # 0
    /\ LET v == mem[l]
           freed == ref[v] = 1 /\ pend[l] <= MaxHalt + 1
           inner == {i \in In({v}) : freed /\ mem[i] # H}
       IN /\ ref' = [ref EXCEPT ![v] = @ - 1]
          /\ allocated' = IF freed THEN allocated \ {v} ELSE allocated
          /\ mem' = [mem EXCEPT ![l] = H]
          /\ pend' = [i \in Places |-> IF i = l THEN 0
                                       ELSE IF i \in inner THEN pend[l] + 1 ELSE pend[i]]
    /\ UNCHANGED <<color, gcv, epochs>>

-----------------------------------------------------------------------------
(* The collector. *)

\* execatidle: no Prog is ready, the collector goes on for IdleEpochs epochs.
execatidle ==
    /\ NoDestroy /\ ptr # N + 1 /\ epochs = Busy
    /\ epochs' = IdleEpochs
    /\ UNCHANGED <<allocated, color, ref, mem, gcv, pend>>

\* A marking that starts at the blocks of start goes on, by the recursion of mark, to the
\* blocks of B: it enters no block that is traced already, and may stop anywhere (the
\* quantum and the depth are bounded).
Traced(start, B, c, m) ==
    /\ \A b \in B : c[b] # m
    /\ \A C \in SUBSET B :
          C # {} => \E b \in C : b \in start \cup Refs(In(B \ C))

\* The colors that are left by a marking of start that traced the blocks of B.
MarkFrom(start, B, c, m) ==
    [b \in Block |-> IF b \in B THEN m ELSE Shaded(c, start \cup Refs(In(B)), m)[b]]

\* rungc for one block: a propagator is traced, a block not reached in the epoch before is
\* freed as it is, whatever it refers to.
rungc ==
    /\ NoDestroy /\ epochs > 0 /\ ptr \in Block
    /\ ptr' = ptr + 1
    /\ \/ /\ ptr \in allocated /\ color[ptr] = propagator
          /\ LET c == [color EXCEPT ![ptr] = mutator]
                 start == Refs(In({ptr}))
             IN \E B \in SUBSET Block :
                   /\ Traced(start, B, c, mutator)
                   /\ color' = MarkFrom(start, B, c, mutator)
                   /\ nprop' = (nprop \/ Shades(c, start \cup Refs(In(B)), mutator))
          /\ UNCHANGED <<allocated, mem, ref>>
       \/ /\ ptr \in allocated /\ color[ptr] = sweeper
          /\ allocated' = allocated \ {ptr}
          /\ ref' = [ref EXCEPT ![ptr] = 0]
          /\ mem' = [l \in Places |-> IF l \in In({ptr}) THEN H ELSE mem[l]]
          /\ UNCHANGED <<color, nprop>>
       \/ /\ ptr \notin allocated \/ color[ptr] \notin {propagator, sweeper}
          /\ UNCHANGED <<allocated, color, ref, mem, nprop>>
    /\ UNCHANGED <<gccolor, pend, epochs>>

\* The end of rungc when it has reached the end of the heap: another pass if anything may
\* be left to trace, else the next epoch, which begins with rootset.
endpass ==
    /\ ptr = N + 1
    /\ ptr' = 1
    /\ \/ /\ nprop
          /\ nprop' = FALSE
          /\ UNCHANGED <<color, gccolor, epochs>>
       \/ /\ ~nprop
          /\ gccolor' = (gccolor + 1) % 3
          /\ \E B \in SUBSET Block :
                /\ Traced(Refs(Frames), B, color, gccolor')
                /\ color' = MarkFrom(Refs(Frames), B, color, gccolor')
                /\ nprop' = Shades(color, Refs(Frames) \cup Refs(In(B)), gccolor')
          /\ epochs' = IF epochs = Busy THEN Busy ELSE epochs - 1
    /\ UNCHANGED <<allocated, ref, mem, pend>>

Next ==
    \/ \E l \in Places : new(l)
    \/ \E l \in Places, f \in Fields : cons(l, f)
    \/ \E l \in Places, v \in Pointer : movp(l, v)
    \/ \E l \in Places : destroy(l)
    \/ execatidle
    \/ rungc
    \/ endpass

Spec == Init /\ [][Next]_vars

\* The machine does not stop inside an instruction or a slice; it calls the collector every
\* 256 slices of a Prog, between two instructions, and until its epochs are complete when no
\* Prog is ready.
LiveSpec ==
    /\ Spec
    /\ \A l \in Places : WF_vars(destroy(l))
    /\ SF_vars(rungc) /\ WF_vars(endpass)

-----------------------------------------------------------------------------
(* Properties. *)

\* The blocks a program can get at: in every set that has what the frames refer to and
\* what its own objects refer to.
Reachable ==
    {b \in Block : \A C \in SUBSET Block :
        (Refs(Frames) \subseteq C /\ Refs(In(C)) \subseteq C) => b \in C}

\* No storage is freed, by a reference count or by a sweep, while the program can get at
\* it: every step of the collector can fall between any two instructions.
NoDangling == TypeOK /\ Reachable \subseteq allocated

\* The objects the collector has not found to be garbage.
Kept == {b \in allocated : color[b] # sweeper}

\* Where a counted reference to b is held.
Holders(b) ==
    {l \in Frames \cup In(Kept) \cup {i \in Places : pend[i] # 0} : mem[l] = b}

\* The count of an object that is not garbage is never below the number of references to it
\* that are left to be destroyed, although objects that were swept have taken theirs along.
RefCovers == \A b \in Kept : Cardinality(Holders(b)) <= ref[b]

\* Storage that no program can get at is freed, cycles and what a deep destroy has left
\* included: the epochs that execatidle completes before the machine sleeps are enough.
GarbageFreed == \A b \in Block : (b \in allocated \ Reachable) ~> (b \notin allocated)
=============================================================================
