------------------------------- MODULE GcProof -------------------------------
(***************************************************************************)
(* No storage of the Dis virtual machine is freed while a program can get  *)
(* at it, whatever the number of blocks, pointers and objects.  The        *)
(* invariant says what the colors mean: what is kept refers to what is     *)
(* kept, what is traced refers to what is marked, and the blocks the pass  *)
(* has gone by need no second look unless nprop is set.                    *)
(***************************************************************************)
EXTENDS Gc, FiniteSetTheorems, TLAPS

Pending == {i \in Places : pend[i] # 0}
Held == Frames \cup In(Kept) \cup Pending
TracedBlocks == {b \in allocated : color[b] = mutator}

\* What is held refers to objects that are not garbage.
Closed == \A l \in Held : mem[l] # H => mem[l] \in Kept

\* Frames and traced objects refer to marked objects only.
TriColor ==
    \A l \in Frames \cup In(TracedBlocks) : mem[l] # H => color[mem[l]] \in {mutator, propagator}

\* Behind ptr nothing is left to sweep, and nothing to trace unless nprop says so.
Behind ==
    \A b \in allocated : b < ptr => /\ color[b] # sweeper
                                    /\ nprop \/ color[b] # propagator

\* destroy is called for pointers in freed objects and in tmp; a free block is clear.
PendOK ==
    /\ \A l \in Pending : mem[l] # H /\ l \notin Frames \cup In(allocated)
    /\ \A l \in In(Block \ allocated) : pend[l] = 0 => mem[l] = H
    /\ ptr = N + 1 => NoDestroy /\ epochs # 0

IInv == TypeOK /\ Closed /\ TriColor /\ Behind /\ PendOK /\ RefCovers

-----------------------------------------------------------------------------
(* Facts about places, colors and cardinalities. *)

\* Frames, objects and tmp are different places.
LEMMA PlaceFacts ==
    /\ tmp \in Places /\ tmp \notin Frames /\ Frames \subseteq Places
    /\ \A B : B \subseteq Block =>
          /\ In(B) \subseteq Places /\ tmp \notin In(B)
          /\ \A l \in In(B) : l \notin Frames
    /\ H \notin Block
  BY GcAssumption DEF tmp, Places, Frames, In, H, Block

\* A place in an object of B.
LEMMA InFacts ==
    ASSUME NEW B
    PROVE  \A l : l \in In(B) <=> l \in In({l[1]}) /\ l[1] \in B
  BY DEF In

\* There are finitely many places.
LEMMA PlacesFinite == IsFiniteSet(Places)
<1>1. IsFiniteSet(Frames)  BY FS_Product, FS_Singleton, GcAssumption DEF Frames
<1>2. IsFiniteSet(Block)  BY FS_Interval, GcAssumption DEF Block
<1>3. IsFiniteSet(In(Block))  BY <1>2, FS_Product, GcAssumption DEF In
<1> QED  BY <1>1, <1>3, FS_Singleton, FS_Union DEF Places

\* The size of a subset.
LEMMA CardLeq ==
    ASSUME NEW S, IsFiniteSet(S), NEW T, T \subseteq S
    PROVE  Cardinality(T) \in Nat /\ Cardinality(S) \in Nat /\ Cardinality(T) <= Cardinality(S)
  BY FS_Subset, FS_CardinalityType

\* A subset of a set and one element more.
LEMMA CardAdd ==
    ASSUME NEW S, IsFiniteSet(S), NEW x, NEW T, T \subseteq S \cup {x}
    PROVE  Cardinality(T) \in Nat /\ Cardinality(S) \in Nat
           /\ Cardinality(T) <= Cardinality(S) + 1
<1>1. /\ IsFiniteSet(S \cup {x})
      /\ Cardinality(S \cup {x}) = IF x \in S THEN Cardinality(S) ELSE Cardinality(S) + 1
  BY FS_AddElement
<1>2. Cardinality(S) \in Nat  BY FS_CardinalityType
<1> QED  BY <1>1, <1>2, CardLeq

\* A subset of a set without one of its elements.
LEMMA CardDrop ==
    ASSUME NEW S, IsFiniteSet(S), NEW x \in S, NEW T, T \subseteq S \ {x}
    PROVE  Cardinality(T) \in Nat /\ Cardinality(S) \in Nat
           /\ Cardinality(T) <= Cardinality(S) - 1
<1>1. /\ IsFiniteSet(S \ {x})
      /\ Cardinality(S \ {x}) = Cardinality(S) - 1
  BY FS_RemoveElement
<1>2. Cardinality(S) \in Nat  BY FS_CardinalityType
<1> QED  BY <1>1, <1>2, CardLeq

\* A subset of a set in which one element is exchanged.
LEMMA CardSwap ==
    ASSUME NEW S, IsFiniteSet(S), NEW x \in S, NEW y, NEW T, T \subseteq (S \ {x}) \cup {y}
    PROVE  Cardinality(T) \in Nat /\ Cardinality(S) \in Nat
           /\ Cardinality(T) <= Cardinality(S)
<1>1. /\ IsFiniteSet(S \ {x})
      /\ Cardinality(S \ {x}) = Cardinality(S) - 1
  BY FS_RemoveElement
<1>2. Cardinality(T) \in Nat /\ Cardinality(T) <= Cardinality(S \ {x}) + 1
  BY <1>1, CardAdd
<1>3. Cardinality(S) \in Nat  BY FS_CardinalityType
<1> QED  BY <1>1, <1>2, <1>3

\* The holders of a block are places, and can be counted.
LEMMA HoldersFinite ==
    ASSUME TypeOK, NEW b
    PROVE  Holders(b) \subseteq Places /\ IsFiniteSet(Holders(b))
           /\ Cardinality(Holders(b)) \in Nat
<1>1. Kept \subseteq Block  BY DEF TypeOK, Kept
<1>2. Holders(b) \subseteq Places  BY <1>1, PlaceFacts DEF Holders
<1> QED  BY <1>2, PlacesFinite, FS_Subset, FS_CardinalityType

\* The four colors of an epoch are different, and the colors rotate.
LEMMA ColorFacts ==
    ASSUME gccolor \in 0..2
    PROVE  /\ mutator \in 0..2 /\ sweeper \in 0..2 /\ marker \in 0..2
           /\ mutator # sweeper /\ mutator # marker /\ marker # sweeper
           /\ propagator \notin {mutator, marker, sweeper}
           /\ \A c \in 0..3 : c \in {mutator, marker, sweeper, propagator}
           /\ (gccolor + 1) % 3 = sweeper
           /\ (sweeper + 1) % 3 = marker /\ (sweeper + 2) % 3 = mutator
<1>1. gccolor = 0 \/ gccolor = 1 \/ gccolor = 2  OBVIOUS
<1>2. CASE gccolor = 0  BY <1>2 DEF mutator, marker, sweeper, propagator
<1>3. CASE gccolor = 1  BY <1>3 DEF mutator, marker, sweeper, propagator
<1>4. CASE gccolor = 2  BY <1>4 DEF mutator, marker, sweeper, propagator
<1> QED  BY <1>1, <1>2, <1>3, <1>4

\* An empty heap satisfies the invariant.
LEMMA InitIInv == Init => IInv
<1> SUFFICES ASSUME Init PROVE IInv  OBVIOUS
<1>1. TypeOK
  <2>1. nprop \in BOOLEAN  BY DEF Init
  <2> QED  BY <2>1, GcAssumption DEF Init, TypeOK, Pointer, H, Busy, IdleEpochs
<1>2. Kept = {} /\ Pending = {} /\ TracedBlocks = {}
  BY DEF Init, Kept, Pending, TracedBlocks
<1>3. \A l \in Places : mem[l] = H  BY DEF Init
<1>4. Closed /\ TriColor  BY <1>2, <1>3, PlaceFacts DEF Closed, TriColor, Held, In
<1>5. Behind /\ RefCovers  BY <1>2 DEF Init, Behind, RefCovers
<1>6. PendOK
  <2>1. ptr # N + 1  BY GcAssumption DEF Init
  <2> QED  BY <1>2, <1>3, <2>1, PlaceFacts DEF PendOK
<1> QED  BY <1>1, <1>4, <1>5, <1>6 DEF IInv

-----------------------------------------------------------------------------
(* Instructions: when no call of destroy is pending. *)

\* What an instruction finds: its operands are kept, and no call of destroy is pending.
LEMMA OperandFacts ==
    ASSUME IInv, Interp
    PROVE  /\ Pending = {} /\ Held = Frames \cup In(Kept)
           /\ Operands \subseteq Held /\ Operands \subseteq Places \ {tmp}
           /\ Refs(Operands) \subseteq Kept
           /\ Kept \subseteq allocated /\ allocated \subseteq Block
<1>1. Pending = {}  BY DEF Interp, NoDestroy, Pending
<1>2. Held = Frames \cup In(Kept)  BY <1>1 DEF Held
<1>3. Kept \subseteq allocated /\ allocated \subseteq Block  BY DEF Kept, IInv, TypeOK
<1>4. Refs(Frames) \subseteq Kept  BY <1>2 DEF IInv, Closed, Refs
<1>5. Operands \subseteq Held  BY <1>2, <1>4 DEF Operands, In
<1>6. Refs(Operands) \subseteq Kept  BY <1>5 DEF IInv, Closed, Refs
<1>7. Operands \subseteq Places \ {tmp}  BY <1>2, <1>3, <1>5, PlaceFacts
<1> QED  BY <1>1, <1>2, <1>3, <1>5, <1>6, <1>7

\* movp
LEMMA MovpStep ==
    ASSUME IInv, NEW l \in Places, NEW v \in Pointer, movp(l, v) PROVE IInv'
<1> DEFINE w == mem[l]
<1>1. /\ Pending = {} /\ Held = Frames \cup In(Kept)
      /\ l \in Held /\ l # tmp
      /\ v # H => v \in Kept
      /\ Kept \subseteq allocated /\ allocated \subseteq Block
  BY OperandFacts DEF movp
<1>2. /\ mutator' = mutator /\ sweeper' = sweeper /\ allocated' = allocated
      /\ ptr' = ptr /\ ptr # N + 1 /\ gccolor' = gccolor
  BY DEF movp, Interp, mutator, sweeper
<1>3. /\ propagator # sweeper /\ mutator # sweeper /\ propagator # mutator
  BY ColorFacts DEF IInv, TypeOK
<1>4. /\ mem' \in [Places -> Pointer]
      /\ mem'[l] = v /\ mem'[tmp] = w /\ w \in Pointer
      /\ \A i \in Places : i # l /\ i # tmp => mem'[i] = mem[i]
  BY <1>1, PlaceFacts DEF movp, Replace, IInv, TypeOK
<1>5. /\ pend' \in [Places -> Nat] /\ Pending' = IF w = H THEN {} ELSE {tmp}
  BY <1>1, PlaceFacts DEF movp, Replace, IInv, TypeOK, Pending
<1>6. /\ color' \in [Block -> 0..3]
      /\ \A b \in Block : color'[b] = IF b = v /\ color[b] # mutator THEN propagator ELSE color[b]
  BY DEF movp, Shaded, IInv, TypeOK, propagator, H, Block
<1>7. Kept' = Kept  BY <1>1, <1>2, <1>3, <1>6, PlaceFacts DEF Kept
<1>8. Held' = Held \cup Pending'  BY <1>1, <1>7 DEF Held
<1>9. w # H => w \in Kept  BY <1>1 DEF IInv, Closed
<1>10. TypeOK'
  <2>1. nprop' \in BOOLEAN  BY DEF movp, IInv, TypeOK
  <2>2. ref' \in [Block -> Nat]  BY <1>1 DEF movp, IInv, TypeOK
  <2>3. epochs' \in 0..Busy'  BY DEF movp, Interp, Busy, IdleEpochs
  <2> QED  BY <1>2, <1>4, <1>5, <1>6, <2>1, <2>2, <2>3 DEF IInv, TypeOK
<1>11. Closed'
  <2> SUFFICES ASSUME NEW i \in Held', mem'[i] # H PROVE mem'[i] \in Kept
    BY <1>7 DEF Closed
  <2>1. i \in Places  BY <1>1, <1>5, <1>8, PlaceFacts
  <2> QED  BY <1>1, <1>4, <1>5, <1>8, <1>9, <2>1 DEF IInv, Closed
<1>12. TriColor'
  <2>1. \A b \in Block : color'[b] = mutator <=> color[b] = mutator  BY <1>3, <1>6
  <2>2. TracedBlocks' = TracedBlocks /\ TracedBlocks \subseteq Block
    BY <1>1, <1>2, <2>1 DEF TracedBlocks
  <2> SUFFICES ASSUME NEW i \in Frames \cup In(TracedBlocks), mem'[i] # H
               PROVE  color'[mem'[i]] \in {mutator, propagator}
    BY <1>2, <2>2 DEF TriColor
  <2>3. i \in Places /\ i # tmp  BY <2>2, PlaceFacts
  <2>4. CASE i = l  BY <1>1, <1>4, <1>6, <2>4
  <2>5. CASE i # l
    <3>1. mem'[i] = mem[i] /\ mem[i] \in Block  BY <1>4, <2>3, <2>5 DEF IInv, TypeOK, Pointer
    <3>2. color[mem[i]] \in {mutator, propagator}  BY <3>1 DEF IInv, TriColor
    <3> QED  BY <1>6, <3>1, <3>2
  <2> QED  BY <2>4, <2>5
<1>13. Behind'
  <2> SUFFICES ASSUME NEW b \in allocated, b < ptr
               PROVE  color'[b] # sweeper /\ (nprop' \/ color'[b] # propagator)
    BY <1>2 DEF Behind
  <2>1. color[b] # sweeper /\ (nprop \/ color[b] # propagator)  BY DEF IInv, Behind
  <2>2. b \in Block  BY <1>1
  <2>3. nprop' \/ color'[b] # propagator
    <3>1. CASE nprop  BY <3>1 DEF movp
    <3>2. CASE b = v /\ color[b] # mutator  BY <3>2, <2>2, PlaceFacts DEF movp, Shades
    <3>3. CASE ~nprop /\ ~(b = v /\ color[b] # mutator)  BY <1>6, <2>1, <2>2, <3>3
    <3> QED  BY <3>1, <3>2, <3>3
  <2> QED  BY <1>3, <1>6, <2>1, <2>2, <2>3
<1>14. PendOK'
  <2>1. \A i \in Pending' : mem'[i] # H /\ i \notin Frames \cup In(allocated')
    BY <1>1, <1>2, <1>4, <1>5, PlaceFacts
  <2>2. \A i \in In(Block \ allocated') : pend'[i] = 0 => mem'[i] = H
    <3> SUFFICES ASSUME NEW i \in In(Block \ allocated) PROVE mem'[i] = H
      BY <1>2
    <3>1. i \in Places /\ i # tmp /\ i \notin Frames  BY PlaceFacts
    <3>2. i \notin In(Kept)  BY <1>1 DEF In
    <3>3. pend[i] = 0  BY <1>1, <3>1 DEF Pending
    <3>4. mem[i] = H  BY <3>3 DEF IInv, PendOK
    <3> QED  BY <1>1, <1>4, <3>1, <3>2, <3>4
  <2> QED  BY <1>2, <2>1, <2>2 DEF PendOK
<1>15. RefCovers'
  <2> SUFFICES ASSUME NEW b \in Kept PROVE Cardinality(Holders(b)') <= ref'[b]
    BY <1>7 DEF RefCovers
  <2>1. /\ IsFiniteSet(Holders(b)) /\ Cardinality(Holders(b)) \in Nat
        /\ Cardinality(Holders(b)) <= ref[b]
        /\ b \in Block /\ ref[b] \in Nat
    BY <1>1, HoldersFinite DEF IInv, RefCovers, TypeOK
  <2>2. /\ Holders(b) = {i \in Held : mem[i] = b}
        /\ Holders(b)' = {i \in Held' : mem'[i] = b}
    BY DEF Holders, Held, Pending
  <2>3. Held \subseteq Places /\ tmp \notin Held  BY <1>1, PlaceFacts
  <2>4. ref'[b] = IF b = v THEN ref[b] + 1 ELSE ref[b]
    BY <2>1, PlaceFacts DEF movp, IInv, TypeOK
  <2>5. CASE b # v /\ b = w
    <3>1. l \in Holders(b) /\ Holders(b)' \subseteq (Holders(b) \ {l}) \cup {tmp}
      BY <1>1, <1>4, <1>5, <1>8, <2>2, <2>3, <2>5
    <3>2. /\ Cardinality(Holders(b)') \in Nat
          /\ Cardinality(Holders(b)') <= Cardinality(Holders(b))
      BY <2>1, <3>1, CardSwap, SMTT(30)
    <3> QED  BY <2>1, <2>4, <2>5, <3>2
  <2>6. CASE b # v /\ b # w
    <3>1. Holders(b)' \subseteq Holders(b)
      BY <1>1, <1>4, <1>5, <1>8, <2>2, <2>3, <2>6
    <3>2. /\ Cardinality(Holders(b)') \in Nat
          /\ Cardinality(Holders(b)') <= Cardinality(Holders(b))
      BY <2>1, <3>1, CardLeq
    <3> QED  BY <2>1, <2>4, <2>6, <3>2
  <2>7. CASE b = v /\ b = w
    <3>1. Holders(b)' \subseteq Holders(b) \cup {tmp}
      BY <1>1, <1>4, <1>5, <1>8, <2>2, <2>3, <2>7
    <3>2. /\ Cardinality(Holders(b)') \in Nat
          /\ Cardinality(Holders(b)') <= Cardinality(Holders(b)) + 1
      BY <2>1, <3>1, CardAdd
    <3> QED  BY <2>1, <2>4, <2>7, <3>2
  <2>8. CASE b = v /\ b # w
    <3>1. Holders(b)' \subseteq Holders(b) \cup {l}
      BY <1>1, <1>4, <1>5, <1>8, <2>2, <2>3, <2>8
    <3>2. /\ Cardinality(Holders(b)') \in Nat
          /\ Cardinality(Holders(b)') <= Cardinality(Holders(b)) + 1
      BY <2>1, <3>1, CardAdd
    <3> QED  BY <2>1, <2>4, <2>8, <3>2
  <2> QED  BY <2>5, <2>6, <2>7, <2>8
<1> QED  BY <1>10, <1>11, <1>12, <1>13, <1>14, <1>15 DEF IInv

\* A block that is not allocated is referred to from no held place, and is clear.
LEMMA FreshFacts ==
    ASSUME IInv, Interp, NEW b \in Block \ allocated
    PROVE  /\ b \notin Kept
           /\ \A i \in Held : mem[i] # b /\ i \notin In({b})
           /\ \A i \in In({b}) : i \in Places /\ i # tmp /\ i \notin Frames
                                 /\ i \notin Held /\ pend[i] = 0 /\ mem[i] = H
<1>1. b \notin Kept /\ b # H  BY PlaceFacts DEF Kept
<1>2. \A i \in In({b}) : i \in Places /\ i # tmp /\ i \notin Frames  BY PlaceFacts
<1>3. \A i \in In({b}) : i \notin In(Kept)  BY <1>1 DEF In
<1>4. Held = Frames \cup In(Kept)  BY OperandFacts
<1>5. \A i \in In({b}) : i \in In(Block \ allocated)  BY DEF In
<1>6. \A i \in In({b}) : pend[i] = 0 /\ mem[i] = H
  BY <1>2, <1>5 DEF Interp, NoDestroy, IInv, PendOK
<1>7. \A i \in Held : mem[i] # b  BY <1>1 DEF IInv, Closed
<1> QED  BY <1>1, <1>2, <1>3, <1>4, <1>6, <1>7, SMTT(30)

\* new
LEMMA NewStep ==
    ASSUME IInv, NEW l \in Places, new(l) PROVE IInv'
<1> DEFINE w == mem[l]
<1>0. PICK b \in Block : heap(b, color) /\ Replace(l, b)  BY DEF new
<1>1. /\ Pending = {} /\ Held = Frames \cup In(Kept) /\ l \in Held /\ l # tmp
      /\ Kept \subseteq allocated /\ allocated \subseteq Block
  BY OperandFacts DEF new
<1>2. /\ mutator' = mutator /\ sweeper' = sweeper
      /\ ptr' = ptr /\ ptr # N + 1 /\ gccolor' = gccolor /\ nprop' = nprop
  BY DEF new, Interp, mutator, sweeper, gcv
<1>3. /\ propagator # sweeper /\ mutator # sweeper /\ propagator # mutator /\ mutator \in 0..2
  BY ColorFacts DEF IInv, TypeOK
<1>4. /\ mem' \in [Places -> Pointer] /\ b \in Pointer
      /\ mem'[l] = b /\ mem'[tmp] = w /\ w \in Pointer
      /\ \A i \in Places : i # l /\ i # tmp => mem'[i] = mem[i]
  BY <1>0, <1>1, PlaceFacts DEF Replace, IInv, TypeOK, Pointer
<1>5. /\ pend' \in [Places -> Nat] /\ Pending' = IF w = H THEN {} ELSE {tmp}
  BY <1>0, <1>1, PlaceFacts DEF Replace, IInv, TypeOK, Pending
<1>6. /\ color' \in [Block -> 0..3]
      /\ \A c \in Block : color'[c] = IF c = b THEN mutator ELSE color[c]
  BY <1>0, <1>3 DEF heap, IInv, TypeOK
<1>7. allocated' = allocated \cup {b} /\ b \notin allocated  BY <1>0 DEF heap
<1>8. Kept' = Kept \cup {b}  BY <1>1, <1>2, <1>3, <1>6, <1>7 DEF Kept
<1>9. Held' = Held \cup In({b}) \cup Pending'  BY <1>1, <1>8 DEF Held, In
<1>10. w # H => w \in Kept  BY <1>1 DEF IInv, Closed
<1>11. /\ b \notin Kept
       /\ \A i \in Held : mem[i] # b /\ i \notin In({b})
       /\ \A i \in In({b}) : i \in Places /\ i # tmp /\ i \notin Held /\ mem'[i] = H
  BY <1>0, <1>1, <1>4, FreshFacts DEF new, heap
<1>12. Held \subseteq Places /\ tmp \notin Held  BY <1>1, PlaceFacts
<1>13. TypeOK'
  <2>1. nprop' \in BOOLEAN  BY <1>2 DEF IInv, TypeOK
  <2>2. ref' \in [Block -> Nat]  BY <1>0 DEF heap, IInv, TypeOK
  <2>3. epochs' \in 0..Busy'  BY DEF new, Interp, Busy, IdleEpochs
  <2> QED  BY <1>2, <1>4, <1>5, <1>6, <1>7, <2>1, <2>2, <2>3 DEF IInv, TypeOK
<1>14. Closed'
  <2> SUFFICES ASSUME NEW i \in Held', mem'[i] # H PROVE mem'[i] \in Kept'
    BY DEF Closed
  <2> QED  BY <1>4, <1>5, <1>8, <1>9, <1>10, <1>11, <1>12 DEF IInv, Closed
<1>15. TriColor'
  <2>1. TracedBlocks' = TracedBlocks \cup {b} /\ TracedBlocks \subseteq Block
    BY <1>1, <1>2, <1>6, <1>7 DEF TracedBlocks
  <2> SUFFICES ASSUME NEW i \in Frames \cup In(TracedBlocks) \cup In({b}), mem'[i] # H
               PROVE  color'[mem'[i]] \in {mutator, propagator}
    BY <1>2, <2>1 DEF TriColor, In
  <2>2. i \in Frames \cup In(TracedBlocks)  BY <1>11
  <2>3. i \in Places /\ i # tmp  BY <2>1, <2>2, PlaceFacts
  <2>4. CASE i = l  BY <1>4, <1>6, <2>4
  <2>5. CASE i # l
    <3>1. mem'[i] = mem[i] /\ mem[i] \in Block  BY <1>4, <2>3, <2>5 DEF IInv, TypeOK, Pointer
    <3>2. color[mem[i]] \in {mutator, propagator}  BY <2>2, <3>1 DEF IInv, TriColor
    <3> QED  BY <1>6, <3>1, <3>2
  <2> QED  BY <2>4, <2>5
<1>16. Behind'
  BY <1>1, <1>2, <1>3, <1>6, <1>7 DEF IInv, Behind
<1>17. PendOK'
  <2>1. \A i \in Pending' : mem'[i] # H /\ i \notin Frames \cup In(allocated')
    BY <1>1, <1>4, <1>5, <1>7, PlaceFacts
  <2>2. \A i \in In(Block \ allocated') : pend'[i] = 0 => mem'[i] = H
    <3> SUFFICES ASSUME NEW i \in In(Block \ allocated'), i \in In(Block \ allocated)
                 PROVE  mem'[i] = H
      BY <1>7 DEF In
    <3>1. i \in Places /\ i # tmp /\ i \notin Frames  BY PlaceFacts
    <3>2. i \notin In(Kept)  BY <1>1 DEF In
    <3>3. pend[i] = 0  BY <1>1, <3>1 DEF Pending
    <3>4. mem[i] = H  BY <3>3 DEF IInv, PendOK
    <3> QED  BY <1>1, <1>4, <3>1, <3>2, <3>4
  <2> QED  BY <1>2, <2>1, <2>2 DEF PendOK
<1>18. RefCovers'
  <2> SUFFICES ASSUME NEW c \in Kept \cup {b} PROVE Cardinality(Holders(c)') <= ref'[c]
    BY <1>8 DEF RefCovers
  <2>1. /\ Holders(c) = {i \in Held : mem[i] = c}
        /\ Holders(c)' = {i \in Held' : mem'[i] = c}
    BY DEF Holders, Held, Pending
  <2>2. c \in Block /\ c # H /\ IsFiniteSet(Holders(c)) /\ Cardinality(Holders(c)) \in Nat
    BY <1>1, HoldersFinite, PlaceFacts DEF IInv
  <2>3. CASE c = b
    <3>1. Holders(c) = {}  BY <1>11, <2>1, <2>3
    <3>2. Holders(c)' \subseteq Holders(c) \cup {l}
      BY <1>4, <1>5, <1>9, <1>10, <1>11, <1>12, <2>1, <2>2, <2>3
    <3>3. /\ Cardinality(Holders(c)') \in Nat
          /\ Cardinality(Holders(c)') <= Cardinality(Holders(c)) + 1
      BY <2>2, <3>2, CardAdd
    <3>4. Cardinality(Holders(c)) = 0 /\ ref'[c] = 1
      BY <1>0, <2>3, <3>1, FS_EmptySet DEF heap, IInv, TypeOK
    <3> QED  BY <3>3, <3>4
  <2>4. CASE c # b
    <3>1. ref'[c] = ref[c] /\ ref[c] \in Nat /\ Cardinality(Holders(c)) <= ref[c]
      BY <1>0, <2>2, <2>4 DEF heap, IInv, TypeOK, RefCovers
    <3>2. CASE c = w
      <4>1. l \in Holders(c) /\ Holders(c)' \subseteq (Holders(c) \ {l}) \cup {tmp}
        BY <1>1, <1>4, <1>5, <1>9, <1>11, <1>12, <2>1, <2>2, <2>4, <3>2
      <4>2. /\ Cardinality(Holders(c)') \in Nat
            /\ Cardinality(Holders(c)') <= Cardinality(Holders(c))
        BY <2>2, <4>1, CardSwap, SMTT(30)
      <4> QED  BY <2>2, <3>1, <4>2
    <3>3. CASE c # w
      <4>1. Holders(c)' \subseteq Holders(c)
        BY <1>1, <1>4, <1>5, <1>9, <1>11, <1>12, <2>1, <2>2, <2>4, <3>3
      <4>2. /\ Cardinality(Holders(c)') \in Nat
            /\ Cardinality(Holders(c)') <= Cardinality(Holders(c))
        BY <2>2, <4>1, CardLeq
      <4> QED  BY <2>2, <3>1, <4>2
    <3> QED  BY <3>2, <3>3
  <2> QED  BY <2>3, <2>4
<1> QED  BY <1>13, <1>14, <1>15, <1>16, <1>17, <1>18 DEF IInv

\* cons
LEMMA ConsStep ==
    ASSUME IInv, NEW l \in Places, NEW f \in Fields, cons(l, f) PROVE IInv'
<1> DEFINE w == mem[l]
<1>0. PICK b \in Block : /\ heap(b, Shaded(color, Refs({l}), mutator))
                         /\ mem' = [mem EXCEPT ![<<b, f>>] = mem[l], ![l] = b]
  BY DEF cons
<1> DEFINE n == <<b, f>>
<1>1. /\ Pending = {} /\ Held = Frames \cup In(Kept) /\ l \in Held /\ l # tmp
      /\ Kept \subseteq allocated /\ allocated \subseteq Block
  BY OperandFacts DEF cons
<1>2. /\ mutator' = mutator /\ sweeper' = sweeper
      /\ ptr' = ptr /\ ptr # N + 1 /\ gccolor' = gccolor /\ pend' = pend
  BY DEF cons, Interp, mutator, sweeper
<1>3. /\ propagator # sweeper /\ mutator # sweeper /\ propagator # mutator /\ mutator \in 0..2
  BY ColorFacts DEF IInv, TypeOK
<1>4. /\ b \notin Kept
      /\ \A i \in Held : mem[i] # b /\ i \notin In({b})
      /\ \A i \in In({b}) : i \in Places /\ i # tmp /\ i \notin Held /\ mem[i] = H
      /\ n \in In({b})
  BY <1>0, FreshFacts DEF cons, heap, In
<1>5. /\ mem' \in [Places -> Pointer] /\ b \in Pointer
      /\ mem'[l] = b /\ mem'[n] = w /\ w \in Pointer /\ l # n
      /\ \A i \in Places : i # l /\ i # n => mem'[i] = mem[i]
  BY <1>0, <1>1, <1>4 DEF IInv, TypeOK, Pointer
<1>6. w # H => w \in Kept  BY <1>1 DEF IInv, Closed
<1>7. /\ color' \in [Block -> 0..3]
      /\ \A c \in Block : color'[c] = IF c = b THEN mutator
                                      ELSE IF c = w /\ color[c] # mutator THEN propagator
                                      ELSE color[c]
  BY <1>0, <1>3, PlaceFacts DEF heap, IInv, TypeOK, Shaded, Refs, propagator
<1>8. allocated' = allocated \cup {b} /\ b \notin allocated  BY <1>0 DEF heap
<1>9. Kept' = Kept \cup {b}  BY <1>1, <1>2, <1>3, <1>6, <1>7, <1>8, PlaceFacts DEF Kept
<1>10. Pending' = {}  BY <1>1, <1>2 DEF Pending
<1>11. Held' = Held \cup In({b})  BY <1>1, <1>9, <1>10 DEF Held, In
<1>12. Held \subseteq Places /\ tmp \notin Held  BY <1>1, PlaceFacts
<1>13. TypeOK'
  <2>1. nprop' \in BOOLEAN  BY DEF cons, IInv, TypeOK
  <2>2. ref' \in [Block -> Nat]  BY <1>0 DEF heap, IInv, TypeOK
  <2>3. epochs' \in 0..Busy'  BY DEF cons, Interp, Busy, IdleEpochs
  <2> QED  BY <1>2, <1>5, <1>7, <1>8, <2>1, <2>2, <2>3 DEF IInv, TypeOK
<1>14. Closed'
  <2> SUFFICES ASSUME NEW i \in Held', mem'[i] # H PROVE mem'[i] \in Kept'
    BY DEF Closed
  <2> QED  BY <1>4, <1>5, <1>6, <1>9, <1>11, <1>12 DEF IInv, Closed
<1>15. TriColor'
  <2>1. TracedBlocks' = TracedBlocks \cup {b} /\ TracedBlocks \subseteq Block
    BY <1>1, <1>2, <1>3, <1>7, <1>8 DEF TracedBlocks
  <2> SUFFICES ASSUME NEW i \in Frames \cup In(TracedBlocks) \cup In({b}), mem'[i] # H
               PROVE  color'[mem'[i]] \in {mutator, propagator}
    BY <1>2, <2>1 DEF TriColor, In
  <2>2. CASE i = l  BY <1>5, <1>7, <2>2
  <2>3. CASE i = n  BY <1>1, <1>5, <1>6, <1>7, <2>3
  <2>4. CASE i # l /\ i # n
    <3>1. i \in Places  BY <1>4, <2>1, PlaceFacts
    <3>2. i \in Frames \cup In(TracedBlocks)  BY <1>4, <1>5, <2>4, <3>1, SMTT(30)
    <3>3. mem'[i] = mem[i] /\ mem[i] \in Block  BY <1>5, <2>4, <3>1 DEF IInv, TypeOK, Pointer
    <3>4. color[mem[i]] \in {mutator, propagator}  BY <3>2, <3>3 DEF IInv, TriColor
    <3> QED  BY <1>7, <3>3, <3>4
  <2> QED  BY <2>2, <2>3, <2>4
<1>16. Behind'
  <2> SUFFICES ASSUME NEW c \in allocated \cup {b}, c < ptr
               PROVE  color'[c] # sweeper /\ (nprop' \/ color'[c] # propagator)
    BY <1>2, <1>8 DEF Behind
  <2>1. c \in Block  BY <1>1
  <2>2. CASE c = b  BY <1>3, <1>7, <2>2
  <2>3. CASE c # b
    <3>1. color[c] # sweeper /\ (nprop \/ color[c] # propagator)  BY <2>3 DEF IInv, Behind
    <3>2. nprop' \/ color'[c] # propagator
      <4>1. CASE nprop  BY <4>1 DEF cons
      <4>2. CASE c = w /\ color[c] # mutator
        <5>1. c \in Refs({l})  BY <2>1, <4>2, PlaceFacts DEF Refs
        <5> QED  BY <4>2, <5>1 DEF cons, Shades
      <4>3. CASE ~nprop /\ ~(c = w /\ color[c] # mutator)  BY <1>7, <2>1, <2>3, <3>1, <4>3
      <4> QED  BY <4>1, <4>2, <4>3
    <3> QED  BY <1>3, <1>7, <2>1, <2>3, <3>1, <3>2
  <2> QED  BY <2>2, <2>3
<1>17. PendOK'
  <2>1. \A i \in In(Block \ allocated') : pend'[i] = 0 => mem'[i] = H
    <3> SUFFICES ASSUME NEW i \in In(Block \ allocated'), i \in In(Block \ allocated)
                 PROVE  mem'[i] = H
      BY <1>8 DEF In
    <3>1. i \in Places /\ i \notin Frames  BY PlaceFacts
    <3>2. i \notin In(Kept) /\ i # n  BY <1>1, <1>8 DEF In
    <3>3. pend[i] = 0  BY <1>1, <3>1 DEF Pending
    <3>4. mem[i] = H  BY <3>3 DEF IInv, PendOK
    <3> QED  BY <1>1, <1>5, <3>1, <3>2, <3>4
  <2> QED  BY <1>2, <1>10, <2>1 DEF PendOK
<1>18. RefCovers'
  <2> SUFFICES ASSUME NEW c \in Kept \cup {b} PROVE Cardinality(Holders(c)') <= ref'[c]
    BY <1>9 DEF RefCovers
  <2>1. /\ Holders(c) = {i \in Held : mem[i] = c}
        /\ Holders(c)' = {i \in Held' : mem'[i] = c}
    BY DEF Holders, Held, Pending
  <2>2. c \in Block /\ c # H /\ IsFiniteSet(Holders(c)) /\ Cardinality(Holders(c)) \in Nat
    BY <1>1, HoldersFinite, PlaceFacts DEF IInv
  <2>3. CASE c = b
    <3>1. Holders(c) = {}  BY <1>4, <2>1, <2>3
    <3>2. Holders(c)' \subseteq Holders(c) \cup {l}
      BY <1>4, <1>5, <1>6, <1>11, <1>12, <2>1, <2>2, <2>3
    <3>3. /\ Cardinality(Holders(c)') \in Nat
          /\ Cardinality(Holders(c)') <= Cardinality(Holders(c)) + 1
      BY <2>2, <3>2, CardAdd
    <3>4. Cardinality(Holders(c)) = 0 /\ ref'[c] = 1
      BY <1>0, <2>3, <3>1, FS_EmptySet DEF heap, IInv, TypeOK
    <3> QED  BY <3>3, <3>4
  <2>4. CASE c # b
    <3>1. ref'[c] = ref[c] /\ ref[c] \in Nat /\ Cardinality(Holders(c)) <= ref[c]
      BY <1>0, <2>2, <2>4 DEF heap, IInv, TypeOK, RefCovers
    <3>2. CASE c = w
      <4>1. l \in Holders(c) /\ Holders(c)' \subseteq (Holders(c) \ {l}) \cup {n}
        BY <1>1, <1>4, <1>5, <1>11, <1>12, <2>1, <2>2, <2>4, <3>2
      <4>2. /\ Cardinality(Holders(c)') \in Nat
            /\ Cardinality(Holders(c)') <= Cardinality(Holders(c))
        BY <2>2, <4>1, CardSwap, SMTT(30)
      <4> QED  BY <2>2, <3>1, <4>2
    <3>3. CASE c # w
      <4>1. Holders(c)' \subseteq Holders(c)
        BY <1>1, <1>4, <1>5, <1>11, <1>12, <2>1, <2>2, <2>4, <3>3
      <4>2. /\ Cardinality(Holders(c)') \in Nat
            /\ Cardinality(Holders(c)') <= Cardinality(Holders(c))
        BY <2>2, <4>1, CardLeq
      <4> QED  BY <2>2, <3>1, <4>2
    <3> QED  BY <3>2, <3>3
  <2> QED  BY <2>3, <2>4
<1> QED  BY <1>13, <1>14, <1>15, <1>16, <1>17, <1>18 DEF IInv

-----------------------------------------------------------------------------
(* destroy *)

\* A set of at most one element, and that element.
LEMMA CardOne ==
    ASSUME NEW S, IsFiniteSet(S), NEW x \in S, Cardinality(S) <= 1
    PROVE  S = {x}
<1> SUFFICES ASSUME NEW y \in S, y # x PROVE FALSE  OBVIOUS
<1>1. {y} \subseteq S \ {x}  OBVIOUS
<1>2. Cardinality({y}) <= Cardinality(S) - 1 /\ Cardinality(S) \in Nat  BY <1>1, CardDrop
<1>3. Cardinality({y}) = 1  BY FS_Singleton
<1> QED  BY <1>2, <1>3

\* One call of destroy.
LEMMA DestroyStep ==
    ASSUME IInv, NEW l \in Places, destroy(l) PROVE IInv'
<1> DEFINE v == mem[l]
           freed == ref[v] = 1 /\ pend[l] <= MaxHalt + 1
           inner == {i \in In({v}) : freed /\ mem[i] # H}
<1>1. /\ pend[l] # 0 /\ l \in Pending /\ l \in Held
      /\ ref' = [ref EXCEPT ![v] = @ - 1]
      /\ allocated' = IF freed THEN allocated \ {v} ELSE allocated
      /\ mem' = [mem EXCEPT ![l] = H]
      /\ pend' = [i \in Places |-> IF i = l THEN 0
                                   ELSE IF i \in inner THEN pend[l] + 1 ELSE pend[i]]
  BY DEF destroy, Pending, Held
<1>2. /\ color' = color /\ gccolor' = gccolor /\ nprop' = nprop /\ ptr' = ptr
      /\ epochs' = epochs /\ sweeper' = sweeper /\ mutator' = mutator
  BY DEF destroy, gcv, sweeper, mutator
<1>3. /\ v # H /\ v \in Kept /\ Kept \subseteq allocated /\ allocated \subseteq Block
      /\ l \notin Frames /\ l \notin In(allocated) /\ ptr # N + 1
  BY <1>1 DEF IInv, PendOK, Closed, Kept, TypeOK, NoDestroy
<1>4. /\ In(Kept) \subseteq In(allocated) /\ In({v}) \subseteq In(Kept)
      /\ In(allocated) \subseteq Places /\ l \notin inner /\ inner \subseteq In({v})
      /\ \A i \in Pending : i \notin In(allocated) /\ i \notin Frames
  BY <1>3 DEF In, Places, IInv, PendOK
<1>5. /\ Held \subseteq Places
      /\ \A c : Holders(c) = {i \in Held : mem[i] = c}
      /\ \A c : Holders(c)' = {i \in Held' : mem'[i] = c}
  BY <1>4, PlaceFacts DEF Held, Holders, Pending
<1>6. /\ l \in Holders(v) /\ IsFiniteSet(Holders(v)) /\ Cardinality(Holders(v)) \in Nat
      /\ Cardinality(Holders(v)) <= ref[v] /\ ref[v] \in Nat
  BY <1>1, <1>3, <1>5, HoldersFinite DEF IInv, RefCovers, TypeOK
<1>7. ref[v] - 1 \in Nat
  <2>1. Cardinality({}) \in Nat /\ Cardinality({}) <= Cardinality(Holders(v)) - 1
    BY <1>6, CardDrop
  <2> QED  BY <1>6, <2>1
<1>8. freed => Holders(v) = {l}
  <2> SUFFICES ASSUME freed PROVE Holders(v) = {l}  OBVIOUS
  <2>1. Cardinality(Holders(v)) <= 1  BY <1>6
  <2> QED  BY <1>6, <2>1, CardOne
<1>9. mem' \in [Places -> Pointer] /\ mem'[l] = H
      /\ \A i \in Places : i # l => mem'[i] = mem[i]
  BY <1>1 DEF IInv, TypeOK, Pointer
<1>10. /\ pend' \in [Places -> Nat]
       /\ Pending' = (Pending \ {l}) \cup inner
  <2>0. pend[l] + 1 \in Nat \ {0}  BY DEF IInv, TypeOK
  <2>1. inner \subseteq Places /\ pend[l] + 1 \in Nat \ {0}
    <3> HIDE DEF inner
    <3> QED  BY <1>4, <2>0
  <2>2. pend' \in [Places -> Nat]  BY <1>1, <2>1 DEF IInv, TypeOK
  <2>3. \A i \in Places : pend'[i] # 0 <=> i # l /\ (i \in inner \/ pend[i] # 0)
    BY <1>1, <2>1
  <2> QED  BY <1>4, <2>1, <2>2, <2>3 DEF Pending
<1>11. Kept' = IF freed THEN Kept \ {v} ELSE Kept  BY <1>1, <1>2 DEF Kept
<1>12. Held' \subseteq Held \ {l}
  <2>1. In(Kept') \subseteq In(Kept)  BY <1>11 DEF In
  <2>2. inner \subseteq In(Kept)  BY <1>4
  <2> QED  BY <1>3, <1>4, <1>10, <2>1, <2>2, SMTT(30) DEF Held
<1>13. TypeOK'
  <2>1. nprop' \in BOOLEAN  BY <1>2 DEF IInv, TypeOK
  <2>2. ref' \in [Block -> Nat]  BY <1>1, <1>3, <1>7 DEF IInv, TypeOK
  <2>3. allocated' \subseteq Block  BY <1>1, <1>3
  <2> QED  BY <1>2, <1>9, <1>10, <2>1, <2>2, <2>3 DEF IInv, TypeOK, Busy, IdleEpochs
<1>14. \A i \in Held' : i \in Held /\ i \in Places /\ i # l /\ mem'[i] = mem[i]
  BY <1>5, <1>9, <1>12
<1>15. \A i \in Held' : freed => mem[i] # v  BY <1>5, <1>8, <1>14
<1>16. Closed'
  <2> SUFFICES ASSUME NEW i \in Held', mem'[i] # H PROVE mem'[i] \in Kept'
    BY DEF Closed
  <2>1. mem[i] \in Kept  BY <1>14 DEF IInv, Closed
  <2> QED  BY <1>11, <1>14, <1>15, <2>1
<1>17. TriColor'
  <2>1. TracedBlocks' \subseteq TracedBlocks /\ TracedBlocks \subseteq allocated
    BY <1>1, <1>2 DEF TracedBlocks
  <2> SUFFICES ASSUME NEW i \in Frames \cup In(TracedBlocks), mem'[i] # H
               PROVE  color[mem'[i]] \in {mutator, propagator}
    BY <1>2, <2>1 DEF TriColor, In
  <2>2. i \in Places /\ i # l  BY <1>3, <1>4, <2>1, PlaceFacts DEF In
  <2> QED  BY <1>9, <2>2 DEF IInv, TriColor
<1>18. Behind'  BY <1>1, <1>2 DEF IInv, Behind
<1>19. PendOK'
  <2>1. \A i \in Pending' : mem'[i] # H /\ i \notin Frames \cup In(allocated')
    <3> SUFFICES ASSUME NEW i \in Pending'
                 PROVE  mem'[i] # H /\ i \notin Frames \cup In(allocated')
      OBVIOUS
    <3>1. CASE i \in Pending \ {l}
      <4>1. i \in Places  BY <3>1 DEF Pending
      <4>2. In(allocated') \subseteq In(allocated)  BY <1>1 DEF In
      <4> QED  BY <1>9, <3>1, <4>1, <4>2 DEF IInv, PendOK
    <3>2. CASE i \in inner
      <4>1. i \in Places /\ i # l /\ i \notin Frames  BY <1>3, <1>4, <3>2, PlaceFacts
      <4>2. mem[i] # H /\ freed /\ i \in In({v})  BY <3>2
      <4>3. i \notin In(allocated \ {v})  BY <4>2 DEF In
      <4> QED  BY <1>1, <1>9, <4>1, <4>2, <4>3
    <3> QED  BY <1>10, <3>1, <3>2
  <2>2. \A i \in In(Block \ allocated') : pend'[i] = 0 => mem'[i] = H
    <3> SUFFICES ASSUME NEW i \in In(Block \ allocated'), pend'[i] = 0, i # l
                 PROVE  mem'[i] = H
      BY <1>9
    <3>1. i \in Places  BY PlaceFacts
    <3>2. i \notin inner /\ pend[i] = 0  BY <1>1, <3>1 DEF IInv, TypeOK
    <3>3. CASE i \in In(Block \ allocated)  BY <1>9, <3>1, <3>2, <3>3 DEF IInv, PendOK
    <3>4. CASE i \notin In(Block \ allocated)
      <4>1. freed /\ i \in In({v})  BY <1>1, <3>4 DEF In
      <4> QED  BY <1>9, <3>1, <3>2, <4>1
    <3> QED  BY <3>3, <3>4
  <2> QED  BY <1>2, <1>3, <2>1, <2>2, SMTT(30) DEF PendOK
<1>20. RefCovers'
  <2> SUFFICES ASSUME NEW c \in Kept' PROVE Cardinality(Holders(c)') <= ref'[c]
    BY DEF RefCovers
  <2>1. /\ c \in Kept /\ c \in Block /\ IsFiniteSet(Holders(c))
        /\ Cardinality(Holders(c)) \in Nat /\ Cardinality(Holders(c)) <= ref[c] /\ ref[c] \in Nat
    BY <1>3, <1>11, HoldersFinite DEF IInv, RefCovers, TypeOK
  <2>2. Holders(c)' \subseteq Holders(c) \ {l}  BY <1>5, <1>14
  <2>3. CASE c = v
    <3>1. /\ Cardinality(Holders(c)') \in Nat
          /\ Cardinality(Holders(c)') <= Cardinality(Holders(c)) - 1
      BY <1>6, <2>1, <2>2, <2>3, CardDrop
    <3>2. ref'[c] = ref[c] - 1  BY <1>1, <2>1, <2>3 DEF IInv, TypeOK
    <3> QED  BY <2>1, <3>1, <3>2
  <2>4. CASE c # v
    <3>1. Holders(c)' \subseteq Holders(c)  BY <2>2
    <3>2. /\ Cardinality(Holders(c)') \in Nat
          /\ Cardinality(Holders(c)') <= Cardinality(Holders(c))
      BY <2>1, <3>1, CardLeq
    <3>3. ref'[c] = ref[c]  BY <1>1, <2>1, <2>4 DEF IInv, TypeOK
    <3> QED  BY <2>1, <3>2, <3>3
  <2> QED  BY <2>3, <2>4
<1> QED  BY <1>13, <1>16, <1>17, <1>18, <1>19, <1>20 DEF IInv

-----------------------------------------------------------------------------
(* The collector. *)

\* A marking that starts in a set of objects which refer to each other only stays there.
LEMMA TracedInside ==
    ASSUME TypeOK, NEW K, NEW start, NEW B, NEW c, NEW m,
           start \subseteq K, Traced(start, B, c, m),
           \A l \in In(K) : mem[l] # H => mem[l] \in K
    PROVE  B \subseteq K /\ Refs(In(B)) \subseteq K
<1> DEFINE C == B \ K
<1>1. Refs(In(B \ C)) \subseteq K
  BY DEF Refs, In
<1>2. C = {}
  <2> SUFFICES ASSUME C # {} PROVE FALSE  OBVIOUS
  <2>1. C \in SUBSET B  OBVIOUS
  <2>2. PICK b \in C : b \in start \cup Refs(In(B \ C))  BY <2>1 DEF Traced
  <2> QED  BY <1>1, <2>2
<1> QED  BY <1>1, <1>2

\* The collector starts when the machine is idle.
LEMMA IdleStep == ASSUME IInv, execatidle PROVE IInv'
<1>1. epochs' \in 0..Busy  BY DEF execatidle, Busy, IdleEpochs
<1>2. UNCHANGED <<allocated, color, ref, mem, gccolor, nprop, ptr, pend>> /\ ptr # N + 1
  BY DEF execatidle, gcv
<1>3. TypeOK'  BY <1>1, <1>2 DEF IInv, TypeOK, Busy, IdleEpochs
<1>4. Kept' = Kept /\ Pending' = Pending /\ TracedBlocks' = TracedBlocks
      /\ mutator' = mutator /\ sweeper' = sweeper /\ Held' = Held
  BY <1>2 DEF Kept, Pending, TracedBlocks, mutator, sweeper, Held
<1>5. Closed' /\ TriColor' /\ Behind'  BY <1>2, <1>4 DEF IInv, Closed, TriColor, Behind
<1>6. PendOK'  BY <1>2, <1>4 DEF IInv, PendOK, NoDestroy
<1>7. RefCovers'  BY <1>2, <1>4 DEF IInv, RefCovers, Holders
<1> QED  BY <1>3, <1>5, <1>6, <1>7 DEF IInv

\* What the collector finds: no call of destroy is pending.
LEMMA GcFacts ==
    ASSUME IInv, NoDestroy
    PROVE  /\ Pending = {} /\ Held = Frames \cup In(Kept)
           /\ Kept \subseteq allocated /\ allocated \subseteq Block
           /\ Held \subseteq Places
           /\ \A l \in Frames \cup In(Kept) : mem[l] # H => mem[l] \in Kept
<1>1. Pending = {}  BY DEF NoDestroy, Pending
<1>2. Held = Frames \cup In(Kept)  BY <1>1 DEF Held
<1>3. Kept \subseteq allocated /\ allocated \subseteq Block  BY DEF Kept, IInv, TypeOK
<1> QED  BY <1>1, <1>2, <1>3, PlaceFacts DEF IInv, Closed

\* A pass inspects a propagator.
LEMMA TraceStep ==
    ASSUME IInv, NoDestroy, epochs > 0, ptr \in allocated, color[ptr] = propagator, ptr' = ptr + 1,
           NEW B \in SUBSET Block,
           Traced(Refs(In({ptr})), B, [color EXCEPT ![ptr] = mutator], mutator),
           color' = MarkFrom(Refs(In({ptr})), B, [color EXCEPT ![ptr] = mutator], mutator),
           nprop' = (nprop \/ Shades([color EXCEPT ![ptr] = mutator],
                                     Refs(In({ptr})) \cup Refs(In(B)), mutator)),
           UNCHANGED <<allocated, mem, ref, gccolor, pend, epochs>>
    PROVE  IInv'
<1> DEFINE c == [color EXCEPT ![ptr] = mutator]
           X == Refs(In({ptr})) \cup Refs(In(B))
<1>1. /\ Pending = {} /\ Held = Frames \cup In(Kept)
      /\ Kept \subseteq allocated /\ allocated \subseteq Block
      /\ \A l \in Frames \cup In(Kept) : mem[l] # H => mem[l] \in Kept
  BY GcFacts
<1>2. /\ mutator' = mutator /\ sweeper' = sweeper  BY DEF mutator, sweeper
<1>3. /\ propagator # sweeper /\ mutator # sweeper /\ propagator # mutator /\ mutator \in 0..2
      /\ propagator \in 0..3
  BY ColorFacts DEF IInv, TypeOK, propagator
<1>4. ptr \in Kept /\ ptr \in Block  BY <1>1, <1>3 DEF Kept
<1>5. Refs(In({ptr})) \subseteq Kept  BY <1>1, <1>4 DEF Refs, In
<1>6. B \subseteq Kept /\ X \subseteq Kept
  <2>1. \A l \in In(Kept) : mem[l] # H => mem[l] \in Kept  BY <1>1
  <2>2. TypeOK  BY DEF IInv
  <2>3. Traced(Refs(In({ptr})), B, c, mutator)  OBVIOUS
  <2> HIDE DEF c
  <2>4. B \subseteq Kept /\ Refs(In(B)) \subseteq Kept
    BY <1>5, <2>1, <2>2, <2>3, TracedInside
  <2> QED  BY <1>5, <2>4
<1>7. \A b \in Block : c[b] = IF b = ptr THEN mutator ELSE color[b]
  BY <1>4 DEF IInv, TypeOK
<1>8. /\ color' \in [Block -> 0..3]
      /\ \A b \in Block : color'[b] = IF b \in B \/ b = ptr THEN mutator
                                      ELSE IF b \in X /\ color[b] # mutator THEN propagator
                                      ELSE color[b]
  <2>1. color' = [b \in Block |-> IF b \in B THEN mutator
                                  ELSE IF b \in X /\ c[b] # mutator THEN propagator ELSE c[b]]
    BY DEF MarkFrom, Shaded
  <2> HIDE DEF c, X
  <2>2. \A b \in Block : color[b] \in 0..3  BY DEF IInv, TypeOK
  <2>3. \A b \in Block : color'[b] = IF b \in B THEN mutator
                          ELSE IF b \in X /\ c[b] # mutator THEN propagator ELSE c[b]
    BY <2>1
  <2>4. \A b \in Block : color'[b] = IF b \in B \/ b = ptr THEN mutator
                          ELSE IF b \in X /\ color[b] # mutator THEN propagator
                          ELSE color[b]
    BY <1>7, <2>3
  <2>5. ASSUME NEW b \in Block PROVE color'[b] \in 0..3
    <3>1. color'[b] = mutator \/ color'[b] = propagator \/ color'[b] = color[b]  BY <2>4
    <3>2. mutator \in 0..3 /\ propagator \in 0..3 /\ color[b] \in 0..3  BY <1>3, <2>2
    <3> QED  BY <3>1, <3>2
  <2> QED  BY <2>1, <2>4, <2>5
<1> HIDE DEF c, X
<1>9. Kept' = Kept  BY <1>1, <1>2, <1>3, <1>4, <1>6, <1>8 DEF Kept
<1>10. Pending' = Pending /\ Held' = Held  BY <1>9 DEF Held, Pending
<1>11. TypeOK'
  <2>1. nprop' \in BOOLEAN  BY DEF IInv, TypeOK
  <2>2. ptr' \in 1..(N + 1)  BY <1>4, GcAssumption DEF Block
  <2> QED  BY <1>8, <2>1, <2>2 DEF IInv, TypeOK, Busy, IdleEpochs
<1>12. Closed'  BY <1>9, <1>10 DEF IInv, Closed
<1>13. TriColor'
  <2>1. TracedBlocks' = TracedBlocks \cup {ptr} \cup B /\ TracedBlocks' \subseteq Block
    BY <1>1, <1>2, <1>3, <1>4, <1>6, <1>8 DEF TracedBlocks
  <2> SUFFICES ASSUME NEW i \in Frames \cup In(TracedBlocks'), mem[i] # H
               PROVE  color'[mem[i]] \in {mutator, propagator}
    BY <1>2 DEF TriColor
  <2>2. mem[i] \in Block
    BY <2>1, PlaceFacts DEF IInv, TypeOK, Pointer
  <2>3. CASE i \in Frames \cup In(TracedBlocks)
    <3>1. color[mem[i]] \in {mutator, propagator}  BY <2>3 DEF IInv, TriColor
    <3> QED  BY <1>8, <2>2, <3>1
  <2>4. CASE i \in In({ptr}) \cup In(B)
    <3>1. mem[i] \in X  BY <2>4 DEF Refs, X
    <3> QED  BY <1>8, <2>2, <3>1
  <2> QED  BY <2>1, <2>3, <2>4 DEF In
<1>14. Behind'
  <2> SUFFICES ASSUME NEW b \in allocated, b < ptr + 1
               PROVE  color'[b] # sweeper /\ (nprop' \/ color'[b] # propagator)
    BY <1>2 DEF Behind
  <2>1. b \in Block  BY <1>1
  <2>2. CASE b = ptr \/ b \in B  BY <1>3, <1>8, <2>1, <2>2
  <2>3. CASE b # ptr /\ b \notin B
    <3>1. b < ptr  BY <1>4, <2>1, <2>3 DEF Block
    <3>2. color[b] # sweeper /\ (nprop \/ color[b] # propagator)
      BY <3>1 DEF IInv, Behind
    <3>3. nprop' \/ color'[b] # propagator
      <4>1. CASE nprop  BY <4>1
      <4>2. CASE b \in X /\ c[b] # mutator  BY <4>2 DEF Shades, c, X
      <4>3. CASE ~nprop /\ ~(b \in X /\ c[b] # mutator)
        BY <1>7, <1>8, <2>1, <2>3, <3>2, <4>3
      <4> QED  BY <4>1, <4>2, <4>3
    <3> QED  BY <1>3, <1>8, <2>1, <2>3, <3>2, <3>3
  <2> QED  BY <2>2, <2>3
<1>15. PendOK'
  BY <1>10 DEF IInv, PendOK, NoDestroy
<1>16. RefCovers'
  BY <1>9, <1>10 DEF IInv, RefCovers, Holders, Pending
<1> QED  BY <1>11, <1>12, <1>13, <1>14, <1>15, <1>16 DEF IInv

\* A pass inspects a block that was not reached in the epoch before.
LEMMA SweepStep ==
    ASSUME IInv, NoDestroy, epochs > 0, ptr \in allocated, color[ptr] = sweeper, ptr' = ptr + 1,
           allocated' = allocated \ {ptr},
           ref' = [ref EXCEPT ![ptr] = 0],
           mem' = [l \in Places |-> IF l \in In({ptr}) THEN H ELSE mem[l]],
           UNCHANGED <<color, nprop, gccolor, pend, epochs>>
    PROVE  IInv'
<1>1. /\ Pending = {} /\ Held = Frames \cup In(Kept) /\ Held \subseteq Places
      /\ Kept \subseteq allocated /\ allocated \subseteq Block
  BY GcFacts
<1>2. /\ mutator' = mutator /\ sweeper' = sweeper /\ mutator # sweeper
  BY ColorFacts DEF mutator, sweeper, IInv, TypeOK
<1>3. Kept' = Kept /\ ptr \notin Kept  BY <1>2 DEF Kept
<1>4. Pending' = {} /\ Held' = Held  BY <1>1, <1>3 DEF Pending, Held
<1>5. \A i \in Held : i \notin In({ptr})  BY <1>1, <1>3, PlaceFacts DEF In
<1>6. \A i \in Held : mem'[i] = mem[i]  BY <1>1, <1>5
<1>7. TypeOK'
  <2>1. nprop' \in BOOLEAN  BY DEF IInv, TypeOK
  <2>2. ptr' \in 1..(N + 1)  BY <1>1, GcAssumption DEF Block
  <2>3. mem' \in [Places -> Pointer]  BY DEF IInv, TypeOK, Pointer
  <2>4. ref' \in [Block -> Nat]  BY DEF IInv, TypeOK
  <2> QED  BY <2>1, <2>2, <2>3, <2>4 DEF IInv, TypeOK, Busy, IdleEpochs
<1>8. Closed'  BY <1>3, <1>4, <1>6 DEF IInv, Closed
<1>9. TriColor'
  <2>1. TracedBlocks' = TracedBlocks /\ TracedBlocks \subseteq Kept
    BY <1>2 DEF TracedBlocks, Kept
  <2>2. Frames \cup In(TracedBlocks) \subseteq Held  BY <1>1, <2>1 DEF In
  <2> QED  BY <1>2, <1>6, <2>1, <2>2 DEF IInv, TriColor
<1>10. Behind'
  <2> SUFFICES ASSUME NEW b \in allocated \ {ptr}, b < ptr + 1
               PROVE  color[b] # sweeper /\ (nprop \/ color[b] # propagator)
    BY <1>2 DEF Behind
  <2>1. b < ptr  BY <1>1 DEF Block
  <2> QED  BY <2>1 DEF IInv, Behind
<1>11. PendOK'
  <2>1. \A i \in In(Block \ allocated') : mem'[i] = H
    <3> SUFFICES ASSUME NEW i \in In(Block \ allocated'), i \notin In({ptr})
                 PROVE  mem'[i] = H
      BY PlaceFacts, SMTT(30)
    <3>1. i \in In(Block \ allocated) /\ i \in Places  BY PlaceFacts DEF In
    <3>2. pend[i] = 0  BY <3>1 DEF NoDestroy
    <3> QED  BY <3>1, <3>2 DEF IInv, PendOK
  <2> QED  BY <1>4, <2>1, SMTT(30) DEF PendOK, NoDestroy
<1>12. RefCovers'
  <2> SUFFICES ASSUME NEW b \in Kept PROVE Cardinality(Holders(b)') <= ref'[b]
    BY <1>3 DEF RefCovers
  <2>1. Holders(b)' = Holders(b)
    <3>1. /\ Holders(b) = {i \in Held : mem[i] = b}
          /\ Holders(b)' = {i \in Held' : mem'[i] = b}
      BY DEF Holders, Held, Pending
    <3> QED  BY <1>4, <1>6, <3>1, SMTT(30)
  <2>2. ref'[b] = ref[b]  BY <1>1, <1>3 DEF IInv, TypeOK
  <2> QED  BY <2>1, <2>2 DEF IInv, RefCovers
<1> QED  BY <1>7, <1>8, <1>9, <1>10, <1>11, <1>12 DEF IInv

\* rungc
LEMMA RungcStep == ASSUME IInv, rungc PROVE IInv'
<1>1. NoDestroy /\ epochs > 0 /\ ptr \in Block /\ ptr' = ptr + 1
      /\ UNCHANGED <<gccolor, pend, epochs>>
  BY DEF rungc
<1>2. CASE ptr \in allocated /\ color[ptr] = propagator
  <2>1. color[ptr] # sweeper  BY <1>2, ColorFacts DEF IInv, TypeOK
  <2>2. PICK B \in SUBSET Block :
          /\ Traced(Refs(In({ptr})), B, [color EXCEPT ![ptr] = mutator], mutator)
          /\ color' = MarkFrom(Refs(In({ptr})), B, [color EXCEPT ![ptr] = mutator], mutator)
          /\ nprop' = (nprop \/ Shades([color EXCEPT ![ptr] = mutator],
                                       Refs(In({ptr})) \cup Refs(In(B)), mutator))
    BY <1>2, <2>1, Zenon DEF rungc
  <2>3. UNCHANGED <<allocated, mem, ref>>  BY <1>2, <2>1 DEF rungc
  <2> QED  BY <1>1, <1>2, <2>2, <2>3, TraceStep
<1>3. CASE ptr \in allocated /\ color[ptr] = sweeper
  <2>1. color[ptr] # propagator  BY <1>3, ColorFacts DEF IInv, TypeOK
  <2> QED  BY <1>1, <1>3, <2>1, SweepStep DEF rungc
<1>4. CASE ptr \notin allocated \/ color[ptr] \notin {propagator, sweeper}
  <2>1. UNCHANGED <<allocated, color, ref, mem, nprop>>  BY <1>4 DEF rungc
  <2>2. TypeOK'
    <3>1. ptr' \in 1..(N + 1)  BY <1>1, GcAssumption DEF Block
    <3> QED  BY <1>1, <2>1, <3>1 DEF IInv, TypeOK, Busy, IdleEpochs
  <2>3. Behind'
    <3> SUFFICES ASSUME NEW b \in allocated, b < ptr + 1
                 PROVE  color[b] # sweeper /\ (nprop \/ color[b] # propagator)
      BY <1>1, <2>1 DEF Behind, sweeper
    <3>1. b = ptr \/ b < ptr  BY <1>1 DEF IInv, TypeOK, Block
    <3> QED  BY <1>4, <3>1 DEF IInv, Behind
  <2>4. Closed' /\ TriColor' /\ RefCovers'
    BY <1>1, <2>1 DEF IInv, Closed, TriColor, RefCovers, Held, Pending, Kept, TracedBlocks,
       Holders, mutator, sweeper
  <2>5. PendOK'  BY <1>1, <2>1 DEF IInv, PendOK, Pending, NoDestroy
  <2> QED  BY <2>2, <2>3, <2>4, <2>5 DEF IInv
<1> QED  BY <1>2, <1>3, <1>4

\* A pass ends without an epoch.
LEMMA PassStep ==
    ASSUME IInv, ptr = N + 1, ptr' = 1, nprop' = FALSE,
           UNCHANGED <<allocated, ref, mem, pend, color, gccolor, epochs>>
    PROVE  IInv'
<1>1. TypeOK'
  <2>1. nprop' \in BOOLEAN  OBVIOUS
  <2>2. ptr' \in 1..(N + 1)  BY GcAssumption
  <2> QED  BY <2>1, <2>2 DEF IInv, TypeOK, Busy, IdleEpochs
<1>2. Kept' = Kept /\ Pending' = Pending /\ TracedBlocks' = TracedBlocks
      /\ mutator' = mutator /\ sweeper' = sweeper /\ Held' = Held
  BY DEF Kept, Pending, TracedBlocks, mutator, sweeper, Held
<1>3. Closed' /\ TriColor'  BY <1>2 DEF IInv, Closed, TriColor
<1>4. Behind'
  <2>1. \A b \in allocated' : ~(b < ptr')  BY DEF IInv, TypeOK, Block
  <2> QED  BY <2>1 DEF Behind
<1>5. PendOK'  BY <1>2 DEF IInv, PendOK, NoDestroy
<1>6. RefCovers'  BY <1>2 DEF IInv, RefCovers, Holders
<1> QED  BY <1>1, <1>3, <1>4, <1>5, <1>6 DEF IInv

\* An epoch ends: everything allocated is traced or garbage, and the roots are marked anew.
LEMMA EpochStep ==
    ASSUME IInv, ptr = N + 1, ptr' = 1, ~nprop, gccolor' = (gccolor + 1) % 3,
           NEW B \in SUBSET Block,
           Traced(Refs(Frames), B, color, gccolor'),
           color' = MarkFrom(Refs(Frames), B, color, gccolor'),
           nprop' = Shades(color, Refs(Frames) \cup Refs(In(B)), gccolor'),
           epochs' = (IF epochs = Busy THEN Busy ELSE epochs - 1),
           UNCHANGED <<allocated, ref, mem, pend>>
    PROVE  IInv'
<1> DEFINE M == TracedBlocks
           X == Refs(Frames) \cup Refs(In(B))
<1>1. /\ NoDestroy /\ allocated \subseteq Block /\ color \in [Block -> 0..3] /\ gccolor \in 0..2
      /\ epochs # 0
  BY DEF IInv, PendOK, TypeOK
<1>2. /\ Pending = {} /\ Held = Frames \cup In(Kept) /\ Held \subseteq Places
      /\ Kept \subseteq allocated
  BY <1>1, GcFacts
<1>3. /\ gccolor' = sweeper /\ mutator' = sweeper /\ sweeper' = marker
      /\ mutator # sweeper /\ mutator # marker /\ marker # sweeper
      /\ propagator \notin {mutator, marker, sweeper}
      /\ \A x \in 0..3 : x \in {mutator, marker, sweeper, propagator}
      /\ sweeper \in 0..2
  <2>1. gccolor' = sweeper  BY <1>1, ColorFacts
  <2>2. mutator' = sweeper  BY <2>1 DEF mutator
  <2>3. sweeper' = (sweeper + 1) % 3  BY <2>1 DEF sweeper
  <2> QED  BY <1>1, <2>1, <2>2, <2>3, ColorFacts
<1>4. \A b \in allocated : color[b] \in {mutator, marker}
  <2> SUFFICES ASSUME NEW b \in allocated PROVE color[b] \in {mutator, marker}  OBVIOUS
  <2>1. b \in Block /\ b < ptr  BY <1>1, GcAssumption DEF Block
  <2>2. color[b] # sweeper /\ color[b] # propagator  BY <2>1 DEF IInv, Behind
  <2> QED  BY <1>1, <1>3, <2>1, <2>2
<1>5. M \subseteq Kept /\ M \subseteq Block /\ M \subseteq allocated
  BY <1>1, <1>3 DEF TracedBlocks, Kept
<1>6. \A l \in Frames \cup In(M) : mem[l] # H => mem[l] \in M
  <2> SUFFICES ASSUME NEW l \in Frames \cup In(M), mem[l] # H PROVE mem[l] \in M
    OBVIOUS
  <2>1. l \in Held  BY <1>2, <1>5 DEF In
  <2>2. mem[l] \in allocated  BY <1>2, <2>1 DEF IInv, Closed
  <2>3. color[mem[l]] \in {mutator, propagator}  BY DEF IInv, TriColor
  <2> QED  BY <1>3, <1>4, <2>2, <2>3 DEF TracedBlocks
<1>7. B \subseteq M /\ X \subseteq M
  <2>1. Refs(Frames) \subseteq M  BY <1>6 DEF Refs
  <2>2. TypeOK  BY DEF IInv
  <2>3. B \subseteq M /\ Refs(In(B)) \subseteq M
    BY <1>6, <2>1, <2>2, TracedInside
  <2> QED  BY <2>1, <2>3
<1>8. \A b \in Block : color'[b] = IF b \in B THEN sweeper
                                   ELSE IF b \in X /\ color[b] # sweeper THEN propagator
                                   ELSE color[b]
  BY <1>3 DEF MarkFrom, Shaded
<1>9. color' \in [Block -> 0..3]
  <2>1. \A b \in Block : color'[b] \in 0..3
    <3> SUFFICES ASSUME NEW b \in Block PROVE color'[b] \in 0..3  OBVIOUS
    <3>1. color'[b] = sweeper \/ color'[b] = propagator \/ color'[b] = color[b]  BY <1>8
    <3>2. sweeper \in 0..3 /\ propagator \in 0..3 /\ color[b] \in 0..3
      BY <1>1, <1>3 DEF propagator
    <3> QED  BY <3>1, <3>2
  <2> QED  BY <2>1 DEF MarkFrom
<1> HIDE DEF X
<1>10. Kept' = M
  <2>1. \A b \in allocated : color'[b] # marker <=> color[b] = mutator
    <3> SUFFICES ASSUME NEW b \in allocated PROVE color'[b] # marker <=> color[b] = mutator
      OBVIOUS
    <3>1. b \in Block  BY <1>1
    <3>2. b \in B \/ b \in X => color[b] = mutator  BY <1>7 DEF TracedBlocks
    <3> QED  BY <1>3, <1>4, <1>8, <3>1, <3>2
  <2> QED  BY <1>3, <2>1 DEF Kept, TracedBlocks
<1>11. Pending' = {}  BY <1>2 DEF Pending
<1>12. Held' = Frames \cup In(M) /\ Held' \subseteq Held
  BY <1>2, <1>5, <1>10, <1>11 DEF Held, In
<1>13. TypeOK'
  <2>1. nprop' \in BOOLEAN  BY DEF Shades
  <2>2. ptr' \in 1..(N + 1)  BY GcAssumption
  <2>3. gccolor' \in 0..2  BY <1>3
  <2>4. epochs' \in 0..Busy'  BY <1>1 DEF IInv, TypeOK, Busy, IdleEpochs
  <2> QED  BY <1>9, <2>1, <2>2, <2>3, <2>4 DEF IInv, TypeOK
<1>14. Closed'  BY <1>6, <1>10, <1>12 DEF Closed
<1>15. TriColor'
  <2>1. TracedBlocks' \subseteq B
    <3> SUFFICES ASSUME NEW b \in allocated, color'[b] = sweeper PROVE b \in B
      BY <1>3 DEF TracedBlocks
    <3> QED  BY <1>1, <1>3, <1>4, <1>8
  <2> SUFFICES ASSUME NEW i \in Frames \cup In(B), mem[i] # H
               PROVE  color'[mem[i]] \in {sweeper, propagator}
    BY <1>3, <2>1 DEF TriColor, In
  <2>2. mem[i] \in X  BY DEF X, Refs
  <2>3. mem[i] \in allocated /\ mem[i] \in Block  BY <1>1, <1>5, <1>7, <2>2
  <2> QED  BY <1>3, <1>4, <1>8, <2>2, <2>3
<1>16. Behind'
  <2>1. \A b \in allocated' : ~(b < ptr')  BY <1>1 DEF Block
  <2> QED  BY <2>1 DEF Behind
<1>17. PendOK'
  <2>1. ptr' # N + 1  BY GcAssumption
  <2> QED  BY <1>11, <2>1 DEF IInv, PendOK
<1>18. RefCovers'
  <2> SUFFICES ASSUME NEW b \in M PROVE Cardinality(Holders(b)') <= ref[b]
    BY <1>10 DEF RefCovers
  <2>1. /\ Holders(b) = {i \in Held : mem[i] = b}
        /\ Holders(b)' = {i \in Held' : mem[i] = b}
    BY DEF Holders, Held, Pending
  <2>2. IsFiniteSet(Holders(b)) /\ Cardinality(Holders(b)) \in Nat  BY HoldersFinite DEF IInv
  <2>3. Holders(b)' \subseteq Holders(b)  BY <1>12, <2>1
  <2>4. Cardinality(Holders(b)') \in Nat /\ Cardinality(Holders(b)') <= Cardinality(Holders(b))
    BY <2>2, <2>3, CardLeq
  <2>5. Cardinality(Holders(b)) <= ref[b] /\ ref[b] \in Nat
    BY <1>5 DEF IInv, RefCovers, TypeOK
  <2> QED  BY <2>2, <2>4, <2>5
<1> QED  BY <1>13, <1>14, <1>15, <1>16, <1>17, <1>18 DEF IInv

\* endpass
LEMMA EndpassStep == ASSUME IInv, endpass PROVE IInv'
<1>1. ptr = N + 1 /\ ptr' = 1 /\ UNCHANGED <<allocated, ref, mem, pend>>  BY DEF endpass
<1>2. CASE nprop
  <2>1. nprop' = FALSE /\ UNCHANGED <<color, gccolor, epochs>>  BY <1>2, Zenon DEF endpass
  <2> QED  BY <1>1, <2>1, PassStep
<1>3. CASE ~nprop
  <2>1. /\ gccolor' = (gccolor + 1) % 3
        /\ epochs' = (IF epochs = Busy THEN Busy ELSE epochs - 1)
    BY <1>3, Zenon DEF endpass
  <2>2. PICK B \in SUBSET Block :
          /\ Traced(Refs(Frames), B, color, gccolor')
          /\ color' = MarkFrom(Refs(Frames), B, color, gccolor')
          /\ nprop' = Shades(color, Refs(Frames) \cup Refs(In(B)), gccolor')
    BY <1>3, Zenon DEF endpass
  <2> QED  BY <1>1, <1>3, <2>1, <2>2, EpochStep, Zenon
<1> QED  BY <1>2, <1>3

-----------------------------------------------------------------------------
(* The theorems. *)

\* The invariant holds in every state, for every size of the heap and of its objects.
THEOREM Invariance == Spec => []IInv
<1>1. Init => IInv  BY InitIInv
<1>2. IInv /\ [Next]_vars => IInv'
  <2> SUFFICES ASSUME IInv, [Next]_vars PROVE IInv'  OBVIOUS
  <2>1. CASE UNCHANGED vars
    <3>1. UNCHANGED <<allocated, color, ref, mem, gccolor, nprop, ptr, pend, epochs>>
      BY <2>1 DEF vars, gcv
    <3>2. Kept' = Kept /\ Pending' = Pending /\ TracedBlocks' = TracedBlocks
          /\ mutator' = mutator /\ sweeper' = sweeper /\ Held' = Held
      BY <3>1 DEF Kept, Pending, TracedBlocks, mutator, sweeper, Held
    <3>3. TypeOK'  BY <3>1 DEF IInv, TypeOK, Busy, IdleEpochs
    <3>4. Closed' /\ TriColor' /\ Behind'  BY <3>1, <3>2 DEF IInv, Closed, TriColor, Behind
    <3>5. PendOK'  BY <3>1, <3>2 DEF IInv, PendOK, NoDestroy
    <3>6. RefCovers'  BY <3>1, <3>2 DEF IInv, RefCovers, Holders
    <3> QED  BY <3>3, <3>4, <3>5, <3>6 DEF IInv
  <2>2. CASE \E l \in Places : new(l)  BY <2>2, NewStep
  <2>3. CASE \E l \in Places, f \in Fields : cons(l, f)  BY <2>3, ConsStep
  <2>4. CASE \E l \in Places, v \in Pointer : movp(l, v)  BY <2>4, MovpStep
  <2>5. CASE \E l \in Places : destroy(l)  BY <2>5, DestroyStep
  <2>6. CASE execatidle  BY <2>6, IdleStep
  <2>7. CASE rungc  BY <2>7, RungcStep
  <2>8. CASE endpass  BY <2>8, EndpassStep
  <2> QED  BY <2>1, <2>2, <2>3, <2>4, <2>5, <2>6, <2>7, <2>8 DEF Next
<1> QED  BY <1>1, <1>2, PTL DEF Spec

\* Nothing a program can get at is ever freed: not by a reference count that is too low, not
\* by a sweep of what the marking has missed.
THEOREM StorageSafe == Spec => []NoDangling
<1>1. IInv => NoDangling
  <2> SUFFICES ASSUME IInv PROVE NoDangling  OBVIOUS
  <2>1. Kept \in SUBSET Block /\ Kept \subseteq allocated  BY DEF IInv, TypeOK, Kept
  <2>2. Refs(Frames) \subseteq Kept /\ Refs(In(Kept)) \subseteq Kept
    BY DEF IInv, Closed, Held, Refs
  <2>3. Reachable \subseteq Kept  BY <2>1, <2>2 DEF Reachable
  <2> QED  BY <2>1, <2>3 DEF NoDangling, IInv
<1> QED  BY <1>1, Invariance, PTL

\* Reference counts cover the references that are left, although a sweep takes references
\* away without counting them.
THEOREM CountsCover == Spec => []RefCovers
<1>1. IInv => RefCovers  BY DEF IInv
<1> QED  BY <1>1, Invariance, PTL
=============================================================================
