------------------------- MODULE BufferCacheTheorems -------------------------
(***************************************************************************)
(* The theorems about the buffer cache and the disk driver.  The steps are *)
(* in BufferCacheProofs, under the hypothesis SetFacts; here SetFacts is   *)
(* proved from the library's theorems and the hypothesis discharged.       *)
(***************************************************************************)
EXTENDS BufferCacheProofs, FiniteSetTheorems, WellFoundedInduction, TLAPS

\* The pairs of numbers m < n.
Less == {ss \in Nat \X Nat : ss[1] < ss[2]}

\* < on the natural numbers has no infinite descent.
LEMMA LessWellFounded == IsWellFoundedOn(Less, Nat)
<1>1. OpToRel(<, Nat) = Less
  BY Zenon DEF OpToRel, Less
<1> QED BY <1>1, NatLessThanWellFounded, Zenon

\* alloc_desc() finds a descriptor if there is one.
LEMMA SmallestOfSet ==
  ASSUME NEW S \in SUBSET Nat, S # {}
  PROVE  Min(S) \in S
<1>1. PICK x \in S : \A y \in S : ~ (<<y, x>> \in Less)
  BY LessWellFounded, WFMin
<1>2. ASSUME NEW y \in S PROVE x <= y
  <2>1. ~ (<<y, x>> \in Less)
    BY <1>1
  <2>2. x \in Nat /\ y \in Nat
    OBVIOUS
  <2>3. ~ (y < x)
    BY <2>1, <2>2 DEF Less
  <2> QED BY <2>2, <2>3
<1> QED BY <1>2 DEF Min

\* bget() finds the last buffer of the list that nobody uses if there is one.
LEMMA LargestOfSet ==
  ASSUME NEW n \in Nat, NEW S \in SUBSET (1 .. n), S # {}
  PROVE  Max(S) \in S
<1> DEFINE T == {m \in Nat : n - m \in S}
<1>1. PICK i \in S : TRUE
  OBVIOUS
<1>2. n - i \in T
  OBVIOUS
<1>3. Min(T) \in T /\ T \in SUBSET Nat /\ T # {}
  BY <1>2, SmallestOfSet
<1>4. PICK x \in T : \A y \in T : ~ (<<y, x>> \in Less)
  BY <1>3, LessWellFounded, WFMin
<1>5. n - x \in S
  OBVIOUS
<1>6. ASSUME NEW j \in S PROVE n - x >= j
  <2>1. n - j \in T /\ n - j \in Nat /\ x \in Nat
    OBVIOUS
  <2>2. ~ (<<n - j, x>> \in Less)
    BY <1>4, <2>1
  <2>3. ~ (n - j < x)
    BY <2>1, <2>2 DEF Less
  <2> QED BY <2>1, <2>3
<1> QED BY <1>5, <1>6 DEF Max

\* What BufferCacheProofs uses about finite sets and sets of numbers.
LEMMA SetFactsHold == SetFacts
<1>1. ASSUME NEW S, IsFiniteSet(S)
      PROVE  /\ Cardinality(S) \in Nat
             /\ Cardinality(S) = 0 <=> S = {}
             /\ \A T \in SUBSET S : IsFiniteSet(T)
             /\ \A x : /\ IsFiniteSet(S \cup {x})
                      /\ Cardinality(S \cup {x}) = IF x \in S THEN Cardinality(S) ELSE Cardinality(S) + 1
             /\ \A x : /\ IsFiniteSet(S \ {x})
                      /\ Cardinality(S \ {x}) = IF x \in S THEN Cardinality(S) - 1 ELSE Cardinality(S)
  <2>1. Cardinality(S) \in Nat
    BY <1>1, FS_CardinalityType, Zenon
  <2>2. Cardinality(S) = 0 <=> S = {}
    BY <1>1, FS_EmptySet, Zenon
  <2>3. \A T \in SUBSET S : IsFiniteSet(T)
    BY <1>1, FS_Subset, Zenon
  <2>4. \A x : /\ IsFiniteSet(S \cup {x})
               /\ Cardinality(S \cup {x}) = IF x \in S THEN Cardinality(S) ELSE Cardinality(S) + 1
    BY <1>1, FS_AddElement, Zenon
  <2>5. \A x : /\ IsFiniteSet(S \ {x})
               /\ Cardinality(S \ {x}) = IF x \in S THEN Cardinality(S) - 1 ELSE Cardinality(S)
    BY <1>1, FS_RemoveElement, Zenon
  <2> QED BY <2>1, <2>2, <2>3, <2>4, <2>5, Zenon
<1>2. IsFiniteSet({}) /\ Cardinality({}) = 0
  BY FS_EmptySet, Zenon
<1>3. \A x : IsFiniteSet({x}) /\ Cardinality({x}) = 1
  BY FS_Singleton, Zenon
<1>4. IsFiniteSet(Descs) /\ Cardinality(Descs) = NUM
  <2>1. 0 \in Int /\ NUM - 1 \in Int /\ 0 <= NUM - 1 /\ (NUM - 1) - 0 + 1 = NUM
    BY ConstantFacts
  <2> QED BY <2>1, FS_Interval DEF Descs
<1>5. \A S \in SUBSET Nat : S # {} => Min(S) \in S
  BY SmallestOfSet, Zenon
<1>6. \A n \in Nat : \A S \in SUBSET (1 .. n) : S # {} => Max(S) \in S
  BY LargestOfSet, Zenon
<1> QED BY <1>1, <1>2, <1>3, <1>4, <1>5, <1>6, Zenon DEF SetFacts

\* The invariant of the cache, the driver and the device holds in every
\* reachable state.
THEOREM Invariance == Spec => []IInv
<1>1. Init => IInv
  BY SetFactsHold, InitIInv
<1>2. IInv /\ [Next]_vars => IInv'
  BY SetFactsHold, NextIInv
<1> QED BY <1>1, <1>2, PTL DEF Spec

\* The descriptors and the rings of virtio_disk.c are in order in every state:
\* no descriptor is in two chains or both used and free, no ring of NUM entries
\* overflows, and the device owns just the buffers of the requests it has.
THEOREM DriverSafe == Spec => []DriverInv
<1>1. IInv => DriverInv
  BY SetFactsHold, DriverInvHolds
<1> QED BY <1>1, Invariance, PTL

\* bget() never gives a block two buffers, refcnt counts everyone who has one,
\* and bwrite() returns when the disk has the block.
THEOREM CacheSafe == Spec => []CacheInv
<1>1. IInv => CacheInv
  BY SetFactsHold, CacheInvHolds
<1> QED BY <1>1, Invariance, PTL

\* A process asleep in acquiresleep() or virtio_disk_rw() has its wakeup still
\* to come, in every interleaving with the device and the interrupt handler.
THEOREM WakeupToCome == Spec => []NoLostWakeup
<1>1. IInv => NoLostWakeup
  BY DEF IInv
<1> QED BY <1>1, Invariance, PTL

\* The panics of virtio_disk.c are unreachable, and that of bget() is only
\* reached when every buffer is in use.
THEOREM PanicsJustified == Spec => []PanicsOnlyIfAllInUse
<1>1. IInv => PanicsOnlyIfAllInUse
  BY DEF IInv
<1> QED BY <1>1, Invariance, PTL

\* The buffer cache and the driver implement the block store: whatever is
\* recycled, pinned, read or written in any order, a block has one owner at a
\* time and holds what its last owner left.
THEOREM StoreImplemented == Spec => ImplementsBlockStore
<1>1. IInv /\ IInv' /\ [Next]_vars => [Store!StoreNext]_(Store!storeVars)
  <2> SUFFICES ASSUME IInv, IInv', [Next]_vars PROVE [Store!StoreNext]_(Store!storeVars)
    OBVIOUS
  <2>1. Mapped
    BY MappedHolds
  <2>2. Mapped'
    BY MappedHolds, PTL
  <2> QED BY <2>1, <2>2, SetFactsHold, StoreNextHolds
<1>2. Init => Store!StoreInit
  BY SetFactsHold, StoreInitHolds
<1> QED BY <1>1, <1>2, Invariance, PTL DEF Spec, ImplementsBlockStore, Store!StoreSpec
==============================================================================
