-------------------------- MODULE BufferCacheProofs --------------------------
(***************************************************************************)
(* Proofs about BufferCache.tla, for any number of processes, buffers,     *)
(* blocks and descriptors.                                                 *)
(***************************************************************************)
EXTENDS BufferCache, TLAPS

(***************************************************************************)
(* The inductive invariant.                                                *)
(***************************************************************************)

\* Where a process has the lock of its buffer.
Owning == {"rw", "rw_wait", "held", "written"}

Channels == {<<>>, <<"free">>} \cup ({"lock", "buf"} \X Bufs)

Requests == [b : Bufs \cup {NoBuf}, write : BOOLEAN, sector : Blocks \cup {NoBlock}, status : {"0xff", "ok"}]

CacheType ==
    /\ blockno \in [Bufs -> Blocks \cup {NoBlock}]
    /\ data \in [Bufs -> Values]
    /\ valid \subseteq Bufs /\ pinned \subseteq Bufs
    /\ refcnt \in [Bufs -> Nat]
    /\ holder \in [Bufs -> Procs \cup {NoProc}]
    /\ bp \in [Procs -> Bufs \cup {NoBuf}]
    /\ writing \in [Procs -> BOOLEAN]
    /\ pc \in [Procs -> Owning \cup {"idle", "lock", "release"}]
    /\ chan \in [Procs -> Channels]

DriverType ==
    /\ owned \subseteq Bufs
    /\ free \subseteq Descs
    /\ next \in [Descs -> Descs \cup {NoDesc}]
    /\ req \in [Descs -> Requests]
    /\ avail \in Seq(Descs) /\ used \in Seq(Descs)
    /\ serving \subseteq Descs
    /\ isr \in BOOLEAN /\ intr \in BOOLEAN /\ panic \in BOOLEAN
    /\ platter \in [Blocks -> Values]
    /\ head \in [Procs -> Descs \cup {NoDesc}]

\* A process has a buffer from bget() to brelse(), and its lock in between.
OwnInv ==
    /\ \A p \in Procs : pc[p] = "idle" <=> bp[p] = NoBuf
    /\ \A p \in Procs, b \in Bufs : holder[b] = p <=> bp[p] = b /\ pc[p] \in Owning

\* A block has one buffer, and a buffer in use or valid has a block.
BlockInv ==
    /\ \A b, c \in Bufs : blockno[b] = blockno[c] /\ blockno[b] # NoBlock => b = c
    /\ \A p \in Procs : bp[p] # NoBuf => blockno[bp[p]] # NoBlock
    /\ \A b \in valid \cup pinned : blockno[b] # NoBlock

users(b) == {p \in Procs : bp[p] = b}

RefInv == \A b \in Bufs : refcnt[b] = Cardinality(users(b)) + (IF b \in pinned THEN 1 ELSE 0)

\* The list has every buffer once.
LruInv ==
    /\ lru \in [1 .. NBUF -> Bufs]
    /\ \A i, j \in 1 .. NBUF : lru[i] = lru[j] => i = j
    /\ \A b \in Bufs : \E i \in 1 .. NBUF : lru[i] = b

\* A buffer is valid before anyone uses or writes it, not while it is read.
ValidInv ==
    \A p \in Procs :
        /\ pc[p] \in {"held", "written"} => bp[p] \in valid
        /\ writing[p] => pc[p] \in {"rw", "rw_wait"}
        /\ pc[p] \in {"rw", "rw_wait"} => (bp[p] \in valid <=> writing[p])

\* A valid buffer is as the disk has it, unless it is pinned or being written.
CleanInv ==
    /\ \A b \in valid \ pinned :
        (\A p \in Procs : writing[p] => bp[p] # b) => data[b] = platter[blockno[b]]
    /\ \A p \in Procs : pc[p] = "written" => data[bp[p]] = platter[blockno[bp[p]]]

elems(s) == {s[i] : i \in 1 .. Len(s)}

\* The request of a process is the one it made, and the device has done it
\* exactly if its status says so.
RequestInv ==
    \A p \in Procs :
        /\ pc[p] = "rw_wait" <=> head[p] # NoDesc
        /\ head[p] # NoDesc =>
            LET r == req[head[p]] IN
            /\ r.b = bp[p] /\ r.write = writing[p] /\ r.sector = blockno[bp[p]]
            /\ r.status = "0xff" <=> head[p] \in elems(avail) \cup serving
            /\ r.status = "ok" => data[bp[p]] = platter[blockno[bp[p]]]

\* The chain from i on has three descriptors.
IsChain(i) ==
    /\ next[i] # NoDesc /\ next[next[i]] # NoDesc /\ next[next[next[i]]] = NoDesc
    /\ i # next[i] /\ i # next[next[i]] /\ next[i] # next[next[i]]

ChainInv ==
    /\ \A p \in inFlight : IsChain(head[p]) /\ chainOf(head[p]) \cap free = {}
    /\ \A p, q \in inFlight : p # q => chainOf(head[p]) \cap chainOf(head[q]) = {}

CountInv == Cardinality(free) + 3 * Cardinality(inFlight) = NUM

\* What the device has to do or the driver has to take from it.
onWay == elems(avail) \cup elems(used) \cup serving

RingInv ==
    /\ \A i, j \in 1 .. Len(avail) : avail[i] = avail[j] => i = j
    /\ \A i, j \in 1 .. Len(used) : used[i] = used[j] => i = j
    /\ elems(avail) \cap elems(used) = {}
    /\ elems(avail) \cap serving = {} /\ elems(used) \cap serving = {}
    /\ \A i \in onWay : \E p \in inFlight : head[p] = i
    /\ owned = {req[i].b : i \in onWay}
    /\ Len(avail) + Len(used) + Cardinality(serving) = Cardinality(onWay)

IInv ==
    /\ CacheType /\ DriverType
    /\ OwnInv /\ BlockInv /\ RefInv /\ LruInv /\ ValidInv /\ CleanInv
    /\ RequestInv /\ ChainInv /\ CountInv /\ RingInv
    /\ NoLostWakeup /\ PanicsOnlyIfAllInUse

(***************************************************************************)
(* Facts about constants, sets and sequences.                              *)
(***************************************************************************)

\* The sentinels are outside of the sets they stand beside.
LEMMA ConstantFacts ==
    /\ NBUF \in Nat /\ NUM \in Nat /\ NUM > 3
    /\ NoBuf \notin Bufs /\ NoDesc \notin Descs /\ NoBlock \notin Blocks /\ NoProc \notin Procs
    /\ IsFiniteSet(Procs)
  BY BufferAssumption DEF Bufs, NoBuf, Descs, NoDesc

\* Wait channels of different kinds differ.
LEMMA ChannelFacts ==
    /\ <<>> # <<"free">>
    /\ \A b \in Bufs : /\ <<>> # <<"lock", b>> /\ <<>> # <<"buf", b>>
                       /\ <<"free">> # <<"lock", b>> /\ <<"free">> # <<"buf", b>>
    /\ \A b, c \in Bufs : /\ <<"lock", b>> # <<"buf", c>>
                          /\ <<"lock", b>> = <<"lock", c>> => b = c
                          /\ <<"buf", b>> = <<"buf", c>> => b = c
    /\ <<>> \in Channels /\ <<"free">> \in Channels
    /\ \A b \in Bufs : <<"lock", b>> \in Channels /\ <<"buf", b>> \in Channels
  BY Zenon DEF Channels

\* What is used about finite sets and about sets of numbers.  It is a hypothesis
\* of the lemmas below; BufferCacheTheorems proves it.
SetFacts ==
    /\ \A S : IsFiniteSet(S) =>
        /\ Cardinality(S) \in Nat
        /\ Cardinality(S) = 0 <=> S = {}
        /\ \A T \in SUBSET S : IsFiniteSet(T)
        /\ \A x : /\ IsFiniteSet(S \cup {x})
                 /\ Cardinality(S \cup {x}) = IF x \in S THEN Cardinality(S) ELSE Cardinality(S) + 1
        /\ \A x : /\ IsFiniteSet(S \ {x})
                 /\ Cardinality(S \ {x}) = IF x \in S THEN Cardinality(S) - 1 ELSE Cardinality(S)
    /\ IsFiniteSet({}) /\ Cardinality({}) = 0
    /\ \A x : IsFiniteSet({x}) /\ Cardinality({x}) = 1
    /\ IsFiniteSet(Descs) /\ Cardinality(Descs) = NUM
    /\ \A S \in SUBSET Nat : S # {} => Min(S) \in S
    /\ \A n \in Nat : \A S \in SUBSET (1 .. n) : S # {} => Max(S) \in S

\* Its parts: the size of a finite set is a number,
LEMMA SizeType ==
  ASSUME SetFacts, NEW S, IsFiniteSet(S)
  PROVE  Cardinality(S) \in Nat
  BY Zenon DEF SetFacts

\* a part of a finite set is finite,
LEMMA FiniteSub ==
  ASSUME SetFacts, NEW S, IsFiniteSet(S), NEW T \in SUBSET S
  PROVE  IsFiniteSet(T)
  BY Zenon DEF SetFacts

\* one more element,
LEMMA SizeAdd ==
  ASSUME SetFacts, NEW S, NEW x, IsFiniteSet(S)
  PROVE  /\ IsFiniteSet(S \cup {x})
         /\ Cardinality(S \cup {x}) = IF x \in S THEN Cardinality(S) ELSE Cardinality(S) + 1
  BY Zenon DEF SetFacts

\* one element less,
LEMMA SizeRemove ==
  ASSUME SetFacts, NEW S, NEW x, IsFiniteSet(S)
  PROVE  /\ IsFiniteSet(S \ {x})
         /\ Cardinality(S \ {x}) = IF x \in S THEN Cardinality(S) - 1 ELSE Cardinality(S)
  BY Zenon DEF SetFacts

\* no element,
LEMMA SizeEmpty ==
  ASSUME SetFacts
  PROVE  /\ IsFiniteSet({}) /\ Cardinality({}) = 0
         /\ \A S : IsFiniteSet(S) => (Cardinality(S) = 0 <=> S = {})
  BY Zenon DEF SetFacts

\* one element,
LEMMA SizeOne ==
  ASSUME SetFacts, NEW x
  PROVE  IsFiniteSet({x}) /\ Cardinality({x}) = 1
  BY Zenon DEF SetFacts

\* the descriptors,
LEMMA DescsFinite ==
  ASSUME SetFacts
  PROVE  IsFiniteSet(Descs) /\ Cardinality(Descs) = NUM
  BY Zenon DEF SetFacts

\* the free descriptor that alloc_desc() finds if there is one,
LEMMA MinOfSet ==
  ASSUME SetFacts, NEW S \in SUBSET Nat, S # {}
  PROVE  Min(S) \in S
  BY Zenon DEF SetFacts

\* and the last buffer of the list that nobody uses, if there is one.
LEMMA MaxOfSet ==
  ASSUME SetFacts, NEW n \in Nat, NEW S \in SUBSET (1 .. n), S # {}
  PROVE  Max(S) \in S
  BY Zenon DEF SetFacts

\* Taking the first of some numbers leaves one less.
LEMMA TakeFirst ==
  ASSUME SetFacts, NEW S \in SUBSET Nat, IsFiniteSet(S), Cardinality(S) >= 1
  PROVE  /\ Min(S) \in S
         /\ S \ {Min(S)} \in SUBSET Nat /\ IsFiniteSet(S \ {Min(S)})
         /\ Cardinality(S \ {Min(S)}) = Cardinality(S) - 1
<1>1. S # {}
  BY SizeEmpty
<1>2. Min(S) \in S
  BY <1>1, MinOfSet, Zenon
<1> QED BY <1>2, SizeRemove, Zenon

\* alloc3_desc() takes three free descriptors.
LEMMA AllocFacts ==
  ASSUME SetFacts, free \in SUBSET Descs, Cardinality(free) >= 3
  PROVE  \E i, j, k \in free :
         /\ alloc3_desc = <<i, j, k>>
         /\ i # j /\ i # k /\ j # k
         /\ Cardinality(free \ {i, j, k}) = Cardinality(free) - 3
<1>1. IsFiniteSet(free) /\ Cardinality(free) \in Nat
  BY DescsFinite, FiniteSub, SizeType, Zenon
<1>2. free \in SUBSET Nat
  BY ConstantFacts DEF Descs
<1>3. PICK i : i = Min(free)
  BY Zenon
<1>4. /\ i \in free
      /\ free \ {i} \in SUBSET Nat /\ IsFiniteSet(free \ {i})
      /\ Cardinality(free \ {i}) = Cardinality(free) - 1
  BY <1>1, <1>2, <1>3, TakeFirst
<1>5. PICK j : j = Min(free \ {i})
  BY Zenon
<1>6. /\ j \in free \ {i}
      /\ (free \ {i}) \ {j} \in SUBSET Nat /\ IsFiniteSet((free \ {i}) \ {j})
      /\ Cardinality((free \ {i}) \ {j}) = Cardinality(free) - 2
  BY <1>1, <1>4, <1>5, TakeFirst
<1>7. (free \ {i}) \ {j} = free \ {i, j}
  BY Zenon
<1>8. PICK k : k = Min(free \ {i, j})
  BY Zenon
<1>9. /\ k \in free \ {i, j}
      /\ Cardinality((free \ {i, j}) \ {k}) = Cardinality(free) - 3
  <2>1. free \ {i, j} \in SUBSET Nat /\ IsFiniteSet(free \ {i, j}) /\ Cardinality(free \ {i, j}) = Cardinality(free) - 2
    BY <1>6, <1>7, Zenon
  <2>2. Cardinality(free \ {i, j}) >= 1 /\ Cardinality(free) - 2 - 1 = Cardinality(free) - 3
    BY <1>1, <2>1
  <2> QED BY <1>8, <2>1, <2>2, TakeFirst, Zenon
<1>10. (free \ {i, j}) \ {k} = free \ {i, j, k}
  BY Zenon
<1>11. alloc3_desc = <<i, j, k>>
  BY <1>3, <1>5, <1>8, Zenon DEF alloc3_desc
<1> QED BY <1>4, <1>6, <1>9, <1>10, <1>11, Zenon

\* Three elements.
LEMMA JustThree ==
  ASSUME SetFacts, NEW i, NEW j, NEW k, i # j, i # k, j # k
  PROVE  Cardinality({i, j, k}) = 3
<1>1. PICK T : T = {i}
  BY Zenon
<1>2. IsFiniteSet(T) /\ Cardinality(T) = 1
  BY <1>1, SizeOne, Zenon
<1>3. PICK U : U = T \cup {j}
  BY Zenon
<1>4. j \notin T
  BY <1>1, Zenon
<1>5. IsFiniteSet(U) /\ Cardinality(U) = Cardinality(T) + 1
  BY <1>2, <1>3, <1>4, SizeAdd, Zenon
<1>6. k \notin U /\ {i, j, k} = U \cup {k}
  BY <1>1, <1>3, Zenon
<1>7. Cardinality(U \cup {k}) = Cardinality(U) + 1
  BY <1>5, <1>6, SizeAdd, Zenon
<1> QED BY <1>2, <1>5, <1>6, <1>7

\* Three more elements.
LEMMA AddThree ==
  ASSUME SetFacts, NEW S, IsFiniteSet(S), NEW i, NEW j, NEW k, i # j, i # k, j # k, {i, j, k} \cap S = {}
  PROVE  Cardinality(S \cup {i, j, k}) = Cardinality(S) + 3
<1>0. Cardinality(S) \in Nat
  BY SizeType, Zenon
<1>1. PICK T : T = S \cup {i}
  BY Zenon
<1>2. IsFiniteSet(T) /\ Cardinality(T) = Cardinality(S) + 1
  BY <1>1, SizeAdd, Zenon
<1>3. PICK U : U = T \cup {j}
  BY Zenon
<1>4. j \notin T
  BY <1>1, Zenon
<1>5. IsFiniteSet(U) /\ Cardinality(U) = Cardinality(T) + 1
  BY <1>2, <1>3, <1>4, SizeAdd, Zenon
<1>6. k \notin U /\ S \cup {i, j, k} = U \cup {k}
  BY <1>1, <1>3, Zenon
<1>7. Cardinality(U \cup {k}) = Cardinality(U) + 1
  BY <1>5, <1>6, SizeAdd, Zenon
<1> QED BY <1>0, <1>2, <1>5, <1>6, <1>7

\* The elements of a queue when one is put into it.
LEMMA ElemsAppend ==
  ASSUME NEW S, NEW s \in Seq(S), NEW x \in S
  PROVE  elems(Append(s, x)) = elems(s) \cup {x}
  BY DEF elems

\* The elements of two queues, one after the other.
LEMMA ElemsConcat ==
  ASSUME NEW S, NEW s \in Seq(S), NEW t \in Seq(S)
  PROVE  /\ {(s \o t)[i] : i \in DOMAIN (s \o t)} = elems(s) \cup elems(t)
         /\ Len(s \o t) = Len(s) + Len(t)
<1>1. /\ s \o t \in Seq(S) /\ Len(s \o t) = Len(s) + Len(t) /\ Len(s) \in Nat /\ Len(t) \in Nat
      /\ DOMAIN (s \o t) = 1 .. Len(s) + Len(t)
      /\ \A i \in 1 .. Len(s) : (s \o t)[i] = s[i]
      /\ \A i \in 1 .. Len(t) : (s \o t)[Len(s) + i] = t[i]
  OBVIOUS
<1>2. ASSUME NEW i \in DOMAIN (s \o t) PROVE (s \o t)[i] \in elems(s) \cup elems(t)
  <2>1. CASE i \in 1 .. Len(s)
    BY <1>1, <2>1, Zenon DEF elems
  <2>2. CASE i \notin 1 .. Len(s)
    <3>1. i - Len(s) \in 1 .. Len(t) /\ i = Len(s) + (i - Len(s))
      BY <1>1, <2>2
    <3> QED BY <1>1, <3>1, Zenon DEF elems
  <2> QED BY <2>1, <2>2, Zenon
<1>3. ASSUME NEW x \in elems(s) \cup elems(t) PROVE \E i \in DOMAIN (s \o t) : (s \o t)[i] = x
  <2>1. CASE x \in elems(s)
    <3>1. PICK i \in 1 .. Len(s) : s[i] = x
      BY <2>1, Zenon DEF elems
    <3>2. i \in DOMAIN (s \o t)
      BY <1>1
    <3> QED BY <1>1, <3>1, <3>2, Zenon
  <2>2. CASE x \in elems(t)
    <3>1. PICK i \in 1 .. Len(t) : t[i] = x
      BY <2>2, Zenon DEF elems
    <3>2. Len(s) + i \in DOMAIN (s \o t)
      BY <1>1
    <3> QED BY <1>1, <3>1, <3>2, Zenon
  <2> QED BY <2>1, <2>2, Zenon
<1> QED BY <1>1, <1>2, <1>3, Zenon

\* The elements of a queue when one is taken from it.
LEMMA ElemsTail ==
  ASSUME NEW S, NEW s \in Seq(S), s # <<>>
  PROVE  /\ Tail(s) \in Seq(S) /\ Head(s) \in S /\ Len(Tail(s)) = Len(s) - 1 /\ Len(s) \in Nat \ {0}
         /\ Head(s) = s[1] /\ \A i \in 1 .. Len(s) - 1 : Tail(s)[i] = s[i + 1]
         /\ elems(s) = elems(Tail(s)) \cup {Head(s)}
<1>1. /\ Tail(s) \in Seq(S) /\ Head(s) \in S /\ Len(Tail(s)) = Len(s) - 1 /\ Len(s) \in Nat \ {0}
      /\ Head(s) = s[1] /\ \A i \in 1 .. Len(s) - 1 : Tail(s)[i] = s[i + 1]
  OBVIOUS
<1>2. ASSUME NEW x \in elems(s) PROVE x \in elems(Tail(s)) \cup {Head(s)}
  <2>1. PICK i \in 1 .. Len(s) : x = s[i]
    BY Zenon DEF elems
  <2>2. CASE i = 1
    BY <1>1, <2>1, <2>2, Zenon
  <2>3. CASE i # 1
    <3>1. i - 1 \in 1 .. Len(Tail(s)) /\ Tail(s)[i - 1] = s[i]
      BY <1>1, <2>3
    <3> QED BY <2>1, <3>1, Zenon DEF elems
  <2> QED BY <2>2, <2>3, Zenon
<1>3. ASSUME NEW x \in elems(Tail(s)) PROVE x \in elems(s)
  <2>1. PICK i \in 1 .. Len(Tail(s)) : x = Tail(s)[i]
    BY Zenon DEF elems
  <2>2. i + 1 \in 1 .. Len(s) /\ x = s[i + 1]
    BY <1>1, <2>1
  <2> QED BY <2>2, Zenon DEF elems
<1>4. Head(s) \in elems(s)
  BY <1>1 DEF elems
<1> QED BY <1>1, <1>2, <1>3, <1>4, Zenon

(***************************************************************************)
(* Every step preserves it.                                                *)
(***************************************************************************)

\* What the cache alone does leaves the driver's part as it is.
LEMMA DriverFrame ==
  ASSUME IInv, UNCHANGED <<owned, queueVars, deviceVars, intr, head>>, panic' \in BOOLEAN
  PROVE  DriverType' /\ ChainInv' /\ CountInv' /\ RingInv'
<1> DriverType /\ ChainInv /\ CountInv /\ RingInv
  BY Zenon DEF IInv
<1> USE DEF queueVars, deviceVars
<1>1. DriverType'
  BY Zenon DEF DriverType
<1>2. ChainInv'
  BY Zenon DEF ChainInv, IsChain, chainOf, inFlight
<1>3. CountInv'
  BY Zenon DEF CountInv, inFlight
<1>4. inFlight' = inFlight /\ onWay' = onWay
  BY Zenon DEF onWay, elems, inFlight
<1>5. RingInv'
  BY <1>4 DEF RingInv
<1> QED BY <1>1, <1>2, <1>3, <1>5, Zenon

\* One more process uses b.
LEMMA UsersAdd ==
  ASSUME SetFacts, CacheType, NEW p \in Procs, NEW b \in Bufs, bp[p] = NoBuf, bp' = [bp EXCEPT ![p] = b]
  PROVE  /\ Cardinality(users(b)') = Cardinality(users(b)) + 1 /\ Cardinality(users(b)) \in Nat
         /\ \A c \in Bufs \ {b} : users(c)' = users(c)
<1>1. users(b)' = users(b) \cup {p} /\ p \notin users(b)
  BY ConstantFacts DEF users, CacheType
<1>2. IsFiniteSet(users(b))
  BY ConstantFacts, FiniteSub, Zenon DEF users
<1>3. \A c \in Bufs \ {b} : users(c)' = users(c)
  BY ConstantFacts, Zenon DEF users, CacheType
<1> QED BY <1>1, <1>2, <1>3, SizeAdd, SizeType, Zenon

\* One process less uses b.
LEMMA UsersRemove ==
  ASSUME SetFacts, CacheType, NEW p \in Procs, NEW b \in Bufs, bp[p] = b, bp' = [bp EXCEPT ![p] = NoBuf]
  PROVE  /\ Cardinality(users(b)') = Cardinality(users(b)) - 1 /\ Cardinality(users(b)) \in Nat \ {0}
         /\ \A c \in Bufs \ {b} : users(c)' = users(c)
<1>1. users(b)' = users(b) \ {p} /\ p \in users(b)
  BY ConstantFacts, Zenon DEF users, CacheType
<1>2. IsFiniteSet(users(b))
  BY ConstantFacts, FiniteSub, Zenon DEF users
<1>3. \A c \in Bufs \ {b} : users(c)' = users(c)
  BY ConstantFacts, Zenon DEF users, CacheType
<1>4. Cardinality(users(b)) # 0
  BY <1>1, <1>2, SizeEmpty, Zenon
<1> QED BY <1>1, <1>2, <1>3, <1>4, SizeRemove, SizeType

\* bget() finds the block in the cache.
LEMMA BgetHitPreserves ==
  ASSUME SetFacts, IInv, ~panic, NEW p \in Procs, NEW k \in Blocks, bget_hit(p, k)
  PROVE  IInv'
<1> /\ CacheType /\ DriverType /\ OwnInv /\ BlockInv /\ RefInv /\ LruInv
    /\ ValidInv /\ CleanInv /\ RequestInv /\ NoLostWakeup /\ PanicsOnlyIfAllInUse
  BY Zenon DEF IInv
<1> USE DEF bufVars, queueVars, deviceVars
<1>0. /\ UNCHANGED <<blockno, data, owned, queueVars, deviceVars, intr, head, chan, panic, valid, lru, holder, pinned, writing>>
      /\ pc[p] = "idle" /\ pc' = [pc EXCEPT ![p] = "lock"]
  BY Zenon DEF bget_hit, Goto, At
<1>1. PICK b \in Bufs : /\ blockno[b] = k /\ refcnt' = [refcnt EXCEPT ![b] = @ + 1] /\ bp' = [bp EXCEPT ![p] = b]
  BY Zenon DEF bget_hit, cached
<1>2. bp[p] = NoBuf
  BY <1>0, Zenon DEF OwnInv
<1>3. CacheType'
  BY <1>0, <1>1 DEF CacheType
<1>4. DriverType' /\ ChainInv' /\ CountInv' /\ RingInv'
  BY <1>0, DriverFrame, Zenon DEF DriverType
<1>5. OwnInv'
  BY <1>0, <1>1, <1>2, ConstantFacts DEF OwnInv, CacheType, Owning
<1>6. BlockInv'
  BY <1>0, <1>1, ConstantFacts, Zenon DEF BlockInv, CacheType
<1>7. RefInv'
  <2>1. /\ Cardinality(users(b)') = Cardinality(users(b)) + 1 /\ Cardinality(users(b)) \in Nat
        /\ \A c \in Bufs \ {b} : users(c)' = users(c)
    BY <1>1, <1>2, UsersAdd, Zenon
  <2> QED BY <1>0, <1>1, <2>1 DEF RefInv, CacheType
<1>8. LruInv'
  BY <1>0, Zenon DEF LruInv
<1>9. ValidInv'
  BY <1>0, <1>1, Zenon DEF ValidInv, CacheType
<1>10. CleanInv'
  BY <1>0, <1>1, <1>2, Zenon DEF CleanInv, CacheType, ValidInv
<1>11. RequestInv'
  BY <1>0, <1>1 DEF RequestInv, CacheType, elems
<1>12. NoLostWakeup'
  BY <1>0, Zenon DEF NoLostWakeup
<1>13. PanicsOnlyIfAllInUse'
  BY <1>0, Zenon DEF PanicsOnlyIfAllInUse
<1> QED BY <1>3, <1>4, <1>5, <1>6, <1>7, <1>8, <1>9, <1>10, <1>11, <1>12, <1>13, Zenon DEF IInv

\* A process that is not idle has a buffer, with a block.
LEMMA HasBuffer ==
  ASSUME IInv, NEW p \in Procs, pc[p] # "idle"
  PROVE  bp[p] \in Bufs /\ blockno[bp[p]] \in Blocks
  BY DEF IInv, CacheType, OwnInv, BlockInv

\* One process at a time has the lock of a buffer.
LEMMA OneOwner ==
  ASSUME IInv, NEW p \in Procs, NEW q \in Procs,
         pc[p] \in Owning, pc[q] \in Owning, bp[p] = bp[q]
  PROVE  p = q
<1>1. bp[p] \in Bufs
  BY HasBuffer, Zenon DEF Owning
<1> QED BY <1>1 DEF IInv, OwnInv

\* A step that does not touch what a request is about.
LEMMA RequestFrame ==
  ASSUME IInv, UNCHANGED <<queueVars, deviceVars, head>>,
         \A q \in Procs :
            /\ pc'[q] = "rw_wait" <=> pc[q] = "rw_wait"
            /\ head[q] # NoDesc => /\ bp'[q] = bp[q] /\ writing'[q] = writing[q]
                                  /\ blockno'[bp[q]] = blockno[bp[q]] /\ data'[bp[q]] = data[bp[q]]
  PROVE  RequestInv'
<1>1. elems(avail)' = elems(avail)
  BY Zenon DEF elems, queueVars
<1> QED BY <1>1 DEF IInv, RequestInv, queueVars, deviceVars

\* A step that leaves everything but p->chan alone.
LEMMA ChanOnly ==
  ASSUME IInv, ~panic, chan' \in [Procs -> Channels], NoLostWakeup',
         UNCHANGED <<bufVars, queueVars, deviceVars, intr, head, pc, panic, cacheVars>>
  PROVE  IInv'
<1> /\ CacheType /\ DriverType /\ OwnInv /\ BlockInv /\ RefInv /\ LruInv
    /\ ValidInv /\ CleanInv /\ RequestInv /\ PanicsOnlyIfAllInUse
  BY Zenon DEF IInv
<1> USE DEF bufVars, queueVars, deviceVars, cacheVars
<1>1. CacheType'
  BY Zenon DEF CacheType
<1>2. DriverType' /\ ChainInv' /\ CountInv' /\ RingInv'
  BY DriverFrame, Zenon DEF DriverType
<1>3. OwnInv' /\ BlockInv' /\ LruInv' /\ ValidInv' /\ CleanInv'
  BY DEF OwnInv, BlockInv, LruInv, ValidInv, CleanInv
<1>4. RefInv'
  BY Zenon DEF RefInv, users
<1>5. RequestInv'
  BY DEF RequestInv, elems
<1>6. PanicsOnlyIfAllInUse'
  BY Zenon DEF PanicsOnlyIfAllInUse
<1> QED BY <1>1, <1>2, <1>3, <1>4, <1>5, <1>6, Zenon DEF IInv

\* A buffer that bget() may recycle is not in use.
LEMMA Recyclable ==
  ASSUME SetFacts, IInv, unused # {}
  PROVE  LET b == lru[Max(unused)] IN
         b \in Bufs /\ b \notin pinned /\ refcnt[b] = 0 /\ \A q \in Procs : bp[q] # b
<1> RefInv /\ LruInv
  BY Zenon DEF IInv
<1>1. unused \in SUBSET (1 .. NBUF) /\ NBUF \in Nat
  BY ConstantFacts, Zenon DEF unused, LruInv
<1>2. Max(unused) \in unused
  BY <1>1, MaxOfSet, Zenon
<1>3. PICK b : b = lru[Max(unused)]
  BY Zenon
<1>4. b \in Bufs /\ refcnt[b] = 0
  BY <1>1, <1>2, <1>3, Zenon DEF unused, LruInv
<1>5. IsFiniteSet(users(b))
  BY ConstantFacts, FiniteSub, Zenon DEF users
<1>6. Cardinality(users(b)) \in Nat /\ (Cardinality(users(b)) = 0 <=> users(b) = {})
  BY <1>5, SizeEmpty, SizeType, Zenon
<1>7. b \notin pinned /\ users(b) = {}
  BY <1>4, <1>6 DEF RefInv
<1> QED BY <1>3, <1>4, <1>7, Zenon DEF users

\* bget() recycles a buffer.
LEMMA BgetRecyclePreserves ==
  ASSUME SetFacts, IInv, ~panic, NEW p \in Procs, NEW k \in Blocks, bget_recycle(p, k)
  PROVE  IInv'
<1> /\ CacheType /\ DriverType /\ OwnInv /\ BlockInv /\ RefInv /\ LruInv
    /\ ValidInv /\ CleanInv /\ RequestInv /\ NoLostWakeup /\ PanicsOnlyIfAllInUse
  BY Zenon DEF IInv
<1> USE DEF bufVars, queueVars, deviceVars
<1>0. /\ UNCHANGED <<data, owned, queueVars, deviceVars, intr, head, chan, panic, lru, holder, pinned, writing>>
      /\ pc[p] = "idle" /\ pc' = [pc EXCEPT ![p] = "lock"]
      /\ \A c \in Bufs : blockno[c] # k
  BY Zenon DEF bget_recycle, Goto, At, cached
<1>1. PICK b \in Bufs : /\ blockno' = [blockno EXCEPT ![b] = k] /\ valid' = valid \ {b}
                        /\ refcnt' = [refcnt EXCEPT ![b] = 1] /\ bp' = [bp EXCEPT ![p] = b]
                        /\ b \notin pinned /\ refcnt[b] = 0 /\ \A q \in Procs : bp[q] # b
  BY Recyclable, Zenon DEF bget_recycle, recycled
<1>2. bp[p] = NoBuf
  BY <1>0, Zenon DEF OwnInv
<1>3. CacheType'
  BY <1>0, <1>1, Zenon DEF CacheType
<1>4. DriverType' /\ ChainInv' /\ CountInv' /\ RingInv'
  BY <1>0, DriverFrame, Zenon DEF DriverType
<1>5. OwnInv'
  BY <1>0, <1>1, <1>2, ConstantFacts DEF OwnInv, CacheType, Owning
<1>6. BlockInv'
  BY <1>0, <1>1, ConstantFacts, Zenon DEF BlockInv, CacheType
<1>7. RefInv'
  <2>1. /\ Cardinality(users(b)') = Cardinality(users(b)) + 1 /\ Cardinality(users(b)) \in Nat
        /\ \A c \in Bufs \ {b} : users(c)' = users(c)
    BY <1>1, <1>2, UsersAdd, Zenon
  <2>2. Cardinality(users(b)) = 0
    BY <1>1, <2>1 DEF RefInv
  <2> QED BY <1>0, <1>1, <2>1, <2>2 DEF RefInv, CacheType
<1>8. LruInv'
  BY <1>0, Zenon DEF LruInv
<1>9. ValidInv'
  BY <1>0, <1>1, Zenon DEF ValidInv, CacheType
<1>10. CleanInv'
  <2>1. ASSUME NEW c \in (valid \ pinned)', \A q \in Procs : writing'[q] => bp'[q] # c
        PROVE  data'[c] = platter'[blockno'[c]]
    BY <1>0, <1>1, <1>2, <2>1 DEF CleanInv, CacheType, ValidInv
  <2>2. ASSUME NEW q \in Procs, pc'[q] = "written"
        PROVE  data'[bp'[q]] = platter'[blockno'[bp'[q]]]
    <3>1. q # p /\ pc[q] = "written" /\ bp'[q] = bp[q] /\ bp[q] # b
      BY <1>0, <1>1, <2>2, Zenon DEF CacheType
    <3>2. bp[q] \in Bufs
      BY <3>1, HasBuffer, Zenon
    <3> QED BY <1>0, <1>1, <3>1, <3>2, Zenon DEF CleanInv, CacheType
  <2> QED BY <2>1, <2>2, Zenon DEF CleanInv
<1>11. RequestInv'
  <2>1. ASSUME NEW q \in Procs
        PROVE  /\ pc'[q] = "rw_wait" <=> pc[q] = "rw_wait"
               /\ head[q] # NoDesc => bp'[q] = bp[q] /\ blockno'[bp[q]] = blockno[bp[q]]
    <3>1. q = p => pc[q] # "rw_wait" /\ head[q] = NoDesc
      BY <1>0, Zenon DEF RequestInv
    <3>2. pc[q] = "rw_wait" => bp[q] \in Bufs
      BY HasBuffer, Zenon
    <3> QED BY <1>0, <1>1, <3>1, <3>2, Zenon DEF RequestInv, CacheType
  <2> QED BY <1>0, <2>1, RequestFrame, Zenon
<1>12. NoLostWakeup'
  BY <1>0, Zenon DEF NoLostWakeup
<1>13. PanicsOnlyIfAllInUse'
  BY <1>0, Zenon DEF PanicsOnlyIfAllInUse
<1> QED BY <1>3, <1>4, <1>5, <1>6, <1>7, <1>8, <1>9, <1>10, <1>11, <1>12, <1>13, Zenon DEF IInv

\* bget() has no buffer to recycle.
LEMMA BgetPanicsPreserves ==
  ASSUME SetFacts, IInv, ~panic, NEW p \in Procs, NEW k \in Blocks, bget_panics(p, k)
  PROVE  IInv'
<1> /\ CacheType /\ OwnInv /\ BlockInv /\ RefInv /\ LruInv /\ ValidInv
    /\ CleanInv /\ RequestInv /\ NoLostWakeup /\ PanicsOnlyIfAllInUse
  BY Zenon DEF IInv
<1> USE DEF bufVars, queueVars, deviceVars, cacheVars
<1>0. /\ UNCHANGED <<bufVars, queueVars, deviceVars, intr, head, chan, pc, cacheVars>>
      /\ panic' = TRUE /\ unused = {}
  BY Zenon DEF bget_panics
<1>1. CacheType'
  BY <1>0, Zenon DEF CacheType
<1>2. DriverType' /\ ChainInv' /\ CountInv' /\ RingInv'
  BY <1>0, DriverFrame, Zenon
<1>3. OwnInv' /\ BlockInv' /\ LruInv' /\ ValidInv' /\ CleanInv'
  BY <1>0 DEF OwnInv, BlockInv, LruInv, ValidInv, CleanInv
<1>4. RefInv'
  BY <1>0, Zenon DEF RefInv, users
<1>5. RequestInv' /\ NoLostWakeup'
  BY <1>0 DEF RequestInv, elems, NoLostWakeup
<1>6. ASSUME NEW b \in Bufs PROVE b \in pinned \/ \E q \in Procs : bp[q] = b
  <2>1. refcnt[b] # 0
    BY <1>0, Zenon DEF unused, LruInv
  <2>2. users(b) # {} \/ b \in pinned
    BY <2>1, SizeEmpty DEF RefInv
  <2> QED BY <2>2, Zenon DEF users
<1>7. PanicsOnlyIfAllInUse'
  BY <1>0, <1>6, Zenon DEF PanicsOnlyIfAllInUse
<1> QED BY <1>1, <1>2, <1>3, <1>4, <1>5, <1>7, Zenon DEF IInv

\* acquiresleep() gets the lock.
LEMMA AcquiresleepPreserves ==
  ASSUME IInv, ~panic, NEW p \in Procs, acquiresleep(p)
  PROVE  IInv'
<1> /\ CacheType /\ DriverType /\ OwnInv /\ BlockInv /\ RefInv /\ LruInv
    /\ ValidInv /\ CleanInv /\ RequestInv /\ NoLostWakeup /\ PanicsOnlyIfAllInUse
  BY Zenon DEF IInv
<1> USE DEF bufVars, queueVars, deviceVars
<1>0. /\ UNCHANGED <<bufVars, queueVars, deviceVars, intr, head, panic, valid, refcnt, lru, pinned, bp, writing>>
      /\ pc[p] = "lock" /\ holder[bp[p]] = NoProc
      /\ holder' = [holder EXCEPT ![bp[p]] = p]
      /\ chan' = [chan EXCEPT ![p] = <<>>]
      /\ pc' = [pc EXCEPT ![p] = IF bp[p] \in valid THEN "held" ELSE "rw"]
  BY Zenon DEF acquiresleep, Goto, At, awake
<1>1. bp[p] \in Bufs
  BY <1>0, HasBuffer, Zenon
<1>2. head[p] = NoDesc /\ ~writing[p]
  BY <1>0, Zenon DEF RequestInv, ValidInv, CacheType
<1>3. CacheType'
  BY <1>0, <1>1, ChannelFacts, Zenon DEF CacheType, Owning
<1>4. DriverType' /\ ChainInv' /\ CountInv' /\ RingInv'
  BY <1>0, DriverFrame, Zenon DEF DriverType
<1>5. OwnInv'
  BY <1>0, <1>1, ConstantFacts DEF OwnInv, CacheType, Owning
<1>6. BlockInv' /\ LruInv'
  BY <1>0, Zenon DEF BlockInv, LruInv
<1>7. RefInv'
  BY <1>0, Zenon DEF RefInv, users
<1>8. ValidInv'
  BY <1>0, <1>2, Zenon DEF ValidInv, CacheType
<1>9. CleanInv'
  BY <1>0, Zenon DEF CleanInv, CacheType
<1>10. RequestInv'
  BY <1>0, <1>2 DEF RequestInv, CacheType, elems
<1>11. NoLostWakeup'
  BY <1>0, <1>1, ChannelFacts, ConstantFacts, Zenon DEF NoLostWakeup, CacheType
<1>12. PanicsOnlyIfAllInUse'
  BY <1>0, Zenon DEF PanicsOnlyIfAllInUse
<1> QED BY <1>3, <1>4, <1>5, <1>6, <1>7, <1>8, <1>9, <1>10, <1>11, <1>12, Zenon DEF IInv

\* acquiresleep() sleeps.
LEMMA AcquiresleepWaitsPreserves ==
  ASSUME IInv, ~panic, NEW p \in Procs, acquiresleep_waits(p)
  PROVE  IInv'
<1> CacheType /\ NoLostWakeup
  BY Zenon DEF IInv
<1> USE DEF bufVars, queueVars, deviceVars, cacheVars
<1>1. bp[p] \in Bufs
  BY HasBuffer, Zenon DEF acquiresleep_waits, At
<1>2. chan' \in [Procs -> Channels]
  BY <1>1, ChannelFacts, Zenon DEF acquiresleep_waits, CacheType
<1>3. NoLostWakeup'
  BY <1>1, ChannelFacts, Zenon DEF acquiresleep_waits, NoLostWakeup, CacheType
<1> QED BY <1>2, <1>3, ChanOnly, Zenon DEF acquiresleep_waits, IInv

\* virtio_disk_rw() waits for descriptors.
LEMMA RwFullPreserves ==
  ASSUME IInv, ~panic, NEW p \in Procs, rw_full(p)
  PROVE  IInv'
<1> CacheType /\ NoLostWakeup
  BY Zenon DEF IInv
<1> USE DEF bufVars, queueVars, deviceVars, cacheVars
<1>1. chan' \in [Procs -> Channels]
  BY ChannelFacts, Zenon DEF rw_full, virtio_full, wakeup, CacheType
<1>2. NoLostWakeup'
  BY ChannelFacts, Zenon DEF rw_full, virtio_full, wakeup, NoLostWakeup, CacheType
<1> QED BY <1>1, <1>2, ChanOnly, Zenon DEF rw_full, virtio_full, IInv

\* virtio_disk_rw() goes on waiting for the device.
LEMMA RwAgainPreserves ==
  ASSUME IInv, ~panic, NEW p \in Procs, rw_again(p)
  PROVE  IInv'
<1> CacheType /\ NoLostWakeup
  BY Zenon DEF IInv
<1> USE DEF bufVars, queueVars, deviceVars, cacheVars
<1>1. bp[p] \in Bufs
  BY HasBuffer, Zenon DEF rw_again, At
<1>2. chan' \in [Procs -> Channels]
  BY <1>1, ChannelFacts, Zenon DEF rw_again, virtio_again, CacheType
<1>3. NoLostWakeup'
  BY <1>1, ChannelFacts, Zenon DEF rw_again, virtio_again, NoLostWakeup, CacheType
<1> QED BY <1>2, <1>3, ChanOnly, Zenon DEF rw_again, virtio_again, IInv

\* log_write() of a changed buffer.
LEMMA LogWritePreserves ==
  ASSUME SetFacts, IInv, ~panic, NEW p \in Procs, NEW v \in Values, log_write(p, v)
  PROVE  IInv'
<1> /\ CacheType /\ DriverType /\ OwnInv /\ BlockInv /\ RefInv /\ LruInv
    /\ ValidInv /\ CleanInv /\ RequestInv /\ NoLostWakeup /\ PanicsOnlyIfAllInUse
  BY Zenon DEF IInv
<1> USE DEF bufVars, queueVars, deviceVars
<1>0. /\ UNCHANGED <<blockno, owned, queueVars, deviceVars, intr, head, chan, pc, panic, valid, lru, holder, bp, writing>>
      /\ pc[p] = "held"
  BY Zenon DEF log_write, At
<1>1. PICK b \in Bufs : /\ b = bp[p] /\ blockno[b] \in Blocks
                        /\ data' = [data EXCEPT ![b] = v] /\ pinned' = pinned \cup {b}
                        /\ refcnt' = IF b \in pinned THEN refcnt ELSE [refcnt EXCEPT ![b] = @ + 1]
  BY <1>0, HasBuffer, Zenon DEF log_write, bpin
<1>2. \A q \in Procs : q # p /\ pc[q] \in Owning => bp[q] # b
  BY <1>0, <1>1, OneOwner, Zenon DEF Owning
<1>3. CacheType'
  BY <1>0, <1>1 DEF CacheType
<1>4. DriverType' /\ ChainInv' /\ CountInv' /\ RingInv'
  BY <1>0, DriverFrame, Zenon DEF DriverType
<1>5. OwnInv' /\ LruInv' /\ ValidInv' /\ NoLostWakeup'
  BY <1>0 DEF OwnInv, LruInv, ValidInv, NoLostWakeup
<1>6. BlockInv'
  BY <1>0, <1>1, ConstantFacts, Zenon DEF BlockInv
<1>7. RefInv'
  <2>1. \A c \in Bufs : users(c)' = users(c)
    BY <1>0, Zenon DEF users
  <2>2. Cardinality(users(b)) \in Nat
    <3>1. IsFiniteSet(users(b))
      BY ConstantFacts, FiniteSub, Zenon DEF users
    <3> QED BY <3>1, SizeType, Zenon
  <2> QED BY <1>0, <1>1, <2>1, <2>2 DEF RefInv, CacheType
<1>8. CleanInv'
  BY <1>0, <1>1, <1>2 DEF CleanInv, CacheType, Owning
<1>9. RequestInv'
  <2>1. ASSUME NEW q \in Procs, head[q] # NoDesc
        PROVE  data'[bp[q]] = data[bp[q]]
    BY <1>0, <1>1, <1>2, <2>1, HasBuffer, Zenon DEF RequestInv, CacheType, Owning
  <2> QED BY <1>0, <2>1, RequestFrame, Zenon
<1>10. PanicsOnlyIfAllInUse'
  BY <1>0, Zenon DEF PanicsOnlyIfAllInUse
<1> QED BY <1>3, <1>4, <1>5, <1>6, <1>7, <1>8, <1>9, <1>10, Zenon DEF IInv

\* bwrite() starts.
LEMMA BwritePreserves ==
  ASSUME IInv, ~panic, NEW p \in Procs, NEW v \in Values, bwrite(p, v)
  PROVE  IInv'
<1> /\ CacheType /\ DriverType /\ OwnInv /\ BlockInv /\ RefInv /\ LruInv
    /\ ValidInv /\ CleanInv /\ RequestInv /\ NoLostWakeup /\ PanicsOnlyIfAllInUse
  BY Zenon DEF IInv
<1> USE DEF bufVars, queueVars, deviceVars
<1>0. /\ UNCHANGED <<blockno, owned, queueVars, deviceVars, intr, head, chan, panic, valid, refcnt, lru, holder, pinned, bp>>
      /\ pc[p] = "held" /\ pc' = [pc EXCEPT ![p] = "rw"]
      /\ writing' = [writing EXCEPT ![p] = TRUE]
  BY Zenon DEF bwrite, At, Goto
<1>1. PICK b \in Bufs : b = bp[p] /\ data' = [data EXCEPT ![b] = v]
  BY <1>0, HasBuffer, Zenon DEF bwrite
<1>2. \A q \in Procs : q # p /\ pc[q] \in Owning => bp[q] # b
  BY <1>0, <1>1, OneOwner, Zenon DEF Owning
<1>3. CacheType'
  BY <1>0, <1>1, Zenon DEF CacheType, Owning
<1>4. DriverType' /\ ChainInv' /\ CountInv' /\ RingInv'
  BY <1>0, DriverFrame, Zenon DEF DriverType
<1>5. BlockInv' /\ LruInv' /\ NoLostWakeup'
  BY <1>0, Zenon DEF BlockInv, LruInv, NoLostWakeup
<1>6. OwnInv'
  BY <1>0 DEF OwnInv, CacheType, Owning
<1>7. RefInv'
  BY <1>0, Zenon DEF RefInv, users
<1>8. ValidInv'
  BY <1>0, <1>1, Zenon DEF ValidInv, CacheType
<1>9. CleanInv'
  BY <1>0, <1>1, <1>2 DEF CleanInv, CacheType, Owning
<1>10. RequestInv'
  <2>1. head[p] = NoDesc
    BY <1>0, Zenon DEF RequestInv
  <2>2. ASSUME NEW q \in Procs
        PROVE  /\ pc'[q] = "rw_wait" <=> pc[q] = "rw_wait"
               /\ head[q] # NoDesc => data'[bp[q]] = data[bp[q]] /\ writing'[q] = writing[q]
    BY <1>0, <1>1, <1>2, <2>1, HasBuffer, Zenon DEF RequestInv, CacheType, Owning
  <2> QED BY <1>0, <2>2, RequestFrame, Zenon
<1>11. PanicsOnlyIfAllInUse'
  BY <1>0, Zenon DEF PanicsOnlyIfAllInUse
<1> QED BY <1>3, <1>4, <1>5, <1>6, <1>7, <1>8, <1>9, <1>10, <1>11, Zenon DEF IInv

\* install_trans() unpins.
LEMMA BunpinPreserves ==
  ASSUME SetFacts, IInv, ~panic, NEW p \in Procs, bunpin(p)
  PROVE  IInv'
<1> /\ CacheType /\ DriverType /\ OwnInv /\ BlockInv /\ RefInv /\ LruInv
    /\ ValidInv /\ CleanInv /\ RequestInv /\ NoLostWakeup /\ PanicsOnlyIfAllInUse
  BY Zenon DEF IInv
<1> USE DEF bufVars, queueVars, deviceVars
<1>0. /\ UNCHANGED <<bufVars, queueVars, deviceVars, intr, head, chan, panic, valid, lru, holder, bp, writing>>
      /\ pc[p] = "written" /\ pc' = [pc EXCEPT ![p] = "held"]
  BY Zenon DEF bunpin, At, Goto
<1>1. PICK b \in Bufs : /\ b = bp[p] /\ pinned' = pinned \ {b}
                        /\ refcnt' = IF b \in pinned THEN [refcnt EXCEPT ![b] = @ - 1] ELSE refcnt
  BY <1>0, HasBuffer, Zenon DEF bunpin
<1>2. RefInv' /\ refcnt' \in [Bufs -> Nat]
  <2>1. \A c \in Bufs : users(c)' = users(c)
    BY <1>0, Zenon DEF users
  <2>2. Cardinality(users(b)) \in Nat
    <3>1. IsFiniteSet(users(b))
      BY ConstantFacts, FiniteSub, Zenon DEF users
    <3> QED BY <3>1, SizeType, Zenon
  <2>3. b \in pinned => refcnt[b] - 1 = Cardinality(users(b))
    BY <2>2 DEF RefInv
  <2> QED BY <1>0, <1>1, <2>1, <2>2, <2>3 DEF RefInv, CacheType
<1>3. CacheType'
  BY <1>0, <1>1, <1>2, Zenon DEF CacheType, Owning
<1>4. DriverType' /\ ChainInv' /\ CountInv' /\ RingInv'
  BY <1>0, DriverFrame, Zenon DEF DriverType
<1>5. BlockInv' /\ LruInv' /\ NoLostWakeup'
  BY <1>0, <1>1, Zenon DEF BlockInv, LruInv, NoLostWakeup
<1>6. OwnInv'
  BY <1>0 DEF OwnInv, CacheType, Owning
<1>7. ValidInv'
  BY <1>0, <1>1, Zenon DEF ValidInv, CacheType
<1>8. CleanInv'
  <2>1. \A q \in Procs : pc'[q] = "written" => pc[q] = "written"
    BY <1>0, Zenon DEF CacheType
  <2>2. data[b] = platter[blockno[b]]
    BY <1>0, <1>1, Zenon DEF CleanInv
  <2> QED BY <1>0, <1>1, <2>1, <2>2, Zenon DEF CleanInv
<1>9. RequestInv'
  <2>1. elems(avail)' = elems(avail)
    BY <1>0, Zenon DEF elems
  <2>2. \A q \in Procs : pc'[q] = "rw_wait" <=> pc[q] = "rw_wait"
    BY <1>0, Zenon DEF CacheType
  <2> QED BY <1>0, <2>1, <2>2, Zenon DEF RequestInv
<1>10. PanicsOnlyIfAllInUse'
  BY <1>0, Zenon DEF PanicsOnlyIfAllInUse
<1> QED BY <1>2, <1>3, <1>4, <1>5, <1>6, <1>7, <1>8, <1>9, <1>10, Zenon DEF IInv

\* brelse() lets the lock go.
LEMMA ReleasesleepPreserves ==
  ASSUME IInv, ~panic, NEW p \in Procs, releasesleep(p)
  PROVE  IInv'
<1> /\ CacheType /\ DriverType /\ OwnInv /\ BlockInv /\ RefInv /\ LruInv
    /\ ValidInv /\ CleanInv /\ RequestInv /\ NoLostWakeup /\ PanicsOnlyIfAllInUse
  BY Zenon DEF IInv
<1> USE DEF bufVars, queueVars, deviceVars
<1>0. /\ UNCHANGED <<bufVars, queueVars, deviceVars, intr, head, panic, valid, refcnt, lru, pinned, bp, writing>>
      /\ pc[p] = "held" /\ pc' = [pc EXCEPT ![p] = "release"]
      /\ holder' = [holder EXCEPT ![bp[p]] = NoProc]
      /\ chan' = [q \in Procs |-> IF chan[q] = <<"lock", bp[p]>> THEN <<>> ELSE chan[q]]
  BY Zenon DEF releasesleep, At, Goto, wakeup
<1>1. bp[p] \in Bufs
  BY <1>0, HasBuffer, Zenon
<1>2. \A q \in Procs : q # p /\ pc[q] \in Owning => bp[q] # bp[p]
  BY <1>0, OneOwner, Zenon DEF Owning
<1>3. CacheType'
  BY <1>0, <1>1, ChannelFacts, Zenon DEF CacheType
<1>4. DriverType' /\ ChainInv' /\ CountInv' /\ RingInv'
  BY <1>0, DriverFrame, Zenon DEF DriverType
<1>5. BlockInv' /\ LruInv'
  BY <1>0, Zenon DEF BlockInv, LruInv
<1>6. OwnInv'
  BY <1>0, <1>1, <1>2, ConstantFacts DEF OwnInv, CacheType, Owning
<1>7. RefInv'
  BY <1>0, Zenon DEF RefInv, users
<1>8. ValidInv'
  BY <1>0, Zenon DEF ValidInv, CacheType
<1>9. CleanInv'
  BY <1>0, Zenon DEF CleanInv, CacheType
<1>10. RequestInv'
  <2>1. elems(avail)' = elems(avail)
    BY <1>0, Zenon DEF elems
  <2>2. \A q \in Procs : pc'[q] = "rw_wait" <=> pc[q] = "rw_wait"
    BY <1>0, Zenon DEF CacheType
  <2> QED BY <1>0, <2>1, <2>2, Zenon DEF RequestInv
<1>11. NoLostWakeup'
  BY <1>0, <1>1, ChannelFacts, Zenon DEF NoLostWakeup, CacheType
<1>12. PanicsOnlyIfAllInUse'
  BY <1>0, Zenon DEF PanicsOnlyIfAllInUse
<1> QED BY <1>3, <1>4, <1>5, <1>6, <1>7, <1>8, <1>9, <1>10, <1>11, <1>12, Zenon DEF IInv

\* Moving a buffer to the head of the list keeps every buffer in it once.
LEMMA ToFrontFacts ==
  ASSUME LruInv, NEW b \in Bufs, lru' = toFront(b)
  PROVE  LruInv'
<1>1. PICK at \in 1 .. NBUF : lru[at] = b /\ at = CHOOSE i \in DOMAIN lru : lru[i] = b
  BY Zenon DEF LruInv
<1>2. lru' = [i \in 1 .. NBUF |-> IF i = 1 THEN b ELSE IF i <= at THEN lru[i - 1] ELSE lru[i]]
  BY <1>1, Zenon DEF toFront, LruInv
<1>3. NBUF \in Nat
  BY ConstantFacts, Zenon
<1>4. lru' \in [1 .. NBUF -> Bufs]
  BY <1>1, <1>2, <1>3 DEF LruInv
<1>5. ASSUME NEW i \in 1 .. NBUF, NEW j \in 1 .. NBUF, lru'[i] = lru'[j] PROVE i = j
  BY <1>1, <1>2, <1>3, <1>5 DEF LruInv
<1>6. ASSUME NEW c \in Bufs PROVE \E i \in 1 .. NBUF : lru'[i] = c
  <2>1. PICK j \in 1 .. NBUF : lru[j] = c
    BY Zenon DEF LruInv
  <2>2. CASE j < at
    <3>1. j + 1 \in 1 .. NBUF /\ lru'[j + 1] = c
      BY <1>1, <1>2, <1>3, <2>1, <2>2
    <3> QED BY <3>1, Zenon
  <2>3. CASE j = at
    <3>1. 1 \in 1 .. NBUF /\ lru'[1] = c
      BY <1>1, <1>2, <1>3, <2>1, <2>3
    <3> QED BY <3>1, Zenon
  <2>4. CASE j > at
    <3>1. j # 1 /\ ~(j <= at)
      BY <1>1, <1>3, <2>4
    <3>2. lru'[j] = c
      BY <1>2, <2>1, <3>1, Zenon
    <3> QED BY <3>2, Zenon
  <2> QED BY <1>3, <2>2, <2>3, <2>4
<1> QED BY <1>4, <1>5, <1>6, Zenon DEF LruInv

\* brelse() counts the reference down.
LEMMA BrelsePreserves ==
  ASSUME SetFacts, IInv, ~panic, NEW p \in Procs, brelse(p)
  PROVE  IInv'
<1> /\ CacheType /\ DriverType /\ OwnInv /\ BlockInv /\ RefInv /\ LruInv
    /\ ValidInv /\ CleanInv /\ RequestInv /\ NoLostWakeup /\ PanicsOnlyIfAllInUse
  BY Zenon DEF IInv
<1> USE DEF bufVars, queueVars, deviceVars
<1>0. /\ UNCHANGED <<bufVars, queueVars, deviceVars, intr, head, chan, panic, valid, holder, pinned, writing>>
      /\ pc[p] = "release" /\ pc' = [pc EXCEPT ![p] = "idle"]
      /\ bp' = [bp EXCEPT ![p] = NoBuf]
  BY Zenon DEF brelse, At, Goto
<1>1. PICK b \in Bufs : /\ b = bp[p] /\ refcnt' = [refcnt EXCEPT ![b] = @ - 1]
                        /\ lru' = IF refcnt[b] = 1 THEN toFront(b) ELSE lru
  BY <1>0, HasBuffer, Zenon DEF brelse
<1>2. RefInv' /\ refcnt' \in [Bufs -> Nat]
  <2>1. /\ Cardinality(users(b)') = Cardinality(users(b)) - 1 /\ Cardinality(users(b)) \in Nat \ {0}
        /\ \A c \in Bufs \ {b} : users(c)' = users(c)
    BY <1>0, <1>1, UsersRemove, Zenon
  <2>2. refcnt[b] = Cardinality(users(b)) + (IF b \in pinned THEN 1 ELSE 0)
    BY Zenon DEF RefInv
  <2> QED BY <1>0, <1>1, <2>1, <2>2 DEF RefInv, CacheType
<1>3. CacheType'
  BY <1>0, <1>1, <1>2, Zenon DEF CacheType
<1>4. DriverType' /\ ChainInv' /\ CountInv' /\ RingInv'
  BY <1>0, DriverFrame, Zenon DEF DriverType
<1>5. LruInv'
  <2>1. CASE refcnt[b] = 1
    BY <1>1, <2>1, ToFrontFacts, Zenon
  <2>2. CASE refcnt[b] # 1
    BY <1>1, <2>2, Zenon DEF LruInv
  <2> QED BY <2>1, <2>2, Zenon
<1>6. OwnInv'
  BY <1>0, <1>1, ConstantFacts DEF OwnInv, CacheType, Owning
<1>7. BlockInv'
  BY <1>0, <1>1, Zenon DEF BlockInv, CacheType
<1>8. ValidInv'
  BY <1>0, Zenon DEF ValidInv, CacheType
<1>9. CleanInv'
  <2>1. ~writing[p]
    BY <1>0, Zenon DEF ValidInv, CacheType
  <2> QED BY <1>0, <2>1 DEF CleanInv, CacheType
<1>10. RequestInv'
  BY <1>0 DEF RequestInv, elems, CacheType
<1>11. NoLostWakeup'
  BY <1>0, Zenon DEF NoLostWakeup
<1>12. PanicsOnlyIfAllInUse'
  BY <1>0, Zenon DEF PanicsOnlyIfAllInUse
<1> QED BY <1>2, <1>3, <1>4, <1>5, <1>6, <1>7, <1>8, <1>9, <1>10, <1>11, <1>12, Zenon DEF IInv

\* What the driver and the device do leaves this part of the cache as it is.
LEMMA CacheFrame ==
  ASSUME IInv, UNCHANGED <<blockno, refcnt, lru, holder, pinned, bp, pc>>
  PROVE  OwnInv' /\ RefInv' /\ LruInv'
<1> OwnInv /\ RefInv /\ LruInv
  BY Zenon DEF IInv
<1>1. OwnInv' /\ LruInv'
  BY Zenon DEF OwnInv, LruInv
<1>2. RefInv'
  BY Zenon DEF RefInv, users
<1> QED BY <1>1, <1>2, Zenon

\* A chain of three is what chainOf() gives.
LEMMA ChainFacts ==
  ASSUME DriverType, NEW i \in Descs, IsChain(i)
  PROVE  /\ chainOf(i) = {i, next[i], next[next[i]]}
         /\ next[i] \in Descs /\ next[next[i]] \in Descs
<1>1. next[i] \in Descs /\ next[next[i]] \in Descs
  BY Zenon DEF DriverType, IsChain
<1> QED BY <1>1, ConstantFacts, Zenon DEF chainOf, IsChain

\* A process in flight waits for the device with a descriptor of its own.
LEMMA InFlightFacts ==
  ASSUME IInv, NEW p \in inFlight
  PROVE  /\ p \in Procs /\ pc[p] = "rw_wait" /\ head[p] \in Descs /\ head[p] \in chainOf(head[p])
         /\ head[p] \notin free /\ bp[p] \in Bufs /\ req[head[p]].b = bp[p]
         /\ \A q \in inFlight : q # p => head[q] # head[p] /\ bp[q] # bp[p]
<1> DriverType /\ RequestInv /\ ChainInv
  BY Zenon DEF IInv
<1>1. p \in Procs /\ pc[p] = "rw_wait" /\ head[p] \in Descs
  BY DEF inFlight, RequestInv, DriverType
<1>2. \A q \in inFlight : head[q] \in Descs /\ head[q] \in chainOf(head[q])
  <2> TAKE q \in inFlight
  <2>1. head[q] \in Descs /\ IsChain(head[q])
    BY Zenon DEF inFlight, DriverType, ChainInv
  <2> QED BY <2>1, ChainFacts, Zenon
<1>3. bp[p] \in Bufs
  BY <1>1, HasBuffer, Zenon
<1>4. \A q \in inFlight : q # p => head[q] # head[p]
  BY <1>2, Zenon DEF ChainInv
<1>5. \A q \in inFlight : q # p => bp[q] # bp[p]
  BY <1>1, OneOwner, Zenon DEF inFlight, RequestInv, Owning
<1>6. head[p] \notin free /\ req[head[p]].b = bp[p]
  BY <1>1, <1>2, Zenon DEF ChainInv, inFlight, RequestInv
<1> QED BY <1>1, <1>2, <1>3, <1>4, <1>5, <1>6, Zenon

\* Only who is in flight has something on its way, and each one something else.
LEMMA OnWayFacts ==
  ASSUME IInv, NEW i \in onWay
  PROVE  \E p \in inFlight : head[p] = i /\ req[i].b = bp[p]
                             /\ \A j \in onWay \ {i} : req[j].b # bp[p]
<1> RingInv
  BY Zenon DEF IInv
<1>1. PICK p \in inFlight : head[p] = i
  BY Zenon DEF RingInv
<1>2. req[i].b = bp[p]
  BY <1>1, InFlightFacts, Zenon
<1>3. ASSUME NEW j \in onWay, j # i PROVE req[j].b # bp[p]
  <2>1. PICK q \in inFlight : head[q] = j
    BY Zenon DEF RingInv
  <2>2. q # p /\ req[j].b = bp[q]
    BY <1>1, <1>3, <2>1, InFlightFacts, Zenon
  <2> QED BY <2>2, InFlightFacts, Zenon
<1> QED BY <1>1, <1>2, <1>3, Zenon

\* The device reads a request from the avail ring.
LEMMA DeviceTakesPreserves ==
  ASSUME SetFacts, IInv, ~panic, device_takes, UNCHANGED cacheVars
  PROVE  IInv'
<1> /\ CacheType /\ DriverType /\ BlockInv /\ ValidInv /\ CleanInv /\ RequestInv
    /\ ChainInv /\ CountInv /\ RingInv /\ NoLostWakeup /\ PanicsOnlyIfAllInUse
  BY Zenon DEF IInv
<1> USE DEF bufVars, cacheVars
<1>0. /\ UNCHANGED <<blockno, data, owned, free, next, req, used, isr, platter, intr, head, chan, pc, panic>>
      /\ avail # <<>> /\ serving' = serving \cup {Head(avail)} /\ avail' = Tail(avail)
  BY Zenon DEF device_takes
<1>1. PICK i \in Descs : i = Head(avail)
  BY <1>0, ElemsTail, Zenon DEF DriverType
<1>2. /\ avail' \in Seq(Descs) /\ Len(avail') = Len(avail) - 1 /\ Len(avail) \in Nat \ {0}
      /\ i = avail[1] /\ \A j \in 1 .. Len(avail) - 1 : avail'[j] = avail[j + 1]
      /\ elems(avail) = elems(avail') \cup {i}
  BY <1>0, <1>1, ElemsTail, Zenon DEF DriverType
<1>3. i \notin elems(avail')
  BY <1>2 DEF elems, RingInv
<1>4. CacheType'
  BY <1>0, Zenon DEF CacheType
<1>5. DriverType'
  BY <1>0, <1>1, <1>2 DEF DriverType
<1>6. OwnInv' /\ RefInv' /\ LruInv'
  BY <1>0, CacheFrame, Zenon
<1>7. BlockInv' /\ ValidInv' /\ CleanInv'
  BY <1>0, Zenon DEF BlockInv, ValidInv, CleanInv
<1>8. elems(avail') \cup serving' = elems(avail) \cup serving /\ onWay' = onWay
  BY <1>0, <1>1, <1>2, Zenon DEF onWay
<1>9. RequestInv'
  BY <1>0, <1>8, Zenon DEF RequestInv
<1>10. ChainInv' /\ inFlight' = inFlight
  BY <1>0, Zenon DEF ChainInv, IsChain, chainOf, inFlight
<1>11. CountInv'
  BY <1>0, <1>10, Zenon DEF CountInv
<1>12. RingInv'
  <2>1. Cardinality(serving') = Cardinality(serving) + 1 /\ Cardinality(serving) \in Nat
    <3>1. IsFiniteSet(serving)
      BY DescsFinite, FiniteSub, Zenon DEF DriverType
    <3>2. i \notin serving
      BY <1>2, Zenon DEF RingInv
    <3> QED BY <1>0, <1>1, <3>1, <3>2, SizeAdd, SizeType, Zenon
  <2>2. Len(avail') + Len(used') + Cardinality(serving') = Cardinality(onWay')
    BY <1>0, <1>2, <1>8, <2>1 DEF RingInv, DriverType
  <2>3. \A j, k \in 1 .. Len(avail') : avail'[j] = avail'[k] => j = k
    BY <1>2 DEF RingInv
  <2>4. elems(avail') \cap elems(used') = {} /\ elems(avail') \cap serving' = {} /\ elems(used') \cap serving' = {}
    BY <1>0, <1>1, <1>2, <1>3 DEF RingInv
  <2> QED BY <1>0, <1>8, <1>10, <2>2, <2>3, <2>4 DEF RingInv
<1>13. NoLostWakeup' /\ PanicsOnlyIfAllInUse'
  BY <1>0, Zenon DEF NoLostWakeup, PanicsOnlyIfAllInUse
<1> QED BY <1>4, <1>5, <1>6, <1>7, <1>9, <1>10, <1>11, <1>12, <1>13, Zenon DEF IInv

\* virtio_disk_intr() begins or ends.
LEMMA IntrPreserves ==
  ASSUME IInv, ~panic, virtio_intr \/ intr_return, UNCHANGED cacheVars
  PROVE  IInv'
<1> /\ CacheType /\ DriverType /\ BlockInv /\ ValidInv /\ CleanInv /\ RequestInv
    /\ ChainInv /\ CountInv /\ RingInv /\ NoLostWakeup /\ PanicsOnlyIfAllInUse
  BY Zenon DEF IInv
<1> USE DEF bufVars, queueVars, deviceVars, cacheVars
<1>0. /\ UNCHANGED <<bufVars, queueVars, used, serving, platter, head, chan, pc, panic>>
      /\ isr' \in BOOLEAN /\ intr' \in BOOLEAN /\ (used # <<>> => intr')
  BY Zenon DEF virtio_intr, intr_return, DriverType
<1>1. CacheType'
  BY <1>0, Zenon DEF CacheType
<1>2. DriverType'
  BY <1>0, Zenon DEF DriverType
<1>3. OwnInv' /\ RefInv' /\ LruInv'
  BY <1>0, CacheFrame, Zenon
<1>4. BlockInv' /\ ValidInv' /\ CleanInv'
  BY <1>0, Zenon DEF BlockInv, ValidInv, CleanInv
<1>5. RequestInv'
  BY <1>0 DEF RequestInv, elems
<1>6. ChainInv' /\ inFlight' = inFlight
  BY <1>0, Zenon DEF ChainInv, IsChain, chainOf, inFlight
<1>7. onWay' = onWay
  BY <1>0, Zenon DEF onWay, elems
<1>8. CountInv' /\ RingInv'
  BY <1>0, <1>6, <1>7 DEF CountInv, RingInv
<1>9. NoLostWakeup' /\ PanicsOnlyIfAllInUse'
  BY <1>0, Zenon DEF NoLostWakeup, PanicsOnlyIfAllInUse
<1> QED BY <1>1, <1>2, <1>3, <1>4, <1>5, <1>6, <1>8, <1>9, Zenon DEF IInv

\* virtio_disk_intr() takes a request from the used ring.
LEMMA IntrEntryPreserves ==
  ASSUME SetFacts, IInv, ~panic, intr_entry, UNCHANGED cacheVars
  PROVE  IInv'
<1> /\ CacheType /\ DriverType /\ BlockInv /\ ValidInv /\ CleanInv /\ RequestInv
    /\ ChainInv /\ CountInv /\ RingInv /\ NoLostWakeup /\ PanicsOnlyIfAllInUse
  BY Zenon DEF IInv
<1> USE DEF queueVars, cacheVars
<1>1. PICK i \in Descs : i = Head(used)
  BY ElemsTail, Zenon DEF DriverType, intr_entry
<1>2. /\ used' = Tail(used) /\ used' \in Seq(Descs) /\ Len(used') = Len(used) - 1 /\ Len(used) \in Nat \ {0}
      /\ i = used[1] /\ \A j \in 1 .. Len(used) - 1 : used'[j] = used[j + 1]
      /\ elems(used) = elems(used') \cup {i}
  BY <1>1, ElemsTail, Zenon DEF DriverType, intr_entry
<1>3. i \notin elems(used')
  BY <1>2 DEF elems, RingInv
<1>4. i \in onWay /\ i \notin elems(avail) /\ i \notin serving
  BY <1>2, Zenon DEF onWay, RingInv
<1>5. PICK p \in inFlight : head[p] = i /\ req[i].b = bp[p] /\ \A j \in onWay \ {i} : req[j].b # bp[p]
  BY <1>4, OnWayFacts, Zenon
<1>6. p \in Procs /\ bp[p] \in Bufs
  BY InFlightFacts, Zenon
<1>7. req[i].status = "ok"
  <2>1. req[i].status # "0xff"
    BY <1>4, <1>5, <1>6, ConstantFacts, Zenon DEF RequestInv, inFlight
  <2> QED BY <2>1, Zenon DEF DriverType, Requests
<1>8. /\ UNCHANGED <<blockno, data, free, next, req, avail, serving, isr, platter, intr, head, pc, panic>>
      /\ intr /\ owned' = owned \ {bp[p]}
      /\ chan' = [q \in Procs |-> IF chan[q] = <<"buf", bp[p]>> THEN <<>> ELSE chan[q]]
  BY <1>1, <1>5, <1>7, Zenon DEF intr_entry, wakeup, DriverType
<1>9. CacheType'
  BY <1>8, ChannelFacts, Zenon DEF CacheType
<1>10. DriverType'
  BY <1>2, <1>8, Zenon DEF DriverType
<1>11. OwnInv' /\ RefInv' /\ LruInv'
  BY <1>8, CacheFrame, Zenon
<1>12. BlockInv' /\ ValidInv' /\ CleanInv'
  BY <1>8, Zenon DEF BlockInv, ValidInv, CleanInv
<1>13. RequestInv'
  BY <1>8 DEF RequestInv, elems
<1>14. ChainInv' /\ inFlight' = inFlight
  BY <1>8, Zenon DEF ChainInv, IsChain, chainOf, inFlight
<1>15. CountInv'
  BY <1>8, <1>14, Zenon DEF CountInv
<1>16. RingInv'
  <2>1. onWay' = onWay \ {i}
    BY <1>2, <1>3, <1>4, <1>8, Zenon DEF onWay
  <2>2. IsFiniteSet(onWay)
    <3>1. onWay \subseteq Descs
      BY DEF onWay, elems, DriverType
    <3> QED BY <3>1, DescsFinite, FiniteSub, Zenon
  <2>3. Cardinality(onWay') = Cardinality(onWay) - 1 /\ Cardinality(onWay) \in Nat
    BY <1>4, <2>1, <2>2, SizeRemove, SizeType, Zenon
  <2>4. Cardinality(serving) \in Nat
    <3>1. IsFiniteSet(serving)
      BY DescsFinite, FiniteSub, Zenon DEF DriverType
    <3> QED BY <3>1, SizeType, Zenon
  <2>5. Len(avail') + Len(used') + Cardinality(serving') = Cardinality(onWay')
    <3>1. Len(avail) + Len(used) + Cardinality(serving) = Cardinality(onWay) /\ Len(avail) \in Nat
      BY DEF RingInv, DriverType
    <3>2. Len(avail') = Len(avail) /\ Cardinality(serving') = Cardinality(serving)
      BY <1>8, Zenon
    <3>3. Len(used') = Len(used) - 1 /\ Len(used) \in Nat
      BY <1>2, Zenon
    <3> QED BY <2>3, <2>4, <3>1, <3>2, <3>3
  <2>6. \A j, k \in 1 .. Len(used') : used'[j] = used'[k] => j = k
    BY <1>2 DEF RingInv
  <2>7. elems(avail') \cap elems(used') = {} /\ elems(avail') \cap serving' = {} /\ elems(used') \cap serving' = {}
    BY <1>2, <1>8, Zenon DEF RingInv
  <2>8. owned' = {req'[j].b : j \in onWay'}
    <3>1. owned = {req[j].b : j \in onWay}
      BY Zenon DEF RingInv
    <3>2. owned \ {bp[p]} = {req[j].b : j \in onWay \ {i}}
      BY <1>4, <1>5, <3>1
    <3> QED BY <1>8, <2>1, <3>2, Zenon
  <2> QED BY <1>8, <1>14, <2>1, <2>5, <2>6, <2>7, <2>8, Zenon DEF RingInv
<1>17. NoLostWakeup'
  BY <1>6, <1>8, ChannelFacts, Zenon DEF NoLostWakeup, CacheType
<1>18. PanicsOnlyIfAllInUse'
  BY <1>8, Zenon DEF PanicsOnlyIfAllInUse
<1> QED BY <1>9, <1>10, <1>11, <1>12, <1>13, <1>14, <1>15, <1>16, <1>17, <1>18, Zenon DEF IInv

\* The device has read or written a block.
LEMMA DeviceFinishesPreserves ==
  ASSUME SetFacts, IInv, ~panic, NEW i \in Descs, device_finishes(i), UNCHANGED cacheVars
  PROVE  IInv'
<1> /\ CacheType /\ DriverType /\ BlockInv /\ ValidInv /\ CleanInv /\ RequestInv
    /\ ChainInv /\ CountInv /\ RingInv /\ NoLostWakeup /\ PanicsOnlyIfAllInUse
  BY Zenon DEF IInv
<1> USE DEF cacheVars
<1>1. i \in serving /\ i \in onWay /\ i \notin elems(avail) /\ i \notin elems(used)
  BY Zenon DEF device_finishes, onWay, RingInv
<1>2. PICK p \in inFlight : head[p] = i /\ req[i].b = bp[p]
  BY <1>1, OnWayFacts, Zenon
<1>3. PICK b \in Bufs : b = bp[p]
  BY InFlightFacts, Zenon
<1>4. PICK k \in Blocks : k = blockno[b]
  BY <1>3, InFlightFacts, HasBuffer, Zenon
<1>5. /\ p \in Procs /\ pc[p] = "rw_wait"
      /\ req[i].b = b /\ req[i].write = writing[p] /\ req[i].sector = k
  BY <1>2, <1>3, <1>4, InFlightFacts, Zenon DEF RequestInv, inFlight
<1>6. \A q \in Procs : q # p /\ pc[q] \in Owning => bp[q] # b
  BY <1>3, <1>5, OneOwner, Zenon DEF Owning
<1>7. \A c \in Bufs : c # b => blockno[c] # k
  BY <1>4, ConstantFacts, Zenon DEF BlockInv
<1>8. writing[p] \in BOOLEAN /\ (b \in valid <=> writing[p])
  BY <1>3, <1>5, Zenon DEF ValidInv, CacheType
<1>9. /\ UNCHANGED <<blockno, owned, free, next, avail, intr, head, chan, pc, panic>>
      /\ serving' = serving \ {i} /\ used' = Append(used, i) /\ isr' = TRUE
      /\ req' = [req EXCEPT ![i].status = "ok"]
      /\ IF writing[p] THEN platter' = [platter EXCEPT ![k] = data[b]] /\ data' = data
                       ELSE data' = [data EXCEPT ![b] = platter[k]] /\ platter' = platter
  BY <1>5, Zenon DEF device_finishes
<1>10. /\ data'[b] = platter'[k]
       /\ \A c \in Bufs : c # b => data'[c] = data[c]
       /\ \A l \in Blocks : l # k => platter'[l] = platter[l]
       /\ b \notin valid => platter' = platter
       /\ data' \in [Bufs -> Values] /\ platter' \in [Blocks -> Values]
  <2>1. data \in [Bufs -> Values] /\ platter \in [Blocks -> Values]
    BY Zenon DEF CacheType, DriverType
  <2>2. CASE writing[p]
    <3>1. platter' = [platter EXCEPT ![k] = data[b]] /\ data' = data /\ b \in valid
      BY <1>8, <1>9, <2>2, Zenon
    <3> QED BY <2>1, <3>1, Zenon
  <2>3. CASE ~writing[p]
    <3>1. data' = [data EXCEPT ![b] = platter[k]] /\ platter' = platter
      BY <1>9, <2>3, Zenon
    <3> QED BY <2>1, <3>1, Zenon
  <2> QED BY <2>2, <2>3, Zenon
<1>11. /\ req' \in [Descs -> Requests] /\ req'[i].status = "ok"
       /\ \A j \in Descs : req'[j].b = req[j].b /\ req'[j].write = req[j].write /\ req'[j].sector = req[j].sector
       /\ \A j \in Descs : j # i => req'[j] = req[j]
  BY <1>9, ZenonT(30) DEF DriverType, Requests
<1>12. CacheType'
  BY <1>9, <1>10, Zenon DEF CacheType
<1>13. DriverType'
  BY <1>9, <1>10, <1>11 DEF DriverType
<1>14. OwnInv' /\ RefInv' /\ LruInv'
  BY <1>9, CacheFrame, Zenon
<1>15. BlockInv' /\ ValidInv'
  BY <1>9, Zenon DEF BlockInv, ValidInv
<1>16. CleanInv'
  <2>1. ASSUME NEW c \in valid \ pinned, \A q \in Procs : writing[q] => bp[q] # c
        PROVE  data'[c] = platter'[blockno[c]]
    <3>1. c \in Bufs /\ blockno[c] \in Blocks
      BY DEF CacheType, BlockInv
    <3>2. data[c] = platter[blockno[c]]
      BY <2>1, Zenon DEF CleanInv
    <3>3. c # b
      BY <1>3, <1>5, <1>8, <2>1, Zenon
    <3> QED BY <1>7, <1>10, <3>1, <3>2, <3>3, Zenon
  <2>2. ASSUME NEW q \in Procs, pc[q] = "written"
        PROVE  data'[bp[q]] = platter'[blockno[bp[q]]]
    <3>1. bp[q] \in Bufs /\ blockno[bp[q]] \in Blocks /\ data[bp[q]] = platter[blockno[bp[q]]]
      BY <2>2, HasBuffer, Zenon DEF CleanInv
    <3>2. bp[q] # b
      BY <1>5, <1>6, <2>2, Zenon DEF Owning
    <3> QED BY <1>7, <1>10, <3>1, <3>2, Zenon
  <2> QED BY <1>9, <2>1, <2>2, Zenon DEF CleanInv
<1>17. RequestInv'
  <2> SUFFICES ASSUME NEW q \in Procs, head[q] # NoDesc
               PROVE  LET r == req'[head[q]] IN
                      /\ r.b = bp[q] /\ r.write = writing[q] /\ r.sector = blockno[bp[q]]
                      /\ r.status = "0xff" <=> head[q] \in elems(avail) \cup (serving \ {i})
                      /\ r.status = "ok" => data'[bp[q]] = platter'[blockno[bp[q]]]
    BY <1>9 DEF RequestInv, elems
  <2>1. q \in inFlight /\ head[q] \in Descs
    BY Zenon DEF inFlight, DriverType
  <2>2. req'[head[q]].b = bp[q] /\ req'[head[q]].write = writing[q] /\ req'[head[q]].sector = blockno[bp[q]]
    BY <1>11, <2>1 DEF RequestInv
  <2>3. CASE q = p
    BY <1>1, <1>2, <1>3, <1>4, <1>10, <1>11, <2>2, <2>3, Zenon
  <2>4. CASE q # p
    <3>1. head[q] # i /\ pc[q] = "rw_wait" /\ bp[q] \in Bufs /\ bp[q] # b
      BY <1>2, <1>3, <2>1, <2>4, InFlightFacts, Zenon
    <3>2. blockno[bp[q]] \in Blocks /\ blockno[bp[q]] # k
      BY <1>7, <3>1, HasBuffer, Zenon
    <3>3. req'[head[q]] = req[head[q]]
      BY <1>11, <2>1, <3>1, Zenon
    <3>4. data'[bp[q]] = data[bp[q]] /\ platter'[blockno[bp[q]]] = platter[blockno[bp[q]]]
      BY <1>10, <3>1, <3>2, Zenon
    <3>5. /\ req[head[q]].status = "0xff" <=> head[q] \in elems(avail) \cup serving
          /\ req[head[q]].status = "ok" => data[bp[q]] = platter[blockno[bp[q]]]
      BY Zenon DEF RequestInv
    <3> QED BY <2>2, <3>1, <3>3, <3>4, <3>5, Zenon
  <2> QED BY <2>3, <2>4, Zenon
<1>18. ChainInv' /\ inFlight' = inFlight
  BY <1>9, Zenon DEF ChainInv, IsChain, chainOf, inFlight
<1>19. CountInv'
  BY <1>9, <1>18, Zenon DEF CountInv
<1>20. RingInv'
  <2>1. elems(used') = elems(used) \cup {i} /\ elems(avail') = elems(avail)
    BY <1>9, ElemsAppend DEF DriverType, elems
  <2>2. onWay' = onWay
    BY <1>1, <1>9, <2>1, Zenon DEF onWay
  <2>3. Cardinality(serving') = Cardinality(serving) - 1 /\ Cardinality(serving) \in Nat
    <3>1. IsFiniteSet(serving)
      BY DescsFinite, FiniteSub, Zenon DEF DriverType
    <3> QED BY <1>1, <1>9, <3>1, SizeRemove, SizeType, Zenon
  <2>4. /\ Len(used') = Len(used) + 1 /\ used'[Len(used) + 1] = i /\ Len(used) \in Nat
        /\ \A j \in 1 .. Len(used) : used'[j] = used[j]
    BY <1>9 DEF DriverType
  <2>5. Len(avail') + Len(used') + Cardinality(serving') = Cardinality(onWay')
    BY <1>9, <2>2, <2>3, <2>4 DEF RingInv, DriverType
  <2>6. ASSUME NEW j \in 1 .. Len(used'), NEW l \in 1 .. Len(used'), used'[j] = used'[l]
        PROVE  j = l
    <3>1. \A m \in 1 .. Len(used) : used'[m] # i
      BY <1>1, <2>4, Zenon DEF elems
    <3>2. CASE j \in 1 .. Len(used) /\ l \in 1 .. Len(used)
      BY <2>4, <2>6, <3>2, Zenon DEF RingInv
    <3>3. CASE j = Len(used) + 1 \/ l = Len(used) + 1
      BY <2>4, <2>6, <3>1, <3>3
    <3> QED BY <2>4, <3>2, <3>3
  <2>7. elems(avail') \cap elems(used') = {} /\ elems(avail') \cap serving' = {} /\ elems(used') \cap serving' = {}
    BY <1>1, <1>9, <2>1 DEF RingInv
  <2>8. onWay \subseteq Descs
    BY DEF onWay, elems, DriverType
  <2>9. owned' = {req'[j].b : j \in onWay'}
    BY <1>9, <1>11, <2>2, <2>8 DEF RingInv
  <2>10. \A j \in onWay' : \E q \in inFlight' : head'[q] = j
    BY <1>9, <1>18, <2>2, Zenon DEF RingInv
  <2>11. \A j, l \in 1 .. Len(avail') : avail'[j] = avail'[l] => j = l
    BY <1>9, Zenon DEF RingInv
  <2> QED BY <2>5, <2>6, <2>7, <2>9, <2>10, <2>11, Zenon DEF RingInv
<1>21. NoLostWakeup' /\ PanicsOnlyIfAllInUse'
  BY <1>9, Zenon DEF NoLostWakeup, PanicsOnlyIfAllInUse
<1> QED BY <1>12, <1>13, <1>14, <1>15, <1>16, <1>17, <1>18, <1>19, <1>20, <1>21, Zenon DEF IInv

\* virtio_disk_rw() has its descriptors and puts the request on the ring.
LEMMA RwSubmitPreserves ==
  ASSUME SetFacts, IInv, ~panic, NEW p \in Procs, rw_submit(p)
  PROVE  IInv'
<1> /\ CacheType /\ DriverType /\ OwnInv /\ BlockInv /\ RefInv /\ LruInv /\ ValidInv /\ CleanInv
    /\ RequestInv /\ ChainInv /\ CountInv /\ RingInv /\ NoLostWakeup /\ PanicsOnlyIfAllInUse
  BY Zenon DEF IInv
<1> USE DEF deviceVars, cacheVars
<1>1. pc[p] = "rw" /\ head[p] = NoDesc /\ p \notin inFlight
  BY Zenon DEF rw_submit, At, RequestInv, inFlight
<1>2. PICK b \in Bufs : b = bp[p]
  BY <1>1, HasBuffer, Zenon
<1>3. PICK k \in Blocks : k = blockno[b]
  BY <1>1, <1>2, HasBuffer, Zenon
<1>4. Cardinality(free) >= 3 /\ free \in SUBSET Descs
  BY Zenon DEF rw_submit, virtio_submit, DriverType
<1>5. PICK i, j, l \in free : /\ alloc3_desc = <<i, j, l>> /\ i # j /\ i # l /\ j # l
                              /\ Cardinality(free \ {i, j, l}) = Cardinality(free) - 3
  BY <1>4, AllocFacts, Zenon
<1>6. i \in Descs /\ j \in Descs /\ l \in Descs
  BY <1>4, Zenon
<1>7. /\ UNCHANGED <<blockno, data, deviceVars, intr, panic, cacheVars>>
      /\ free' = free \ {i, j, l}
      /\ next' = [next EXCEPT ![i] = j, ![j] = l, ![l] = NoDesc]
      /\ req' = [req EXCEPT ![i] = [b |-> b, write |-> writing[p], sector |-> k, status |-> "0xff"]]
      /\ avail' = Append(avail, i)
      /\ head' = [head EXCEPT ![p] = i]
      /\ owned' = owned \cup {b}
      /\ chan' = [chan EXCEPT ![p] = <<"buf", b>>]
      /\ pc' = [pc EXCEPT ![p] = "rw_wait"]
      /\ ~intr
  BY <1>2, <1>3, <1>5, Zenon DEF rw_submit, virtio_submit, Goto
<1>8. /\ \A q \in inFlight : /\ head[q] \in Descs \ {i, j, l} /\ chainOf(head[q]) \cap {i, j, l} = {}
                             /\ q \in Procs /\ q # p /\ bp[q] # b
      /\ inFlight' = inFlight \cup {p}
  <2>1. ASSUME NEW q \in inFlight
        PROVE  /\ head[q] \in Descs \ {i, j, l} /\ chainOf(head[q]) \cap {i, j, l} = {}
               /\ q \in Procs /\ q # p /\ bp[q] # b
    <3>1. head[q] \in Descs /\ head[q] \notin free /\ q \in Procs /\ q # p /\ pc[q] = "rw_wait"
      BY <1>1, InFlightFacts, Zenon
    <3>2. chainOf(head[q]) \cap free = {}
      BY Zenon DEF ChainInv
    <3>3. bp[q] # b
      BY <1>1, <1>2, <3>1, OneOwner, Zenon DEF Owning
    <3> QED BY <3>1, <3>2, <3>3, Zenon
  <2>2. inFlight' = inFlight \cup {p}
    BY <1>6, <1>7, ConstantFacts, Zenon DEF inFlight, DriverType
  <2> QED BY <2>1, <2>2, Zenon
<1>9. \A m \in onWay : m \in Descs \ {i, j, l}
  BY <1>8, Zenon DEF RingInv
<1>10. /\ elems(avail') = elems(avail) \cup {i} /\ elems(used') = elems(used)
       /\ onWay' = onWay \cup {i} /\ i \notin onWay
  <2>1. elems(avail') = elems(avail) \cup {i}
    BY <1>6, <1>7, ElemsAppend DEF DriverType
  <2> QED BY <1>7, <1>9, <2>1, Zenon DEF onWay, elems
<1>11. /\ req' \in [Descs -> Requests]
       /\ req'[i] = [b |-> b, write |-> writing[p], sector |-> k, status |-> "0xff"]
       /\ \A m \in Descs : m # i => req'[m] = req[m]
  <2>1. [b |-> b, write |-> writing[p], sector |-> k, status |-> "0xff"] \in Requests
    BY Zenon DEF Requests, CacheType
  <2> QED BY <1>6, <1>7, <2>1, Zenon DEF DriverType
<1>12. /\ next' \in [Descs -> Descs \cup {NoDesc}]
       /\ next'[i] = j /\ next'[j] = l /\ next'[l] = NoDesc
       /\ \A m \in Descs \ {i, j, l} : next'[m] = next[m]
  BY <1>5, <1>6, <1>7, Zenon DEF DriverType
<1>13. CacheType'
  BY <1>7, Zenon DEF CacheType, Channels, Owning
<1>14. DriverType'
  <2>1. avail' \in Seq(Descs) /\ head' \in [Procs -> Descs \cup {NoDesc}]
    BY <1>6, <1>7 DEF DriverType
  <2>2. owned' \subseteq Bufs /\ free' \subseteq Descs
    BY <1>7, Zenon DEF DriverType
  <2> QED BY <1>7, <1>11, <1>12, <2>1, <2>2, Zenon DEF DriverType
<1>15. OwnInv'
  BY <1>1, <1>7 DEF OwnInv, CacheType, Owning
<1>16. BlockInv' /\ LruInv'
  BY <1>7, Zenon DEF BlockInv, LruInv
<1>17. RefInv'
  BY <1>7, Zenon DEF RefInv, users
<1>18. ValidInv'
  BY <1>1, <1>7, Zenon DEF ValidInv, CacheType
<1>19. CleanInv'
  BY <1>7, Zenon DEF CleanInv, CacheType
<1>20. RequestInv'
  <2> SUFFICES ASSUME NEW q \in Procs
               PROVE  /\ pc'[q] = "rw_wait" <=> head'[q] # NoDesc
                      /\ head'[q] # NoDesc =>
                         /\ req'[head'[q]].b = bp[q]
                         /\ req'[head'[q]].write = writing[q]
                         /\ req'[head'[q]].sector = blockno[bp[q]]
                         /\ req'[head'[q]].status = "0xff" <=> head'[q] \in elems(avail') \cup serving
                         /\ req'[head'[q]].status = "ok" => data[bp[q]] = platter[blockno[bp[q]]]
    <3>1. elems(avail)' = elems(avail') /\ UNCHANGED <<blockno, data, bp, writing, serving, platter>>
      BY <1>7, Zenon DEF elems
    <3> QED BY <3>1, Zenon DEF RequestInv
  <2>1. CASE q = p
    <3>1. pc'[q] = "rw_wait" /\ head'[q] = i /\ i # NoDesc
      BY <1>6, <1>7, <2>1, ConstantFacts, Zenon DEF CacheType, DriverType
    <3>2. req'[i].b = b /\ req'[i].write = writing[p] /\ req'[i].sector = k /\ req'[i].status = "0xff"
      BY <1>11
    <3>3. i \in elems(avail') /\ b = bp[q] /\ k = blockno[bp[q]]
      BY <1>2, <1>3, <1>10, <2>1, Zenon
    <3>4. "0xff" # "ok"
      OBVIOUS
    <3> QED BY <2>1, <3>1, <3>2, <3>3, <3>4, Zenon
  <2>2. CASE q # p
    <3>1. pc'[q] = pc[q] /\ head'[q] = head[q]
      BY <1>7, <2>2, Zenon DEF CacheType, DriverType
    <3>2. ASSUME head[q] # NoDesc PROVE head[q] # i /\ req'[head[q]] = req[head[q]]
      BY <1>8, <1>11, <3>2, Zenon DEF inFlight
    <3>3. /\ pc[q] = "rw_wait" <=> head[q] # NoDesc
          /\ head[q] # NoDesc =>
             /\ req[head[q]].b = bp[q] /\ req[head[q]].write = writing[q] /\ req[head[q]].sector = blockno[bp[q]]
             /\ req[head[q]].status = "0xff" <=> head[q] \in elems(avail) \cup serving
             /\ req[head[q]].status = "ok" => data[bp[q]] = platter[blockno[bp[q]]]
      BY Zenon DEF RequestInv
    <3>4. CASE head[q] = NoDesc
      BY <3>1, <3>3, <3>4, Zenon
    <3>5. CASE head[q] # NoDesc
      <4>1. head[q] \in elems(avail') \cup serving <=> head[q] \in elems(avail) \cup serving
        BY <1>10, <3>2, <3>5, Zenon
      <4> QED BY <3>1, <3>2, <3>3, <3>5, <4>1, Zenon
    <3> QED BY <3>4, <3>5, Zenon
  <2> QED BY <2>1, <2>2, Zenon
<1>21. ChainInv'
  <2>1. ASSUME NEW q \in inFlight
        PROVE  /\ head'[q] = head[q] /\ IsChain(head[q])' /\ chainOf(head[q])' = chainOf(head[q])
               /\ chainOf(head[q])' \cap free' = {}
    <3>1. head'[q] = head[q] /\ head[q] \in Descs
      BY <1>7, <1>8, Zenon DEF DriverType
    <3>2. IsChain(head[q]) /\ chainOf(head[q]) \cap free = {}
      BY Zenon DEF ChainInv
    <3>3. PICK m \in Descs : m = head[q]
      BY <3>1, Zenon
    <3>4. chainOf(m) = {m, next[m], next[next[m]]} /\ next[m] \in Descs /\ next[next[m]] \in Descs
      BY <3>2, <3>3, ChainFacts, Zenon
    <3>5. next'[m] = next[m] /\ next'[next[m]] = next[next[m]] /\ next'[next[next[m]]] = next[next[next[m]]]
      BY <1>8, <1>12, <3>3, <3>4, Zenon
    <3>6. IsChain(m)' /\ chainOf(m)' = chainOf(m)
      BY <3>2, <3>3, <3>5, Zenon DEF IsChain, chainOf
    <3>7. head'[q] = m
      BY <3>1, <3>3, Zenon
    <3> QED BY <1>7, <3>1, <3>2, <3>3, <3>6, <3>7, Zenon DEF IsChain, chainOf
  <2>2. head'[p] = i /\ IsChain(head[p])' /\ chainOf(head[p])' = {i, j, l}
    <3>1. head'[p] = i
      BY <1>7, Zenon DEF DriverType
    <3>2. j # NoDesc /\ l # NoDesc /\ i # NoDesc
      BY <1>6, ConstantFacts, Zenon
    <3> QED BY <1>5, <1>12, <3>1, <3>2, Zenon DEF IsChain, chainOf
  <2>3. chainOf(head[p])' \cap free' = {}
    BY <1>7, <2>2, Zenon
  <2>4. \A q \in inFlight' : IsChain(head[q])' /\ chainOf(head[q])' \cap free' = {}
    BY <1>8, <2>1, <2>2, <2>3, Zenon
  <2>5. \A q, r \in inFlight' : q # r => chainOf(head[q])' \cap chainOf(head[r])' = {}
    <3> SUFFICES ASSUME NEW q \in inFlight', NEW r \in inFlight', q # r
                 PROVE  chainOf(head[q])' \cap chainOf(head[r])' = {}
      BY Zenon
    <3>1. CASE q \in inFlight /\ r \in inFlight
      BY <2>1, <3>1, Zenon DEF ChainInv
    <3>2. CASE q = p /\ r \in inFlight
      BY <1>8, <2>1, <2>2, <3>2, Zenon
    <3>3. CASE q \in inFlight /\ r = p
      BY <1>8, <2>1, <2>2, <3>3, Zenon
    <3> QED BY <1>8, <3>1, <3>2, <3>3, Zenon
  <2> QED BY <2>4, <2>5, Zenon DEF ChainInv
<1>22. CountInv'
  <2>1. IsFiniteSet(inFlight) /\ IsFiniteSet(free)
    BY ConstantFacts, DescsFinite, FiniteSub, Zenon DEF inFlight, DriverType
  <2>2. Cardinality(inFlight') = Cardinality(inFlight) + 1 /\ Cardinality(inFlight) \in Nat /\ Cardinality(free) \in Nat
    BY <1>1, <1>8, <2>1, SizeAdd, SizeType, Zenon
  <2> QED BY <1>5, <1>7, <2>2, ConstantFacts DEF CountInv
<1>23. RingInv'
  <2>1. /\ Len(avail') = Len(avail) + 1 /\ avail'[Len(avail) + 1] = i /\ Len(avail) \in Nat
        /\ \A m \in 1 .. Len(avail) : avail'[m] = avail[m]
    BY <1>6, <1>7 DEF DriverType
  <2>2. ASSUME NEW m \in 1 .. Len(avail'), NEW n \in 1 .. Len(avail'), avail'[m] = avail'[n]
        PROVE  m = n
    <3>1. \A o \in 1 .. Len(avail) : avail'[o] # i
      BY <1>10, <2>1, Zenon DEF elems, onWay
    <3>2. CASE m \in 1 .. Len(avail) /\ n \in 1 .. Len(avail)
      BY <2>1, <2>2, <3>2, Zenon DEF RingInv
    <3>3. CASE m = Len(avail) + 1 \/ n = Len(avail) + 1
      BY <2>1, <2>2, <3>1, <3>3
    <3> QED BY <2>1, <3>2, <3>3
  <2>3. elems(avail') \cap elems(used') = {} /\ elems(avail') \cap serving' = {} /\ elems(used') \cap serving' = {}
    BY <1>7, <1>10 DEF RingInv, onWay
  <2>4. \A m \in onWay' : \E q \in inFlight' : head'[q] = m
    <3>1. head'[p] = i /\ \A q \in inFlight : head'[q] = head[q]
      BY <1>7, <1>8, Zenon DEF DriverType
    <3> QED BY <1>8, <1>10, <3>1, Zenon DEF RingInv
  <2>5. owned' = {req'[m].b : m \in onWay'}
    <3>1. owned = {req[m].b : m \in onWay}
      BY Zenon DEF RingInv
    <3>2. req'[i].b = b /\ \A m \in onWay : req'[m].b = req[m].b
      BY <1>9, <1>11
    <3> QED BY <1>7, <1>10, <3>1, <3>2
  <2>6. IsFiniteSet(onWay)
    BY <1>9, DescsFinite, FiniteSub, Zenon
  <2>7. Cardinality(onWay') = Cardinality(onWay) + 1 /\ Cardinality(onWay) \in Nat
    BY <1>10, <2>6, SizeAdd, SizeType, Zenon
  <2>8. Cardinality(serving) \in Nat
    <3>1. IsFiniteSet(serving)
      BY DescsFinite, FiniteSub, Zenon DEF DriverType
    <3> QED BY <3>1, SizeType, Zenon
  <2>9. Len(avail') + Len(used') + Cardinality(serving') = Cardinality(onWay')
    BY <1>7, <2>1, <2>7, <2>8 DEF RingInv, DriverType
  <2>10. \A m, n \in 1 .. Len(used') : used'[m] = used'[n] => m = n
    BY <1>7, Zenon DEF RingInv
  <2> QED BY <2>2, <2>3, <2>4, <2>5, <2>9, <2>10, Zenon DEF RingInv
<1>24. NoLostWakeup'
  <2>1. \A q \in Procs : chan[q] # <<"free">>
    <3>1. Cardinality(free) \in Nat
      BY <1>4, DescsFinite, FiniteSub, SizeType, Zenon
    <3> QED BY <1>4, <3>1 DEF NoLostWakeup
  <2>2. used' # <<>> => isr' \/ intr'
    BY <1>7, Zenon DEF NoLostWakeup
  <2>3. ASSUME NEW q \in Procs
        PROVE  /\ chan'[q] # <<"free">>
               /\ \A c \in Bufs : /\ chan'[q] = <<"lock", c>> => holder'[c] # NoProc
                                  /\ chan'[q] = <<"buf", c>> => c \in owned'
    <3>1. CASE q = p
      <4>1. chan'[q] = <<"buf", b>>
        BY <1>7, <3>1, Zenon DEF CacheType
      <4>2. \A c \in Bufs : <<"buf", b>> = <<"buf", c>> => b = c
        BY Zenon
      <4> QED BY <1>7, <4>1, <4>2, ChannelFacts, Zenon
    <3>2. CASE q # p
      <4>1. chan'[q] = chan[q]
        BY <1>7, <3>2, Zenon DEF CacheType
      <4> QED BY <1>7, <2>1, <4>1, Zenon DEF NoLostWakeup
    <3> QED BY <3>1, <3>2, Zenon
  <2> QED BY <2>2, <2>3, Zenon DEF NoLostWakeup
<1>25. PanicsOnlyIfAllInUse'
  BY <1>7, Zenon DEF PanicsOnlyIfAllInUse
<1> QED BY <1>13, <1>14, <1>15, <1>16, <1>17, <1>18, <1>19, <1>20, <1>21, <1>22, <1>23, <1>24, <1>25, Zenon DEF IInv

\* virtio_disk_rw() ends when the driver has its buffer back, and then the disk
\* and the buffer agree.
LEMMA RwDoneFacts ==
  ASSUME IInv, NEW p \in Procs, rw_done(p)
  PROVE  /\ pc[p] = "rw_wait" /\ p \in inFlight
         /\ head[p] \notin onWay /\ data[bp[p]] = platter[blockno[bp[p]]]
<1> DriverType /\ RequestInv /\ RingInv
  BY Zenon DEF IInv
<1>1. pc[p] = "rw_wait" /\ p \in inFlight
  BY Zenon DEF rw_done, At, RequestInv, inFlight
<1>2. head[p] \in Descs /\ req[head[p]].b = bp[p] /\ bp[p] \notin owned
  BY <1>1, InFlightFacts, Zenon DEF rw_done, virtio_done
<1>3. head[p] \notin onWay
  BY <1>2, Zenon DEF RingInv
<1>4. head[p] # NoDesc /\ head[p] \notin elems(avail) \cup serving
  BY <1>2, <1>3, ConstantFacts, Zenon DEF onWay
<1>5. req[head[p]].status # "0xff"
  BY <1>4, Zenon DEF RequestInv
<1>6. req[head[p]].status = "ok"
  BY <1>2, <1>5, Zenon DEF DriverType, Requests
<1> QED BY <1>1, <1>3, <1>4, <1>6, Zenon DEF RequestInv

\* The end of virtio_disk_rw(): its descriptors are free again.
LEMMA RwDonePreserves ==
  ASSUME SetFacts, IInv, ~panic, NEW p \in Procs, rw_done(p)
  PROVE  IInv'
<1> /\ CacheType /\ DriverType /\ OwnInv /\ BlockInv /\ RefInv /\ LruInv /\ ValidInv /\ CleanInv
    /\ RequestInv /\ ChainInv /\ CountInv /\ RingInv /\ NoLostWakeup /\ PanicsOnlyIfAllInUse
  BY Zenon DEF IInv
<1> USE DEF bufVars, deviceVars
<1>1. pc[p] = "rw_wait" /\ p \in inFlight
  BY RwDoneFacts, Zenon
<1>2. PICK b \in Bufs : b = bp[p]
  BY <1>1, HasBuffer, Zenon
<1>3. PICK i \in Descs : i = head[p]
  BY <1>1, InFlightFacts, Zenon
<1>4. PICK j, l \in Descs : j = next[i] /\ l = next[j]
  <2>1. IsChain(i)
    BY <1>1, <1>3, Zenon DEF ChainInv
  <2> QED BY <2>1, ChainFacts, Zenon
<1>5. chainOf(i) = {i, j, l} /\ i # j /\ i # l /\ j # l /\ {i, j, l} \cap free = {}
  <2>1. IsChain(i) /\ chainOf(i) \cap free = {}
    BY <1>1, <1>3, Zenon DEF ChainInv
  <2>2. chainOf(i) = {i, j, l}
    BY <1>4, <2>1, ChainFacts, Zenon
  <2> QED BY <1>4, <2>1, <2>2, Zenon DEF IsChain
<1>6. i \notin onWay
  BY <1>3, RwDoneFacts, Zenon
<1>7. data[b] = platter[blockno[b]]
  BY <1>2, RwDoneFacts, Zenon
<1>8. /\ UNCHANGED <<blockno, data, owned, avail, used, serving, isr, platter, intr, refcnt, lru, holder, pinned, bp, panic>>
      /\ free' = free \cup {i, j, l}
      /\ next' = [d \in Descs |-> IF d \in {i, j, l} THEN NoDesc ELSE next[d]]
      /\ req' = [req EXCEPT ![i] = NoReq]
      /\ head' = [head EXCEPT ![p] = NoDesc]
      /\ chan' = [wakeup(<<"free">>) EXCEPT ![p] = <<>>]
      /\ valid' = valid \cup {b}
      /\ writing' = [writing EXCEPT ![p] = FALSE]
      /\ pc' = [pc EXCEPT ![p] = IF writing[p] THEN "written" ELSE "held"]
  <2>1. panic' = panic
    <3>1. panic' = (panic \/ chainOf(i) \cap free # {})
      BY <1>3, Zenon DEF rw_done, virtio_done, free_chain
    <3>2. chainOf(i) \cap free = {}
      BY <1>5, Zenon
    <3>3. panic \in BOOLEAN
      BY Zenon DEF DriverType
    <3> QED BY <3>1, <3>2, <3>3, Zenon
  <2> QED BY <1>2, <1>3, <1>5, <2>1, Zenon DEF rw_done, virtio_done, free_chain, Goto
<1>9. PICK w \in {"written", "held"} : pc' = [pc EXCEPT ![p] = w]
  <2>1. CASE writing[p]
    BY <1>8, <2>1, Zenon
  <2>2. CASE ~writing[p]
    BY <1>8, <2>2, Zenon
  <2> QED BY <2>1, <2>2, Zenon
<1>10. \A q \in Procs : q # p /\ pc[q] \in Owning => bp[q] # b
  BY <1>1, <1>2, OneOwner, Zenon DEF Owning
<1>11. /\ inFlight' = inFlight \ {p}
       /\ \A q \in inFlight \ {p} : /\ q \in Procs /\ head'[q] = head[q] /\ head[q] \in Descs \ {i}
                                    /\ chainOf(head[q]) \cap {i, j, l} = {}
  <2>1. inFlight' = inFlight \ {p}
    BY <1>8, Zenon DEF inFlight, DriverType
  <2>2. ASSUME NEW q \in inFlight \ {p}
        PROVE  /\ q \in Procs /\ head'[q] = head[q] /\ head[q] \in Descs \ {i}
               /\ chainOf(head[q]) \cap {i, j, l} = {}
    <3>1. q \in Procs /\ head'[q] = head[q]
      BY <1>8, Zenon DEF DriverType, inFlight
    <3>2. head[q] \in Descs \ {i}
      BY <1>1, <1>3, InFlightFacts, Zenon
    <3>3. chainOf(head[q]) \cap {i, j, l} = {}
      BY <1>1, <1>3, <1>5, Zenon DEF ChainInv
    <3> QED BY <3>1, <3>2, <3>3, Zenon
  <2> QED BY <2>1, <2>2, Zenon
<1>12. /\ req' \in [Descs -> Requests] /\ \A m \in Descs : m # i => req'[m] = req[m]
       /\ onWay' = onWay
  <2>1. NoReq \in Requests
    <3>1. NoReq.b = NoBuf /\ NoReq.sector = NoBlock
      BY Zenon DEF NoReq, NoBlock
    <3> QED BY <3>1, Zenon DEF NoReq, Requests, NoBlock
  <2> QED BY <1>8, <2>1, Zenon DEF DriverType, onWay, elems
<1>13. /\ chan' \in [Procs -> Channels]
       /\ \A q \in Procs : chan'[q] # <<"free">> /\ chan'[q] \in {<<>>, chan[q]}
  BY <1>8, ChannelFacts, Zenon DEF CacheType, Channels, wakeup
<1>14. CacheType'
  BY <1>8, <1>9, <1>13, Zenon DEF CacheType, Owning
<1>15. DriverType'
  <2>1. next' \in [Descs -> Descs \cup {NoDesc}] /\ head' \in [Procs -> Descs \cup {NoDesc}] /\ free' \subseteq Descs
    BY <1>8, Zenon DEF DriverType
  <2> QED BY <1>8, <1>12, <2>1, Zenon DEF DriverType
<1>16. OwnInv'
  BY <1>1, <1>8, <1>9 DEF OwnInv, CacheType, Owning
<1>17. BlockInv' /\ LruInv'
  <2>1. blockno[b] # NoBlock
    BY <1>1, <1>2, HasBuffer, ConstantFacts, Zenon
  <2> QED BY <1>8, <2>1, Zenon DEF BlockInv, LruInv
<1>18. RefInv'
  BY <1>8, Zenon DEF RefInv, users
<1>19. ValidInv'
  <2> SUFFICES ASSUME NEW q \in Procs
               PROVE  /\ pc'[q] \in {"held", "written"} => bp[q] \in valid'
                      /\ writing'[q] => pc'[q] \in {"rw", "rw_wait"}
                      /\ pc'[q] \in {"rw", "rw_wait"} => (bp[q] \in valid' <=> writing'[q])
    BY <1>8, Zenon DEF ValidInv
  <2>1. CASE q = p
    <3>1. pc'[q] \in {"written", "held"} /\ ~writing'[q]
      BY <1>8, <1>9, <2>1, Zenon DEF CacheType
    <3> QED BY <1>2, <1>8, <2>1, <3>1, Zenon
  <2>2. CASE q # p
    <3>1. pc'[q] = pc[q] /\ writing'[q] = writing[q]
      BY <1>8, <1>9, <2>2, Zenon DEF CacheType
    <3>2. pc[q] \in {"rw", "rw_wait"} => bp[q] # b
      BY <1>10, <2>2, Zenon DEF Owning
    <3> QED BY <1>8, <3>1, <3>2, Zenon DEF ValidInv
  <2> QED BY <2>1, <2>2, Zenon
<1>20. CleanInv'
  <2>1. ASSUME NEW c \in valid' \ pinned, \A q \in Procs : writing'[q] => bp[q] # c
        PROVE  data[c] = platter[blockno[c]]
    <3>1. CASE c = b
      BY <1>7, <3>1, Zenon
    <3>2. CASE c # b
      <4>1. \A q \in Procs : writing[q] => bp[q] # c
        BY <1>2, <1>8, <2>1, <3>2, Zenon DEF CacheType
      <4> QED BY <1>8, <3>2, <4>1, Zenon DEF CleanInv
    <3> QED BY <3>1, <3>2, Zenon
  <2>2. ASSUME NEW q \in Procs, pc'[q] = "written"
        PROVE  data[bp[q]] = platter[blockno[bp[q]]]
    <3>1. CASE q = p
      BY <1>2, <1>7, <3>1, Zenon
    <3>2. CASE q # p
      <4>1. pc[q] = "written"
        BY <1>9, <2>2, <3>2, Zenon DEF CacheType
      <4> QED BY <4>1, Zenon DEF CleanInv
    <3> QED BY <3>1, <3>2, Zenon
  <2> QED BY <1>8, <2>1, <2>2, Zenon DEF CleanInv
<1>21. RequestInv'
  <2>0. elems(avail)' = elems(avail) /\ UNCHANGED <<blockno, data, bp, serving, platter>>
    BY <1>8, Zenon DEF elems
  <2> SUFFICES ASSUME NEW q \in Procs
               PROVE  /\ pc'[q] = "rw_wait" <=> head'[q] # NoDesc
                      /\ head'[q] # NoDesc =>
                         /\ req'[head'[q]].b = bp[q]
                         /\ req'[head'[q]].write = writing'[q]
                         /\ req'[head'[q]].sector = blockno[bp[q]]
                         /\ req'[head'[q]].status = "0xff" <=> head'[q] \in elems(avail) \cup serving
                         /\ req'[head'[q]].status = "ok" => data[bp[q]] = platter[blockno[bp[q]]]
    BY <2>0, Zenon DEF RequestInv
  <2>1. CASE q = p
    BY <1>8, <1>9, <2>1, Zenon DEF CacheType, DriverType
  <2>2. CASE q # p
    <3>1. pc'[q] = pc[q] /\ head'[q] = head[q] /\ writing'[q] = writing[q]
      BY <1>8, <1>9, <2>2, Zenon DEF CacheType, DriverType
    <3>2. ASSUME head[q] # NoDesc PROVE req'[head[q]] = req[head[q]]
      BY <1>11, <1>12, <2>2, <3>2, Zenon DEF inFlight
    <3>3. /\ pc[q] = "rw_wait" <=> head[q] # NoDesc
          /\ head[q] # NoDesc =>
             /\ req[head[q]].b = bp[q] /\ req[head[q]].write = writing[q] /\ req[head[q]].sector = blockno[bp[q]]
             /\ req[head[q]].status = "0xff" <=> head[q] \in elems(avail) \cup serving
             /\ req[head[q]].status = "ok" => data[bp[q]] = platter[blockno[bp[q]]]
      BY Zenon DEF RequestInv
    <3>4. CASE head[q] = NoDesc
      BY <3>1, <3>3, <3>4, Zenon
    <3>5. CASE head[q] # NoDesc
      BY <3>1, <3>2, <3>3, <3>5, Zenon
    <3> QED BY <3>4, <3>5, Zenon
  <2> QED BY <2>1, <2>2, Zenon
<1>22. ChainInv'
  <2>1. ASSUME NEW q \in inFlight \ {p}
        PROVE  /\ IsChain(head[q])' /\ chainOf(head[q])' = chainOf(head[q])
               /\ chainOf(head[q])' \cap free' = {}
    <3>1. PICK m \in Descs : m = head[q] /\ m = head'[q]
      BY <1>11, Zenon
    <3>2. IsChain(m) /\ chainOf(m) \cap free = {} /\ chainOf(m) \cap {i, j, l} = {}
      BY <1>11, <3>1, Zenon DEF ChainInv
    <3>3. chainOf(m) = {m, next[m], next[next[m]]} /\ next[m] \in Descs /\ next[next[m]] \in Descs
      BY <3>2, ChainFacts, Zenon
    <3>4. \A d \in Descs \ {i, j, l} : next'[d] = next[d]
      BY <1>8, Zenon
    <3>5. next'[m] = next[m] /\ next'[next[m]] = next[next[m]] /\ next'[next[next[m]]] = next[next[next[m]]]
      BY <3>2, <3>3, <3>4, Zenon
    <3>6. IsChain(m)' /\ chainOf(m)' = chainOf(m)
      BY <3>2, <3>5, Zenon DEF IsChain, chainOf
    <3>7. IsChain(head[q])'
      BY <3>1, <3>6, Zenon DEF IsChain
    <3>8. chainOf(head[q])' = chainOf(m)' /\ chainOf(head[q]) = chainOf(m)
      BY <3>1, Zenon DEF chainOf
    <3>9. chainOf(m) \cap free' = {}
      BY <1>8, <3>2, Zenon
    <3> QED BY <3>6, <3>7, <3>8, <3>9, Zenon
  <2> QED BY <1>11, <2>1, Zenon DEF ChainInv
<1>23. CountInv'
  <2>1. IsFiniteSet(inFlight) /\ IsFiniteSet(free)
    BY ConstantFacts, DescsFinite, FiniteSub, Zenon DEF inFlight, DriverType
  <2>2. Cardinality(inFlight') = Cardinality(inFlight) - 1 /\ Cardinality(inFlight) \in Nat /\ Cardinality(free) \in Nat
    BY <1>1, <1>11, <2>1, SizeRemove, SizeType, Zenon
  <2>3. Cardinality(free') = Cardinality(free) + 3
    BY <1>5, <1>8, <2>1, AddThree, Zenon
  <2> QED BY <2>2, <2>3, ConstantFacts DEF CountInv
<1>24. RingInv'
  <2>1. \A m \in onWay : \E q \in inFlight' : head'[q] = m
    BY <1>3, <1>6, <1>11, Zenon DEF RingInv
  <2>2. ASSUME NEW m \in onWay PROVE req'[m] = req[m]
    <3>1. PICK q \in inFlight' : head'[q] = m
      BY <2>1, Zenon
    <3> QED BY <1>6, <1>11, <1>12, <3>1, Zenon
  <2>3. owned' = {req'[m].b : m \in onWay}
    <3>1. owned' = {req[m].b : m \in onWay}
      BY <1>8, Zenon DEF RingInv
    <3> QED BY <2>2, <3>1
  <2>4. elems(avail)' = elems(avail) /\ elems(used)' = elems(used)
    BY <1>8, Zenon DEF elems
  <2> QED BY <1>8, <1>12, <2>1, <2>3, <2>4, ZenonT(30) DEF RingInv
<1>25. NoLostWakeup'
  BY <1>8, <1>13, ChannelFacts, Zenon DEF NoLostWakeup
<1>26. PanicsOnlyIfAllInUse'
  BY <1>8, Zenon DEF PanicsOnlyIfAllInUse
<1> QED BY <1>14, <1>15, <1>16, <1>17, <1>18, <1>19, <1>20, <1>21, <1>22, <1>23, <1>24, <1>25, <1>26, Zenon DEF IInv

(***************************************************************************)
(* The invariant holds.                                                    *)
(***************************************************************************)

\* binit() and virtio_disk_init() establish the invariant.
LEMMA InitIInv ==
  ASSUME SetFacts, Init
  PROVE  IInv
<1> USE ConstantFacts DEF Init, binit, virtio_disk_init
<1>1. NoReq \in Requests
  BY Zenon DEF NoReq, Requests, NoBlock
<1>2. CacheType
  BY BufferAssumption, Zenon DEF CacheType, Channels
<1>3. DriverType
  <2>1. owned \subseteq Bufs /\ free \subseteq Descs /\ serving \subseteq Descs
    BY Zenon
  <2>2. avail \in Seq(Descs) /\ used \in Seq(Descs)
    OBVIOUS
  <2>3. next \in [Descs -> Descs \cup {NoDesc}] /\ head \in [Procs -> Descs \cup {NoDesc}]
    BY Zenon
  <2>4. req \in [Descs -> Requests]
    BY <1>1, Zenon
  <2>5. platter \in [Blocks -> Values]
    BY BufferAssumption, Zenon
  <2> QED BY <2>1, <2>2, <2>3, <2>4, <2>5, Zenon DEF DriverType
<1>4. OwnInv /\ BlockInv /\ ValidInv /\ CleanInv
  BY Zenon DEF OwnInv, BlockInv, ValidInv, CleanInv, Owning
<1>5. RefInv
  <2>1. \A b \in Bufs : users(b) = {}
    BY Zenon DEF users
  <2>2. \A b \in Bufs : refcnt[b] = 0 /\ b \notin pinned
    BY Zenon
  <2>3. \A b \in Bufs : Cardinality(users(b)) = 0
    BY <2>1, SizeEmpty, Zenon
  <2> QED BY <2>2, <2>3 DEF RefInv
<1>6. LruInv
  <2>1. \A b \in Bufs : NBUF + 1 - b \in 1 .. NBUF /\ NBUF + 1 - (NBUF + 1 - b) = b
    BY DEF Bufs
  <2>2. \A b \in Bufs : \E i \in 1 .. NBUF : lru[i] = b
    BY <2>1, Zenon
  <2> QED BY <2>2 DEF LruInv, Bufs
<1>7. inFlight = {}
  BY Zenon DEF inFlight
<1>8. RequestInv /\ ChainInv
  BY <1>7, Zenon DEF RequestInv, ChainInv
<1>9. CountInv
  <2>1. Cardinality(free) = NUM
    BY DescsFinite, Zenon
  <2> QED BY <1>7, <2>1, SizeEmpty DEF CountInv
<1>10. RingInv
  <2>1. elems(avail) = {} /\ elems(used) = {} /\ onWay = {}
    BY DEF elems, onWay
  <2> QED BY <2>1, SizeEmpty DEF RingInv
<1>11. NoLostWakeup /\ PanicsOnlyIfAllInUse
  BY ChannelFacts, Zenon DEF NoLostWakeup, PanicsOnlyIfAllInUse
<1> QED BY <1>2, <1>3, <1>4, <1>5, <1>6, <1>8, <1>9, <1>10, <1>11, Zenon DEF IInv

\* Every step of a process, of the device and of the interrupt handler preserves
\* the invariant.
LEMMA NextIInv ==
  ASSUME SetFacts, IInv, [Next]_vars
  PROVE  IInv'
<1>1. CASE UNCHANGED vars
  <2> CacheType /\ DriverType /\ OwnInv /\ BlockInv /\ RefInv /\ LruInv /\ ValidInv /\ CleanInv /\ RequestInv
        /\ ChainInv /\ CountInv /\ RingInv /\ NoLostWakeup /\ PanicsOnlyIfAllInUse
    BY Zenon DEF IInv
  <2> USE <1>1 DEF vars, driverVars, bufVars, queueVars, deviceVars, cacheVars
  <2>1. CacheType' /\ DriverType'
    BY Zenon DEF CacheType, DriverType
  <2>2. OwnInv' /\ BlockInv' /\ LruInv' /\ ValidInv' /\ CleanInv'
    <3>1. OwnInv' /\ BlockInv'
      BY Zenon DEF OwnInv, BlockInv
    <3>2. LruInv'
      BY Zenon DEF LruInv
    <3>3. ValidInv' /\ CleanInv'
      BY Zenon DEF ValidInv, CleanInv
    <3> QED BY <3>1, <3>2, <3>3, Zenon
  <2>3. RefInv'
    BY Zenon DEF RefInv, users
  <2>4. RequestInv'
    BY DEF RequestInv, elems
  <2>5. ChainInv' /\ CountInv' /\ RingInv'
    BY DriverFrame, Zenon DEF DriverType
  <2>6. NoLostWakeup' /\ PanicsOnlyIfAllInUse'
    BY Zenon DEF NoLostWakeup, PanicsOnlyIfAllInUse
  <2> QED BY <2>1, <2>2, <2>3, <2>4, <2>5, <2>6, Zenon DEF IInv
<1>2. CASE Next
  <2>0. ~panic
    BY <1>2, Zenon DEF Next
  <2>1. CASE Drives
    <3>1. UNCHANGED cacheVars
      BY <2>1, Zenon DEF Drives
    <3>2. CASE device_takes
      BY <2>0, <3>1, <3>2, DeviceTakesPreserves, Zenon
    <3>3. ASSUME NEW i \in Descs, device_finishes(i) PROVE IInv'
      BY <2>0, <3>1, <3>3, DeviceFinishesPreserves, Zenon
    <3>4. CASE virtio_intr \/ intr_return
      BY <2>0, <3>1, <3>4, IntrPreserves, Zenon
    <3>5. CASE intr_entry
      BY <2>0, <3>1, <3>5, IntrEntryPreserves, Zenon
    <3> QED BY <2>1, <3>2, <3>3, <3>4, <3>5, Zenon DEF Drives, device, interrupt
  <2>2. ASSUME NEW p \in Procs, continues(p) PROVE IInv'
    <3>1. CASE acquiresleep(p)
      BY <2>0, <3>1, AcquiresleepPreserves, Zenon
    <3>2. CASE acquiresleep_waits(p)
      BY <2>0, <3>2, AcquiresleepWaitsPreserves, Zenon
    <3>3. CASE rw_submit(p)
      BY <2>0, <3>3, RwSubmitPreserves, Zenon
    <3>4. CASE rw_full(p)
      BY <2>0, <3>4, RwFullPreserves, Zenon
    <3>5. CASE rw_again(p)
      BY <2>0, <3>5, RwAgainPreserves, Zenon
    <3>6. CASE rw_done(p)
      BY <2>0, <3>6, RwDonePreserves, Zenon
    <3>7. CASE bunpin(p)
      BY <2>0, <3>7, BunpinPreserves, Zenon
    <3>8. CASE releasesleep(p)
      BY <2>0, <3>8, ReleasesleepPreserves, Zenon
    <3>9. CASE brelse(p)
      BY <2>0, <3>9, BrelsePreserves, Zenon
    <3> QED BY <2>2, <3>1, <3>2, <3>3, <3>4, <3>5, <3>6, <3>7, <3>8, <3>9, Zenon DEF continues
  <2>3. ASSUME NEW p \in Procs, uses(p) PROVE IInv'
    <3>1. ASSUME NEW k \in Blocks, bget(p, k) PROVE IInv'
      <4>1. CASE bget_hit(p, k)
        BY <2>0, <4>1, BgetHitPreserves, Zenon
      <4>2. CASE bget_recycle(p, k)
        BY <2>0, <4>2, BgetRecyclePreserves, Zenon
      <4>3. CASE bget_panics(p, k)
        BY <2>0, <4>3, BgetPanicsPreserves, Zenon
      <4> QED BY <3>1, <4>1, <4>2, <4>3, Zenon DEF bget
    <3>2. ASSUME NEW v \in Values, log_write(p, v) PROVE IInv'
      BY <2>0, <3>2, LogWritePreserves, Zenon
    <3>3. ASSUME NEW v \in Values, bwrite(p, v) PROVE IInv'
      BY <2>0, <3>3, BwritePreserves, Zenon
    <3> QED BY <2>3, <3>1, <3>2, <3>3, Zenon DEF uses
  <2> QED BY <1>2, <2>1, <2>2, <2>3, Zenon DEF Next
<1> QED BY <1>1, <1>2, Zenon

\* It gives what DriverInv says of the descriptors and the rings.
LEMMA DriverInvHolds ==
  ASSUME SetFacts, IInv
  PROVE  DriverInv
<1> DriverType /\ OwnInv /\ ChainInv /\ CountInv /\ RingInv
  BY Zenon DEF IInv
<1>1. ASSUME NEW p \in inFlight
      PROVE  /\ Cardinality(chainOf(head[p])) = 3
             /\ chainOf(head[p]) \cap free = {}
             /\ req[head[p]].b = bp[p] /\ Holds(p)
             /\ \A q \in inFlight \ {p} : chainOf(head[p]) \cap chainOf(head[q]) = {}
  <2>1. p \in Procs /\ pc[p] = "rw_wait" /\ head[p] \in Descs /\ bp[p] \in Bufs /\ req[head[p]].b = bp[p]
    BY InFlightFacts, Zenon
  <2>2. Holds(p)
    BY <2>1, ConstantFacts, Zenon DEF Holds, OwnInv, Owning
  <2>3. PICK i \in Descs : i = head[p]
    BY <2>1, Zenon
  <2>4. IsChain(i)
    BY <2>3, Zenon DEF ChainInv
  <2>5. Cardinality(chainOf(i)) = 3
    <3>1. PICK j, l : j = next[i] /\ l = next[next[i]]
      BY Zenon
    <3>2. chainOf(i) = {i, j, l} /\ i # j /\ i # l /\ j # l
      BY <2>4, <3>1, ChainFacts, Zenon DEF IsChain
    <3>3. Cardinality({i, j, l}) = 3
      BY <3>2, JustThree, Zenon
    <3> QED BY <3>2, <3>3, Zenon
  <2> QED BY <2>1, <2>2, <2>3, <2>5, Zenon DEF ChainInv
<1>2. Cardinality(free) + 3 * Cardinality(inFlight) = NUM
  BY Zenon DEF CountInv
<1>3. /\ {(avail \o used)[i] : i \in DOMAIN (avail \o used)} = elems(avail) \cup elems(used)
      /\ Len(avail \o used) = Len(avail) + Len(used)
  <2>1. avail \in Seq(Descs) /\ used \in Seq(Descs)
    BY Zenon DEF DriverType
  <2> QED BY <2>1, ElemsConcat, Zenon
<1>4. PICK W : W = onWay
  BY Zenon
<1>5. {(avail \o used)[i] : i \in DOMAIN (avail \o used)} \cup serving = W
  BY <1>3, <1>4, Zenon DEF onWay
<1>6. /\ Len(avail) + Len(used) + Cardinality(serving) = Cardinality(W)
      /\ W \subseteq {head[p] : p \in inFlight}
      /\ owned = {req[i].b : i \in W}
  BY <1>4, Zenon DEF RingInv
<1> QED BY <1>1, <1>2, <1>3, <1>5, <1>6, Zenon DEF DriverInv

\* It gives what CacheInv says of the cache.
LEMMA CacheInvHolds ==
  ASSUME SetFacts, IInv
  PROVE  CacheInv
<1> BlockInv /\ RefInv /\ LruInv /\ CleanInv
  BY Zenon DEF IInv
<1>1. ASSUME NEW k \in Blocks PROVE Cardinality(cached(k)) <= 1
  <2>1. \A b, c \in cached(k) : b = c
    BY ConstantFacts, Zenon DEF cached, BlockInv
  <2>2. CASE cached(k) = {}
    BY <2>2, SizeEmpty
  <2>3. CASE cached(k) # {}
    <3>1. PICK b \in cached(k) : TRUE
      BY <2>3, Zenon
    <3>2. cached(k) = {b}
      BY <2>1, <3>1, Zenon
    <3>3. Cardinality({b}) = 1
      BY SizeOne, Zenon
    <3> QED BY <3>2, <3>3
  <2> QED BY <2>2, <2>3, Zenon
<1>2. \A b \in Bufs : refcnt[b] = Cardinality({p \in Procs : bp[p] = b}) + (IF b \in pinned THEN 1 ELSE 0)
  BY Zenon DEF RefInv, users
<1>3. {lru[i] : i \in DOMAIN lru} = Bufs /\ Len(lru) = NBUF
  <2>1. lru \in Seq(Bufs) /\ Len(lru) = NBUF
    BY ConstantFacts DEF LruInv
  <2> QED BY <2>1 DEF LruInv
<1>4. \A p \in Procs : At(p, "written") => platter[blockno[bp[p]]] = data[bp[p]]
  BY Zenon DEF CleanInv, At
<1> QED BY <1>1, <1>2, <1>3, <1>4, Zenon DEF CacheInv

(***************************************************************************)
(* The refinement.                                                         *)
(***************************************************************************)

\* p has read block k and has not released it.
has(p, k) == pc[p] \in Owning /\ bp[p] \in valid /\ blockno[bp[p]] = k

\* What the refinement mapping gives, without its choices.
Mapped ==
    /\ latest = [k \in Blocks |-> latest[k]] /\ ownerOf = [k \in Blocks |-> ownerOf[k]]
    /\ \A k \in Blocks :
        /\ \A b \in valid : blockno[b] = k => latest[k] = data[b]
        /\ (\A b \in valid : blockno[b] # k) => latest[k] = platter[k]
        /\ \A p \in Procs : has(p, k) => ownerOf[k] = p
        /\ (\A p \in Procs : ~has(p, k)) => ownerOf[k] = NoProc

\* The mapping never has more than one buffer or process to choose from.
LEMMA MappedHolds == IInv => Mapped
<1> SUFFICES ASSUME IInv PROVE Mapped
  BY Zenon
<1> CacheType /\ OwnInv /\ BlockInv
  BY Zenon DEF IInv
<1>1. latest = [k \in Blocks |-> latest[k]] /\ ownerOf = [k \in Blocks |-> ownerOf[k]]
  BY DEF latest, ownerOf
<1> SUFFICES ASSUME NEW k \in Blocks
             PROVE  /\ \A b \in valid : blockno[b] = k => latest[k] = data[b]
                    /\ (\A b \in valid : blockno[b] # k) => latest[k] = platter[k]
                    /\ \A p \in Procs : has(p, k) => ownerOf[k] = p
                    /\ (\A p \in Procs : ~has(p, k)) => ownerOf[k] = NoProc
  BY <1>1, Zenon DEF Mapped
<1>2. ASSUME NEW b \in valid, blockno[b] = k PROVE latest[k] = data[b]
  <2>1. cached(k) \cap valid = {b}
    BY <1>2, ConstantFacts, Zenon DEF cached, BlockInv, CacheType
  <2>2. latest[k] = IF cached(k) \cap valid = {} THEN platter[k]
                    ELSE data[CHOOSE c \in cached(k) \cap valid : TRUE]
    BY Zenon DEF latest
  <2>3. (CHOOSE c \in {b} : TRUE) = b
    BY Zenon
  <2> QED BY <2>1, <2>2, <2>3, Zenon
<1>3. ASSUME \A b \in valid : blockno[b] # k PROVE latest[k] = platter[k]
  <2>1. cached(k) \cap valid = {}
    BY <1>3, Zenon DEF cached
  <2> QED BY <2>1, Zenon DEF latest
<1> DEFINE S == {p \in Procs : Holds(p) /\ blockno[bp[p]] = k /\ bp[p] \in valid}
<1>4. S \subseteq Procs
  BY Zenon
<1>5. ownerOf[k] = IF S = {} THEN NoProc ELSE CHOOSE p \in S : TRUE
  BY Zenon DEF ownerOf
<1>6. \A p \in Procs : p \in S <=> has(p, k)
  <2> TAKE p \in Procs
  <2>1. ASSUME p \in S PROVE has(p, k)
    <3>1. bp[p] \in Bufs /\ holder[bp[p]] = p /\ blockno[bp[p]] = k /\ bp[p] \in valid
      BY <2>1, Zenon DEF Holds, CacheType
    <3> QED BY <3>1, Zenon DEF OwnInv, has
  <2>2. ASSUME has(p, k) PROVE p \in S
    <3>1. pc[p] \in Owning /\ bp[p] \in Bufs /\ blockno[bp[p]] = k /\ bp[p] \in valid
      BY <2>2, Zenon DEF has, CacheType
    <3>2. Holds(p)
      BY <3>1, ConstantFacts, Zenon DEF OwnInv, Holds
    <3> QED BY <3>1, <3>2, Zenon
  <2> QED BY <2>1, <2>2, Zenon
<1> HIDE DEF S
<1>7. ASSUME NEW p \in Procs, has(p, k) PROVE ownerOf[k] = p
  <2>1. \A q \in Procs : has(q, k) => q = p
    <3> SUFFICES ASSUME NEW q \in Procs, has(q, k) PROVE q = p
      BY Zenon
    <3>1. bp[p] \in Bufs /\ bp[q] \in Bufs /\ blockno[bp[p]] = k /\ blockno[bp[q]] = k
      BY <1>7, Zenon DEF has, CacheType
    <3>2. bp[p] = bp[q]
      BY <3>1, ConstantFacts, Zenon DEF BlockInv
    <3> QED BY <1>7, <3>2, OneOwner, Zenon DEF has
  <2>2. S = {p}
    BY <1>4, <1>6, <1>7, <2>1, Zenon
  <2>3. (CHOOSE q \in {p} : TRUE) = p
    BY Zenon
  <2> QED BY <1>5, <2>2, <2>3, Zenon
<1>8. ASSUME \A p \in Procs : ~has(p, k) PROVE ownerOf[k] = NoProc
  <2>1. S = {}
    BY <1>4, <1>6, <1>8, Zenon
  <2> QED BY <1>5, <2>1, Zenon
<1> QED BY <1>2, <1>3, <1>7, <1>8, Zenon

\* A block of which everyone keeps what they have keeps its owner.
LEMMA OwnerKept ==
  ASSUME Mapped, Mapped', NEW k \in Blocks, \A p \in Procs : has(p, k)' <=> has(p, k)
  PROVE  ownerOf'[k] = ownerOf[k]
<1>1. CASE \E p \in Procs : has(p, k)
  <2>1. PICK p \in Procs : has(p, k)
    BY <1>1, Zenon
  <2>2. has(p, k)'
    BY <2>1, Zenon
  <2> QED BY <2>1, <2>2, Zenon DEF Mapped
<1>2. CASE \A p \in Procs : ~has(p, k)
  <2>1. \A p \in Procs : ~has(p, k)'
    BY <1>2, Zenon
  <2> QED BY <1>2, <2>1, Zenon DEF Mapped
<1> QED BY <1>1, <1>2, Zenon

\* The owners stay if everyone keeps what they have.
LEMMA OwnerSame ==
  ASSUME Mapped, Mapped', \A p \in Procs, k \in Blocks : has(p, k)' <=> has(p, k)
  PROVE  ownerOf' = ownerOf
<1>1. \A k \in Blocks : ownerOf'[k] = ownerOf[k]
  BY OwnerKept, Zenon
<1> QED BY <1>1, Zenon DEF Mapped

\* The owner of block k is now o, and that of every other block stays.
LEMMA OwnerChanges ==
  ASSUME Mapped, Mapped', NEW k \in Blocks, NEW o,
         \A p \in Procs, l \in Blocks \ {k} : has(p, l)' <=> has(p, l),
         ownerOf'[k] = o
  PROVE  ownerOf' = [ownerOf EXCEPT ![k] = o]
<1>1. \A l \in Blocks \ {k} : ownerOf'[l] = ownerOf[l]
  BY OwnerKept, Zenon
<1> QED BY <1>1, Zenon DEF Mapped

\* The contents stay with the buffers and the disk.
LEMMA LatestSame ==
  ASSUME Mapped, Mapped', UNCHANGED <<blockno, data, valid, platter>>
  PROVE  latest' = latest
<1>1. ASSUME NEW k \in Blocks PROVE latest'[k] = latest[k]
  <2>1. CASE \E b \in valid : blockno[b] = k
    BY <2>1 DEF Mapped
  <2>2. CASE \A b \in valid : blockno[b] # k
    BY <2>2, Zenon DEF Mapped
  <2> QED BY <2>1, <2>2, Zenon
<1> QED BY <1>1, Zenon DEF Mapped

\* A step that leaves the blocks alone, and whoever has one.
LEMMA Stutter ==
  ASSUME Mapped, Mapped', UNCHANGED <<blockno, data, valid, platter>>,
         \A q \in Procs : \/ pc'[q] = pc[q] /\ bp'[q] = bp[q]
                          \/ pc'[q] \notin Owning /\ pc[q] \notin Owning
                          \/ pc'[q] \in Owning /\ pc[q] \in Owning /\ bp'[q] = bp[q]
  PROVE  UNCHANGED <<latest, ownerOf>>
<1>1. latest' = latest
  BY LatestSame, Zenon
<1>2. \A q \in Procs, k \in Blocks : has(q, k)' <=> has(q, k)
  BY Zenon DEF has
<1>3. ownerOf' = ownerOf
  BY <1>2, OwnerSame, Zenon
<1> QED BY <1>1, <1>3, Zenon

\* A change to the buffer a process holds is a change to its block.
LEMMA ChangeStep ==
  ASSUME IInv, Mapped, Mapped', NEW p \in Procs, NEW v \in Values,
         log_write(p, v) \/ bwrite(p, v)
  PROVE  Store!StoreNext
<1> CacheType /\ ValidInv
  BY Zenon DEF IInv
<1> USE DEF deviceVars
<1>1. pc[p] = "held" /\ bp[p] \in valid
  BY Zenon DEF log_write, bwrite, At, ValidInv
<1>2. PICK b \in Bufs, k \in Blocks : b = bp[p] /\ k = blockno[b]
  BY <1>1, HasBuffer, Zenon
<1>3. /\ UNCHANGED <<blockno, valid, platter, bp>> /\ data' = [data EXCEPT ![b] = v]
      /\ \A q \in Procs : pc'[q] = pc[q] \/ (pc'[q] \in Owning /\ pc[q] \in Owning)
  BY <1>1, <1>2, Zenon DEF log_write, bwrite, Goto, CacheType, Owning
<1>4. ownerOf[k] = p
  BY <1>1, <1>2, Zenon DEF Mapped, has, Owning
<1>5. ownerOf' = ownerOf
  <2>1. \A q \in Procs, l \in Blocks : has(q, l)' <=> has(q, l)
    BY <1>3, Zenon DEF has
  <2> QED BY <2>1, OwnerSame, Zenon
<1>6. latest'[k] = v
  BY <1>1, <1>2, <1>3, Zenon DEF Mapped, CacheType
<1>7. ASSUME NEW l \in Blocks \ {k} PROVE latest'[l] = latest[l]
  <2>1. CASE \E c \in valid : blockno[c] = l
    <3>1. PICK c \in valid : blockno[c] = l
      BY <2>1, Zenon
    <3>2. c \in Bufs /\ c # b /\ data'[c] = data[c]
      BY <1>2, <1>3, <3>1, Zenon DEF CacheType
    <3> QED BY <1>3, <3>1, <3>2, Zenon DEF Mapped
  <2>2. CASE \A c \in valid : blockno[c] # l
    BY <1>3, <2>2, Zenon DEF Mapped
  <2> QED BY <2>1, <2>2, Zenon
<1>8. latest' = [latest EXCEPT ![k] = v]
  BY <1>6, <1>7, Zenon DEF Mapped
<1>9. Store!Change(p, k, v)
  BY <1>4, <1>5, <1>8, Zenon DEF Store!Change
<1> QED BY <1>9, Zenon DEF Store!StoreNext

\* Who holds a buffer that has become valid has read its block.
LEMMA ReadStep ==
  ASSUME IInv, Mapped, Mapped', NEW p \in Procs, NEW b \in Bufs, b = bp[p],
         UNCHANGED <<blockno, bp>>, latest' = latest, blockno[b] \in Blocks,
         valid' = valid \cup {b}, pc'[p] \in Owning,
         \A q \in Procs : q # p => pc'[q] = pc[q],
         \A q \in Procs : pc[q] \in Owning /\ bp[q] = b => b \notin valid /\ q = p
  PROVE  Store!StoreNext
<1> CacheType /\ BlockInv
  BY Zenon DEF IInv
<1>1. PICK k \in Blocks : k = blockno[b]
  BY Zenon
<1>2. \A q \in Procs : ~has(q, k)
  <2> SUFFICES ASSUME NEW q \in Procs, has(q, k) PROVE FALSE
    BY Zenon
  <2>1. pc[q] \in Owning /\ bp[q] \in valid /\ blockno[bp[q]] = k /\ bp[q] \in Bufs
    BY Zenon DEF has, CacheType
  <2>2. bp[q] = b
    BY <1>1, <2>1, ConstantFacts, Zenon DEF BlockInv
  <2> QED BY <2>1, <2>2, Zenon
<1>3. ownerOf[k] = NoProc
  BY <1>2, Zenon DEF Mapped
<1>4. ownerOf'[k] = p
  <2>1. has(p, k)'
    BY <1>1, Zenon DEF has
  <2> QED BY <2>1, Zenon DEF Mapped
<1>5. \A q \in Procs, l \in Blocks \ {k} : has(q, l)' <=> has(q, l)
  BY <1>1, Zenon DEF has
<1>6. ownerOf' = [ownerOf EXCEPT ![k] = p]
  BY <1>4, <1>5, OwnerChanges, Zenon
<1>7. Store!Read(p, k)
  BY <1>3, <1>6, Zenon DEF Store!Read
<1> QED BY <1>7, Zenon DEF Store!StoreNext

\* acquiresleep() of a valid buffer reads its block.
LEMMA AcquiresleepStep ==
  ASSUME IInv, Mapped, Mapped', NEW p \in Procs, acquiresleep(p)
  PROVE  Store!StoreNext \/ UNCHANGED <<latest, ownerOf>>
<1> CacheType /\ OwnInv
  BY Zenon DEF IInv
<1> USE DEF bufVars, deviceVars
<1>1. pc[p] = "lock" /\ holder[bp[p]] = NoProc
  BY Zenon DEF acquiresleep, At
<1>2. PICK b \in Bufs : b = bp[p] /\ blockno[b] \in Blocks
  BY <1>1, HasBuffer, Zenon
<1>3. /\ UNCHANGED <<blockno, data, valid, platter, bp>>
      /\ pc' = [pc EXCEPT ![p] = IF b \in valid THEN "held" ELSE "rw"]
  BY <1>2, Zenon DEF acquiresleep, Goto
<1>4. latest' = latest
  BY <1>3, LatestSame, Zenon
<1>5. \A q \in Procs : ~(pc[q] \in Owning /\ bp[q] = b)
  BY <1>1, <1>2, ConstantFacts DEF OwnInv
<1>6. pc'[p] \in Owning /\ \A q \in Procs : q # p => pc'[q] = pc[q]
  BY <1>3, Zenon DEF CacheType, Owning
<1>7. CASE b \in valid
  <2>1. valid' = valid \cup {b}
    BY <1>3, <1>7, Zenon
  <2> QED BY <1>2, <1>3, <1>4, <1>5, <1>6, <2>1, ReadStep, Zenon
<1>8. CASE b \notin valid
  <2>1. \A q \in Procs, k \in Blocks : has(q, k)' <=> has(q, k)
    BY <1>2, <1>3, <1>6, <1>8, Zenon DEF has
  <2> QED BY <1>4, <2>1, OwnerSame, Zenon
<1> QED BY <1>7, <1>8, Zenon

\* The end of a read reads the block; the end of a write changes nothing.
LEMMA RwDoneStep ==
  ASSUME IInv, Mapped, Mapped', NEW p \in Procs, rw_done(p)
  PROVE  Store!StoreNext \/ UNCHANGED <<latest, ownerOf>>
<1> CacheType
  BY Zenon DEF IInv
<1> USE DEF bufVars, deviceVars
<1>1. pc[p] = "rw_wait" /\ data[bp[p]] = platter[blockno[bp[p]]]
  BY RwDoneFacts, Zenon
<1>2. PICK b \in Bufs : b = bp[p] /\ blockno[b] \in Blocks
  BY <1>1, HasBuffer, Zenon
<1>3. /\ UNCHANGED <<blockno, data, platter, bp>> /\ valid' = valid \cup {b}
      /\ pc' = [pc EXCEPT ![p] = IF writing[p] THEN "written" ELSE "held"]
  BY <1>2, Zenon DEF rw_done, virtio_done, Goto
<1>4. pc'[p] \in Owning /\ \A q \in Procs : q # p => pc'[q] = pc[q]
  BY <1>3, Zenon DEF CacheType, Owning
<1>5. latest' = latest
  <2>1. ASSUME NEW k \in Blocks PROVE latest'[k] = latest[k]
    <3>1. CASE \E c \in valid : blockno[c] = k
      BY <1>3, <3>1 DEF Mapped
    <3>2. CASE (\A c \in valid : blockno[c] # k) /\ blockno[b] = k
      BY <1>1, <1>2, <1>3, <3>2 DEF Mapped
    <3>3. CASE (\A c \in valid : blockno[c] # k) /\ blockno[b] # k
      BY <1>3, <3>3, Zenon DEF Mapped
    <3> QED BY <3>1, <3>2, <3>3, Zenon
  <2> QED BY <2>1, Zenon DEF Mapped
<1>6. \A q \in Procs : pc[q] \in Owning /\ bp[q] = b => q = p
  BY <1>1, <1>2, OneOwner, Zenon DEF Owning
<1>7. CASE b \in valid
  <2>1. \A q \in Procs, k \in Blocks : has(q, k)' <=> has(q, k)
    <3>1. valid' = valid /\ pc[p] \in Owning
      BY <1>1, <1>3, <1>7, Zenon DEF Owning
    <3> QED BY <1>3, <1>4, <3>1, Zenon DEF has
  <2> QED BY <1>5, <2>1, OwnerSame, Zenon
<1>8. CASE b \notin valid
  BY <1>2, <1>3, <1>4, <1>5, <1>6, <1>8, ReadStep
<1> QED BY <1>7, <1>8, Zenon

\* releasesleep() releases the block.
LEMMA ReleasesleepStep ==
  ASSUME IInv, Mapped, Mapped', NEW p \in Procs, releasesleep(p)
  PROVE  Store!StoreNext
<1> CacheType /\ ValidInv
  BY Zenon DEF IInv
<1> USE DEF bufVars, deviceVars
<1>1. pc[p] = "held" /\ bp[p] \in valid
  BY Zenon DEF releasesleep, At, ValidInv
<1>2. PICK b \in Bufs, k \in Blocks : b = bp[p] /\ k = blockno[b]
  BY <1>1, HasBuffer, Zenon
<1>3. UNCHANGED <<blockno, data, valid, platter, bp>> /\ pc' = [pc EXCEPT ![p] = "release"]
  BY Zenon DEF releasesleep, Goto
<1>4. pc'[p] \notin Owning /\ \A q \in Procs : q # p => pc'[q] = pc[q]
  BY <1>3, Zenon DEF CacheType, Owning
<1>5. latest' = latest
  BY <1>3, LatestSame, Zenon
<1>6. ownerOf[k] = p
  BY <1>1, <1>2, Zenon DEF Mapped, has, Owning
<1>7. \A q \in Procs : ~has(q, k)'
  <2> SUFFICES ASSUME NEW q \in Procs, has(q, k)' PROVE FALSE
    BY Zenon
  <2>1. q # p
    BY <1>4, Zenon DEF has
  <2>2. has(q, k)
    BY <1>3, <1>4, <2>1, Zenon DEF has
  <2> QED BY <1>6, <2>1, <2>2, Zenon DEF Mapped
<1>8. ownerOf'[k] = NoProc
  BY <1>7, Zenon DEF Mapped
<1>9. \A q \in Procs, l \in Blocks \ {k} : has(q, l)' <=> has(q, l)
  BY <1>2, <1>3, <1>4, Zenon DEF has
<1>10. ownerOf' = [ownerOf EXCEPT ![k] = NoProc]
  BY <1>8, <1>9, OwnerChanges, Zenon
<1>11. Store!Release(p, k)
  BY <1>5, <1>6, <1>10, Zenon DEF Store!Release
<1> QED BY <1>11, Zenon DEF Store!StoreNext

\* Recycling a buffer loses nothing: what it held, the disk has too.
LEMMA BgetRecycleStep ==
  ASSUME SetFacts, IInv, Mapped, Mapped', NEW p \in Procs, NEW k \in Blocks, bget_recycle(p, k)
  PROVE  UNCHANGED <<latest, ownerOf>>
<1> CacheType /\ BlockInv /\ CleanInv
  BY Zenon DEF IInv
<1> USE DEF deviceVars
<1>1. /\ UNCHANGED <<data, platter, pinned, writing>>
      /\ pc[p] = "idle" /\ pc' = [pc EXCEPT ![p] = "lock"]
      /\ \A c \in Bufs : blockno[c] # k
  BY Zenon DEF bget_recycle, Goto, At, cached
<1>2. PICK b \in Bufs : /\ blockno' = [blockno EXCEPT ![b] = k] /\ valid' = valid \ {b}
                        /\ refcnt' = [refcnt EXCEPT ![b] = 1] /\ bp' = [bp EXCEPT ![p] = b]
                        /\ b \notin pinned /\ refcnt[b] = 0 /\ \A q \in Procs : bp[q] # b
  BY Recyclable, Zenon DEF bget_recycle, recycled
<1>3. /\ \A c \in Bufs : c # b => blockno'[c] = blockno[c]
      /\ blockno'[b] = k /\ valid \subseteq Bufs
  BY <1>2, Zenon DEF CacheType
<1>4. b \in valid => data[b] = platter[blockno[b]] /\ blockno[b] \in Blocks
  BY <1>2 DEF CleanInv, BlockInv, CacheType
<1>5. ASSUME NEW l \in Blocks PROVE latest'[l] = latest[l]
  <2>1. CASE \E c \in valid' : blockno'[c] = l
    <3>1. PICK c \in valid' : blockno'[c] = l
      BY <2>1, Zenon
    <3>2. c \in valid /\ blockno[c] = l
      BY <1>2, <1>3, <3>1, Zenon
    <3>3. latest'[l] = data'[c] /\ latest[l] = data[c]
      BY <3>1, <3>2, Zenon DEF Mapped
    <3> QED BY <1>1, <3>3, Zenon
  <2>2. CASE (\A c \in valid' : blockno'[c] # l) /\ b \in valid /\ blockno[b] = l
    <3>1. latest'[l] = platter'[l] /\ latest[l] = data[b]
      BY <2>2, Zenon DEF Mapped
    <3> QED BY <1>1, <1>4, <2>2, <3>1, Zenon
  <2>3. CASE (\A c \in valid' : blockno'[c] # l) /\ ~(b \in valid /\ blockno[b] = l)
    <3>1. \A c \in valid : blockno[c] # l
      BY <1>2, <1>3, <2>3, Zenon
    <3>2. latest'[l] = platter'[l] /\ latest[l] = platter[l]
      BY <2>3, <3>1, Zenon DEF Mapped
    <3> QED BY <1>1, <3>2, Zenon
  <2> QED BY <2>1, <2>2, <2>3, Zenon
<1>6. latest' = latest
  BY <1>5, Zenon DEF Mapped
<1>7. ASSUME NEW q \in Procs, NEW l \in Blocks PROVE has(q, l)' <=> has(q, l)
  <2>1. CASE q = p
    <3>1. pc[q] = "idle" /\ pc'[q] = "lock"
      BY <1>1, <2>1, Zenon DEF CacheType
    <3> QED BY <3>1, Zenon DEF has, Owning
  <2>2. CASE q # p
    <3>1. pc'[q] = pc[q] /\ bp'[q] = bp[q] /\ bp[q] # b
      BY <1>1, <1>2, <2>2, Zenon DEF CacheType
    <3>2. bp[q] \in valid' <=> bp[q] \in valid
      BY <1>2, <3>1, Zenon
    <3>3. bp[q] \in valid => blockno'[bp[q]] = blockno[bp[q]]
      BY <1>3, <3>1, Zenon
    <3> QED BY <3>1, <3>2, <3>3, Zenon DEF has
  <2> QED BY <2>1, <2>2, Zenon
<1>8. ownerOf' = ownerOf
  BY <1>7, OwnerSame, Zenon
<1> QED BY <1>6, <1>8, Zenon

\* The device writes what is in a valid buffer, or reads into one that is not.
LEMMA DeviceFinishesStep ==
  ASSUME IInv, Mapped, Mapped', NEW i \in Descs, device_finishes(i), UNCHANGED cacheVars
  PROVE  UNCHANGED <<latest, ownerOf>>
<1> CacheType /\ DriverType /\ ValidInv /\ RequestInv
  BY Zenon DEF IInv
<1> USE DEF cacheVars
<1>1. i \in serving /\ i \in onWay
  BY Zenon DEF device_finishes, onWay
<1>2. PICK p \in inFlight : head[p] = i /\ req[i].b = bp[p]
  BY <1>1, OnWayFacts, Zenon
<1>3. PICK b \in Bufs, k \in Blocks : b = bp[p] /\ k = blockno[b]
  BY InFlightFacts, HasBuffer, Zenon
<1>4. /\ p \in Procs /\ pc[p] = "rw_wait"
      /\ req[i].b = b /\ req[i].write = writing[p] /\ req[i].sector = k
  BY <1>2, <1>3, InFlightFacts, Zenon DEF RequestInv, inFlight
<1>5. UNCHANGED <<blockno, valid, bp, pc>>
  BY Zenon DEF device_finishes
<1>6. ownerOf' = ownerOf
  <2>1. \A q \in Procs, l \in Blocks : has(q, l)' <=> has(q, l)
    BY <1>5, Zenon DEF has
  <2> QED BY <2>1, OwnerSame, Zenon
<1>7. CASE writing[p]
  <2>1. platter' = [platter EXCEPT ![k] = data[b]] /\ data' = data
    BY <1>4, <1>7, Zenon DEF device_finishes
  <2>2. b \in valid
    BY <1>3, <1>4, <1>7, Zenon DEF ValidInv
  <2>3. ASSUME NEW l \in Blocks PROVE latest'[l] = latest[l]
    <3>1. CASE \E c \in valid : blockno[c] = l
      BY <1>5, <2>1, <3>1 DEF Mapped
    <3>2. CASE \A c \in valid : blockno[c] # l
      <4>1. l # k
        BY <1>3, <2>2, <3>2, Zenon
      <4>2. platter'[l] = platter[l]
        BY <2>1, <4>1, Zenon DEF DriverType
      <4> QED BY <1>5, <3>2, <4>2, Zenon DEF Mapped
    <3> QED BY <3>1, <3>2, Zenon
  <2> QED BY <1>6, <2>3, Zenon DEF Mapped
<1>8. CASE ~writing[p]
  <2>1. data' = [data EXCEPT ![b] = platter[k]] /\ platter' = platter
    BY <1>4, <1>8, Zenon DEF device_finishes
  <2>2. b \notin valid
    BY <1>3, <1>4, <1>8, Zenon DEF ValidInv
  <2>3. \A c \in valid : data'[c] = data[c]
    BY <2>1, <2>2, Zenon DEF CacheType
  <2>4. ASSUME NEW l \in Blocks PROVE latest'[l] = latest[l]
    <3>1. CASE \E c \in valid : blockno[c] = l
      BY <1>5, <2>3, <3>1, Zenon DEF Mapped
    <3>2. CASE \A c \in valid : blockno[c] # l
      BY <1>5, <2>1, <3>2, Zenon DEF Mapped
    <3> QED BY <3>1, <3>2, Zenon
  <2> QED BY <1>6, <2>4, Zenon DEF Mapped
<1> QED BY <1>7, <1>8, Zenon

\* Every other step leaves the blocks and their owners alone.
LEMMA OtherSteps ==
  ASSUME IInv, Mapped, Mapped', NEW p \in Procs,
         \/ \E k \in Blocks : bget_hit(p, k) \/ bget_panics(p, k)
         \/ acquiresleep_waits(p) \/ rw_submit(p) \/ rw_full(p) \/ rw_again(p)
         \/ bunpin(p) \/ brelse(p)
  PROVE  UNCHANGED <<latest, ownerOf>>
<1> USE DEF bufVars, deviceVars, cacheVars, Goto, At
<1>0. CacheType
  BY Zenon DEF IInv
<1>1. CASE \E k \in Blocks : bget_hit(p, k)
  <2>1. /\ UNCHANGED <<blockno, data, valid, platter>>
        /\ \A q \in Procs : \/ pc'[q] = pc[q] /\ bp'[q] = bp[q]
                            \/ pc'[q] \notin Owning /\ pc[q] \notin Owning
    BY <1>0, <1>1, Zenon DEF bget_hit, CacheType, Owning
  <2> QED BY <2>1, Stutter, Zenon
<1>2. CASE \/ \E k \in Blocks : bget_panics(p, k)
           \/ acquiresleep_waits(p) \/ rw_full(p) \/ rw_again(p)
  <2>1. UNCHANGED <<blockno, data, valid, platter, pc, bp>>
    <3>1. CASE \E k \in Blocks : bget_panics(p, k)
      BY <3>1, Zenon DEF bget_panics
    <3>2. CASE acquiresleep_waits(p)
      BY <3>2, Zenon DEF acquiresleep_waits
    <3>3. CASE rw_full(p) \/ rw_again(p)
      BY <3>3, Zenon DEF rw_full, virtio_full, rw_again, virtio_again
    <3> QED BY <1>2, <3>1, <3>2, <3>3, Zenon
  <2> QED BY <2>1, Stutter, Zenon
<1>3. CASE rw_submit(p)
  <2>1. /\ UNCHANGED <<blockno, data, valid, platter, bp>>
        /\ \A q \in Procs : pc'[q] = pc[q] \/ (pc'[q] \in Owning /\ pc[q] \in Owning)
    BY <1>0, <1>3, Zenon DEF rw_submit, virtio_submit, CacheType, Owning
  <2> QED BY <2>1, Stutter, Zenon
<1>4. CASE bunpin(p)
  <2>1. /\ UNCHANGED <<blockno, data, valid, platter, bp>>
        /\ \A q \in Procs : pc'[q] = pc[q] \/ (pc'[q] \in Owning /\ pc[q] \in Owning)
    BY <1>0, <1>4, Zenon DEF bunpin, CacheType, Owning
  <2> QED BY <2>1, Stutter, Zenon
<1>5. CASE brelse(p)
  <2>1. /\ UNCHANGED <<blockno, data, valid, platter>>
        /\ \A q \in Procs : \/ pc'[q] = pc[q] /\ bp'[q] = bp[q]
                            \/ pc'[q] \notin Owning /\ pc[q] \notin Owning
    BY <1>0, <1>5, Zenon DEF brelse, CacheType, Owning
  <2> QED BY <2>1, Stutter, Zenon
<1> QED BY <1>1, <1>2, <1>3, <1>4, <1>5, Zenon

\* At first every block is as the disk has it, and nobody has one.
LEMMA StoreInitHolds ==
  ASSUME SetFacts, Init
  PROVE  Store!StoreInit
<1>1. IInv
  BY InitIInv, Zenon
<1>2. Mapped
  BY <1>1, MappedHolds, Zenon
<1>3. valid = {} /\ \A k \in Blocks : platter[k] = Blank
  BY Zenon DEF Init, binit
<1>4. \A k \in Blocks : latest[k] \in Values /\ ownerOf[k] = NoProc
  BY <1>2, <1>3, BufferAssumption, Zenon DEF Mapped, has
<1>5. latest \in [Blocks -> Values] /\ ownerOf = [k \in Blocks |-> NoProc]
  BY <1>2, <1>4, Zenon DEF Mapped
<1> QED BY <1>5, Zenon DEF Store!StoreInit

\* Every step is a step of the abstract store, or none.
LEMMA StoreNextHolds ==
  ASSUME SetFacts, IInv, Mapped, Mapped', [Next]_vars
  PROVE  [Store!StoreNext]_(Store!storeVars)
<1> SUFFICES Store!StoreNext \/ UNCHANGED <<latest, ownerOf>>
  BY Zenon DEF Store!storeVars
<1>1. CASE UNCHANGED vars
  BY <1>1, Stutter, Zenon DEF vars, driverVars, bufVars, deviceVars, cacheVars
<1>2. CASE Drives
  <2>1. UNCHANGED cacheVars
    BY <1>2, Zenon DEF Drives
  <2>2. ASSUME NEW i \in Descs, device_finishes(i) PROVE UNCHANGED <<latest, ownerOf>>
    BY <2>1, <2>2, DeviceFinishesStep, Zenon
  <2>3. CASE device_takes \/ interrupt
    <3>1. UNCHANGED <<blockno, data, valid, platter, pc, bp>>
      BY <2>1, <2>3, Zenon DEF device_takes, interrupt, virtio_intr, intr_entry, intr_return,
                        bufVars, deviceVars, cacheVars
    <3> QED BY <3>1, Stutter, Zenon
  <2> QED BY <1>2, <2>2, <2>3, Zenon DEF Drives, device
<1>3. ASSUME NEW p \in Procs, continues(p) PROVE Store!StoreNext \/ UNCHANGED <<latest, ownerOf>>
  BY <1>3, AcquiresleepStep, RwDoneStep, ReleasesleepStep, OtherSteps, Zenon DEF continues
<1>4. ASSUME NEW p \in Procs, uses(p) PROVE Store!StoreNext \/ UNCHANGED <<latest, ownerOf>>
  BY <1>4, BgetRecycleStep, ChangeStep, OtherSteps, Zenon DEF uses, bget
<1> QED BY <1>1, <1>2, <1>3, <1>4, Zenon DEF Next
==============================================================================
