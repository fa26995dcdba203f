--------------------------- MODULE NonbPoolProofs ---------------------------
(***************************************************************************)
(* The non-blocking packet pool for any number of packets and of threads.   *)
(***************************************************************************)
EXTENDS NonbPool, FiniteSetTheorems, SequenceTheorems, TLAPS

Abs == INSTANCE AbsPool WITH stack <- chain

(***************************************************************************)
(* The inductive invariant.  A pop between its read and its compare-and-swap *)
(* knows the link of the packet it has found, as long as that packet has not   *)
(* left the pool and come back, which the generation would show.              *)
(***************************************************************************)
Ids == Pkts \cup {NULL}

Ops == [pc : {"idle", "next", "cas", "push", "pcas"}, id : Ids, gen : Nat, nx : Ids,
        list : Seq(Pkts)]

TypeOK == /\ head \in Ids /\ gen \in Nat
          /\ next \in [Pkts -> Ids]
          /\ held \in [Agents -> SUBSET Pkts]
          /\ op \in [Agents -> Ops]
          /\ chain \in Seq(Pkts)

PopSound(a) ==
    /\ op[a].gen <= gen
    /\ op[a].pc \in {"next", "cas"} => op[a].id \in Pkts
    /\ op[a].pc = "cas" /\ op[a].gen = gen /\ op[a].id \in InPool
         => op[a].nx = next[op[a].id]

PushSound(a) ==
    /\ op[a].pc \in {"push", "pcas"} => /\ op[a].list # <<>> /\ Distinct(op[a].list)
                                        /\ Elements(op[a].list) \subseteq held[a]
    /\ op[a].pc = "pcas" => Spells(op[a].list, op[a].id)

PoolInv == TypeOK /\ PoolSound /\ \A a \in Agents : PopSound(a) /\ PushSound(a)

(***************************************************************************)
(* Lists.                                                                  *)
(***************************************************************************)
\* A list given to ci_netif_pkt_free_nonb_list is a sequence of packets.
LEMMA ListsAreSequences ==
    ASSUME NEW list \in Lists PROVE list \in Seq(Pkts) /\ list # <<>> /\ Distinct(list)
<1>1. PICK n \in 1..Cardinality(Pkts) : list \in [1..n -> Pkts]  BY DEF Lists
<1>2. Cardinality(Pkts) \in Nat  BY PktsFinite, FS_CardinalityType
<1>3. n \in Nat /\ n > 0  BY <1>2
<1>4. list \in Seq(Pkts) /\ Len(list) = n  BY <1>1, <1>3
<1> QED  BY <1>3, <1>4 DEF Lists

\* The packets of a list.
LEMMA ListMembers ==
    ASSUME NEW list \in Seq(Pkts)
    PROVE  \A i \in DOMAIN list : list[i] \in Pkts /\ list[i] \in Elements(list)
BY LenProperties, ElementOfSeq DEF Elements

\* Writing the links of a list makes them spell it, and touches no other packet.
LEMMA LinkedSpells ==
    ASSUME NEW list \in Seq(Pkts), Distinct(list), NEW tail \in Ids,
           NEW links \in [Pkts -> Ids]
    PROVE  LET new == Linked(list, tail, links) IN
             /\ new \in [Pkts -> Ids]
             /\ \A i \in DOMAIN list :
                  new[list[i]] = (IF i = Len(list) THEN tail ELSE list[i + 1])
             /\ \A p \in Pkts \ Elements(list) : new[p] = links[p]
<1> DEFINE new == Linked(list, tail, links)
           at(p) == CHOOSE i \in DOMAIN list : list[i] = p
<1>1. DOMAIN list = 1..Len(list) /\ Len(list) \in Nat
  BY LenProperties
<1>2. ASSUME NEW i \in DOMAIN list PROVE list[i] \in Pkts /\ at(list[i]) = i
  <2>1. list[i] \in Pkts  BY <1>1, <1>2, ElementOfSeq
  <2>2. at(list[i]) \in DOMAIN list /\ list[at(list[i])] = list[i]  BY <1>2
  <2> QED  BY <1>2, <2>1, <2>2 DEF Distinct
<1>3. ASSUME NEW i \in DOMAIN list
      PROVE new[list[i]] = (IF i = Len(list) THEN tail ELSE list[i + 1])
  <2>1. list[i] \in Elements(list)  BY <1>3 DEF Elements
  <2>2. new[list[i]] = IF at(list[i]) = Len(list) THEN tail ELSE list[at(list[i]) + 1]
    BY <1>2, <1>3, <2>1 DEF Linked
  <2> QED  BY <1>2, <1>3, <2>2
<1>4. ASSUME NEW p \in Pkts PROVE new[p] \in Ids
  <2>1. CASE p \notin Elements(list)  BY <1>4, <2>1 DEF Linked
  <2>2. CASE p \in Elements(list)
    <3>1. PICK i \in DOMAIN list : list[i] = p  BY <2>2 DEF Elements
    <3>2. i # Len(list) => list[i + 1] \in Pkts  BY <1>1, <3>1, ElementOfSeq
    <3> QED  BY <1>3, <3>1, <3>2 DEF Ids
  <2> QED  BY <2>1, <2>2
<1>5. new \in [Pkts -> Ids]
  <2>1. new = [p \in Pkts |-> new[p]]  BY DEF Linked
  <2> HIDE DEF new
  <2> QED  BY <1>4, <2>1
<1>6. ASSUME NEW p \in Pkts \ Elements(list) PROVE new[p] = links[p]
  BY <1>6 DEF Linked
<1> QED  BY <1>3, <1>5, <1>6

\* What is left of the pool when its first packet has gone.
LEMMA TailOfChain ==
    ASSUME NEW s \in Seq(Pkts), s # <<>>, Distinct(s)
    PROVE  /\ Tail(s) \in Seq(Pkts) /\ Len(Tail(s)) = Len(s) - 1 /\ Len(s) \in Nat \ {0}
           /\ DOMAIN s = 1..Len(s) /\ DOMAIN Tail(s) = 1..(Len(s) - 1)
           /\ \A i \in 1..(Len(s) - 1) : Tail(s)[i] = s[i + 1]
           /\ Head(s) = s[1] /\ s[1] \in Pkts
           /\ Elements(Tail(s)) = Elements(s) \ {s[1]} /\ s[1] \in Elements(s)
           /\ Distinct(Tail(s))
<1>1. /\ Tail(s) \in Seq(Pkts) /\ Len(Tail(s)) = Len(s) - 1 /\ Len(s) \in Nat \ {0}
      /\ DOMAIN s = 1..Len(s) /\ DOMAIN Tail(s) = 1..(Len(s) - 1)
      /\ \A i \in 1..(Len(s) - 1) : Tail(s)[i] = s[i + 1]
      /\ Head(s) = s[1] /\ s[1] \in Pkts
  OBVIOUS
<1>2. Distinct(Tail(s))  BY <1>1 DEF Distinct
<1>3. s[1] \in Elements(s)  BY <1>1 DEF Elements
<1>4. ASSUME NEW p PROVE p \in Elements(Tail(s)) <=> p \in Elements(s) /\ p # s[1]
  <2>1. ASSUME p \in Elements(Tail(s)) PROVE p \in Elements(s) /\ p # s[1]
    <3>1. PICK i \in 1..(Len(s) - 1) : p = s[i + 1]  BY <1>1, <2>1 DEF Elements
    <3>2. i + 1 \in DOMAIN s /\ 1 \in DOMAIN s /\ i + 1 # 1  BY <1>1
    <3> QED  BY <3>1, <3>2 DEF Elements, Distinct
  <2>2. ASSUME p \in Elements(s), p # s[1] PROVE p \in Elements(Tail(s))
    <3>1. PICK j \in DOMAIN s : p = s[j]  BY <2>2 DEF Elements
    <3>2. j - 1 \in 1..(Len(s) - 1) /\ (j - 1) + 1 = j  BY <1>1, <2>2, <3>1
    <3> QED  BY <1>1, <3>1, <3>2 DEF Elements
  <2> QED  BY <2>1, <2>2
<1> QED  BY <1>1, <1>2, <1>3, <1>4

\* The pool with a list in front of it.
LEMMA ListBeforeChain ==
    ASSUME NEW s \in Seq(Pkts), Distinct(s), NEW t \in Seq(Pkts), t # <<>>, Distinct(t),
           Elements(s) \cap Elements(t) = {}
    PROVE  /\ t \o s \in Seq(Pkts) /\ Len(t \o s) = Len(t) + Len(s)
           /\ Len(t) \in Nat \ {0} /\ Len(s) \in Nat
           /\ DOMAIN t = 1..Len(t) /\ DOMAIN s = 1..Len(s)
           /\ DOMAIN (t \o s) = 1..(Len(t) + Len(s))
           /\ \A i \in 1..(Len(t) + Len(s)) :
                (t \o s)[i] = IF i <= Len(t) THEN t[i] ELSE s[i - Len(t)]
           /\ t \o s # <<>> /\ Head(t) = t[1] /\ t[1] \in Pkts
           /\ Elements(t \o s) = Elements(t) \cup Elements(s)
           /\ Distinct(t \o s)
<1>1. /\ t \o s \in Seq(Pkts) /\ Len(t \o s) = Len(t) + Len(s)
      /\ Len(t) \in Nat \ {0} /\ Len(s) \in Nat
      /\ DOMAIN t = 1..Len(t) /\ DOMAIN s = 1..Len(s)
      /\ DOMAIN (t \o s) = 1..(Len(t) + Len(s))
      /\ \A i \in 1..(Len(t) + Len(s)) :
           (t \o s)[i] = IF i <= Len(t) THEN t[i] ELSE s[i - Len(t)]
      /\ t \o s # <<>> /\ Head(t) = t[1] /\ t[1] \in Pkts
  BY ConcatProperties, LenProperties, ElementOfSeq
<1>2. \A i \in 1..(Len(t) + Len(s)) : i > Len(t) => i - Len(t) \in DOMAIN s
  BY <1>1
<1>3. \A i \in DOMAIN t, j \in DOMAIN s : t[i] # s[j]
  BY DEF Elements
<1>4. Distinct(t \o s)
  <2> SUFFICES ASSUME NEW i \in 1..(Len(t) + Len(s)), NEW j \in 1..(Len(t) + Len(s)),
                      (t \o s)[i] = (t \o s)[j]
               PROVE i = j
    BY <1>1 DEF Distinct
  <2>1. CASE i <= Len(t) /\ j <= Len(t)  BY <1>1, <2>1 DEF Distinct
  <2>2. CASE i > Len(t) /\ j > Len(t)
    <3>1. i - Len(t) \in DOMAIN s /\ j - Len(t) \in DOMAIN s  BY <1>2, <2>2
    <3>2. s[i - Len(t)] = s[j - Len(t)]  BY <1>1, <2>2
    <3>3. i - Len(t) = j - Len(t)  BY <3>1, <3>2 DEF Distinct
    <3> QED  BY <1>1, <3>3
  <2>3. CASE i <= Len(t) /\ j > Len(t)  BY <1>1, <1>2, <1>3, <2>3
  <2>4. CASE i > Len(t) /\ j <= Len(t)
    <3>1. i - Len(t) \in DOMAIN s /\ j \in DOMAIN t  BY <1>1, <1>2, <2>4
    <3>2. t[j] = s[i - Len(t)]  BY <1>1, <2>4
    <3> QED  BY <1>3, <3>1, <3>2
  <2> QED  BY <1>1, <2>1, <2>2, <2>3, <2>4
<1>5. ASSUME NEW p PROVE p \in Elements(t \o s) <=> p \in Elements(t) \/ p \in Elements(s)
  <2>1. ASSUME p \in Elements(t \o s) PROVE p \in Elements(t) \/ p \in Elements(s)
    BY <1>1, <1>2, <2>1 DEF Elements
  <2>2. ASSUME p \in Elements(t) PROVE p \in Elements(t \o s)
    BY <1>1, <2>2 DEF Elements
  <2>3. ASSUME p \in Elements(s) PROVE p \in Elements(t \o s)
    <3>1. PICK j \in DOMAIN s : p = s[j]  BY <2>3 DEF Elements
    <3>2. j + Len(t) \in 1..(Len(t) + Len(s)) /\ ~(j + Len(t) <= Len(t))
          /\ (j + Len(t)) - Len(t) = j
      BY <1>1
    <3> QED  BY <1>1, <3>1, <3>2 DEF Elements
  <2> QED  BY <2>1, <2>2, <2>3
<1> QED  BY <1>1, <1>4, <1>5

(***************************************************************************)
(* The steps.                                                              *)
(***************************************************************************)
\* A thread that changes nothing but what it remembers disturbs no other.
LEMMA LocalStep ==
    ASSUME PoolInv, NEW a \in Agents, NEW o \in Ops, op' = [op EXCEPT ![a] = o],
           UNCHANGED <<head, gen, next, held, chain>>,
           o.gen <= gen, o.pc \in {"next", "cas"} => o.id \in Pkts,
           o.pc = "cas" /\ o.gen = gen /\ o.id \in InPool => o.nx = next[o.id],
           o.pc \in {"push", "pcas"} => /\ o.list # <<>> /\ Distinct(o.list)
                                       /\ Elements(o.list) \subseteq held[a],
           o.pc # "pcas"
    PROVE  PoolInv'
<1>1. op'[a] = o /\ \A b \in Agents : b # a => op'[b] = op[b]  BY DEF PoolInv, TypeOK
<1>2. TypeOK'  BY DEF PoolInv, TypeOK
<1>3. PoolSound'
  BY DEF PoolInv, PoolSound, ChainMatches, Spells, InPool, Elements
<1>4. ASSUME NEW b \in Agents PROVE PopSound(b)' /\ PushSound(b)'
  <2>1. CASE b = a  BY <1>1, <2>1 DEF PopSound, PushSound, InPool, Elements
  <2>2. CASE b # a
    BY <1>1, <2>2 DEF PoolInv, PopSound, PushSound, InPool, Elements, Spells
  <2> QED  BY <2>1, <2>2
<1> QED  BY <1>2, <1>3, <1>4 DEF PoolInv

\* ci_netif_pkt_alloc_nonb up to its compare-and-swap, or when that fails.
LEMMA AllocReads ==
    ASSUME PoolInv, NEW a \in Agents, AllocRead(a) \/ AllocNext(a) \/ AllocAgain(a)
    PROVE  PoolInv'
<1>1. op[a] \in Ops /\ op[a].gen <= gen /\ gen \in Nat /\ head \in Ids
  BY DEF PoolInv, TypeOK, PopSound
<1>2. CASE AllocRead(a)
  <2> DEFINE o == [op[a] EXCEPT !.pc = "next", !.id = head, !.gen = gen]
  <2>0. gen <= gen  BY <1>1
  <2>1. o \in Ops /\ o.pc = "next" /\ o.id = head /\ o.gen = gen  BY <1>1 DEF Ops
  <2>2. op' = [op EXCEPT ![a] = o] /\ head # NULL /\ UNCHANGED <<head, gen, next, held, chain>>
    BY <1>2 DEF AllocRead
  <2>3. head \in Pkts  BY <1>1, <2>2 DEF Ids
  <2> HIDE DEF o
  <2> QED  BY <2>0, <2>1, <2>2, <2>3, LocalStep
<1>3. CASE AllocNext(a)
  <2> DEFINE o == [op[a] EXCEPT !.pc = "cas", !.nx = next[op[a].id]]
  <2>1. op[a].pc = "next" /\ op[a].id \in Pkts  BY <1>3 DEF AllocNext, PoolInv, PopSound
  <2>2. next[op[a].id] \in Ids  BY <2>1 DEF PoolInv, TypeOK
  <2>3. o \in Ops /\ o.pc = "cas" /\ o.id = op[a].id /\ o.gen = op[a].gen
        /\ o.nx = next[op[a].id]
    BY <1>1, <2>2 DEF Ops
  <2>4. op' = [op EXCEPT ![a] = o] /\ UNCHANGED <<head, gen, next, held, chain>>
    BY <1>3 DEF AllocNext
  <2> HIDE DEF o
  <2> QED  BY <1>1, <2>1, <2>3, <2>4, LocalStep
<1>4. CASE AllocAgain(a)
  <2>1. NoOp \in Ops /\ NoOp.pc = "idle" /\ NoOp.gen <= gen  BY <1>1 DEF NoOp, Ops, Ids
  <2>2. op' = [op EXCEPT ![a] = NoOp] /\ UNCHANGED <<head, gen, next, held, chain>>
    BY <1>4 DEF AllocAgain
  <2> QED  BY <1>1, <2>1, <2>2, LocalStep
<1> QED  BY <1>2, <1>3, <1>4

\* ci_netif_pkt_free_nonb_list before it links the list, or when it must again.
LEMMA FreeStarts ==
    ASSUME PoolInv, NEW a \in Agents,
           \/ FreeAgain(a)
           \/ \E list \in Lists : Elements(list) \subseteq held[a] /\ FreeList(a, list)
    PROVE  PoolInv'
<1>1. op[a] \in Ops /\ op[a].gen <= gen
  BY DEF PoolInv, TypeOK, PopSound
<1>2. CASE FreeAgain(a)
  <2> DEFINE o == [op[a] EXCEPT !.pc = "push"]
  <2>1. o \in Ops /\ o.pc = "push" /\ o.gen = op[a].gen /\ o.list = op[a].list
    BY <1>1 DEF Ops
  <2>2. /\ op' = [op EXCEPT ![a] = o] /\ UNCHANGED <<head, gen, next, held, chain>>
        /\ op[a].pc = "pcas"
    BY <1>2 DEF FreeAgain
  <2>3. op[a].list # <<>> /\ Distinct(op[a].list) /\ Elements(op[a].list) \subseteq held[a]
    BY <2>2 DEF PoolInv, PushSound
  <2> HIDE DEF o
  <2> QED  BY <1>1, <2>1, <2>2, <2>3, LocalStep
<1>3. ASSUME NEW list \in Lists, Elements(list) \subseteq held[a], FreeList(a, list)
      PROVE  PoolInv'
  <2> DEFINE o == [op[a] EXCEPT !.pc = "push", !.list = list]
  <2>1. list \in Seq(Pkts) /\ list # <<>> /\ Distinct(list)  BY <1>3, ListsAreSequences
  <2>2. o \in Ops /\ o.pc = "push" /\ o.gen = op[a].gen /\ o.list = list
    BY <1>1, <2>1 DEF Ops
  <2>3. op' = [op EXCEPT ![a] = o] /\ UNCHANGED <<head, gen, next, held, chain>>
    BY <1>3 DEF FreeList
  <2> HIDE DEF o
  <2> QED  BY <1>1, <1>3, <2>1, <2>2, <2>3, LocalStep
<1> QED  BY <1>2, <1>3

\* The compare-and-swap of ci_netif_pkt_alloc_nonb takes the first packet.
LEMMA PopTakesFirst ==
    ASSUME PoolInv, NEW a \in Agents, AllocCas(a)
    PROVE  chain # <<>> /\ op[a].id = chain[1] /\ op[a].nx = next[chain[1]]
<1>1. op[a].pc = "cas" /\ head = op[a].id /\ gen = op[a].gen  BY DEF AllocCas, Unchanged
<1>2. op[a].id \in Pkts  BY <1>1 DEF PoolInv, PopSound
<1>3. chain # <<>> /\ head = chain[1]
  BY <1>1, <1>2, NullIsNoPacket DEF PoolInv, PoolSound, ChainMatches
<1>4. chain[1] \in InPool  BY <1>3, TailOfChain DEF PoolInv, PoolSound, ChainMatches, TypeOK, InPool
<1> QED  BY <1>1, <1>3, <1>4 DEF PoolInv, PopSound

\* That compare-and-swap keeps the invariant.
LEMMA AllocCasSound ==
    ASSUME PoolInv, NEW a \in Agents, AllocCas(a)
    PROVE  PoolInv'
<1> DEFINE p == chain[1]
           rest == Tail(chain)
<1>1. chain # <<>> /\ op[a].id = p /\ op[a].nx = next[p]  BY PopTakesFirst
<1>2. /\ head' = next[p] /\ held' = [held EXCEPT ![a] = @ \cup {p}]
      /\ chain' = rest /\ op' = [op EXCEPT ![a] = NoOp]
      /\ gen' = gen /\ next' = next
  BY <1>1 DEF AllocCas
<1>3. chain \in Seq(Pkts) /\ Distinct(chain) /\ Spells(chain, NULL)
  BY DEF PoolInv, TypeOK, PoolSound, ChainMatches
<1>4. /\ rest \in Seq(Pkts) /\ Len(rest) = Len(chain) - 1
      /\ Len(chain) \in Nat \ {0} /\ DOMAIN chain = 1..Len(chain)
      /\ DOMAIN rest = 1..(Len(chain) - 1)
      /\ \A i \in 1..(Len(chain) - 1) : rest[i] = chain[i + 1]
      /\ p \in Pkts /\ Elements(rest) = Elements(chain) \ {p} /\ p \in Elements(chain)
      /\ Distinct(rest)
  BY <1>1, <1>3, TailOfChain
<1> HIDE DEF rest
<1>5. InPool' = InPool \ {p} /\ p \in InPool
  <2>1. InPool' = Elements(rest)  BY <1>2 DEF InPool, Elements
  <2> QED  BY <1>4, <2>1 DEF InPool
<1>6. NoOp \in Ops /\ NoOp.pc = "idle" /\ NoOp.gen = 0  BY DEF NoOp, Ops, Ids
<1>7. TypeOK'
  <2>1. head' \in Ids  BY <1>2, <1>4 DEF PoolInv, TypeOK
  <2>2. held' \in [Agents -> SUBSET Pkts]  BY <1>2, <1>4 DEF PoolInv, TypeOK
  <2>3. op' \in [Agents -> Ops]  BY <1>2, <1>6 DEF PoolInv, TypeOK
  <2> QED  BY <1>2, <1>4, <2>1, <2>2, <2>3 DEF PoolInv, TypeOK
<1>8. ChainMatches'
  <2>1. head' = (IF chain' = <<>> THEN NULL ELSE chain'[1])
    <3>1. next[p] = (IF 1 = Len(chain) THEN NULL ELSE chain[2])  BY <1>3, <1>4 DEF Spells
    <3>2. CASE Len(chain) = 1
      <4>1. rest = <<>>  BY <1>4, <3>2, EmptySeq
      <4> QED  BY <1>2, <3>1, <3>2, <4>1
    <3>3. CASE Len(chain) # 1
      <4>1. 1 \in 1..(Len(chain) - 1) /\ 1 + 1 = 2  BY <1>4, <3>3
      <4>2. rest[1] = chain[2]  BY <1>4, <4>1
      <4>3. rest # <<>>  BY <1>4, <4>1
      <4> QED  BY <1>2, <3>1, <3>3, <4>2, <4>3
    <3> QED  BY <3>2, <3>3
  <2>2. Spells(chain, NULL)'
    <3> SUFFICES ASSUME NEW i \in 1..(Len(chain) - 1)
                 PROVE next[rest[i]] =
                         (IF i = Len(rest) THEN NULL ELSE rest[i + 1])
      BY <1>2, <1>4 DEF Spells
    <3>1. i + 1 \in DOMAIN chain  BY <1>4
    <3>2. next[chain[i + 1]] = (IF i + 1 = Len(chain) THEN NULL ELSE chain[(i + 1) + 1])
      BY <1>3, <3>1 DEF Spells
    <3>3. i # Len(chain) - 1 => i + 1 \in 1..(Len(chain) - 1)  BY <1>4
    <3>4. CASE i = Len(chain) - 1  BY <1>4, <3>2, <3>4
    <3>5. CASE i # Len(chain) - 1
      <4>1. i + 1 # Len(chain) /\ i # Len(rest)  BY <1>4, <3>5
      <4> QED  BY <1>4, <3>2, <3>3, <3>5, <4>1
    <3> QED  BY <3>4, <3>5
  <2>3. Distinct(chain)'  BY <1>2, <1>4 DEF Distinct
  <2> QED  BY <2>1, <2>2, <2>3 DEF ChainMatches
<1>9. PoolSound'
  BY <1>2, <1>5, <1>8 DEF PoolInv, PoolSound, TypeOK
<1>10. ASSUME NEW b \in Agents PROVE PopSound(b)' /\ PushSound(b)'
  <2>1. CASE b = a
    <3>1. op'[b] = NoOp  BY <1>2, <2>1 DEF PoolInv, TypeOK
    <3> QED  BY <1>2, <1>6, <3>1 DEF PopSound, PushSound, PoolInv, TypeOK
  <2>2. CASE b # a
    <3>1. op'[b] = op[b] /\ held'[b] = held[b]  BY <1>2, <2>2 DEF PoolInv, TypeOK
    <3>2. PopSound(b)'  BY <1>2, <1>5, <3>1 DEF PopSound, PoolInv
    <3>3. PushSound(b)'  BY <1>2, <3>1 DEF PushSound, PoolInv, Spells
    <3> QED  BY <3>2, <3>3
  <2> QED  BY <2>1, <2>2
<1> QED  BY <1>7, <1>9, <1>10 DEF PoolInv

\* The list is linked in front of the head that was read: only packets of the
\* list's owner are written.
LEMMA FreeReadSound ==
    ASSUME PoolInv, NEW a \in Agents, FreeRead(a)
    PROVE  PoolInv'
<1> DEFINE list == op[a].list
           o == [op[a] EXCEPT !.pc = "pcas", !.id = head, !.gen = gen]
<1>1. /\ op[a].pc = "push" /\ next' = Linked(list, head, next)
      /\ op' = [op EXCEPT ![a] = o]
      /\ head' = head /\ gen' = gen /\ held' = held /\ chain' = chain
  BY DEF FreeRead
<1>2. /\ op[a] \in Ops /\ list \in Seq(Pkts) /\ list # <<>> /\ Distinct(list)
      /\ Elements(list) \subseteq held[a]
      /\ head \in Ids /\ gen \in Nat /\ next \in [Pkts -> Ids]
  BY <1>1 DEF PoolInv, PushSound, TypeOK, Ops
<1>3. /\ next' \in [Pkts -> Ids]
      /\ \A i \in DOMAIN list : next'[list[i]] = (IF i = Len(list) THEN head ELSE list[i + 1])
      /\ \A p \in Pkts \ Elements(list) : next'[p] = next[p]
  <2> HIDE DEF list
  <2> QED  BY <1>1, <1>2, LinkedSpells
<1>4. o \in Ops /\ o.pc = "pcas" /\ o.id = head /\ o.gen = gen /\ o.list = list
  BY <1>2 DEF Ops
<1>5. op'[a] = o /\ \A b \in Agents : b # a => op'[b] = op[b]
  BY <1>1 DEF PoolInv, TypeOK
<1> HIDE DEF o
<1>6. TypeOK'  BY <1>1, <1>3, <1>4 DEF PoolInv, TypeOK
<1>7. PoolSound'
  <2>1. chain \in Seq(Pkts) /\ Elements(chain) \cap Elements(list) = {} /\ Spells(chain, NULL)
    BY <1>2 DEF PoolInv, TypeOK, PoolSound, ChainMatches, InPool
  <2>2. Spells(chain, NULL)'
    <3>1. \A i \in DOMAIN chain : chain[i] \in Pkts /\ chain[i] \notin Elements(list)
      BY <2>1, ElementOfSeq, LenProperties DEF Elements
    <3> HIDE DEF list
    <3> QED  BY <1>1, <1>3, <2>1, <3>1 DEF Spells
  <2>3. ChainMatches'
    BY <1>1, <2>2 DEF PoolInv, PoolSound, ChainMatches, Distinct
  <2> QED  BY <1>1, <2>3 DEF PoolInv, PoolSound, InPool, Elements
<1>8. ASSUME NEW b \in Agents PROVE PopSound(b)' /\ PushSound(b)'
  <2>1. CASE b = a
    <3>0. gen <= gen  BY <1>2
    <3>1. PopSound(b)'  BY <1>1, <1>4, <1>5, <2>1, <3>0 DEF PopSound
    <3>2. Spells(op[b].list, op[b].id)'  BY <1>3, <1>4, <1>5, <2>1 DEF Spells
    <3>3. PushSound(b)'
      BY <1>1, <1>2, <1>4, <1>5, <2>1, <3>2 DEF PushSound, Distinct, Elements
    <3> QED  BY <3>1, <3>3
  <2>2. CASE b # a
    <3>1. op'[b] = op[b] /\ op[b] \in Ops  BY <1>5, <2>2 DEF PoolInv, TypeOK
    <3>2. PopSound(b)'
      <4>1. InPool' = InPool  BY <1>1 DEF InPool, Elements
      <4>2. InPool \cap Elements(list) = {}
        BY <1>2 DEF PoolInv, PoolSound
      <4>3. op[b].id \in InPool => op[b].id \in Pkts \ Elements(list)
        <5>1. \A i \in DOMAIN chain : chain[i] \in Pkts
          BY ElementOfSeq, LenProperties DEF PoolInv, TypeOK
        <5> QED  BY <4>2, <5>1 DEF InPool, Elements
      <4> HIDE DEF list
      <4> QED  BY <1>1, <1>3, <3>1, <4>1, <4>3 DEF PoolInv, PopSound
    <3>3. PushSound(b)'
      <4>1. CASE op[b].pc # "pcas"
        BY <1>1, <3>1, <4>1 DEF PoolInv, PushSound, Distinct, Elements
      <4>2. CASE op[b].pc = "pcas"
        <5>1. /\ op[b].list \in Seq(Pkts) /\ Elements(op[b].list) \subseteq held[b]
              /\ Spells(op[b].list, op[b].id)
          BY <3>1, <4>2 DEF PoolInv, PushSound, Ops
        <5>2. held[b] \cap held[a] = {}  BY <2>2 DEF PoolInv, PoolSound
        <5>3. Elements(op[b].list) \cap Elements(list) = {}  BY <1>2, <5>1, <5>2
        <5>4. \A i \in DOMAIN op[b].list :
                op[b].list[i] \in Pkts /\ op[b].list[i] \notin Elements(list)
          BY <5>1, <5>3, ListMembers
        <5>5. Spells(op[b].list, op[b].id)'
          <6> HIDE DEF list
          <6> QED  BY <1>3, <3>1, <5>1, <5>4 DEF Spells
        <5> QED  BY <1>1, <3>1, <4>2, <5>5 DEF PoolInv, PushSound, Distinct, Elements
      <4> QED  BY <4>1, <4>2
    <3> QED  BY <3>2, <3>3
  <2> QED  BY <2>1, <2>2
<1> QED  BY <1>6, <1>7, <1>8 DEF PoolInv

\* The compare-and-swap of ci_netif_pkt_free_nonb_list puts the list in front of
\* the pool.  The generation it raises is above every one that a pop has read.
LEMMA FreeCasSound ==
    ASSUME PoolInv, NEW a \in Agents, FreeCas(a)
    PROVE  PoolInv'
<1> DEFINE list == op[a].list
           new == list \o chain
<1>1. /\ op[a].pc = "pcas" /\ head = op[a].id /\ gen' = gen + 1 /\ head' = Head(list)
      /\ held' = [held EXCEPT ![a] = @ \ Elements(list)]
      /\ chain' = new /\ op' = [op EXCEPT ![a] = NoOp] /\ next' = next
  BY DEF FreeCas, Unchanged
<1>2. /\ op[a] \in Ops /\ list \in Seq(Pkts) /\ list # <<>> /\ Distinct(list)
      /\ Elements(list) \subseteq held[a] /\ Spells(list, head)
  BY <1>1 DEF PoolInv, PushSound, TypeOK, Ops
<1>3. /\ chain \in Seq(Pkts) /\ Distinct(chain) /\ Spells(chain, NULL)
      /\ head = (IF chain = <<>> THEN NULL ELSE chain[1])
      /\ Elements(chain) \cap Elements(list) = {}
  BY <1>2 DEF PoolInv, TypeOK, PoolSound, ChainMatches, InPool
<1> HIDE DEF list
<1>4. /\ new \in Seq(Pkts) /\ Len(new) = Len(list) + Len(chain)
      /\ Len(list) \in Nat \ {0} /\ Len(chain) \in Nat
      /\ DOMAIN list = 1..Len(list) /\ DOMAIN chain = 1..Len(chain)
      /\ DOMAIN new = 1..(Len(list) + Len(chain))
      /\ \A i \in 1..(Len(list) + Len(chain)) :
           new[i] = IF i <= Len(list) THEN list[i] ELSE chain[i - Len(list)]
      /\ new # <<>> /\ Head(list) = list[1] /\ list[1] \in Pkts
      /\ Elements(new) = Elements(list) \cup Elements(chain)
      /\ Distinct(new)
  BY <1>2, <1>3, ListBeforeChain
<1> HIDE DEF new
<1>5. InPool' = InPool \cup Elements(list)
  <2>1. InPool' = Elements(new)  BY <1>1 DEF InPool, Elements
  <2> QED  BY <1>4, <2>1 DEF InPool
<1>6. NoOp \in Ops /\ NoOp.pc = "idle" /\ NoOp.gen = 0  BY DEF NoOp, Ops, Ids
<1>7. TypeOK'
  <2>1. head' \in Ids /\ gen' \in Nat  BY <1>1, <1>4 DEF PoolInv, TypeOK, Ids
  <2>2. held' \in [Agents -> SUBSET Pkts]  BY <1>1 DEF PoolInv, TypeOK
  <2>3. op' \in [Agents -> Ops]  BY <1>1, <1>6 DEF PoolInv, TypeOK
  <2> QED  BY <1>1, <1>4, <2>1, <2>2, <2>3 DEF PoolInv, TypeOK
<1>8. Spells(chain, NULL)'
  <2> SUFFICES ASSUME NEW i \in 1..(Len(list) + Len(chain))
               PROVE  next[new[i]] = (IF i = Len(new) THEN NULL ELSE new[i + 1])
    BY <1>1, <1>4 DEF Spells
  <2> DEFINE m == Len(list)
             n == Len(chain)
  <2>a. m \in Nat /\ m > 0 /\ n \in Nat /\ DOMAIN list = 1..m /\ i \in 1..(m + n)  BY <1>4
  <2> HIDE DEF m, n
  <2>1. CASE i < m
    <3>a. i \in DOMAIN list /\ i + 1 \in 1..(m + n) /\ i + 1 <= m
          /\ i # m /\ i # m + n /\ i <= m
      BY <2>a, <2>1
    <3>1. i \in DOMAIN list /\ i + 1 \in 1..(Len(list) + Len(chain)) /\ i + 1 <= Len(list)
          /\ i # Len(list) /\ i # Len(list) + Len(chain) /\ i <= Len(list)
      BY <3>a DEF m, n
    <3>2. new[i] = list[i] /\ new[i + 1] = list[i + 1]  BY <1>4, <3>1
    <3>3. next[list[i]] = list[i + 1]  BY <1>2, <3>1 DEF Spells
    <3> QED  BY <1>4, <3>1, <3>2, <3>3
  <2>2. CASE i = m
    <3>1. new[i] = list[i] /\ i \in DOMAIN list  BY <1>4, <2>2 DEF m
    <3>2. next[list[i]] = head  BY <1>2, <2>2, <3>1 DEF Spells, m
    <3>3. CASE chain = <<>>
      <4>1. Len(chain) = 0  BY <3>3
      <4>2. i = Len(new)  BY <1>4, <2>2, <4>1 DEF m
      <4> QED  BY <1>3, <3>1, <3>2, <3>3, <4>2
    <3>4. CASE chain # <<>>
      <4>1. Len(chain) # 0  BY <1>3, <3>4, EmptySeq
      <4>a. i + 1 \in 1..(m + n) /\ ~(i + 1 <= m) /\ (i + 1) - m = 1 /\ i # m + n
        <5>1. n # 0  BY <4>1 DEF n
        <5> QED  BY <2>a, <2>2, <5>1
      <4>2. i + 1 \in 1..(Len(list) + Len(chain)) /\ ~(i + 1 <= Len(list))
            /\ (i + 1) - Len(list) = 1 /\ i # Len(list) + Len(chain)
        BY <4>a DEF m, n
      <4>3. new[i + 1] = chain[1]  BY <1>4, <4>2
      <4> QED  BY <1>3, <1>4, <3>1, <3>2, <3>4, <4>2, <4>3
    <3> QED  BY <3>3, <3>4
  <2>3. CASE i > m
    <3> DEFINE j == i - Len(list)
    <3>1. j \in DOMAIN chain /\ ~(i <= Len(list)) /\ (i = Len(list) + Len(chain) <=> j = Len(chain))
      BY <1>4, <2>3 DEF m
    <3>2. new[i] = chain[j]  BY <1>4, <3>1
    <3>3. next[chain[j]] = (IF j = Len(chain) THEN NULL ELSE chain[j + 1])
      BY <1>3, <3>1 DEF Spells
    <3>4. CASE j = Len(chain)  BY <1>4, <3>1, <3>2, <3>3, <3>4
    <3>5. CASE j # Len(chain)
      <4>1. i + 1 \in 1..(Len(list) + Len(chain)) /\ ~(i + 1 <= Len(list))
            /\ (i + 1) - Len(list) = j + 1
        BY <1>4, <2>3, <3>5 DEF m
      <4>2. new[i + 1] = chain[j + 1]  BY <1>4, <4>1
      <4> QED  BY <1>4, <3>1, <3>2, <3>3, <3>5, <4>2
    <3> QED  BY <3>4, <3>5
  <2> QED  BY <2>a, <2>1, <2>2, <2>3
<1>9. PoolSound'
  <2>1. head' = new[1]
    <3>1. 1 \in 1..(Len(list) + Len(chain)) /\ 1 <= Len(list)  BY <1>4
    <3>2. new[1] = list[1]  BY <1>4, <3>1
    <3> QED  BY <1>1, <1>4, <3>2
  <2>2. Distinct(chain)'  BY <1>1, <1>4 DEF Distinct
  <2>3. ChainMatches'  BY <1>1, <1>4, <1>8, <2>1, <2>2 DEF ChainMatches
  <2>4. \A b \in Agents : held'[b] = IF b = a THEN held[a] \ Elements(list) ELSE held[b]
    BY <1>1 DEF PoolInv, TypeOK
  <2>5. \A b, c \in Agents : b # c => held[b] \cap held[c] = {}  BY DEF PoolInv, PoolSound
  <2>6. \A b \in Agents : held[b] \cap InPool = {}  BY DEF PoolInv, PoolSound
  <2>7. \A b \in Agents : held'[b] \cap InPool' = {}  BY <1>2, <1>5, <2>4, <2>5, <2>6
  <2>8. \A b, c \in Agents : b # c => held'[b] \cap held'[c] = {}  BY <2>4, <2>5
  <2> QED  BY <2>3, <2>7, <2>8 DEF PoolSound
<1>10. ASSUME NEW b \in Agents PROVE PopSound(b)' /\ PushSound(b)'
  <2>1. CASE b = a
    <3>1. op'[b] = NoOp  BY <1>1, <2>1 DEF PoolInv, TypeOK
    <3>2. 0 <= gen'  BY <1>7 DEF TypeOK
    <3> QED  BY <1>6, <3>1, <3>2 DEF PopSound, PushSound
  <2>2. CASE b # a
    <3>1. op'[b] = op[b] /\ held'[b] = held[b]  BY <1>1, <2>2 DEF PoolInv, TypeOK
    <3>2. op[b].gen <= gen' /\ op[b].gen # gen'
      <4>1. op[b].gen <= gen /\ gen \in Nat /\ op[b] \in Ops  BY DEF PoolInv, PopSound, TypeOK
      <4>2. op[b].gen \in Nat  BY <4>1 DEF Ops
      <4> QED  BY <1>1, <4>1, <4>2
    <3>3. PopSound(b)'  BY <3>1, <3>2 DEF PoolInv, PopSound
    <3>4. PushSound(b)'  BY <1>1, <3>1 DEF PoolInv, PushSound, Spells
    <3> QED  BY <3>3, <3>4
  <2> QED  BY <2>1, <2>2
<1> QED  BY <1>7, <1>9, <1>10 DEF PoolInv

\* Packets that come into a hand from outside, or leave it, change nothing for
\* the pool.
LEMMA TakeGiveSound ==
    ASSUME PoolInv, NEW a \in Agents,
           \/ \E ps \in SUBSET (Pkts \ (InPool \cup InHand)) : Take(a, ps)
           \/ \E ps \in SUBSET held[a] : Give(a, ps)
    PROVE  PoolInv'
<1>1. PICK h \in SUBSET Pkts :
        /\ op[a].pc = "idle" /\ held' = [held EXCEPT ![a] = h]
        /\ UNCHANGED <<head, gen, next, op, chain>>
        /\ h \cap InPool = {}
        /\ \A b \in Agents : b # a => h \cap held[b] = {}
  <2>1. ASSUME NEW ps \in SUBSET (Pkts \ (InPool \cup InHand)), Take(a, ps)
        PROVE  /\ op[a].pc = "idle" /\ held' = [held EXCEPT ![a] = held[a] \cup ps]
               /\ UNCHANGED <<head, gen, next, op, chain>>
               /\ (held[a] \cup ps) \cap InPool = {} /\ held[a] \cup ps \in SUBSET Pkts
               /\ \A b \in Agents : b # a => (held[a] \cup ps) \cap held[b] = {}
    BY <2>1 DEF PoolInv, TypeOK, PoolSound, InHand, Take
  <2>2. ASSUME NEW ps \in SUBSET held[a], Give(a, ps)
        PROVE  /\ op[a].pc = "idle" /\ held' = [held EXCEPT ![a] = held[a] \ ps]
               /\ UNCHANGED <<head, gen, next, op, chain>>
               /\ (held[a] \ ps) \cap InPool = {} /\ held[a] \ ps \in SUBSET Pkts
               /\ \A b \in Agents : b # a => (held[a] \ ps) \cap held[b] = {}
    BY <2>2 DEF PoolInv, TypeOK, PoolSound, Give
  <2> QED  BY <2>1, <2>2
<1>2. held'[a] = h /\ \A b \in Agents : b # a => held'[b] = held[b]
  BY <1>1 DEF PoolInv, TypeOK
<1>3. TypeOK'  BY <1>1 DEF PoolInv, TypeOK
<1>4. InPool' = InPool  BY <1>1 DEF InPool, Elements
<1>5. ChainMatches'  BY <1>1 DEF PoolInv, PoolSound, ChainMatches, Spells, Distinct
<1>6. PoolSound'  BY <1>1, <1>2, <1>4, <1>5 DEF PoolInv, PoolSound
<1>7. ASSUME NEW b \in Agents PROVE PopSound(b)' /\ PushSound(b)'
  <2>1. PopSound(b)'  BY <1>1, <1>4 DEF PoolInv, PopSound
  <2>2. PushSound(b)'
    BY <1>1, <1>2 DEF PoolInv, PushSound, Spells, Distinct, Elements
  <2> QED  BY <2>1, <2>2
<1> QED  BY <1>3, <1>6, <1>7 DEF PoolInv

\* Nor does what a thread does with the links of its own packets.
LEMMA LinkSound ==
    ASSUME PoolInv, NEW a \in Agents, NEW p \in Pkts, NEW q \in Ids, Link(a, p, q)
    PROVE  PoolInv'
<1>1. /\ p \in held[a] /\ p \notin Elements(op[a].list) /\ next' = [next EXCEPT ![p] = q]
      /\ head' = head /\ gen' = gen /\ held' = held /\ op' = op /\ chain' = chain
  BY DEF Link
<1>2. TypeOK'  BY <1>1 DEF PoolInv, TypeOK
<1>3. \A r \in Pkts : r # p => next'[r] = next[r]  BY <1>1 DEF PoolInv, TypeOK
<1>4. InPool' = InPool  BY <1>1 DEF InPool, Elements
<1>5. \A i \in DOMAIN chain : chain[i] \in Pkts /\ chain[i] \in InPool
  BY ListMembers DEF PoolInv, TypeOK, InPool
<1>6. p \notin InPool  BY <1>1 DEF PoolInv, PoolSound
<1>7. Spells(chain, NULL)'
  <2>1. Spells(chain, NULL)  BY DEF PoolInv, PoolSound, ChainMatches
  <2> QED  BY <1>1, <1>3, <1>5, <1>6, <2>1 DEF Spells
<1>8. PoolSound'
  <2>1. ChainMatches'  BY <1>1, <1>7 DEF PoolInv, PoolSound, ChainMatches, Distinct
  <2> QED  BY <1>1, <1>4, <2>1 DEF PoolInv, PoolSound
<1>9. ASSUME NEW b \in Agents PROVE PopSound(b)' /\ PushSound(b)'
  <2>1. PopSound(b)'
    <3>1. op[b].id \in InPool => op[b].id \in Pkts  BY <1>5 DEF InPool, Elements
    <3> QED  BY <1>1, <1>3, <1>4, <1>6, <3>1 DEF PoolInv, PopSound
  <2>2. CASE op[b].pc # "pcas"
    BY <1>1, <2>1, <2>2 DEF PoolInv, PushSound, Distinct, Elements
  <2>3. CASE op[b].pc = "pcas"
    <3>1. /\ op[b].list \in Seq(Pkts) /\ Elements(op[b].list) \subseteq held[b]
          /\ Spells(op[b].list, op[b].id)
      BY <2>3 DEF PoolInv, TypeOK, PushSound, Ops
    <3>2. p \notin Elements(op[b].list)
      <4>1. CASE b = a  BY <1>1, <4>1
      <4>2. CASE b # a  BY <1>1, <3>1, <4>2 DEF PoolInv, PoolSound
      <4> QED  BY <4>1, <4>2
    <3>3. \A i \in DOMAIN op[b].list : op[b].list[i] \in Pkts /\ op[b].list[i] # p
      BY <3>1, <3>2, ListMembers
    <3>4. Spells(op[b].list, op[b].id)'  BY <1>1, <1>3, <3>1, <3>3 DEF Spells
    <3> QED  BY <1>1, <2>1, <2>3, <3>4 DEF PoolInv, PushSound, Distinct, Elements
  <2> QED  BY <2>2, <2>3
<1> QED  BY <1>2, <1>8, <1>9 DEF PoolInv

\* The invariant holds for whatever earlier sends have left in the pool.
LEMMA InitSound == PoolInit => PoolInv
<1> SUFFICES ASSUME PoolInit PROVE PoolInv
  OBVIOUS
<1> DEFINE none == [p \in Pkts |-> NULL]
<1>1. chain \in Seq(Pkts) /\ Distinct(chain)
  <2>1. CASE chain \in Lists  BY <2>1, ListsAreSequences
  <2>2. CASE chain = <<>>  BY <2>2 DEF Distinct
  <2> QED  BY <2>1, <2>2 DEF PoolInit
<1>2. none \in [Pkts -> Ids] /\ NULL \in Ids  BY DEF Ids
<1>3. next = Linked(chain, NULL, none)  BY DEF PoolInit
<1> HIDE DEF none
<1>4. next \in [Pkts -> Ids] /\ Spells(chain, NULL)
  BY <1>1, <1>2, <1>3, LinkedSpells DEF Spells
<1>5. NoOp \in Ops /\ NoOp.pc = "idle" /\ NoOp.gen = 0  BY DEF NoOp, Ops, Ids
<1>6. /\ head = (IF chain = <<>> THEN NULL ELSE chain[1]) /\ gen = 0
      /\ held = [a \in Agents |-> {}] /\ op = [a \in Agents |-> NoOp]
  BY DEF PoolInit
<1>7. head \in Ids
  <2>1. chain # <<>> => chain[1] \in Pkts  BY <1>1, TailOfChain
  <2> QED  BY <1>6, <2>1 DEF Ids
<1>8. TypeOK  BY <1>1, <1>4, <1>5, <1>6, <1>7 DEF TypeOK
<1>9. PoolSound  BY <1>1, <1>4, <1>6 DEF PoolSound, ChainMatches
<1>10. \A a \in Agents : PopSound(a) /\ PushSound(a)
  BY <1>5, <1>6 DEF PopSound, PushSound
<1> QED  BY <1>8, <1>9, <1>10 DEF PoolInv

\* Every step of a thread keeps the invariant.
LEMMA StepSound == PoolInv /\ [\E a \in Agents : PoolStep(a)]_poolVars => PoolInv'
<1>1. ASSUME PoolInv, UNCHANGED poolVars PROVE PoolInv'
  BY <1>1 DEF poolVars, PoolInv, TypeOK, PoolSound, ChainMatches, PopSound, PushSound,
              Spells, Distinct, InPool, Elements
<1>2. ASSUME PoolInv, NEW a \in Agents, PoolStep(a) PROVE PoolInv'
  BY <1>2, AllocReads, FreeStarts, AllocCasSound, FreeReadSound, FreeCasSound,
     TakeGiveSound, LinkSound DEF PoolStep, Ids
<1> QED  BY <1>1, <1>2

\* The pool that ci_netif_pkt_alloc_nonb and ci_netif_pkt_free_nonb_list keep
\* without a lock is a well-formed list, and no packet is in two hands or both
\* in a hand and in the pool.
THEOREM PoolIsSound == PoolSpec => []PoolSound
<1>1. PoolInv => PoolSound  BY DEF PoolInv
<1> QED  BY <1>1, InitSound, StepSound, PTL DEF PoolSpec

\* What the abstract pool calls a step is what a compare-and-swap does, and the
\* reads before it are nothing.
LEMMA StepImplements ==
    PoolInv /\ [\E a \in Agents : PoolStep(a)]_poolVars => [Abs!Next]_<<chain, held>>
<1> SUFFICES ASSUME PoolInv, NEW a \in Agents, PoolStep(a)
             PROVE  [Abs!Next]_<<chain, held>>
  BY DEF poolVars
<1>1. CASE AllocRead(a) \/ AllocNext(a) \/ AllocAgain(a) \/ FreeRead(a) \/ FreeAgain(a)
  BY <1>1 DEF AllocRead, AllocNext, AllocAgain, FreeRead, FreeAgain
<1>2. CASE \E list \in Lists : Elements(list) \subseteq held[a] /\ FreeList(a, list)
  BY <1>2 DEF FreeList
<1>3. CASE \E p \in Pkts, q \in Pkts \cup {NULL} : Link(a, p, q)
  BY <1>3 DEF Link
<1>4. CASE AllocCas(a)
  <2>1. chain # <<>> /\ op[a].id = chain[1]  BY <1>4, PopTakesFirst
  <2>2. Head(chain) = chain[1]
    BY <2>1, TailOfChain DEF PoolInv, TypeOK, PoolSound, ChainMatches
  <2>3. held' = [held EXCEPT ![a] = @ \cup {op[a].id}] /\ chain' = Tail(chain)
    BY <1>4 DEF AllocCas
  <2>4. Abs!Pop(a)  BY <2>1, <2>2, <2>3 DEF Abs!Pop
  <2> QED  BY <2>4 DEF Abs!Next
<1>5. CASE FreeCas(a)
  <2>1. op[a].list \in Seq(Pkts) /\ Elements(op[a].list) \subseteq held[a]
    BY <1>5 DEF FreeCas, PoolInv, TypeOK, PushSound, Ops
  <2>2. /\ held' = [held EXCEPT ![a] = @ \ Elements(op[a].list)]
        /\ chain' = op[a].list \o chain
    BY <1>5 DEF FreeCas
  <2>3. Abs!Push(a, op[a].list)
    BY <2>1, <2>2 DEF Abs!Push, Elements, Abs!Elements
  <2> QED  BY <2>1, <2>3 DEF Abs!Next
<1>6. CASE \E ps \in SUBSET (Pkts \ (InPool \cup InHand)) : Take(a, ps)
  <2>1. PICK ps \in SUBSET (Pkts \ (InPool \cup InHand)) : Take(a, ps)  BY <1>6
  <2>2. Abs!Take(a, ps)
    BY <2>1 DEF Take, Abs!Take, InPool, InHand, Elements, Abs!InHand, Abs!Elements
  <2>3. ps \in SUBSET Pkts  BY <2>1
  <2> QED  BY <2>2, <2>3 DEF Abs!Next
<1>7. CASE \E ps \in SUBSET held[a] : Give(a, ps)
  <2>1. PICK ps \in SUBSET held[a] : Give(a, ps)  BY <1>7
  <2>2. Abs!Give(a, ps) /\ ps \in SUBSET Pkts
    BY <2>1 DEF Give, Abs!Give, PoolInv, TypeOK
  <2> QED  BY <2>2 DEF Abs!Next
<1> QED  BY <1>1, <1>2, <1>3, <1>4, <1>5, <1>6, <1>7 DEF PoolStep

\* The pool implements a stack whose calls are atomic: the two words and the
\* links through the packets, read and written one at a time by any number of
\* threads, never show (ci_netif_pkt_alloc_nonb, ci_netif_pkt_free_nonb_list).
THEOREM PoolIsAStack == PoolSpec => Abs!Spec
<1>1. PoolInit => Abs!Init
  <2> SUFFICES ASSUME PoolInit PROVE Abs!Init
    OBVIOUS
  <2>1. chain \in Seq(Pkts)  BY InitSound DEF PoolInv, TypeOK
  <2> QED  BY <2>1 DEF PoolInit, Abs!Init
<1> QED  BY <1>1, InitSound, StepSound, StepImplements, PTL DEF PoolSpec, Abs!Spec
=============================================================================
