------------------------------- MODULE NonbPool -------------------------------
(***************************************************************************)
(* The non-blocking packet pool of a stack: packets that any thread may     *)
(* allocate and free without the stack lock.  It is a list linked through   *)
(* the packets, whose head is the low half of ni->state->nonb_pkt_pool; the  *)
(* high half is a generation that every push raises and no pop does.        *)
(*                                                                         *)
(* A read of the word and the compare-and-swap that follows are two steps,   *)
(* and a pop reads the link of the packet it has found in between.          *)
(***************************************************************************)
EXTENDS Naturals, Sequences, FiniteSets

CONSTANTS Pkts, Agents, NULL

ASSUME NullIsNoPacket == NULL \notin Pkts
ASSUME PktsFinite == IsFiniteSet(Pkts)

VARIABLES
    head, gen,      \* the two halves of nonb_pkt_pool
    next,           \* pkt->next
    held,           \* packets in the hands of each thread
    op,             \* what each thread is doing with the pool
    chain           \* ghost: the packets of the pool, first one first

poolVars == <<head, gen, next, held, op, chain>>

NoOp == [pc |-> "idle", id |-> NULL, gen |-> 0, nx |-> NULL, list |-> <<>>]

Elements(list) == {list[i] : i \in DOMAIN list}
InPool == Elements(chain)
InHand == UNION {held[a] : a \in Agents}
Distinct(list) == \A i, j \in DOMAIN list : list[i] = list[j] => i = j
Lists == {list \in UNION {[1..n -> Pkts] : n \in 1..Cardinality(Pkts)} : Distinct(list)}

\* The links, once those of a list have been written, its last packet's to tail.
Linked(list, tail, links) ==
    [p \in Pkts |-> IF p \in Elements(list)
                    THEN LET i == CHOOSE i \in DOMAIN list : list[i] = p
                         IN IF i = Len(list) THEN tail ELSE list[i + 1]
                    ELSE links[p]]

\* Earlier sends may have left any packets in the pool.
PoolInit == /\ chain \in Lists \cup {<<>>}
            /\ head = IF chain = <<>> THEN NULL ELSE chain[1]
            /\ next = Linked(chain, NULL, [p \in Pkts |-> NULL])
            /\ gen = 0
            /\ held = [a \in Agents |-> {}]
            /\ op = [a \in Agents |-> NoOp]

Unchanged(a) == head = op[a].id /\ gen = op[a].gen

(***************************************************************************)
(* ci_netif_pkt_alloc_nonb                                                 *)
(***************************************************************************)
AllocEmpty(a) == op[a].pc = "idle" /\ head = NULL /\ UNCHANGED poolVars

AllocRead(a) ==
    /\ op[a].pc = "idle" /\ head # NULL
    /\ op' = [op EXCEPT ![a] = [@ EXCEPT !.pc = "next", !.id = head, !.gen = gen]]
    /\ UNCHANGED <<head, gen, next, held, chain>>

\* The packet may be somebody else's by now.
AllocNext(a) == /\ op[a].pc = "next"
                /\ op' = [op EXCEPT ![a] = [@ EXCEPT !.pc = "cas", !.nx = next[op[a].id]]]
                /\ UNCHANGED <<head, gen, next, held, chain>>

AllocCas(a) == /\ op[a].pc = "cas" /\ Unchanged(a)
               /\ head' = op[a].nx
               /\ held' = [held EXCEPT ![a] = @ \cup {op[a].id}]
               /\ chain' = Tail(chain)
               /\ op' = [op EXCEPT ![a] = NoOp]
               /\ UNCHANGED <<gen, next>>

AllocAgain(a) == /\ op[a].pc = "cas" /\ ~Unchanged(a)
                 /\ op' = [op EXCEPT ![a] = NoOp]
                 /\ UNCHANGED <<head, gen, next, held, chain>>

(***************************************************************************)
(* ci_netif_pkt_free_nonb_list; the links of the list itself, made before    *)
(* by its owner, are written with the last one.                             *)
(***************************************************************************)
FreeList(a, list) ==
    /\ op[a].pc = "idle" /\ list # <<>>
    /\ op' = [op EXCEPT ![a] = [@ EXCEPT !.pc = "push", !.list = list]]
    /\ UNCHANGED <<head, gen, next, held, chain>>

FreeRead(a) ==
    /\ op[a].pc = "push"
    /\ next' = Linked(op[a].list, head, next)
    /\ op' = [op EXCEPT ![a] = [@ EXCEPT !.pc = "pcas", !.id = head, !.gen = gen]]
    /\ UNCHANGED <<head, gen, held, chain>>

\* Mutant: the generation is not raised.
FreeCasNoGen(a) == /\ op[a].pc = "pcas" /\ Unchanged(a)
                   /\ head' = Head(op[a].list)
                   /\ held' = [held EXCEPT ![a] = @ \ Elements(op[a].list)]
                   /\ chain' = op[a].list \o chain
                   /\ op' = [op EXCEPT ![a] = NoOp]
                   /\ UNCHANGED <<gen, next>>

FreeCas(a) == /\ op[a].pc = "pcas" /\ Unchanged(a)
              /\ head' = Head(op[a].list) /\ gen' = gen + 1
              /\ held' = [held EXCEPT ![a] = @ \ Elements(op[a].list)]
              /\ chain' = op[a].list \o chain
              /\ op' = [op EXCEPT ![a] = NoOp]
              /\ UNCHANGED next

FreeAgain(a) == /\ op[a].pc = "pcas" /\ ~Unchanged(a)
                /\ op' = [op EXCEPT ![a] = [@ EXCEPT !.pc = "push"]]
                /\ UNCHANGED <<head, gen, next, held, chain>>

(***************************************************************************)
(* Packets come into a thread's hand and leave it in other ways too.         *)
(***************************************************************************)
Take(a, ps) == /\ op[a].pc = "idle"
               /\ held' = [held EXCEPT ![a] = @ \cup ps]
               /\ UNCHANGED <<head, gen, next, op, chain>>

Give(a, ps) == /\ op[a].pc = "idle"
               /\ held' = [held EXCEPT ![a] = @ \ ps]
               /\ UNCHANGED <<head, gen, next, op, chain>>

\* The link of a packet in the hand is its owner's to use.
Link(a, p, q) == /\ p \in held[a]
                 /\ p \notin Elements(op[a].list)
                 /\ next' = [next EXCEPT ![p] = q]
                 /\ UNCHANGED <<head, gen, held, op, chain>>

PoolStep(a) == \/ AllocRead(a) \/ AllocNext(a) \/ AllocCas(a) \/ AllocAgain(a)
               \/ FreeRead(a) \/ FreeCas(a) \/ FreeAgain(a)
               \/ \E list \in Lists : Elements(list) \subseteq held[a] /\ FreeList(a, list)
               \/ \E ps \in SUBSET (Pkts \ (InPool \cup InHand)) : Take(a, ps)
               \/ \E ps \in SUBSET held[a] : Give(a, ps)
               \/ \E p \in Pkts, q \in Pkts \cup {NULL} : Link(a, p, q)

\* What the pool's users promise it: to free only packets that they hold, each
\* once, and to take others only from outside the pool and from no other thread.
PoolSpec == PoolInit /\ [][\E a \in Agents : PoolStep(a)]_poolVars

(***************************************************************************)
(* Properties                                                              *)
(***************************************************************************)
\* The links of a list lead from its first packet to its last, and on to tail.
Spells(list, tail) ==
    \A i \in DOMAIN list : next[list[i]] = (IF i = Len(list) THEN tail ELSE list[i + 1])

\* The list that head and next spell is the pool: it ends, and no packet is on
\* it twice.
ChainMatches == /\ head = (IF chain = <<>> THEN NULL ELSE chain[1])
                /\ Spells(chain, NULL)
                /\ Distinct(chain)

\* ci_netif_pkt_alloc_nonb never gives one packet to two threads, or one that is
\* still in the pool, although a packet may leave and come back while a thread
\* is between its read of the head and its compare-and-swap.
PoolSound == /\ ChainMatches
             /\ \A a \in Agents : held[a] \cap InPool = {}
             /\ \A a, b \in Agents : a # b => held[a] \cap held[b] = {}
=============================================================================
