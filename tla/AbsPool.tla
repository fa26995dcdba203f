------------------------------- MODULE AbsPool -------------------------------
(***************************************************************************)
(* What the non-blocking packet pool promises: a stack of packets from which *)
(* each call takes the top one, or to which it returns a list, in one step,   *)
(* so that no packet is ever in two hands.                                   *)
(***************************************************************************)
EXTENDS Sequences

CONSTANTS Pkts, Agents

VARIABLES stack, held

Elements(list) == {list[i] : i \in DOMAIN list}
InHand == UNION {held[a] : a \in Agents}

\* ci_netif_pkt_alloc_nonb, when it returns a packet
Pop(a) == /\ stack # <<>>
          /\ held' = [held EXCEPT ![a] = @ \cup {Head(stack)}]
          /\ stack' = Tail(stack)

\* ci_netif_pkt_free_nonb_list
Push(a, list) == /\ Elements(list) \subseteq held[a]
                 /\ held' = [held EXCEPT ![a] = @ \ Elements(list)]
                 /\ stack' = list \o stack

\* What happens to packets outside the pool.
Take(a, ps) == /\ ps \cap (Elements(stack) \cup InHand) = {}
               /\ held' = [held EXCEPT ![a] = @ \cup ps]
               /\ UNCHANGED stack

Give(a, ps) == /\ held' = [held EXCEPT ![a] = @ \ ps]
               /\ UNCHANGED stack

Init == /\ stack \in Seq(Pkts)
        /\ held = [a \in Agents |-> {}]

Next == \E a \in Agents : \/ Pop(a)
                          \/ \E list \in Seq(Pkts) : Push(a, list)
                          \/ \E ps \in SUBSET Pkts : Take(a, ps) \/ Give(a, ps)

Spec == Init /\ [][Next]_<<stack, held>>
=============================================================================
