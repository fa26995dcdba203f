------------------------------ MODULE MCPktPool ------------------------------
(* Several small instances of PktPool in one state graph: the initial state   *)
(* chooses a start, and only the agents of its cast ever take a step.          *)
EXTENDS PktPool

CONSTANTS p1, p2, u1, k1, c1, t1

(* The agents on stage, the pool, and the packets in the TX rings.             *)
Starts == {<<{u1, k1}, <<>>, {}>>, <<{u1, k1}, <<p1>>, {}>>, <<{u1, k1}, <<p1, p2>>, {}>>,
           <<{u1, t1}, <<>>, {}>>, <<{u1, t1}, <<p1>>, {p2}>>,
           <<{k1, t1}, <<>>, {}>>, <<{k1, t1}, <<p1, p2>>, {}>>,
           <<{c1, t1}, <<>>, {}>>, <<{c1, t1}, <<p1, p2>>, {}>>, <<{c1, u1}, <<p1>>, {}>>}

VARIABLE cast

MCInit == Init /\ \E s \in Starts : cast = s[1] /\ chain = s[2] /\ sent = s[3]
MCNext == (\E a \in cast : Step(a) \/ Event(a)) /\ UNCHANGED cast

(* The fairness of FairSpec, for the agents on stage.                         *)
MCSpec == /\ MCInit
          /\ [][MCNext]_<<vars, cast>>
          /\ \A a \in Agents : WF_<<vars, cast>>(a \in cast /\ Step(a) /\ UNCHANGED cast)

(* PktWaitersWake for the casts with a timer, as every stack has one: a thread *)
(* asleep in ci_netif_pkt_wait is woken by the periodic timer's unlock if it     *)
(* has set its flag after everybody else's.                                    *)
TimerWakesWaiters == cast \cap Timers # {} => PktWaitersWake
=============================================================================
