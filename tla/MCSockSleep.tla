----------------------------- MODULE MCSockSleep -----------------------------
(* Several small instances of SockSleep in one state graph: the initial state *)
(* chooses a cast, and only the agents of that cast (and the workqueue) ever  *)
(* take a step.                                                               *)
EXTENDS SockSleep

CONSTANT Casts      \* sets of agents

VARIABLE cast

Cast == cast \cup {WQ}

MCInit == Init /\ cast \in Casts
MCNext == /\ (\E a \in Cast : Step(a) \/ Event(a)) \/ Quiet
          /\ UNCHANGED cast

(* The fairness of FairSpec, for the agents on stage.                         *)
MCSpec == /\ MCInit
          /\ [][MCNext]_<<vars, cast>>
          /\ \A a \in Agents :
               WF_<<vars, cast>>(a \in Cast /\ Step(a) /\ UNCHANGED cast)
=============================================================================
