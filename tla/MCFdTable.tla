----------------------------- MODULE MCFdTable -----------------------------
(***************************************************************************)
(* Three threads over three descriptors.  A cast names the calls that run  *)
(* against one another and what the descriptors are when they start.       *)
(***************************************************************************)
EXTENDS FdTable, TLC

CONSTANTS t1, t2, t3

Address(fd) == 4 * (fd + 1)

(* An entry that is known or not yet probed, of a socket, an O/S file or nothing. *)
Entry(kind, fd) ==
    CASE kind = "sock" -> Address(fd)
      [] kind = "os" -> fdip_passthru
      [] OTHER -> fdip_unknown
File(kind, fd) ==
    CASE kind \in {"sock", "sock?"} -> fd + 1
      [] kind \in {"os", "os?"} -> OsFile
      [] OTHER -> NoFile

On(op, fd) == <<Frame(op, fd)>>
From(op, from, fd) == <<[Frame(op, fd) EXCEPT !.from = from]>>

Cast(kinds, a, b, c) == [kinds |-> kinds, calls |-> t1 :> a @@ t2 :> b @@ t3 :> c]

None == <<>>
PollTwice(fd) == On("poll", fd) \o On("poll", fd)
Dup2Onto(fd, from) == From("dup2", from, fd)
Both == <<"sock", "sock", "none">>
One == <<"sock", "none", "none">>
Unprobed == <<"sock?", "sock", "none">>
Os == <<"os?", "sock", "none">>
Closed1 == <<"none", "sock", "none">>

(* Close, dup2 and handover against each other and against users. *)
Closers ==
    { Cast(Both, On("recv", 2), On("close", 2), Dup2Onto(2, 1)),
      Cast(Both, PollTwice(2), On("close", 2), Dup2Onto(2, 1)),
      Cast(Both, On("recv", 1), On("close", 1), On("close", 1)),
      Cast(Both, On("recv", 1), Dup2Onto(2, 1), Dup2Onto(1, 2)),
      Cast(Both, On("close", 1), Dup2Onto(2, 1), On("close", 2)),
      Cast(Both, From("epoll", 2, 1), On("close", 1), On("close", 2)),
      Cast(Both, From("epoll", 2, 1), Dup2Onto(1, 2), None),
      Cast(Both, On("handover", 1), On("recv", 1), On("close", 1)),
      Cast(Both, On("handover", 1), PollTwice(1), On("recv", 1)),
      Cast(Both, On("handover", 1), Dup2Onto(2, 1), On("recv", 2)) }

(* Numbers that are given out again, and entries not probed yet. *)
Openers ==
    { Cast(One, On("close", 1), On("socket", 0), On("recv", 1)),
      Cast(One, On("close", 1), On("socket", 0), PollTwice(1)),
      Cast(One, On("close", 1), On("dup", 1), On("recv", 1)),
      Cast(One, On("socket", 0), On("socket", 0), On("recv", 2)),
      Cast(<<"sock", "sock", "sock">>, On("dup", 1), On("socket", 0), On("close", 3)),
      Cast(Unprobed, On("recv", 1), On("recv", 1), On("close", 1)),
      Cast(Unprobed, On("recv", 1), Dup2Onto(2, 1), On("recv", 2)),
      Cast(Unprobed, On("recv", 1), On("dup", 1), On("poll", 1)),
      Cast(Os, On("recv", 1), On("close", 1), On("dup", 1)),
      Cast(Os, On("recv", 2), On("close", 1), Dup2Onto(2, 1)),
      Cast(Closed1, On("recv", 1), Dup2Onto(1, 2), On("close", 2)),
      Cast(Closed1, On("close", 1), On("dup", 1), Dup2Onto(2, 1)) }

Casts == Closers \cup Openers

MCInit ==
    \E c \in Casts :
        FdInit(c.calls, [fd \in Fds |-> Entry(c.kinds[fd], fd)],
                        [fd \in Fds |-> File(c.kinds[fd], fd)])

MCSpec == MCInit /\ [][Next]_vars /\ Fairness
=============================================================================
