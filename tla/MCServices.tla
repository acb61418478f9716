------------------------------ MODULE MCServices ------------------------------
(* Instances of Services for TLC. A day has five half hours: briefings and  *)
(* digests are due in the first two, dormant messages in the last two.      *)
EXTENDS Services

CONSTANTS u1, s1, c1, c2, c3

OneSeller == [l \in Listings |-> s1]
InOrder == <<c1, c2, c3>>

Visits(from, until, jobs, changes, faults, resends, welcomes) ==
    [from |-> from, until |-> until, jobs |-> jobs, changes |-> changes,
     faults |-> faults, resends |-> resends, welcomes |-> welcomes]
(* A morning with a failure, or with a third run; an evening with a failure;*)
(* two days of dormant messages; a resend in the middle of the briefings; a *)
(* welcome.                                                                 *)
Days == {Visits(0, 3, 2, 1, 1, 0, 0), Visits(0, 3, 3, 1, 0, 0, 0),
         Visits(3, 4, 2, 1, 1, 0, 0), Visits(4, 14, 3, 0, 0, 0, 0),
         Visits(0, 0, 2, 1, 1, 1, 0), Visits(0, 0, 0, 2, 1, 0, 1)}
NoDay == Visits(0, 0, 0, 0, 0, 0, 0)

Calls(part, tasks, changes, faults) ==
    [part |-> part, tasks |-> tasks, changes |-> changes, faults |-> faults]
EachPart == {Calls("photos", 4, 1, 1), Calls("reminders", 3, 3, 1), Calls("offers", 3, 2, 1),
             Calls("lookups", 6, 0, 1), Calls("blast", 2, 2, 1)}
NoCall == Calls("none", 0, 0, 0)

Mail(writes, copies, deliveries1, pairs, ticks, faults) ==
    [writes |-> writes, copies |-> copies, deliveries |-> deliveries1, pairs |-> pairs,
     ticks |-> ticks, faults |-> faults]
(* The same words three times over two windows; one message under three     *)
(* ids; batches; restarts.                                                  *)
Arrivals == {Mail(3, 0, 3, 0, 2, 0), Mail(1, 2, 3, 0, 1, 0), Mail(1, 1, 1, 1, 1, 0),
             Mail(1, 1, 2, 0, 2, 1), Mail(2, 0, 1, 1, 1, 1)}
NoMail == Mail(0, 0, 0, 0, 0, 0)

OneStirs == {<<d, NoCall, NoMail>> : d \in Days}
                \cup {<<NoDay, o, NoMail>> : o \in EachPart}
                \cup {<<NoDay, NoCall, i>> : i \in Arrivals}
AllDays == Days \cup {NoDay}
AllParts == EachPart \cup {NoCall}
AllMail == Arrivals \cup {NoMail}
=============================================================================
