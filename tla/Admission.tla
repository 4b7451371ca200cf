----------------------------- MODULE Admission -----------------------------
(***************************************************************************)
(* What the concurrency gate (src/src/concurrency.py) promises, without    *)
(* saying how: a newcomer is turned away when MaxConcurrent + MaxQueue     *)
(* requests are inside or waiting, and nobody gets in, from the street or  *)
(* from the waiting room, while MaxConcurrent requests are inside.         *)
(***************************************************************************)
EXTENDS Integers, FiniteSets

CONSTANTS Requests, MaxConcurrent, MaxQueue

VARIABLES inside, room     \* disjoint sets of requests

Init == inside = {} /\ room = {}

HasPlace == Cardinality(inside) < MaxConcurrent
HasSeat  == Cardinality(inside) + Cardinality(room) < MaxConcurrent + MaxQueue

WalkIn(r) == /\ r \notin inside \cup room
             /\ HasSeat /\ HasPlace
             /\ inside' = inside \cup {r}
             /\ UNCHANGED room

Wait(r) == /\ r \notin inside \cup room
           /\ HasSeat
           /\ room' = room \cup {r}
           /\ UNCHANGED inside

Enter(r) == /\ r \in room
            /\ HasPlace
            /\ inside' = inside \cup {r}
            /\ room' = room \ {r}

GiveUp(r) == /\ r \in room
             /\ room' = room \ {r}
             /\ UNCHANGED inside

Leave(r) == /\ r \in inside
            /\ inside' = inside \ {r}
            /\ UNCHANGED room

Next == \E r \in Requests : WalkIn(r) \/ Wait(r) \/ Enter(r) \/ GiveUp(r) \/ Leave(r)

Spec == Init /\ [][Next]_<<inside, room>>
=============================================================================
