---------------------------- MODULE RequestSlots ----------------------------
(***************************************************************************)
(* What the throttle of the source sites promises: the requests to one     *)
(* host get slots in time, each no earlier than the end of the interval    *)
(* asked for by every request that got a slot before it.                   *)
(***************************************************************************)
EXTENDS Naturals, Sequences

CONSTANTS
    Hosts,      \* hosts requests go to
    Intervals   \* minimum intervals a caller may ask for

VARIABLE slots  \* slots[h]: the slots granted for host h, in order

Slot == [at : Nat, interval : Intervals]

Init == slots = [h \in Hosts |-> <<>>]

SpacedAfter(slot, earlier) ==
    \A i \in DOMAIN earlier : earlier[i].at + earlier[i].interval <= slot.at

Grant(h) ==
    LET granted == slots'[h][Len(slots[h]) + 1] IN
    /\ Len(slots'[h]) = Len(slots[h]) + 1
    /\ granted \in Slot
    /\ SpacedAfter(granted, slots[h])
    /\ slots' = [slots EXCEPT ![h] = Append(@, granted)]

Next == \E h \in Hosts : Grant(h)

Spec == Init /\ [][Next]_slots

=============================================================================
