--------------------------- MODULE RequestThrottle ---------------------------
(***************************************************************************)
(* The process-wide throttle of requests to source sites                   *)
(* (backend/domains/site_scanning/runners/throttle.py) and the runner      *)
(* threads that wait on it before they send (runners/printables.py).       *)
(*                                                                         *)
(* A caller reserves a slot under the lock and sleeps for the delay        *)
(* outside it.  A call with no host or an interval of 0 returns before the *)
(* lock and changes nothing, so Intervals are positive.  A host that is    *)
(* not in the dictionary has next_allowed 0 here: any past time is the     *)
(* same as the default, the current time.                                  *)
(***************************************************************************)
EXTENDS Integers, Sequences, FiniteSets

CONSTANTS
    Threads,    \* worker threads that send requests
    Hosts,      \* hosts they send to
    Intervals,  \* minimum intervals asked for
    Nobody,     \* the lock is free
    MaxSlots,   \* bound: slots granted per host
    MaxClock    \* bound: the clock, except that it never stops for a sleeper

ASSUME ThrottleAssumption ==
    /\ Intervals \subseteq Nat \ {0}
    /\ Nobody \notin Threads
    /\ MaxSlots \in Nat /\ MaxClock \in Nat

VARIABLES
    clock,        \* the monotonic clock
    nextAllowed,  \* _next_allowed_by_host
    lock,         \* holder of _lock
    call,         \* call[t]: the request of thread t and its local variables
    slots,        \* slots[h]: history of the slots reserved for host h
    sent          \* sent[h]: how many requests have been sent to host h

vars == <<clock, nextAllowed, lock, call, slots, sent>>

Slot == [at : Nat, interval : Intervals]

\* now, next: what the thread has read under the lock; slot: the time it may
\* send at; wake: when its sleep ends.
Call == [pc : {"idle", "locking", "locked", "timed", "reserving",
               "delayed", "sleeping", "ready"},
         host : Hosts, interval : Intervals,
         now : Nat, next : Nat, slot : Nat, wake : Nat]

TypeOK ==
    /\ clock \in Nat
    /\ nextAllowed \in [Hosts -> Nat]
    /\ lock \in Threads \cup {Nobody}
    /\ call \in [Threads -> Call]
    /\ slots \in [Hosts -> Seq(Slot)]
    /\ sent \in [Hosts -> Nat]

Later(a, b) == IF a >= b THEN a ELSE b

Init ==
    /\ clock = 0
    /\ nextAllowed = [h \in Hosts |-> 0]
    /\ lock = Nobody
    /\ \E h \in Hosts, i \in Intervals :
          call = [t \in Threads |-> [pc |-> "idle", host |-> h, interval |-> i,
                                     now |-> 0, next |-> 0, slot |-> 0, wake |-> 0]]
    /\ slots = [h \in Hosts |-> <<>>]
    /\ sent = [h \in Hosts |-> 0]

-----------------------------------------------------------------------------
\* Calls that will still reserve a slot for h.
Pending(h) == {t \in Threads : call[t].host = h /\
                   call[t].pc \in {"locking", "locked", "timed", "reserving"}}

Begin(t, h, i) ==
    /\ call[t].pc = "idle"
    /\ Len(slots[h]) + Cardinality(Pending(h)) < MaxSlots
    /\ call' = [call EXCEPT ![t] = [@ EXCEPT !.pc = "locking", !.host = h, !.interval = i]]
    /\ UNCHANGED <<clock, nextAllowed, lock, slots, sent>>

\* Mutant of Acquire: no lock.
AcquireUnlocked(t) ==
    /\ call[t].pc = "locking"
    /\ lock' = t
    /\ call' = [call EXCEPT ![t].pc = "locked"]
    /\ UNCHANGED <<clock, nextAllowed, slots, sent>>

Acquire(t) ==
    /\ call[t].pc = "locking"
    /\ lock = Nobody
    /\ lock' = t
    /\ call' = [call EXCEPT ![t].pc = "locked"]
    /\ UNCHANGED <<clock, nextAllowed, slots, sent>>

ReadClock(t) ==
    /\ call[t].pc = "locked"
    /\ call' = [call EXCEPT ![t] = [@ EXCEPT !.pc = "timed", !.now = clock]]
    /\ UNCHANGED <<clock, nextAllowed, lock, slots, sent>>

ReadNextAllowed(t) ==
    /\ call[t].pc = "timed"
    /\ call' = [call EXCEPT ![t] = [@ EXCEPT !.pc = "reserving",
                                             !.next = nextAllowed[call[t].host]]]
    /\ UNCHANGED <<clock, nextAllowed, lock, slots, sent>>

\* Mutants of SlotOf: the slot is not moved by the delay, or is the delay.
SlotIgnoringNext(c) == c.now

SlotAsDelay(c) == c.next - c.now

SlotOf(c) == Later(c.now, c.next)

\* Mutant of Reserve: the lock is not released when there is a delay.
ReserveKeepingLock(t) ==
    LET c == call[t] IN
    /\ c.pc = "reserving"
    /\ nextAllowed' = [nextAllowed EXCEPT ![c.host] = SlotOf(c) + c.interval]
    /\ slots' = [slots EXCEPT ![c.host] =
                    Append(@, [at |-> SlotOf(c), interval |-> c.interval])]
    /\ call' = [call EXCEPT ![t] = [c EXCEPT !.pc = IF c.next > c.now THEN "delayed" ELSE "ready",
                                             !.slot = SlotOf(c)]]
    /\ lock' = IF c.next > c.now THEN t ELSE Nobody
    /\ UNCHANGED <<clock, sent>>

\* The dictionary is written and the lock released; delay = slot - now.
Reserve(t) ==
    LET c == call[t] IN
    /\ c.pc = "reserving"
    /\ nextAllowed' = [nextAllowed EXCEPT ![c.host] = SlotOf(c) + c.interval]
    /\ slots' = [slots EXCEPT ![c.host] =
                    Append(@, [at |-> SlotOf(c), interval |-> c.interval])]
    /\ call' = [call EXCEPT ![t] = [c EXCEPT !.pc = IF c.next > c.now THEN "delayed" ELSE "ready",
                                             !.slot = SlotOf(c)]]
    /\ lock' = Nobody
    /\ UNCHANGED <<clock, sent>>

\* Mutant of Sleep: it takes the delay for the time to sleep until.
SleepUntilDelay(t) ==
    /\ call[t].pc = "delayed"
    /\ call' = [call EXCEPT ![t] =
                   [@ EXCEPT !.pc = "sleeping", !.wake = call[t].slot - call[t].now]]
    /\ UNCHANGED <<clock, nextAllowed, lock, slots, sent>>

Sleep(t) ==
    /\ call[t].pc = "delayed"
    /\ call' = [call EXCEPT ![t] =
                   [@ EXCEPT !.pc = "sleeping", !.wake = clock + (call[t].slot - call[t].now)]]
    /\ UNCHANGED <<clock, nextAllowed, lock, slots, sent>>

Wake(t) ==
    /\ call[t].pc = "sleeping"
    /\ clock >= call[t].wake
    /\ call' = [call EXCEPT ![t].pc = "ready"]
    /\ UNCHANGED <<clock, nextAllowed, lock, slots, sent>>

Send(t) ==
    /\ call[t].pc = "ready"
    /\ sent' = [sent EXCEPT ![call[t].host] = @ + 1]
    /\ call' = [call EXCEPT ![t] = [@ EXCEPT !.pc = "idle", !.now = 0, !.next = 0,
                                             !.slot = 0, !.wake = 0]]
    /\ UNCHANGED <<clock, nextAllowed, lock, slots>>

Tick ==
    /\ clock < MaxClock \/ \E t \in Threads : call[t].pc = "sleeping" /\ clock < call[t].wake
    /\ clock' = clock + 1
    /\ UNCHANGED <<nextAllowed, lock, call, slots, sent>>

-----------------------------------------------------------------------------
Step(t) ==
    \/ Acquire(t) \/ ReadClock(t) \/ ReadNextAllowed(t) \/ Reserve(t)
    \/ Sleep(t) \/ Wake(t) \/ Send(t)

Next ==
    \/ \E t \in Threads, h \in Hosts, i \in Intervals : Begin(t, h, i)
    \/ \E t \in Threads : Step(t)
    \/ Tick

Spec == Init /\ [][Next]_vars

\* The scheduler runs every thread that can run, and time passes.
Fairness == WF_vars(Tick) /\ \A t \in Threads : WF_vars(Step(t))

FairSpec == Spec /\ Fairness

-----------------------------------------------------------------------------
(* Properties                                                              *)

\* Slots for one host are at least the earlier request's interval apart,
\* however the threads that reserve them interleave (throttle.py 30-34).
SlotsSpaced ==
    \A h \in Hosts : \A i, j \in DOMAIN slots[h] :
        i < j => slots[h][i].at + slots[h][i].interval <= slots[h][j].at

\* The throttle implements the abstract schedule.
Schedule == INSTANCE RequestSlots
            WITH Hosts <- Hosts, Intervals <- Intervals, slots <- slots
ImplementsSchedule == Schedule!Spec

\* No host has been sent more requests than slots whose time has come: threads
\* that wake late may send close together, but never ahead of the schedule.
NeverAheadOfSchedule ==
    \A h \in Hosts :
        sent[h] <= Cardinality({i \in DOMAIN slots[h] : slots[h][i].at <= clock})

\* Every caller gets to send: no wait is lost or deadlocks on the lock.
EveryCallIsSent == \A t \in Threads : call[t].pc = "locking" ~> call[t].pc = "idle"

-----------------------------------------------------------------------------
(* What makes SlotsSpaced inductive                                        *)

\* The thread that is inside "with self._lock" holds the lock, and what it has
\* read of the dictionary is still there when it writes.
LockInv ==
    \A t \in Threads :
        /\ call[t].pc \in {"locked", "timed", "reserving"} => lock = t
        /\ call[t].pc = "reserving" => call[t].next = nextAllowed[call[t].host]

\* A delay is never negative.
DelayInv == \A t \in Threads : call[t].pc = "delayed" => call[t].slot >= call[t].now

\* next_allowed is past the interval of every slot.
SlotsEnd ==
    \A h \in Hosts : \A i \in DOMAIN slots[h] :
        slots[h][i].at + slots[h][i].interval <= nextAllowed[h]

ThrottleInv == LockInv /\ DelayInv /\ SlotsEnd /\ SlotsSpaced

=============================================================================
