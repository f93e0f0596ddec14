---------------------------- MODULE OutgoingProofs ----------------------------
(***************************************************************************)
(* For every set of threads, hosts and intervals and every bound: the      *)
(* slots that the throttle hands out are spaced, and every step of it is a *)
(* step of the abstract schedule or leaves the schedule alone.  For every  *)
(* sequence of packets: a fetch of a printer's status reports a state the  *)
(* printer was in.                                                         *)
(***************************************************************************)
EXTENDS MCRequestThrottle, FiniteSetTheorems, DataLemmas

-----------------------------------------------------------------------------
(* The throttle of the source sites                                        *)


\* A slot is not before the time and the next allowed time that were read.
LEMMA SlotOfIsLater ==
    ASSUME NEW c, c.now \in Nat, c.next \in Nat
    PROVE  SlotOf(c) \in Nat /\ SlotOf(c) >= c.now /\ SlotOf(c) >= c.next
  BY DEF SlotOf, Later

\* A sequence of slots with one more slot at its end.
LEMMA Appended ==
    ASSUME NEW s \in Seq(Slot), NEW e \in Slot
    PROVE  /\ Append(s, e) \in Seq(Slot)
           /\ DOMAIN Append(s, e) = DOMAIN s \cup {Len(s) + 1}
           /\ Append(s, e)[Len(s) + 1] = e
           /\ \A i \in DOMAIN s : Append(s, e)[i] = s[i] /\ i < Len(s) + 1
           /\ DOMAIN s \subseteq Nat
  OBVIOUS

\* What Reserve appends to the slots of its host.
LEMMA ReservedSlot ==
    ASSUME TypeOK, NEW t \in Threads, Reserve(t)
    PROVE  LET c == call[t]
               e == [at |-> SlotOf(c), interval |-> c.interval]
           IN  /\ e \in Slot
               /\ c.host \in Hosts
               /\ slots' = [slots EXCEPT ![c.host] = Append(@, e)]
               /\ slots[c.host] \in Seq(Slot)
               /\ SlotOf(c) >= c.now /\ SlotOf(c) >= c.next
               /\ SlotOf(c) + c.interval \in Nat
<1> DEFINE c == call[t]
<1>1. c \in Call
  BY DEF TypeOK
<1>2. c.now \in Nat /\ c.next \in Nat /\ c.interval \in Intervals /\ c.host \in Hosts
  BY <1>1 DEF Call
<1>3. c.interval \in Nat
  BY <1>2, ThrottleAssumption
<1>4. SlotOf(c) \in Nat /\ SlotOf(c) >= c.now /\ SlotOf(c) >= c.next
  BY <1>2, SlotOfIsLater
<1>5. [at |-> SlotOf(c), interval |-> c.interval] \in Slot
  BY <1>2, <1>4 DEF Slot
<1>6. slots[c.host] \in Seq(Slot)
  BY <1>2 DEF TypeOK
<1>7. QED
  BY <1>2, <1>3, <1>4, <1>5, <1>6 DEF Reserve

-----------------------------------------------------------------------------
\* Types: every local time of a thread is a natural number, the end of a sleep
\* included, because a delay is never negative.
THEOREM ThrottleTypes == Spec => [](TypeOK /\ DelayInv)
<1>1. Init => TypeOK /\ DelayInv
  BY DEF Init, TypeOK, Call, DelayInv
<1>2. TypeOK /\ DelayInv /\ [Next]_vars => (TypeOK /\ DelayInv)'
  <2> SUFFICES ASSUME TypeOK, DelayInv, [Next]_vars
               PROVE  TypeOK' /\ DelayInv'
    OBVIOUS
  <2>1. ASSUME NEW t \in Threads, NEW h \in Hosts, NEW i \in Intervals, Begin(t, h, i)
        PROVE  TypeOK' /\ DelayInv'
    BY <2>1 DEF Begin, TypeOK, Call, DelayInv
  <2>2. ASSUME NEW t \in Threads, Step(t)
        PROVE  TypeOK' /\ DelayInv'
    <3>1. CASE Acquire(t)
      BY <3>1 DEF Acquire, TypeOK, Call, DelayInv
    <3>2. CASE ReadClock(t)
      BY <3>2 DEF ReadClock, TypeOK, Call, DelayInv
    <3>3. CASE ReadNextAllowed(t)
      BY <3>3 DEF ReadNextAllowed, TypeOK, Call, DelayInv
    <3>4. CASE Reserve(t)
      <4> DEFINE c == call[t]
                 e == [at |-> SlotOf(c), interval |-> c.interval]
      <4>1. /\ e \in Slot /\ c.host \in Hosts /\ slots[c.host] \in Seq(Slot)
            /\ slots' = [slots EXCEPT ![c.host] = Append(@, e)]
            /\ SlotOf(c) >= c.now /\ SlotOf(c) + c.interval \in Nat
        BY <3>4, ReservedSlot
      <4>2. SlotOf(c) \in Nat
        BY <4>1 DEF Slot
      <4>3. Append(slots[c.host], e) \in Seq(Slot)
        BY <4>1, Appended
      <4>4. slots' \in [Hosts -> Seq(Slot)]
        BY <4>1, <4>3 DEF TypeOK
      <4> DEFINE d == call'[t]
      <4>5. /\ d = [c EXCEPT !.pc = IF c.next > c.now THEN "delayed" ELSE "ready",
                             !.slot = SlotOf(c)]
            /\ call' = [call EXCEPT ![t] = d]
        BY <3>4 DEF Reserve, TypeOK
      <4>6. c \in Call
        BY DEF TypeOK
      <4>7. d \in Call /\ d.slot = SlotOf(c) /\ d.now = c.now
        BY <4>2, <4>5, <4>6 DEF Call
      <4>8. call' \in [Threads -> Call] /\ DelayInv'
        BY <4>1, <4>5, <4>7 DEF TypeOK, DelayInv
      <4>9. nextAllowed' \in [Hosts -> Nat]
        BY <3>4, <4>1 DEF Reserve, TypeOK
      <4>10. QED
        BY <3>4, <4>4, <4>8, <4>9 DEF Reserve, TypeOK
    <3>5. CASE Sleep(t)
      <4>1. clock + (call[t].slot - call[t].now) \in Nat
        BY SMTT(30), <3>5 DEF Sleep, TypeOK, Call, DelayInv
      <4>2. QED
        BY <3>5, <4>1 DEF Sleep, TypeOK, Call, DelayInv
    <3>6. CASE Wake(t)
      BY <3>6 DEF Wake, TypeOK, Call, DelayInv
    <3>7. CASE Send(t)
      <4>1. call[t] \in Call /\ call[t].host \in Hosts
        BY DEF TypeOK, Call
      <4>2. sent' \in [Hosts -> Nat]
        BY <3>7, <4>1 DEF Send, TypeOK
      <4>3. call' \in [Threads -> Call] /\ DelayInv'
        BY <3>7, <4>1 DEF Send, TypeOK, Call, DelayInv
      <4>4. QED
        BY <3>7, <4>2, <4>3 DEF Send, TypeOK
    <3>8. QED
      BY <2>2, <3>1, <3>2, <3>3, <3>4, <3>5, <3>6, <3>7 DEF Step
  <2>3. CASE Tick
    BY <2>3 DEF Tick, TypeOK, DelayInv
  <2>4. CASE UNCHANGED vars
    BY <2>4 DEF vars, TypeOK, DelayInv
  <2>5. QED
    BY <2>1, <2>2, <2>3, <2>4 DEF Next
<1>3. QED
  BY <1>1, <1>2, PTL DEF Spec

-----------------------------------------------------------------------------
\* Reserving keeps the schedule: the next allowed time was read under the lock
\* and no thread has moved it since.
LEMMA ReserveKeepsSchedule ==
    ASSUME TypeOK, LockInv, SlotsEnd, SlotsSpaced, NEW t \in Threads, Reserve(t)
    PROVE  SlotsEnd' /\ SlotsSpaced'
<1> DEFINE c == call[t]
           e == [at |-> SlotOf(c), interval |-> c.interval]
           s == slots[c.host]
           n == Len(s) + 1
<1>1. /\ e \in Slot /\ c.host \in Hosts /\ s \in Seq(Slot)
      /\ slots' = [slots EXCEPT ![c.host] = Append(@, e)]
      /\ SlotOf(c) >= c.next /\ SlotOf(c) + c.interval \in Nat
  BY ReservedSlot
<1>2. /\ slots'[c.host] = Append(s, e)
      /\ \A h \in Hosts \ {c.host} : slots'[h] = slots[h]
  BY <1>1 DEF TypeOK
<1>3. /\ nextAllowed'[c.host] = SlotOf(c) + c.interval
      /\ \A h \in Hosts \ {c.host} : nextAllowed'[h] = nextAllowed[h]
  BY <1>1 DEF Reserve, TypeOK
<1>4. c.next = nextAllowed[c.host]
  BY DEF LockInv, Reserve
<1>5. e.interval \in Nat /\ e.at \in Nat
  BY <1>1, ThrottleAssumption DEF Slot
<1>6. \A i \in DOMAIN s : s[i].at \in Nat /\ s[i].interval \in Nat
  <2> SUFFICES ASSUME NEW i \in DOMAIN s
               PROVE  s[i].at \in Nat /\ s[i].interval \in Nat
    OBVIOUS
  <2>1. s[i] \in Slot
    BY <1>1
  <2>2. QED
    BY <2>1, ThrottleAssumption DEF Slot
<1>7. \A i \in DOMAIN s : s[i].at + s[i].interval <= e.at
  <2> SUFFICES ASSUME NEW i \in DOMAIN s
               PROVE  s[i].at + s[i].interval <= e.at
    OBVIOUS
  <2>1. s[i].at + s[i].interval <= nextAllowed[c.host]
    BY <1>1 DEF SlotsEnd
  <2>2. nextAllowed[c.host] \in Nat
    BY <1>1 DEF TypeOK
  <2>3. QED
    <3>1. s[i].at + s[i].interval <= SlotOf(c)
      <4> HIDE DEF s
      <4>1. s[i].at \in Nat /\ s[i].interval \in Nat /\ SlotOf(c) \in Nat
        BY <1>5, <1>6
      <4>2. QED
        BY <1>1, <1>4, <2>1, <2>2, <4>1
    <3>2. QED
      BY <3>1
<1>8. SlotsEnd'
  <2> SUFFICES ASSUME NEW h \in Hosts, NEW i \in DOMAIN slots'[h]
               PROVE  slots'[h][i].at + slots'[h][i].interval <= nextAllowed'[h]
    BY DEF SlotsEnd
  <2>1. CASE h # c.host
    BY <1>2, <1>3, <2>1 DEF SlotsEnd
  <2>2. CASE h = c.host /\ i \in DOMAIN s
    <3>1. slots'[h][i] = s[i]
      BY <1>1, <1>2, <2>2, Appended
    <3>2. QED
      BY <1>3, <1>5, <1>6, <1>7, <2>2, <3>1
  <2>3. CASE h = c.host /\ i = n
    <3>1. slots'[h][i] = e
      BY <1>1, <1>2, <2>3, Appended
    <3>2. QED
      BY <1>3, <1>5, <2>3, <3>1
  <2>4. QED
    BY <1>1, <1>2, <2>1, <2>2, <2>3, Appended
<1>9. SlotsSpaced'
  <2> SUFFICES ASSUME NEW h \in Hosts, NEW i \in DOMAIN slots'[h],
                      NEW j \in DOMAIN slots'[h], i < j
               PROVE  slots'[h][i].at + slots'[h][i].interval <= slots'[h][j].at
    BY DEF SlotsSpaced
  <2>1. CASE h # c.host
    BY <1>2, <2>1 DEF SlotsSpaced
  <2>2. CASE h = c.host
    <3>1. /\ DOMAIN slots'[h] = DOMAIN s \cup {n}
          /\ slots'[h][n] = e
          /\ \A k \in DOMAIN s : slots'[h][k] = s[k] /\ k < n
          /\ DOMAIN s \subseteq Nat
      BY <1>1, <1>2, <2>2, Appended
    <3>2. n \in Nat
      BY <1>1
    <3>3. i \in DOMAIN s
      BY <3>1, <3>2
    <3>4. CASE j \in DOMAIN s
      BY <1>1, <2>2, <3>1, <3>3, <3>4 DEF SlotsSpaced
    <3>5. CASE j = n
      BY <1>7, <3>1, <3>3, <3>5
    <3>6. QED
      BY <3>1, <3>4, <3>5
  <2>3. QED
    BY <2>1, <2>2
<1>10. QED
  BY <1>8, <1>9

\* The inductive invariant: mutual exclusion over what has been read of the
\* dictionary, and a schedule that ends before the next allowed time.
THEOREM ThrottleInvariant == Spec => []ThrottleInv
<1>1. Init => ThrottleInv
  BY DEF Init, ThrottleInv, LockInv, DelayInv, SlotsEnd, SlotsSpaced
<1>2. TypeOK /\ TypeOK' /\ DelayInv' /\ ThrottleInv /\ [Next]_vars => ThrottleInv'
  <2> SUFFICES ASSUME TypeOK, TypeOK', DelayInv', ThrottleInv, [Next]_vars
               PROVE  ThrottleInv'
    OBVIOUS
  <2> USE DEF ThrottleInv
  <2>1. ASSUME NEW t \in Threads, Reserve(t)
        PROVE  ThrottleInv'
    <3>1. LockInv'
      BY ZenonT(60), <2>1, ThrottleAssumption DEF Reserve, LockInv, TypeOK, Call
    <3>2. SlotsEnd' /\ SlotsSpaced'
      BY <2>1, ReserveKeepsSchedule
    <3>3. QED
      BY <3>1, <3>2
  <2>2. ASSUME UNCHANGED slots, UNCHANGED nextAllowed, LockInv'
        PROVE  ThrottleInv'
    BY <2>2 DEF SlotsEnd, SlotsSpaced
  <2>3. ASSUME NEW t \in Threads, NEW h \in Hosts, NEW i \in Intervals, Begin(t, h, i)
        PROVE  ThrottleInv'
    <3>1. LockInv'
      BY ZenonT(60), <2>3 DEF Begin, LockInv, TypeOK, Call
    <3>2. QED
      BY <2>2, <2>3, <3>1 DEF Begin
  <2>4. ASSUME NEW t \in Threads, Acquire(t)
        PROVE  ThrottleInv'
    <3>1. LockInv'
      BY <2>4, ThrottleAssumption DEF Acquire, LockInv, TypeOK, Call
    <3>2. QED
      BY <2>2, <2>4, <3>1 DEF Acquire
  <2>5. ASSUME NEW t \in Threads, ReadClock(t)
        PROVE  ThrottleInv'
    <3>1. LockInv'
      BY <2>5 DEF ReadClock, LockInv, TypeOK, Call
    <3>2. QED
      BY <2>2, <2>5, <3>1 DEF ReadClock
  <2>6. ASSUME NEW t \in Threads, ReadNextAllowed(t)
        PROVE  ThrottleInv'
    <3>1. LockInv'
      BY <2>6 DEF ReadNextAllowed, LockInv, TypeOK, Call
    <3>2. QED
      BY <2>2, <2>6, <3>1 DEF ReadNextAllowed
  <2>7. ASSUME NEW t \in Threads, Sleep(t) \/ Wake(t) \/ Send(t)
        PROVE  ThrottleInv'
    <3>1. LockInv'
      <4>1. /\ call'[t].pc \in {"sleeping", "ready", "idle"}
            /\ \A x \in Threads \ {t} : call'[x] = call[x]
        <5>1. CASE Sleep(t)
          BY <5>1 DEF Sleep, TypeOK, Call
        <5>2. CASE Wake(t)
          BY <5>2 DEF Wake, TypeOK, Call
        <5>3. CASE Send(t)
          BY <5>3 DEF Send, TypeOK, Call
        <5>4. QED
          BY <2>7, <5>1, <5>2, <5>3
      <4>2. lock' = lock /\ nextAllowed' = nextAllowed
        BY <2>7 DEF Sleep, Wake, Send
      <4>3. QED
        BY <4>1, <4>2 DEF LockInv
    <3>2. QED
      BY <2>2, <2>7, <3>1 DEF Sleep, Wake, Send
  <2>8. CASE Tick
    <3>1. LockInv'
      BY <2>8 DEF Tick, LockInv
    <3>2. QED
      BY <2>2, <2>8, <3>1 DEF Tick
  <2>9. CASE UNCHANGED vars
    <3>1. LockInv'
      BY <2>9 DEF vars, LockInv
    <3>2. QED
      BY <2>2, <2>9, <3>1 DEF vars
  <2>10. QED
    BY <2>1, <2>3, <2>4, <2>5, <2>6, <2>7, <2>8, <2>9 DEF Next, Step
<1>3. QED
  BY <1>1, <1>2, ThrottleTypes, PTL DEF Spec

\* Slots for one host are an interval apart, whatever the threads do.
THEOREM ThrottleSpacesSlots == Spec => []SlotsSpaced
<1>1. ThrottleInv => SlotsSpaced
  BY DEF ThrottleInv
<1>2. QED
  BY <1>1, ThrottleInvariant, PTL

-----------------------------------------------------------------------------
\* The throttle implements RequestSlots: reserving grants a slot that is past
\* all earlier ones, and nothing else touches the schedule.
THEOREM ThrottleImplementsSchedule == Spec => ImplementsSchedule
<1>1. Init => Schedule!Init
  BY DEF Init, Schedule!Init
<1>2. TypeOK /\ ThrottleInv /\ [Next]_vars => [Schedule!Next]_slots
  <2> SUFFICES ASSUME TypeOK, ThrottleInv, [Next]_vars
               PROVE  Schedule!Next \/ UNCHANGED slots
    OBVIOUS
  <2>1. ASSUME NEW t \in Threads, Reserve(t)
        PROVE  Schedule!Next
    <3> DEFINE c == call[t]
               e == [at |-> SlotOf(c), interval |-> c.interval]
               s == slots[c.host]
               n == Len(s) + 1
    <3>1. /\ e \in Slot /\ c.host \in Hosts /\ s \in Seq(Slot)
          /\ slots' = [slots EXCEPT ![c.host] = Append(@, e)]
      BY <2>1, ReservedSlot
    <3>2. slots'[c.host] = Append(s, e)
      BY <3>1 DEF TypeOK
    <3>3. /\ slots'[c.host][n] = e
          /\ \A i \in DOMAIN s : slots'[c.host][i] = s[i] /\ i < n
          /\ DOMAIN slots'[c.host] = DOMAIN s \cup {n}
          /\ DOMAIN s \subseteq Nat
      BY <3>1, <3>2, Appended
    <3>4. Len(slots'[c.host]) = n
      BY <3>1, <3>2
    <3>5. SlotsSpaced'
      BY <2>1, ReserveKeepsSchedule DEF ThrottleInv
    <3>6. \A i \in DOMAIN s : s[i].at + s[i].interval <= e.at
      BY <3>1, <3>3, <3>5 DEF SlotsSpaced
    <3>7. Schedule!SpacedAfter(e, s)
      BY <3>6 DEF Schedule!SpacedAfter
    <3>8. e \in Schedule!Slot
      BY <3>1 DEF Slot, Schedule!Slot
    <3>9. Schedule!Grant(c.host)
      BY <3>1, <3>3, <3>4, <3>7, <3>8 DEF Schedule!Grant
    <3>10. QED
      BY <3>1, <3>9 DEF Schedule!Next
  <2>2. ASSUME NEW t \in Threads, Step(t), ~Reserve(t)
        PROVE  UNCHANGED slots
    BY <2>2 DEF Step, Acquire, ReadClock, ReadNextAllowed, Sleep, Wake, Send
  <2>3. QED
    BY <2>1, <2>2 DEF Next, Begin, Tick, vars
<1>3. QED
  BY <1>1, <1>2, ThrottleTypes, ThrottleInvariant, PTL DEF Spec, ImplementsSchedule, Schedule!Spec
-----------------------------------------------------------------------------
(* Nobody sends ahead of the schedule                                      *)

Waits(c) == c.pc \in {"delayed", "sleeping", "ready"}

\* Slots of h that come by time k, and the threads that wait for one of them
\* or may send by now.
Due(h, k) == {i \in DOMAIN slots[h] : slots[h][i].at <= k}

Waiting(h, k) == {t \in Threads : call[t].host = h /\ Waits(call[t]) /\ call[t].slot <= k}

\* A thread sleeps at least until its slot: what it has read of the clock is
\* in the past when it starts to sleep.
WakeInv ==
    \A t \in Threads :
        /\ call[t].pc \in {"timed", "reserving", "delayed"} => call[t].now <= clock
        /\ call[t].pc = "sleeping" => call[t].slot <= call[t].wake
        /\ call[t].pc = "ready" => call[t].slot <= clock

\* Every slot is either used up or waited for, at any time from now on.
CountInv ==
    \A h \in Hosts, k \in Nat : k >= clock =>
        /\ IsFiniteSet(Waiting(h, k))
        /\ Cardinality(Due(h, k)) = sent[h] + Cardinality(Waiting(h, k))

LEMMA WakeStep ==
    ASSUME TypeOK, TypeOK', DelayInv, WakeInv, [Next]_vars
    PROVE  WakeInv'
<1>1. ASSUME NEW t \in Threads, NEW h \in Hosts, NEW i \in Intervals, Begin(t, h, i)
      PROVE  WakeInv'
  BY <1>1 DEF Begin, WakeInv, TypeOK, Call
<1>2. ASSUME NEW t \in Threads, Step(t)
      PROVE  WakeInv'
  <2>1. CASE Acquire(t)
    BY <2>1 DEF Acquire, WakeInv, TypeOK, Call
  <2>2. CASE ReadClock(t)
    BY <2>2 DEF ReadClock, WakeInv, TypeOK, Call
  <2>3. CASE ReadNextAllowed(t)
    BY <2>3 DEF ReadNextAllowed, WakeInv, TypeOK, Call
  <2>4. CASE Reserve(t)
    <3> DEFINE c == call[t]
               d == call'[t]
    <3>1. c \in Call /\ c.pc = "reserving" /\ c.now <= clock
      BY <2>4 DEF Reserve, WakeInv, TypeOK
    <3>2. /\ d = [c EXCEPT !.pc = IF c.next > c.now THEN "delayed" ELSE "ready",
                           !.slot = SlotOf(c)]
          /\ \A x \in Threads \ {t} : call'[x] = call[x]
          /\ clock' = clock
      BY <2>4 DEF Reserve, TypeOK
    <3>3. /\ d.now = c.now
          /\ d.pc = "delayed" \/ (d.pc = "ready" /\ ~ (c.next > c.now))
          /\ d.slot = SlotOf(c)
      <4> HIDE DEF c, d
      <4>1. d.slot = SlotOf(c)
        BY <3>1, <3>2 DEF Call
      <4>2. d.now = c.now
        BY <3>1, <3>2 DEF Call
      <4>3. d.pc = IF c.next > c.now THEN "delayed" ELSE "ready"
        BY <3>1, <3>2 DEF Call
      <4>4. QED
        BY <4>1, <4>2, <4>3
    <3>4. d.pc = "ready" => d.slot <= clock
      <4>1. c.now \in Nat /\ c.next \in Nat /\ clock \in Nat
        BY <3>1 DEF Call, TypeOK
      <4>2. ASSUME ~ (c.next > c.now)
            PROVE  SlotOf(c) = c.now
        BY <4>1, <4>2 DEF SlotOf, Later
      <4>3. QED
        BY <3>1, <3>3, <4>1, <4>2
    <3>5. QED
      BY <3>1, <3>2, <3>3, <3>4 DEF WakeInv
  <2>5. CASE Sleep(t)
    <3> DEFINE c == call[t]
               d == call'[t]
    <3>1. c \in Call /\ c.now <= clock /\ c.slot >= c.now
      BY <2>5 DEF Sleep, WakeInv, DelayInv, TypeOK
    <3>2. /\ d = [c EXCEPT !.pc = "sleeping", !.wake = clock + (c.slot - c.now)]
          /\ \A x \in Threads \ {t} : call'[x] = call[x]
          /\ clock' = clock
      BY <2>5 DEF Sleep, TypeOK
    <3>3. d.pc = "sleeping" /\ d.slot = c.slot /\ d.wake = clock + (c.slot - c.now)
      BY <3>1, <3>2 DEF Call
    <3>4. c.slot <= clock + (c.slot - c.now)
      <4>1. c.now \in Nat /\ c.slot \in Nat /\ clock \in Nat
        BY <3>1 DEF Call, TypeOK
      <4>2. QED
        BY <3>1, <4>1
    <3>5. d.pc = "sleeping" /\ d.slot <= d.wake
      BY <3>3, <3>4
    <3>6. clock' = clock /\ \A x \in Threads \ {t} : call'[x] = call[x]
      BY <3>2
    <3>7. QED
      BY <3>5, <3>6 DEF WakeInv
  <2>6. CASE Wake(t)
    <3>1. call[t].slot <= clock
      <4>1. call[t].slot \in Nat /\ call[t].wake \in Nat /\ clock \in Nat
        BY DEF TypeOK, Call
      <4>2. QED
        BY <2>6, <4>1 DEF Wake, WakeInv
    <3>2. QED
      BY <2>6, <3>1 DEF Wake, WakeInv, TypeOK, Call
  <2>7. CASE Send(t)
    BY <2>7 DEF Send, WakeInv, TypeOK, Call
  <2>8. QED
    BY <1>2, <2>1, <2>2, <2>3, <2>4, <2>5, <2>6, <2>7 DEF Step
<1>3. CASE Tick
  <2>1. call' = call /\ clock \in Nat /\ clock' = clock + 1
    BY <1>3 DEF Tick, TypeOK
  <2>2. \A t \in Threads : call[t].now \in Nat /\ call[t].slot \in Nat
    BY DEF TypeOK, Call
  <2>3. QED
    BY <2>1, <2>2 DEF WakeInv
<1>4. CASE UNCHANGED vars
  BY <1>4 DEF vars, WakeInv
<1>5. QED
  BY <1>1, <1>2, <1>3, <1>4 DEF Next

\* A step of t that reserves nothing and sends nothing changes no count.
LEMMA CountUndisturbed ==
    ASSUME CountInv, NEW t \in Threads,
           UNCHANGED <<clock, slots, sent>>,
           \A x \in Threads \ {t} : call'[x] = call[x],
           Waits(call'[t]) <=> Waits(call[t]),
           Waits(call[t]) => call'[t].host = call[t].host /\ call'[t].slot = call[t].slot
    PROVE  CountInv'
<1>1. ASSUME NEW h \in Hosts, NEW k \in Nat
      PROVE  Due(h, k)' = Due(h, k) /\ Waiting(h, k)' = Waiting(h, k)
  BY DEF Due, Waiting
<1>2. QED
  BY <1>1 DEF CountInv

LEMMA ReserveCounts ==
    ASSUME TypeOK, CountInv, NEW t \in Threads, Reserve(t)
    PROVE  CountInv'
<1> DEFINE c == call[t]
           d == call'[t]
           e == [at |-> SlotOf(c), interval |-> c.interval]
           n == Len(slots[c.host]) + 1
<1>1. /\ e \in Slot /\ c.host \in Hosts /\ slots[c.host] \in Seq(Slot)
      /\ slots' = [slots EXCEPT ![c.host] = Append(@, e)]
  BY ReservedSlot
<1>2. /\ slots'[c.host] = Append(slots[c.host], e)
      /\ \A h \in Hosts \ {c.host} : slots'[h] = slots[h]
  BY <1>1 DEF TypeOK
<1>3. /\ DOMAIN slots'[c.host] = DOMAIN slots[c.host] \cup {n}
      /\ slots'[c.host][n].at = SlotOf(c)
      /\ n \notin DOMAIN slots[c.host]
      /\ \A i \in DOMAIN slots[c.host] : slots'[c.host][i] = slots[c.host][i]
  BY <1>1, <1>2, Appended
<1>4. /\ d = [c EXCEPT !.pc = IF c.next > c.now THEN "delayed" ELSE "ready",
                       !.slot = SlotOf(c)]
      /\ \A x \in Threads \ {t} : call'[x] = call[x]
      /\ clock' = clock /\ sent' = sent /\ c.pc = "reserving"
  BY DEF Reserve, TypeOK
<1>5. Waits(d) /\ ~ Waits(c) /\ d.host = c.host /\ d.slot = SlotOf(c)
  <2>1. c \in Call
    BY DEF TypeOK
  <2>2. QED
    BY <1>4, <2>1 DEF Call, Waits
<1>6. SUFFICES ASSUME NEW h \in Hosts, NEW k \in Nat, k >= clock
               PROVE  /\ IsFiniteSet(Waiting(h, k)')
                      /\ Cardinality(Due(h, k)') = sent[h] + Cardinality(Waiting(h, k)')
  BY <1>4 DEF CountInv
<1>7. /\ IsFiniteSet(Waiting(h, k))
      /\ Cardinality(Due(h, k)) = sent[h] + Cardinality(Waiting(h, k))
      /\ sent[h] \in Nat
  BY <1>6 DEF CountInv, TypeOK
<1>8. CASE h # c.host \/ ~ (SlotOf(c) <= k)
  <2>1. Due(h, k)' = Due(h, k)
    <3>1. CASE h # c.host
      BY <1>2, <3>1 DEF Due
    <3>2. CASE h = c.host /\ ~ (SlotOf(c) <= k)
      BY <1>3, <3>2 DEF Due
    <3>3. QED
      BY <1>8, <3>1, <3>2
  <2>2. Waiting(h, k)' = Waiting(h, k)
    BY <1>4, <1>5, <1>8 DEF Waiting
  <2>3. QED
    BY <1>7, <2>1, <2>2
<1>9. CASE h = c.host /\ SlotOf(c) <= k
  <2>1. Due(h, k)' = Due(h, k) \cup {n} /\ n \notin Due(h, k)
    BY <1>3, <1>9 DEF Due
  <2>2. Waiting(h, k)' = Waiting(h, k) \cup {t} /\ t \notin Waiting(h, k)
    <3>1. t \in Waiting(h, k)' /\ t \notin Waiting(h, k)
      BY <1>5, <1>9 DEF Waiting
    <3>2. \A x \in Threads \ {t} : x \in Waiting(h, k)' <=> x \in Waiting(h, k)
      BY <1>4 DEF Waiting
    <3>3. QED
      BY <3>1, <3>2 DEF Waiting
  <2>3. IsFiniteSet(Due(h, k))
    <3>1. DOMAIN slots[h] = 1..Len(slots[h]) /\ Len(slots[h]) \in Nat
      BY <1>1, <1>9
    <3>2. IsFiniteSet(1..Len(slots[h]))
      BY <3>1, FS_Interval
    <3>3. QED
      BY <3>1, <3>2, FS_Subset DEF Due
  <2>4. /\ IsFiniteSet(Waiting(h, k)')
        /\ Cardinality(Waiting(h, k)') = Cardinality(Waiting(h, k)) + 1
        /\ Cardinality(Due(h, k)') = Cardinality(Due(h, k)) + 1
    <3>1. /\ IsFiniteSet(Waiting(h, k) \cup {t})
          /\ Cardinality(Waiting(h, k) \cup {t}) = Cardinality(Waiting(h, k)) + 1
      BY <1>7, <2>2, FS_AddElement
    <3>2. Cardinality(Due(h, k) \cup {n}) = Cardinality(Due(h, k)) + 1
      BY <2>1, <2>3, FS_AddElement
    <3>3. QED
      BY <2>1, <2>2, <3>1, <3>2
  <2>5. Cardinality(Waiting(h, k)) \in Nat
    BY <1>7, FS_CardinalityType
  <2>6. QED
    BY <1>7, <2>4, <2>5
<1>10. QED
  BY <1>8, <1>9

LEMMA SendCounts ==
    ASSUME TypeOK, WakeInv, CountInv, NEW t \in Threads, Send(t)
    PROVE  CountInv'
<1> DEFINE c == call[t]
           d == call'[t]
<1>1. /\ c \in Call /\ c.pc = "ready" /\ c.host \in Hosts
      /\ c.slot \in Nat /\ clock \in Nat /\ c.slot <= clock
  BY DEF Send, TypeOK, Call, WakeInv
<1>2. /\ \A x \in Threads \ {t} : call'[x] = call[x]
      /\ d.pc = "idle"
      /\ clock' = clock /\ slots' = slots
  BY DEF Send, TypeOK, Call
<1>3. /\ sent'[c.host] = sent[c.host] + 1
      /\ \A h \in Hosts \ {c.host} : sent'[h] = sent[h]
  BY <1>1 DEF Send, TypeOK
<1>4. SUFFICES ASSUME NEW h \in Hosts, NEW k \in Nat, k >= clock
               PROVE  /\ IsFiniteSet(Waiting(h, k)')
                      /\ Cardinality(Due(h, k)) = sent'[h] + Cardinality(Waiting(h, k)')
  BY <1>2 DEF CountInv, Due
<1>5. /\ IsFiniteSet(Waiting(h, k))
      /\ Cardinality(Due(h, k)) = sent[h] + Cardinality(Waiting(h, k))
      /\ sent[h] \in Nat
  BY <1>4 DEF CountInv, TypeOK
<1>6. CASE h # c.host
  <2>1. Waiting(h, k)' = Waiting(h, k)
    <3>1. t \notin Waiting(h, k) /\ t \notin Waiting(h, k)'
      BY <1>2, <1>6 DEF Waiting, Waits
    <3>2. \A x \in Threads \ {t} : x \in Waiting(h, k)' <=> x \in Waiting(h, k)
      BY <1>2 DEF Waiting
    <3>3. QED
      BY <3>1, <3>2 DEF Waiting
  <2>2. QED
    BY <1>3, <1>5, <1>6, <2>1
<1>7. CASE h = c.host
  <2>1. c.slot <= k
    BY <1>1, <1>4
  <2>2. t \in Waiting(h, k) /\ Waiting(h, k)' = Waiting(h, k) \ {t}
    <3>1. t \in Waiting(h, k)
      BY <1>1, <1>7, <2>1 DEF Waiting, Waits
    <3>2. t \notin Waiting(h, k)'
      BY <1>2 DEF Waiting, Waits
    <3>3. \A x \in Threads \ {t} : x \in Waiting(h, k)' <=> x \in Waiting(h, k)
      BY <1>2 DEF Waiting
    <3>4. QED
      BY <3>1, <3>2, <3>3 DEF Waiting
  <2>3. /\ IsFiniteSet(Waiting(h, k)')
        /\ Cardinality(Waiting(h, k)') = Cardinality(Waiting(h, k)) - 1
    BY <1>5, <2>2, FS_RemoveElement
  <2>4. Cardinality(Waiting(h, k)) \in Nat
    BY <1>5, FS_CardinalityType
  <2>5. QED
    BY <1>3, <1>5, <1>7, <2>3, <2>4
<1>8. QED
  BY <1>6, <1>7

LEMMA CountStep ==
    ASSUME TypeOK, TypeOK', WakeInv, CountInv, [Next]_vars
    PROVE  CountInv'
<1>1. ASSUME NEW t \in Threads, NEW h \in Hosts, NEW i \in Intervals, Begin(t, h, i)
      PROVE  CountInv'
  <2>1. /\ \A x \in Threads \ {t} : call'[x] = call[x]
        /\ ~ Waits(call[t]) /\ ~ Waits(call'[t])
        /\ UNCHANGED <<clock, slots, sent>>
    BY <1>1 DEF Begin, TypeOK, Call, Waits
  <2>2. QED
    BY <2>1, CountUndisturbed
<1>2. ASSUME NEW t \in Threads, Acquire(t) \/ ReadClock(t) \/ ReadNextAllowed(t)
      PROVE  CountInv'
  <2>1. /\ \A x \in Threads \ {t} : call'[x] = call[x]
        /\ ~ Waits(call[t]) /\ ~ Waits(call'[t])
        /\ UNCHANGED <<clock, slots, sent>>
    <3>1. CASE Acquire(t)
      BY <3>1 DEF Acquire, TypeOK, Call, Waits
    <3>2. CASE ReadClock(t)
      BY <3>2 DEF ReadClock, TypeOK, Call, Waits
    <3>3. CASE ReadNextAllowed(t)
      BY <3>3 DEF ReadNextAllowed, TypeOK, Call, Waits
    <3>4. QED
      BY <1>2, <3>1, <3>2, <3>3
  <2>2. QED
    BY <2>1, CountUndisturbed
<1>3. ASSUME NEW t \in Threads, Sleep(t) \/ Wake(t)
      PROVE  CountInv'
  <2>1. /\ \A x \in Threads \ {t} : call'[x] = call[x]
        /\ Waits(call[t]) /\ Waits(call'[t])
        /\ call'[t].host = call[t].host /\ call'[t].slot = call[t].slot
        /\ UNCHANGED <<clock, slots, sent>>
    <3>1. CASE Sleep(t)
      BY <3>1 DEF Sleep, TypeOK, Call, Waits
    <3>2. CASE Wake(t)
      BY <3>2 DEF Wake, TypeOK, Call, Waits
    <3>3. QED
      BY <1>3, <3>1, <3>2
  <2>2. QED
    BY <2>1, CountUndisturbed
<1>4. CASE Tick
  <2>1. UNCHANGED <<call, slots, sent>> /\ clock \in Nat /\ clock' = clock + 1
    BY <1>4 DEF Tick, TypeOK
  <2>2. ASSUME NEW h \in Hosts, NEW k \in Nat
        PROVE  /\ Due(h, k)' = Due(h, k) /\ Waiting(h, k)' = Waiting(h, k)
               /\ k >= clock' => k >= clock
    BY <2>1 DEF Due, Waiting
  <2>3. QED
    BY <2>1, <2>2 DEF CountInv
<1>5. CASE UNCHANGED vars
  BY <1>5 DEF vars, CountInv, Due, Waiting
<1>6. QED
  BY <1>1, <1>2, <1>3, <1>4, <1>5, ReserveCounts, SendCounts DEF Next, Step

\* For any number of threads: no host has been sent more requests than slots
\* whose time has come.
THEOREM NobodySendsAhead == Spec => []NeverAheadOfSchedule
<1>1. Init => TypeOK /\ DelayInv /\ WakeInv /\ CountInv
  <2> SUFFICES ASSUME Init PROVE TypeOK /\ DelayInv /\ WakeInv /\ CountInv
    OBVIOUS
  <2>1. TypeOK /\ DelayInv /\ WakeInv
    BY DEF Init, TypeOK, Call, DelayInv, WakeInv
  <2>2. ASSUME NEW h \in Hosts, NEW k \in Nat
        PROVE  Due(h, k) = {} /\ Waiting(h, k) = {} /\ sent[h] = 0
    BY DEF Init, Due, Waiting, Waits
  <2>3. QED
    BY <2>1, <2>2, FS_EmptySet DEF CountInv
<1>2. TypeOK /\ TypeOK' /\ DelayInv /\ WakeInv /\ CountInv /\ [Next]_vars => (WakeInv /\ CountInv)'
  BY WakeStep, CountStep
<1>3. TypeOK /\ CountInv => NeverAheadOfSchedule
  <2> SUFFICES ASSUME TypeOK, CountInv, NEW h \in Hosts
               PROVE  sent[h] <= Cardinality(Due(h, clock))
    BY DEF NeverAheadOfSchedule, Due
  <2>1. /\ IsFiniteSet(Waiting(h, clock))
        /\ Cardinality(Due(h, clock)) = sent[h] + Cardinality(Waiting(h, clock))
        /\ sent[h] \in Nat
    BY DEF CountInv, TypeOK
  <2>2. Cardinality(Waiting(h, clock)) \in Nat
    BY <2>1, FS_CardinalityType
  <2>3. QED
    BY <2>1, <2>2
<1>4. QED
  BY <1>1, <1>2, <1>3, ThrottleTypes, PTL DEF Spec

-----------------------------------------------------------------------------
(* The telemetry of a Bambu printer                                        *)

LEMMA WireTyped ==
    ASSUME TelemetryTypeOK
    PROVE  /\ wire \in BoundedSeq(Packet, MaxWire) /\ MaxWire \in Nat
           /\ wire \in [1..Len(wire) -> Packet] /\ Len(wire) \in Nat /\ DOMAIN wire = 1..Len(wire)
<1>1. wire \in BoundedSeq(Packet, MaxWire)
  BY DEF TelemetryTypeOK, BoundedSeq
<1>2. QED
  BY <1>1, BoundedFacts, TelemetryAssumption

\* Inductive: packets are on the wire only while a fetch is asking; the reports
\* on our topic say what the printer has been doing since the fetch began, or
\* leave it out.
WireInv ==
    /\ fetch.phase \notin Asking => wire = << >>
    /\ fetch.phase \in Asking => gcodeState \in reported
    /\ \A n \in DOMAIN wire :
        wire[n].kind = "report" /\ wire[n].ours => wire[n].state \in reported \cup {Missing}

TelemetryInv == TelemetryTypeOK /\ WireInv /\ StatusIsTruthful

FetchRecord == [phase : Asking \cup {"idle", "done"}, packets : 0..(MaxPackets - 1), answer : Answers]

FetchErrors == {"credentials_required", "device_id_required", "telemetry_unavailable"}

\* The fetch ends with an answer that is one of the errors or a state of the
\* printer since the fetch began.
LEMMA DoneKeeps ==
    ASSUME TelemetryInv, NEW answer \in Answers, Done(answer), gcodeState' = gcodeState,
           reported' \subseteq GcodeStates,
           answer \in FetchErrors \cup {Missing} \cup {NormalizeBambuState(s) : s \in reported'}
    PROVE  TelemetryInv'
<1>1. fetch' = [phase |-> "done", packets |-> 0, answer |-> answer] /\ wire' = << >>
  BY DEF Done
<1>2. fetch' \in FetchRecord
  BY <1>1, TelemetryAssumption DEF FetchRecord
<1>3. << >> \in BoundedSeq(Packet, MaxWire) /\ DOMAIN << >> = {}
  BY BoundedEmpty, TelemetryAssumption
<1>4. TelemetryTypeOK'
  BY <1>1, <1>2, <1>3 DEF TelemetryInv, TelemetryTypeOK, FetchRecord, BoundedSeq
<1>5. WireInv'
  BY <1>1, <1>3 DEF WireInv, Asking
<1>6. StatusIsTruthful'
  BY <1>1 DEF StatusIsTruthful, FetchErrors
<1>7. QED
  BY <1>4, <1>5, <1>6 DEF TelemetryInv

LEMMA UnavailableKeeps ==
    ASSUME TelemetryInv, Unavailable, gcodeState' = gcodeState, reported' \subseteq GcodeStates
    PROVE  TelemetryInv'
  BY DoneKeeps DEF Unavailable, Answers, FetchErrors

\* The fetch goes on, and has read a packet or none.
LEMMA GoingOnKeeps ==
    ASSUME TelemetryInv, NEW phase \in Asking, NEW packets \in 0..(MaxPackets - 1),
           fetch' = [fetch EXCEPT !.phase = phase, !.packets = packets],
           fetch.phase \in Asking, UNCHANGED <<gcodeState, reported>>,
           wire' = wire \/ (wire # << >> /\ wire' = Tail(wire))
    PROVE  TelemetryInv'
<1>1. fetch \in FetchRecord
  BY DEF TelemetryInv, TelemetryTypeOK, FetchRecord
<1>2. fetch' \in FetchRecord /\ fetch'.phase = phase
  BY <1>1 DEF FetchRecord
<1>3. /\ wire' \in BoundedSeq(Packet, MaxWire)
      /\ \A n \in DOMAIN wire' : \E m \in DOMAIN wire : wire'[n] = wire[m]
  <2>1. wire \in BoundedSeq(Packet, MaxWire) /\ MaxWire \in Nat
    BY WireTyped DEF TelemetryInv
  <2>2. CASE wire' = wire
    BY <2>1, <2>2
  <2>3. CASE wire # << >> /\ wire' = Tail(wire)
    <3>1. /\ Tail(wire) \in BoundedSeq(Packet, MaxWire)
          /\ \A n \in DOMAIN Tail(wire) : n + 1 \in DOMAIN wire /\ Tail(wire)[n] = wire[n + 1]
      BY <2>1, <2>3, BoundedTail
    <3>2. QED
      BY <2>3, <3>1
  <2>4. QED
    BY <2>2, <2>3
<1>4. TelemetryTypeOK'
  BY <1>2, <1>3 DEF TelemetryInv, TelemetryTypeOK, FetchRecord, BoundedSeq
<1>5. WireInv'
  <2>1. WireInv
    BY DEF TelemetryInv
  <2>2. QED
    BY <1>2, <1>3, <2>1 DEF WireInv
<1>6. StatusIsTruthful'
  BY <1>2 DEF StatusIsTruthful, Asking
<1>7. QED
  BY <1>4, <1>5, <1>6 DEF TelemetryInv

LEMMA BeginFetchKeeps ==
    ASSUME TelemetryInv, BeginFetch
    PROVE  TelemetryInv'
<1>1. reported' = {gcodeState} /\ gcodeState' = gcodeState /\ reported' \subseteq GcodeStates
  BY DEF BeginFetch, TelemetryInv, TelemetryTypeOK
<1>2. {"credentials_required", "device_id_required"} \subseteq Answers \cap FetchErrors
  BY DEF Answers, FetchErrors
<1>3. CASE Done("credentials_required") \/ Done("device_id_required") \/ Unavailable
  BY <1>1, <1>2, <1>3, DoneKeeps, UnavailableKeeps
<1>4. CASE Enter("connect") /\ UNCHANGED wire
  <2>1. fetch \in FetchRecord /\ fetch' = [fetch EXCEPT !.phase = "connect"]
    BY <1>4 DEF TelemetryInv, TelemetryTypeOK, FetchRecord, Enter
  <2>2. fetch' \in FetchRecord /\ fetch'.phase = "connect"
    BY <2>1 DEF FetchRecord, Asking
  <2>3. wire' = << >> /\ DOMAIN << >> = {}
    BY <1>4, BoundedEmpty, TelemetryAssumption DEF TelemetryInv, WireInv, BeginFetch, Asking
  <2>4. TelemetryTypeOK'
    BY <1>1, <1>4, <2>2 DEF TelemetryInv, TelemetryTypeOK, FetchRecord
  <2>5. WireInv' /\ StatusIsTruthful'
    BY <1>1, <2>2, <2>3 DEF WireInv, StatusIsTruthful
  <2>6. QED
    BY <2>4, <2>5 DEF TelemetryInv
<1>5. QED
  BY <1>3, <1>4 DEF BeginFetch

LEMMA ReadReportKeeps ==
    ASSUME TelemetryInv, ReadReport
    PROVE  TelemetryInv'
<1> DEFINE packet == Head(wire)
<1>1. fetch.phase = "report" /\ wire # << >> /\ UNCHANGED <<gcodeState, reported>>
  BY DEF ReadReport
<1>2. reported' \subseteq GcodeStates
  BY <1>1 DEF TelemetryInv, TelemetryTypeOK
<1>3. packet \in Packet /\ packet = wire[1] /\ 1 \in DOMAIN wire
  BY <1>1, WireTyped, BoundedTail DEF TelemetryInv
<1>4. CASE packet.kind = "report" /\ packet.ours
  <2>1. Done(NormalizeBambuState(packet.state))
    BY <1>4 DEF ReadReport
  <2>2. packet.state \in GcodeStates \cup {Foreign, Missing}
    BY <1>3, <1>4 DEF Packet
  <2>3. NormalizeBambuState(packet.state) \in Answers
    BY <2>2 DEF Answers
  <2>4. packet.state \in reported' \cup {Missing}
    BY <1>1, <1>3, <1>4 DEF TelemetryInv, WireInv
  <2>5. NormalizeBambuState(Missing) = Missing
    BY DEF NormalizeBambuState, Missing
  <2>6. QED
    BY <1>1, <1>2, <2>1, <2>3, <2>4, <2>5, DoneKeeps
<1>5. CASE packet.kind = "garbage"
  <2>1. Unavailable
    BY <1>5 DEF ReadReport
  <2>2. QED
    BY <1>1, <1>2, <2>1, UnavailableKeeps
<1>6. CASE ~ (packet.kind = "report" /\ packet.ours) /\ packet.kind # "garbage"
  <2>1. PassOver
    BY <1>6 DEF ReadReport
  <2>2. CASE fetch.packets + 1 = MaxPackets
    BY <1>1, <1>2, <2>1, <2>2, UnavailableKeeps DEF PassOver
  <2>3. CASE fetch.packets + 1 # MaxPackets
    <3>1. fetch' = [fetch EXCEPT !.packets = @ + 1] /\ wire' = Tail(wire)
      BY <2>1, <2>3 DEF PassOver
    <3>2. fetch \in FetchRecord
      BY DEF TelemetryInv, TelemetryTypeOK, FetchRecord
    <3>3. fetch.packets + 1 \in 0..(MaxPackets - 1)
      BY <2>3, <3>2, TelemetryAssumption DEF FetchRecord
    <3>4. fetch' = [fetch EXCEPT !.phase = "report", !.packets = fetch.packets + 1]
      BY <1>1, <3>1, <3>2 DEF FetchRecord
    <3>5. QED
      BY <1>1, <3>1, <3>3, <3>4, GoingOnKeeps DEF Asking
  <2>4. QED
    BY <2>2, <2>3
<1>7. QED
  BY <1>4, <1>5, <1>6

LEMMA RequireAckKeeps ==
    ASSUME TelemetryInv, RequireAck
    PROVE  TelemetryInv'
<1> DEFINE phase == IF fetch.phase = "connack" THEN "suback" ELSE "report"
<1>1. /\ fetch.phase \in {"connack", "suback"} /\ wire # << >>
      /\ UNCHANGED <<gcodeState, reported>>
  BY DEF RequireAck
<1>2. fetch \in FetchRecord /\ fetch.packets \in 0..(MaxPackets - 1) /\ reported' \subseteq GcodeStates
  BY <1>1 DEF TelemetryInv, TelemetryTypeOK, FetchRecord
<1>3. CASE Unavailable
  BY <1>1, <1>2, <1>3, UnavailableKeeps
<1>4. CASE Enter(phase) /\ wire' = Tail(wire)
  <2>1. fetch' = [fetch EXCEPT !.phase = phase, !.packets = fetch.packets]
    BY <1>2, <1>4 DEF Enter, FetchRecord
  <2>2. QED
    BY <1>1, <1>2, <1>4, <2>1, GoingOnKeeps DEF Asking
<1>5. QED
  BY <1>3, <1>4 DEF RequireAck

LEMMA SendPacketKeeps ==
    ASSUME TelemetryInv, SendPacket
    PROVE  TelemetryInv'
<1>1. PICK packet \in Packet :
        /\ packet.kind = "report" =>
            IF packet.ours THEN fetch.phase # "connack" /\ packet.state \in {gcodeState, Missing}
            ELSE packet.state = Foreign
        /\ wire' = Append(wire, packet)
  BY DEF SendPacket
<1>2. fetch.phase \in Asking /\ Len(wire) < MaxWire /\ UNCHANGED <<fetch, gcodeState, reported>>
  BY DEF SendPacket
<1>3. /\ wire' \in BoundedSeq(Packet, MaxWire) /\ DOMAIN wire' = 1..(Len(wire) + 1)
      /\ \A i \in 1..Len(wire) : wire'[i] = wire[i]
      /\ wire'[Len(wire) + 1] = packet
  BY <1>1, <1>2, WireTyped, BoundedAppend DEF TelemetryInv
<1>4. DOMAIN wire = 1..Len(wire) /\ Len(wire) \in Nat
  BY WireTyped DEF TelemetryInv
<1>5. TelemetryTypeOK'
  BY <1>2, <1>3 DEF TelemetryInv, TelemetryTypeOK, BoundedSeq
<1>6. WireInv'
  <2>1. gcodeState \in reported
    BY <1>2 DEF TelemetryInv, WireInv
  <2>2. ASSUME NEW n \in DOMAIN wire', wire'[n].kind = "report", wire'[n].ours
        PROVE  wire'[n].state \in reported \cup {Missing}
    <3>1. n \in 1..Len(wire) \/ n = Len(wire) + 1
      BY <1>3, <1>4
    <3>2. CASE n = Len(wire) + 1
      BY <1>1, <1>3, <2>1, <2>2, <3>2
    <3>3. CASE n \in 1..Len(wire)
      BY <1>3, <1>4, <2>2, <3>3 DEF TelemetryInv, WireInv
    <3>4. QED
      BY <3>1, <3>2, <3>3
  <2>3. QED
    BY <1>2, <2>1, <2>2 DEF WireInv
<1>7. StatusIsTruthful'
  BY <1>2 DEF TelemetryInv, StatusIsTruthful
<1>8. QED
  BY <1>5, <1>6, <1>7 DEF TelemetryInv

LEMMA TelemetryInitially == InitTelemetry => TelemetryInv
<1> SUFFICES ASSUME InitTelemetry PROVE TelemetryInv
  OBVIOUS
<1>1. << >> \in BoundedSeq(Packet, MaxWire) /\ DOMAIN << >> = {}
  BY BoundedEmpty, TelemetryAssumption
<1>2. 0 \in 0..(MaxPackets - 1)
  BY TelemetryAssumption
<1>3. TelemetryTypeOK
  BY <1>1, <1>2 DEF InitTelemetry, TelemetryTypeOK, BoundedSeq, Answers
<1>4. WireInv /\ StatusIsTruthful
  BY <1>1 DEF InitTelemetry, WireInv, StatusIsTruthful, Asking
<1>5. QED
  BY <1>3, <1>4 DEF TelemetryInv

LEMMA TelemetryStep == TelemetryInv /\ [NextTelemetry]_telemetryVars => TelemetryInv'
<1> SUFFICES ASSUME TelemetryInv, [NextTelemetry]_telemetryVars PROVE TelemetryInv'
  OBVIOUS
<1>1. CASE BeginFetch
  BY <1>1, BeginFetchKeeps
<1>2. CASE Connect
  <2>1. fetch \in FetchRecord
    BY DEF TelemetryInv, TelemetryTypeOK, FetchRecord
  <2>2. /\ fetch' = [fetch EXCEPT !.phase = "connack", !.packets = fetch.packets]
        /\ fetch.packets \in 0..(MaxPackets - 1)
    BY <1>2, <2>1 DEF Connect, Enter, FetchRecord
  <2>3. QED
    BY <1>2, <2>2, GoingOnKeeps DEF Connect, Asking
<1>3. CASE Fail
  BY <1>3, UnavailableKeeps DEF Fail, TelemetryInv, TelemetryTypeOK
<1>4. CASE RequireAck
  BY <1>4, RequireAckKeeps
<1>5. CASE ReadReport
  BY <1>5, ReadReportKeeps
<1>6. CASE SendPacket
  BY <1>6, SendPacketKeeps
<1>7. CASE ChangeState
  <2>1. /\ gcodeState' \in GcodeStates /\ UNCHANGED <<fetch, wire>>
        /\ reported' = IF fetch.phase \in Asking THEN reported \cup {gcodeState'} ELSE reported
    BY <1>7 DEF ChangeState
  <2>2. TelemetryTypeOK'
    BY <2>1 DEF TelemetryInv, TelemetryTypeOK
  <2>3. WireInv'
    BY <2>1 DEF TelemetryInv, WireInv
  <2>4. StatusIsTruthful'
    BY <2>1 DEF TelemetryInv, StatusIsTruthful
  <2>5. QED
    BY <2>2, <2>3, <2>4 DEF TelemetryInv
<1>8. CASE UNCHANGED telemetryVars
  BY <1>8 DEF telemetryVars, TelemetryInv, TelemetryTypeOK, WireInv, StatusIsTruthful
<1>9. QED
  BY <1>1, <1>2, <1>3, <1>4, <1>5, <1>6, <1>7, <1>8 DEF NextTelemetry, ClientStep

\* The inductive invariant of a fetch: between fetches nothing is on the wire,
\* and every report on our topic says what the printer has been doing since
\* the fetch began, or nothing.
THEOREM TelemetryInvariant == TelemetrySpec => []TelemetryInv
<1>1. QED
  BY TelemetryInitially, TelemetryStep, PTL DEF TelemetrySpec

\* The variables of a fetch keep their types: it never reads more packets than
\* the limit allows, and answers with a state or one of the three errors.
THEOREM TelemetryTypes == TelemetrySpec => []TelemetryTypeOK
<1>1. TelemetryInv => TelemetryTypeOK
  BY DEF TelemetryInv
<1>2. QED
  BY TelemetryInvariant, <1>1, PTL

\* Whatever packets arrive in which order, and however often the printer
\* changes its state meanwhile: a fetch that ends with a state reports one the
\* printer was in after the fetch began, or "online".
THEOREM StatusesAreTruthful == TelemetrySpec => []StatusIsTruthful
<1>1. TelemetryInv => StatusIsTruthful
  BY DEF TelemetryInv
<1>2. QED
  BY TelemetryInvariant, <1>1, PTL

-----------------------------------------------------------------------------
(* The two side by side                                                    *)

\* A step of one of them is a step of the throttle and a step of the telemetry,
\* or leaves it as it is.
LEMMA OutgoingStep ==
    [RunThrottle \/ RunTelemetry]_outgoingVars => [Next]_vars /\ [NextTelemetry]_telemetryVars
<1>1. CASE RunThrottle
  BY <1>1 DEF RunThrottle
<1>2. CASE RunTelemetry
  BY <1>2 DEF RunTelemetry
<1>3. CASE UNCHANGED outgoingVars
  BY <1>3 DEF outgoingVars
<1>4. QED
  BY <1>1, <1>2, <1>3

\* What is proved of the throttle and of the telemetry holds of the system that
\* is model-checked.
THEOREM OutgoingImplementsBoth == SpecOutgoing => Spec /\ TelemetrySpec
<1>1. InitOutgoing => Init /\ InitTelemetry
  BY DEF InitOutgoing
<1>2. QED
  BY <1>1, OutgoingStep, PTL DEF SpecOutgoing, Spec, TelemetrySpec, FairOutgoing

\* The safety properties of the system that is model-checked, for every value of
\* its constants.
THEOREM OutgoingIsSafe ==
    SpecOutgoing => /\ [](TypeOK /\ TelemetryTypeOK /\ SlotsSpaced /\ NeverAheadOfSchedule)
                    /\ []StatusIsTruthful /\ ImplementsSchedule
<1>1. QED
  BY OutgoingImplementsBoth, ThrottleTypes, TelemetryTypes, ThrottleSpacesSlots,
     NobodySendsAhead, StatusesAreTruthful, ThrottleImplementsSchedule, PTL
=============================================================================
