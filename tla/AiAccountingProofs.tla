-------------------------- MODULE AiAccountingProofs --------------------------
(***************************************************************************)
(* Proofs about AiAccounting: sums over finite sets; types, final costs    *)
(* that name a run, events that stay reconciled; the bound on what is      *)
(* spent, and runs that allocate what the provider reports.                *)
(***************************************************************************)
EXTENDS AiAccounting, DataLemmas

-----------------------------------------------------------------------------
(* Sums                                                                    *)

Pick(s) == CHOOSE x \in s : TRUE

Table(f, S, it) ==
    it = [s \in SUBSET S |-> IF s = {} THEN 0 ELSE f[Pick(s)] + it[s \ {Pick(s)}]]

LEMMA PickIn == ASSUME NEW s, s # {} PROVE Pick(s) \in s
  BY DEF Pick

LEMMA TablesAgree ==
    ASSUME NEW f, NEW S, NEW T, NEW g, NEW h, Table(f, S, g), Table(f, T, h),
           NEW U, IsFiniteSet(U), U \subseteq S, U \subseteq T
    PROVE  g[U] = h[U]
<1> DEFINE Good == {s \in SUBSET U : g[s] = h[s]}
<1>1. ASSUME NEW s \in SUBSET U, \A x \in s : s \ {x} \in Good
      PROVE  s \in Good
  <2>1. /\ g[s] = IF s = {} THEN 0 ELSE f[Pick(s)] + g[s \ {Pick(s)}]
        /\ h[s] = IF s = {} THEN 0 ELSE f[Pick(s)] + h[s \ {Pick(s)}]
    BY s \in SUBSET S, s \in SUBSET T DEF Table
  <2>2. s # {} => g[s \ {Pick(s)}] = h[s \ {Pick(s)}]
    BY <1>1, PickIn
  <2>3. QED
    BY <2>1, <2>2
<1> HIDE DEF Good
<1>2. U \in Good
  BY <1>1, FiniteSetInduction
<1>3. QED
  BY <1>2 DEF Good

Total(f, S) == (CHOOSE it : Table(f, S, it))[S]

LEMMA TableExists ==
    ASSUME NEW f, NEW S, IsFiniteSet(S)
    PROVE  \E it : Table(f, S, it)
<1> DEFINE Has(s) == \E it : Table(f, s, it)
           Good == {s \in SUBSET S : \A u \in SUBSET s : Has(u)}
<1>1. ASSUME NEW T \in SUBSET S, \A x \in T : T \ {x} \in Good
      PROVE  Has(T)
  <2> DEFINE g == [s \in SUBSET T |->
                      IF s = {} THEN 0 ELSE f[Pick(s)] + Total(f, s \ {Pick(s)})]
  <2>1. \A u \in SUBSET T : u # T => Has(u)
    BY <1>1
  <2>2. ASSUME NEW u \in SUBSET T, u # T PROVE g[u] = Total(f, u)
    <3>1. PICK h : h = CHOOSE it : Table(f, u, it)
      OBVIOUS
    <3>2. Table(f, u, h) /\ Total(f, u) = h[u]
      BY <2>1, <2>2, <3>1 DEF Total
    <3>3. h[u] = IF u = {} THEN 0 ELSE f[Pick(u)] + h[u \ {Pick(u)}]
      BY <3>2 DEF Table
    <3>4. ASSUME u # {} PROVE h[u \ {Pick(u)}] = Total(f, u \ {Pick(u)})
      <4> DEFINE v == u \ {Pick(u)}
      <4>1. PICK k : k = CHOOSE it : Table(f, v, it)
        OBVIOUS
      <4>2. v \in SUBSET T /\ v # T /\ v \subseteq u
        BY <2>2
      <4>3. Table(f, v, k) /\ Total(f, v) = k[v]
        BY <2>1, <4>1, <4>2 DEF Total
      <4>4. IsFiniteSet(v)
        BY <4>2, FS_Subset
      <4> HIDE DEF v
      <4>5. h[v] = k[v]
        BY <3>2, <4>2, <4>3, <4>4, TablesAgree
      <4>6. QED
        BY <4>3, <4>5 DEF v
    <3>5. QED
      BY <3>2, <3>3, <3>4
  <2>3. ASSUME NEW s \in SUBSET T, s # {}
        PROVE  g[s \ {Pick(s)}] = Total(f, s \ {Pick(s)})
    <3>1. s \ {Pick(s)} \in SUBSET T /\ s \ {Pick(s)} # T
      BY <2>3, PickIn
    <3>2. QED
      BY <2>2, <3>1
  <2>4. Table(f, T, g)
    <3>1. \A s \in SUBSET T : s # {} => g[s \ {Pick(s)}] = Total(f, s \ {Pick(s)})
      BY <2>3
    <3>2. g = [s \in SUBSET T |-> IF s = {} THEN 0 ELSE f[Pick(s)] + g[s \ {Pick(s)}]]
      BY <3>1
    <3>3. QED
      BY <3>2 DEF Table
  <2>5. QED
    BY <2>4
<1>2. ASSUME NEW T \in SUBSET S, \A x \in T : T \ {x} \in Good
      PROVE  T \in Good
  <2>1. ASSUME NEW u \in SUBSET T, u # T PROVE Has(u)
    BY <1>2, <2>1
  <2>2. Has(T)
    BY <1>1, <1>2
  <2>3. QED
    BY <2>1, <2>2
<1> HIDE DEF Good
<1>3. S \in Good
  BY <1>2, FiniteSetInduction
<1>4. QED
  BY <1>3 DEF Good

\* What a sum is.
LEMMA SumUnfold ==
    ASSUME NEW f, NEW S, IsFiniteSet(S)
    PROVE  SumOver(f, S) = IF S = {} THEN 0 ELSE f[Pick(S)] + SumOver(f, S \ {Pick(S)})
<1>1. \A T : SumOver(f, T) = Total(f, T)
  BY DEF SumOver, MapThenSumSet, MapThenFoldSet, Total, Table, Pick
<1> DEFINE T == S \ {Pick(S)}
<1>2. IsFiniteSet(T) /\ T \subseteq S
  BY FS_Subset
<1>3. PICK g : g = CHOOSE it : Table(f, S, it)
  OBVIOUS
<1>4. PICK h : h = CHOOSE it : Table(f, T, it)
  OBVIOUS
<1>5. Table(f, S, g) /\ Total(f, S) = g[S]
  BY <1>3, TableExists DEF Total
<1> HIDE DEF T
<1>6. Table(f, T, h) /\ Total(f, T) = h[T]
  BY <1>2, <1>4, TableExists DEF Total
<1>7. g[T] = h[T]
  BY <1>2, <1>5, <1>6, TablesAgree
<1>8. g[S] = IF S = {} THEN 0 ELSE f[Pick(S)] + g[T]
  BY <1>5 DEF Table, T
<1>9. QED
  BY <1>1, <1>5, <1>6, <1>7, <1>8 DEF T

LEMMA SumInt ==
    ASSUME NEW f, NEW S, IsFiniteSet(S), \A x \in S : f[x] \in Int
    PROVE  SumOver(f, S) \in Int
<1> DEFINE Good == {T \in SUBSET S : SumOver(f, T) \in Int}
<1>1. ASSUME NEW T \in SUBSET S, \A x \in T : T \ {x} \in Good
      PROVE  T \in Good
  <2>1. IsFiniteSet(T)
    BY FS_Subset
  <2>2. SumOver(f, T) = IF T = {} THEN 0 ELSE f[Pick(T)] + SumOver(f, T \ {Pick(T)})
    BY <2>1, SumUnfold
  <2>3. T # {} => f[Pick(T)] \in Int /\ SumOver(f, T \ {Pick(T)}) \in Int
    BY <1>1, PickIn
  <2>4. QED
    BY <2>2, <2>3
<1> HIDE DEF Good
<1>2. S \in Good
  BY <1>1, FiniteSetInduction
<1>3. QED
  BY <1>2 DEF Good

LEMMA SumRemove ==
    ASSUME NEW f, NEW S, IsFiniteSet(S), \A x \in S : f[x] \in Int, NEW x \in S
    PROVE  SumOver(f, S) = f[x] + SumOver(f, S \ {x})
<1> DEFINE Good == {T \in SUBSET S : \A y \in T : SumOver(f, T) = f[y] + SumOver(f, T \ {y})}
<1>1. ASSUME NEW T \in SUBSET S, \A y \in T : T \ {y} \in Good
      PROVE  T \in Good
  <2> SUFFICES ASSUME NEW y \in T PROVE SumOver(f, T) = f[y] + SumOver(f, T \ {y})
    OBVIOUS
  <2> DEFINE p == Pick(T)
             U == (T \ {p}) \ {y}
  <2>1. IsFiniteSet(T) /\ p \in T
    BY FS_Subset, PickIn
  <2>2. SumOver(f, T) = f[p] + SumOver(f, T \ {p})
    BY <2>1, SumUnfold
  <2>3. CASE y = p
    BY <2>2, <2>3
  <2>4. CASE y # p
    <3>1. T \ {p} \in Good /\ T \ {y} \in Good
      BY <1>1, <2>1
    <3>2. (T \ {y}) \ {p} = U
      OBVIOUS
    <3>3. SumOver(f, T \ {p}) = f[y] + SumOver(f, U)
      BY <2>4, <3>1
    <3>4. SumOver(f, T \ {y}) = f[p] + SumOver(f, U)
      BY <2>1, <2>4, <3>1, <3>2
    <3>5. IsFiniteSet(U) /\ U \subseteq S
      BY <2>1, FS_Subset
    <3> HIDE DEF U, p
    <3>6. SumOver(f, U) \in Int /\ f[p] \in Int /\ f[y] \in Int
      BY <2>1, <3>5, SumInt
    <3>7. QED
      BY <2>2, <3>3, <3>4, <3>6
  <2>5. QED
    BY <2>3, <2>4
<1> HIDE DEF Good
<1>2. S \in Good
  BY <1>1, FiniteSetInduction
<1>3. QED
  BY <1>2 DEF Good

LEMMA SumSame ==
    ASSUME NEW f, NEW g, NEW S, IsFiniteSet(S), \A x \in S : f[x] = g[x]
    PROVE  SumOver(f, S) = SumOver(g, S)
<1> DEFINE Good == {T \in SUBSET S : SumOver(f, T) = SumOver(g, T)}
<1>1. ASSUME NEW T \in SUBSET S, \A x \in T : T \ {x} \in Good
      PROVE  T \in Good
  <2>1. IsFiniteSet(T)
    BY FS_Subset
  <2>2. /\ SumOver(f, T) = IF T = {} THEN 0 ELSE f[Pick(T)] + SumOver(f, T \ {Pick(T)})
        /\ SumOver(g, T) = IF T = {} THEN 0 ELSE g[Pick(T)] + SumOver(g, T \ {Pick(T)})
    BY <2>1, SumUnfold
  <2>3. T # {} => /\ f[Pick(T)] = g[Pick(T)]
                  /\ SumOver(f, T \ {Pick(T)}) = SumOver(g, T \ {Pick(T)})
    BY <1>1, PickIn
  <2>4. QED
    BY <2>2, <2>3
<1> HIDE DEF Good
<1>2. S \in Good
  BY <1>1, FiniteSetInduction
<1>3. QED
  BY <1>2 DEF Good

LEMMA SumNat ==
    ASSUME NEW f, NEW S, IsFiniteSet(S), \A x \in S : f[x] \in Nat
    PROVE  SumOver(f, S) \in Nat
<1> DEFINE Good == {T \in SUBSET S : SumOver(f, T) \in Nat}
<1>1. ASSUME NEW T \in SUBSET S, \A x \in T : T \ {x} \in Good
      PROVE  T \in Good
  <2>1. IsFiniteSet(T)
    BY FS_Subset
  <2>2. SumOver(f, T) = IF T = {} THEN 0 ELSE f[Pick(T)] + SumOver(f, T \ {Pick(T)})
    BY <2>1, SumUnfold
  <2>3. T # {} => f[Pick(T)] \in Nat /\ SumOver(f, T \ {Pick(T)}) \in Nat
    BY <1>1, PickIn
  <2>4. QED
    BY <2>2, <2>3
<1> HIDE DEF Good
<1>2. S \in Good
  BY <1>1, FiniteSetInduction
<1>3. QED
  BY <1>2 DEF Good

LEMMA SumBound ==
    ASSUME NEW f, NEW S, IsFiniteSet(S), NEW c \in Nat, \A x \in S : f[x] \in 0..c
    PROVE  SumOver(f, S) \in Nat /\ SumOver(f, S) <= Cardinality(S) * c
<1> DEFINE Fits(T) == SumOver(f, T) \in Nat /\ SumOver(f, T) <= Cardinality(T) * c
           Good == {T \in SUBSET S : Fits(T)}
<1>1. ASSUME NEW T \in SUBSET S, \A x \in T : T \ {x} \in Good
      PROVE  T \in Good
  <2>1. IsFiniteSet(T)
    BY FS_Subset
  <2>2. SumOver(f, T) = IF T = {} THEN 0 ELSE f[Pick(T)] + SumOver(f, T \ {Pick(T)})
    BY <2>1, SumUnfold
  <2>3. CASE T = {}
    <3>1. Cardinality(T) = 0
      BY <2>3, FS_EmptySet
    <3>2. QED
      BY <2>2, <2>3, <3>1
  <2>4. CASE T # {}
    <3> DEFINE p == Pick(T)
               n == Cardinality(T \ {p})
    <3>1. p \in T
      BY <2>4, PickIn
    <3>2. Cardinality(T) \in Nat /\ n \in Nat /\ n = Cardinality(T) - 1
      BY <2>1, <3>1, FS_RemoveElement, FS_CardinalityType
    <3>3. f[p] \in 0..c /\ Fits(T \ {p})
      BY <1>1, <3>1
    <3> HIDE DEF p, n
    <3>4. n * c + c = Cardinality(T) * c
      BY <3>2
    <3>5. SumOver(f, T) = f[p] + SumOver(f, T \ {p})
      BY <2>2, <2>4 DEF p
    <3>6. SumOver(f, T \ {p}) <= n * c /\ n * c \in Nat
      BY <3>2, <3>3 DEF n
    <3>7. QED
      BY <3>3, <3>4, <3>5, <3>6
  <2>5. QED
    BY <2>3, <2>4
<1> HIDE DEF Good
<1>2. S \in Good
  BY <1>1, FiniteSetInduction
<1>3. QED
  BY <1>2 DEF Good

-----------------------------------------------------------------------------
(* Types                                                                   *)

LEMMA NewEventType ==
    ASSUME NEW paid \in BOOLEAN, NEW cost \in Costs \cup {0}
    PROVE  /\ NewEvent(paid, cost) \in Event
           /\ HasRun(NewEvent(paid, cost))
           /\ NewEvent(paid, cost).status \notin Done
  BY AccountingAssumption DEF NewEvent, Event, HasRun, Done

LEMMA NewSessionType ==
    ASSUME NEW stage \in Stages, NEW cost \in Costs \cup {0}, NEW listed \in SUBSET Events
    PROVE  /\ NewSession(stage) \in Request
           /\ [NewSession(stage) EXCEPT !.cost = cost] \in Request
           /\ [NewSession(stage) EXCEPT !.listed = listed] \in Request
<1>1. NoEvents \in [Events -> Event]
  BY NewEventType DEF NoEvents
<1>2. QED
  BY <1>1 DEF NewSession, Request

LEMMA IdleType == Idle \in Request
  BY NewSessionType DEF Idle, Stages

\* What a flush leaves of a row.
LEMMA FlushedEvent ==
    ASSUME NEW stored \in Event, NEW loaded \in Event, NEW now \in Event
    PROVE  /\ Flushed(stored, loaded, now) \in Event
           /\ \A c \in {"openai", "cost", "status", "final", "run"} :
                 Flushed(stored, loaded, now)[c] =
                     IF now[c] # loaded[c] THEN now[c] ELSE stored[c]
<1> DEFINE after == Flushed(stored, loaded, now)
<1>1. DOMAIN stored = {"openai", "cost", "status", "final", "run"}
  BY DEF Event
<1>2. after = [openai |-> after.openai, cost |-> after.cost, status |-> after.status,
               final |-> after.final, run |-> after.run]
  BY <1>1 DEF Flushed
<1>3. \A c \in {"openai", "cost", "status", "final", "run"} :
          after[c] = IF now[c] # loaded[c] THEN now[c] ELSE stored[c]
  BY <1>1 DEF Flushed
<1>4. /\ after.openai \in BOOLEAN /\ after.cost \in Costs \cup {0}
      /\ after.status \in {"estimated", "not_billable"} \cup Done
      /\ after.final \in Int \cup {NoCost} /\ after.run \in Runs \cup {NoRun}
  <2>1. \A row \in {stored, now} :
          /\ row.openai \in BOOLEAN /\ row.cost \in Costs \cup {0}
          /\ row.status \in {"estimated", "not_billable"} \cup Done
          /\ row.final \in Int \cup {NoCost} /\ row.run \in Runs \cup {NoRun}
    BY DEF Event
  <2>2. QED
    BY <1>3, <2>1
<1>5. QED
  BY <1>2, <1>3, <1>4 DEF Event

LEMMA OutcomeDone == ASSUME NEW events, NEW total PROVE Outcome(events, total) \in Done
  BY DEF Outcome, Done

LEMMA ReconciledEvent ==
    ASSUME NEW q \in Request, NEW e \in Events
    PROVE  /\ Reconciled(q, e) \in Event
           /\ Reconciled(q, e).status \in Done
           /\ Reconciled(q, e).final = q.share[e] /\ q.share[e] \in Int
           /\ Reconciled(q, e).run = q.run
  BY OutcomeDone DEF Reconciled, Request, Event

\* Estimates, final costs and runs keep their types, for any costs reported.
THEOREM AccountingTypes == Spec => []TypeOK
<1>1. Init => TypeOK
  <2> SUFFICES ASSUME Init PROVE TypeOK
    OBVIOUS
  <2>1. NoEvents \in [Events -> Event]
    BY NewEventType DEF NoEvents
  <2>2. QED
    BY <2>1, IdleType, AccountingAssumption DEF Init, TypeOK, Run
<1>2. TypeOK /\ [Next]_vars => TypeOK'
  <2> SUFFICES ASSUME TypeOK, [Next]_vars PROVE TypeOK'
    OBVIOUS
  <2> USE DEF TypeOK
  <2>1. ASSUME NEW paid \in BOOLEAN, NEW cost \in Costs \cup {0}, Record(paid, cost)
        PROVE  recorded' \in 0..MaxEvents /\ event' \in [Events -> Event]
    <3>1. recorded' \in 0..MaxEvents
      BY <2>1, AccountingAssumption DEF Record
    <3>2. NewEvent(paid, cost) \in Event
      BY NewEventType
    <3>3. event' \in [Events -> Event]
      BY <2>1, <3>2 DEF Record
    <3>4. QED
      BY <3>1, <3>3
  <2>2. CASE RunLocally
    BY <2>1, <2>2 DEF RunLocally
  <2>3. ASSUME NEW r \in Requests, NEW cost \in Costs, EnforceBudget(r, cost)
        PROVE  TypeOK'
    BY <2>3, NewSessionType DEF EnforceBudget, Stages
  <2>4. ASSUME NEW r \in Requests, RecordUsage(r)
        PROVE  TypeOK'
    <3>1. request[r].cost \in Costs \cup {0}
      BY DEF Request
    <3>2. QED
      BY <2>1, <2>4, <3>1, IdleType DEF RecordUsage, Close
  <2>5. ASSUME NEW r \in Requests, Reconcile(r)
        PROVE  TypeOK'
    <3> DEFINE q == request[r]
    <3>0. q \in Request
      OBVIOUS
    <3>1. ASSUME NEW stage \in Stages
          PROVE  [request EXCEPT ![r].stage = stage] \in [Requests -> Request]
      BY <3>0 DEF Request
    <3>2. ASSUME NEW first \in Events, NEW last \in Events, BeginReconcile(r, first, last)
          PROVE  TypeOK'
      <4> DEFINE listed == {e \in (first..last) \cap (1..recorded) : event[e].status = "estimated"}
      <4>1. listed \in SUBSET Events
        BY AccountingAssumption DEF Events
      <4>2. [NewSession("create") EXCEPT !.listed = listed] \in Request
        BY <4>1, NewSessionType DEF Stages
      <4>3. QED
        BY <3>2, <4>2 DEF BeginReconcile
    <3>3. ASSUME NEW x \in Runs, CreateRun(r, x)
          PROVE  TypeOK'
      BY <3>0, <3>3 DEF CreateRun, Run, Request, Stages
    <3>4. CASE FetchCosts(r)
      <4>1. CASE Goto(r, "fail")
        BY <3>1, <3>4, <4>1 DEF FetchCosts, Goto, Stages
      <4>2. ASSUME NEW total \in Totals,
                   request' = [request EXCEPT ![r] = [@ EXCEPT !.stage = "allocate", !.total = total]]
            PROVE  TypeOK'
        <5>1. total \in Nat
          BY AccountingAssumption
        <5>2. [q EXCEPT !.stage = "allocate", !.total = total] \in Request
          BY <3>0, <5>1 DEF Request, Stages
        <5>3. QED
          BY <3>4, <4>2, <5>2 DEF FetchCosts
      <4>3. QED
        BY <3>4, <4>1, <4>2 DEF FetchCosts
    <3>5. CASE Allocate(r)
      <4>1. CASE q.listed = {}
        BY <3>1, <3>5, <4>1 DEF Allocate, Goto, Stages
      <4>2. CASE q.listed # {}
        <5>1. PICK share \in Shares(q.listed, q.total) :
                 request' = [request EXCEPT ![r] = [q EXCEPT
                     !.stage = "load", !.unread = q.listed,
                     !.share = [e \in Events |-> IF e \in q.listed THEN share[e] ELSE 0]]]
          BY <3>5, <4>2 DEF Allocate
        <5>2. share \in [q.listed -> Int]
          BY <5>1 DEF Shares
        <5>3. [e \in Events |-> IF e \in q.listed THEN share[e] ELSE 0] \in [Events -> Int]
          BY <5>2
        <5> DEFINE given == [e \in Events |-> IF e \in q.listed THEN share[e] ELSE 0]
        <5>4. [q EXCEPT !.stage = "load", !.unread = q.listed, !.share = given] \in Request
          <6>1. given \in [Events -> Int]
            BY <5>3
          <6> HIDE DEF given
          <6>2. QED
            BY <3>0, <6>1 DEF Request, Stages
        <5>5. QED
          BY <3>5, <5>1, <5>4 DEF Allocate
      <4>3. QED
        BY <4>1, <4>2
    <3>6. CASE LoadEvent(r)
      <4>1. PICK e : request' = [request EXCEPT ![r] =
                        [q EXCEPT !.unread = q.unread \ {e}, !.loaded[e] = event[e]]]
        BY <3>6 DEF LoadEvent
      <4>2. [q EXCEPT !.unread = q.unread \ {e}, !.loaded[e] = event[e]] \in Request
        BY <3>0 DEF Request
      <4>3. QED
        BY <3>6, <4>1, <4>2 DEF LoadEvent
    <3>7. CASE CommitEvents(r)
      <4>1. \A e \in Events : Flushed(event[e], q.loaded[e], Reconciled(q, e)) \in Event
        BY <3>0, FlushedEvent, ReconciledEvent DEF Request
      <4>2. event' \in [Events -> Event]
        BY <3>7, <4>1 DEF CommitEvents, WriteEvents
      <4>3. QED
        BY <3>1, <3>7, <4>2 DEF CommitEvents, Goto, Stages
    <3>8. CASE CompleteRun(r)
      <4>1. CASE q.total > ColumnLimit
        BY <3>1, <3>8, <4>1 DEF CompleteRun, Goto, Stages
      <4>2. CASE ~(q.total > ColumnLimit)
        <5>1. q.total \in Nat
          BY <3>0 DEF Request
        <5>2. run' \in [Runs -> Run]
          BY <3>8, <4>2, <5>1 DEF CompleteRun, Run
        <5>3. QED
          BY <3>8, <4>2, <5>2, IdleType DEF CompleteRun, Close
      <4>3. QED
        BY <4>1, <4>2
    <3>9. CASE FailRun(r)
      BY ZenonT(60), <3>0, <3>9, IdleType DEF FailRun, Close, Run
    <3>10. CASE FailRunBroken(r)
      BY <3>10, IdleType DEF FailRunBroken, Close
    <3>11. QED
      BY <2>5, <3>2, <3>3, <3>4, <3>5, <3>6, <3>7, <3>8, <3>9, <3>10 DEF Reconcile
  <2>6. CASE Restart
    BY <2>6, IdleType DEF Restart
  <2>7. CASE UNCHANGED vars
    BY <2>7 DEF vars
  <2>8. QED
    BY <2>2, <2>3, <2>4, <2>5, <2>6, <2>7 DEF Next
<1>3. QED
  BY <1>1, <1>2, PTL DEF Spec

-----------------------------------------------------------------------------
(* The invariant                                                           *)

LEMMA FreshSound ==
    ASSUME NEW stage \in {"idle", "record", "create"}, NEW cost,
           NEW listed \in SUBSET (1..recorded)
    PROVE  /\ Sound(NewSession(stage))
           /\ Sound([NewSession(stage) EXCEPT !.cost = cost])
           /\ Sound([NewSession(stage) EXCEPT !.listed = listed])
<1>1. \A e \in Events : HasRun(NoEvents[e]) /\ NoEvents[e].status \notin Done
  BY NewEventType DEF NoEvents
<1>2. QED
  BY <1>1 DEF NewSession, Sound

LEMMA IdleSound == Sound(Idle)
  BY FreshSound DEF Idle

\* A step of one session that writes nothing leaves the others as they are.
LEMMA SessionStep ==
    ASSUME TypeOK, AccountingInv, UNCHANGED <<recorded, event, run>>,
           NEW r \in Requests, NEW q, Sound(q), request' = [request EXCEPT ![r] = q]
    PROVE  AccountingInv'
<1>1. \A s : Sound(s) => Sound(s)'
  BY DEF Sound, HasRun
<1>2. \A t \in Requests : request'[t] \in {request[t], q}
  BY DEF TypeOK
<1>3. SessionInv'
  BY <1>1, <1>2 DEF AccountingInv, SessionInv
<1>4. FinalCostHasRun' /\ CompletedRunSettles' /\ Unrecorded'
  BY DEF AccountingInv, FinalCostHasRun, HasRun, CompletedRunSettles, Unrecorded
<1>5. QED
  BY <1>3, <1>4 DEF AccountingInv

LEMMA GotoStep ==
    ASSUME TypeOK, AccountingInv, UNCHANGED <<recorded, event, run>>,
           NEW r \in Requests, NEW stage \in {"fail", "broken", "load", "allocate"},
           request[r].stage \notin {"idle", "record", "create"},
           Goto(r, stage)
    PROVE  AccountingInv'
<1> DEFINE q == [request[r] EXCEPT !.stage = stage]
<1>1. request[r] \in Request /\ Sound(request[r])
  BY DEF TypeOK, AccountingInv, SessionInv
<1>2. Sound(q)
  BY <1>1 DEF Sound, Request
<1>3. request' = [request EXCEPT ![r] = q]
  BY DEF Goto
<1> HIDE DEF q
<1>4. QED
  BY <1>2, <1>3, SessionStep

\* Recording an event disturbs no reconciled one.
LEMMA RecordStep ==
    ASSUME TypeOK, AccountingInv, NEW paid \in BOOLEAN, NEW cost \in Costs \cup {0},
           Record(paid, cost), UNCHANGED run,
           \A t \in Requests : request'[t] \in {request[t], Idle}
    PROVE  /\ AccountingInv'
           /\ \A e \in Events : event[e].status \in Done => event'[e].status \in Done
<1> DEFINE new == recorded + 1
<1>1. new \in Events /\ recorded' = new /\ recorded \in Nat
  BY AccountingAssumption DEF Record, TypeOK, Events
<1>2. event[new].status \notin Done
  BY <1>1 DEF AccountingInv, Unrecorded
<1>3. /\ event'[new] = NewEvent(paid, cost)
      /\ \A e \in Events : e # new => event'[e] = event[e]
  BY <1>1 DEF Record, TypeOK
<1>4. HasRun(event'[new]) /\ event'[new].status \notin Done
  BY <1>3, NewEventType
<1>5. \A e \in Events : event[e].status \in Done => event'[e].status \in Done
  BY <1>2, <1>3
<1>6. \A row : HasRun(row) => HasRun(row)'
  BY DEF HasRun
<1>7. FinalCostHasRun'
  BY <1>3, <1>4, <1>6 DEF AccountingInv, FinalCostHasRun, HasRun
<1>8. CompletedRunSettles'
  <2>1. \A x \in Runs : run[x].covers \subseteq Events
    BY DEF TypeOK, Run
  <2>2. QED
    BY <1>5, <2>1 DEF AccountingInv, CompletedRunSettles
<1>9. Unrecorded'
  BY <1>1, <1>3 DEF AccountingInv, Unrecorded, Events
<1>10. SessionInv'
  <2>1. ASSUME NEW s \in Request, Sound(s) PROVE Sound(s)'
    <3>1. s.listed \subseteq Events
      BY DEF Request
    <3>2. s.listed \subseteq 1..recorded'
      BY <1>1, <2>1 DEF Sound
    <3>3. \A e \in Events : HasRun(s.loaded[e])'
      BY <1>6, <2>1 DEF Sound
    <3>4. QED
      BY <1>5, <2>1, <3>1, <3>2, <3>3 DEF Sound
  <2>2. QED
    BY <2>1, IdleSound, IdleType DEF AccountingInv, SessionInv, TypeOK
<1>11. QED
  BY <1>5, <1>7, <1>8, <1>9, <1>10 DEF AccountingInv

\* The flush: a row that is reconciled stays so, and names the run of the final
\* cost or of an earlier one.
LEMMA CommitStep ==
    ASSUME TypeOK, AccountingInv, NEW r \in Requests, CommitEvents(r)
    PROVE  /\ AccountingInv'
           /\ \A e \in Events : event[e].status \in Done => event'[e].status \in Done
<1> DEFINE q == request[r]
<1>1. q \in Request /\ Sound(q)
  BY DEF TypeOK, AccountingInv, SessionInv
<1>2. q.stage = "load" /\ q.run # NoRun /\ run[q.run].status # "none"
  BY <1>1 DEF CommitEvents, Sound
<1>3. CASE Overflows(q)
  <2>1. AccountingInv'
    BY <1>2, <1>3, GotoStep DEF CommitEvents
  <2>2. QED
    BY <1>3, <2>1 DEF CommitEvents
<1>4. CASE ~Overflows(q)
  <2> DEFINE now(e) == Reconciled(q, e)
             after(e) == Flushed(event[e], q.loaded[e], now(e))
  <2>1. /\ UNCHANGED <<recorded, run>>
        /\ request' = [request EXCEPT ![r].stage = "complete"]
        /\ event' = [e \in Events |-> IF e \in q.listed THEN after(e) ELSE event[e]]
    BY <1>4 DEF CommitEvents, WriteEvents, Goto
  <2>2. ASSUME NEW e \in Events
        PROVE  after(e).status \in Done /\ HasRun(after(e))
    <3>1. /\ event[e] \in Event /\ q.loaded[e] \in Event /\ now(e) \in Event
          /\ now(e).status \in Done /\ now(e).run = q.run
          /\ now(e).final \in Int
      BY <1>1, ReconciledEvent DEF TypeOK, Request
    <3>2. /\ HasRun(q.loaded[e]) /\ HasRun(event[e])
          /\ q.loaded[e].status \in Done => event[e].status \in Done
      BY <1>1 DEF Sound, AccountingInv, FinalCostHasRun
    <3>3. \A c \in {"status", "final", "run"} :
             after(e)[c] = IF now(e)[c] # q.loaded[e][c] THEN now(e)[c] ELSE event[e][c]
      BY <3>1, FlushedEvent
    <3> HIDE DEF now, after
    <3>4. after(e).status \in Done
      BY <3>1, <3>2, <3>3
    <3>5. after(e).final # NoCost
      BY <3>1, <3>2, <3>3, AccountingAssumption DEF HasRun
    <3>6. after(e).run # NoRun /\ run[after(e).run].status # "none"
      BY <1>2, <3>1, <3>2, <3>3 DEF HasRun
    <3>7. QED
      BY <3>4, <3>5, <3>6 DEF HasRun
  <2> HIDE DEF after
  <2>3. \A e \in Events : event[e].status \in Done => event'[e].status \in Done
    BY <2>1, <2>2
  <2>4. \A row : HasRun(row) => HasRun(row)'
    BY <2>1 DEF HasRun
  <2>5. \A e \in Events : HasRun(event'[e])
    BY <2>1, <2>2 DEF AccountingInv, FinalCostHasRun
  <2>6. FinalCostHasRun'
    BY <2>1, <2>5 DEF FinalCostHasRun, HasRun
  <2>7. CompletedRunSettles'
    <3>1. \A x \in Runs : run[x].covers \subseteq Events
      BY DEF TypeOK, Run
    <3>2. QED
      BY <2>1, <2>3, <3>1 DEF AccountingInv, CompletedRunSettles
  <2>8. Unrecorded'
    <3>1. \A e \in Events : e > recorded => e \notin q.listed
      BY <1>1 DEF Sound, TypeOK, Events
    <3>2. QED
      BY <2>1, <3>1 DEF AccountingInv, Unrecorded
  <2>9. SessionInv'
    <3>1. ASSUME NEW s \in Request, Sound(s) PROVE Sound(s)'
      <4>1. s.listed \subseteq Events
        BY DEF Request
      <4>2. \A e \in Events : HasRun(s.loaded[e])'
        BY <2>4, <3>1 DEF Sound
      <4>3. QED
        BY <2>1, <2>3, <3>1, <4>1, <4>2 DEF Sound
    <3>2. ASSUME NEW s, s = q
          PROVE  Sound([s EXCEPT !.stage = "complete"])'
      <4>1. s.listed \subseteq Events /\ \A e \in s.listed : event'[e].status \in Done
        BY <1>1, <2>1, <2>2, <3>2 DEF Request
      <4>2. Sound(s)'
        BY <1>1, <3>1, <3>2
      <4>3. QED
        BY <1>1, <1>2, <3>2, <4>1, <4>2 DEF Sound, Request
    <3>3. PICK s : s = q
      OBVIOUS
    <3> DEFINE done == [s EXCEPT !.stage = "complete"]
    <3>4. \A t \in Requests : request'[t] \in {request[t], done}
      BY <2>1, <3>3 DEF TypeOK
    <3>5. \A t \in Requests : request[t] \in Request /\ Sound(request[t])
      BY DEF TypeOK, AccountingInv, SessionInv
    <3>6. Sound(done)'
      BY <3>2, <3>3
    <3> HIDE DEF done
    <3>7. QED
      BY <3>1, <3>4, <3>5, <3>6 DEF SessionInv
  <2>10. QED
    BY <2>3, <2>6, <2>7, <2>8, <2>9 DEF AccountingInv
<1>5. QED
  BY <1>3, <1>4

\* A run that is opened or closed: the rows that name it still do, and what it
\* covers stays.
LEMMA RunStep ==
    ASSUME TypeOK, AccountingInv, UNCHANGED <<recorded, event>>,
           NEW x \in Runs, NEW row, run' = [run EXCEPT ![x] = row],
           row.status # "none",
           run[x].status = "none" \/ row.covers = run[x].covers,
           row.status = "completed" => \A e \in row.covers : event[e].status \in Done
    PROVE  /\ FinalCostHasRun' /\ CompletedRunSettles' /\ Unrecorded'
           /\ \A s \in Request : Sound(s) => Sound(s)'
<1>1. run'[x] = row /\ \A y \in Runs : y # x => run'[y] = run[y]
  BY DEF TypeOK
<1>2. \A y \in Runs : run[y].status # "none" =>
          run'[y].status # "none" /\ run'[y].covers = run[y].covers
  BY <1>1
<1>3. ASSUME NEW e, e.run \in Runs \cup {NoRun}, HasRun(e) PROVE HasRun(e)'
  BY <1>2, <1>3 DEF HasRun
<1>4. FinalCostHasRun'
  BY <1>2 DEF TypeOK, Event, AccountingInv, FinalCostHasRun, HasRun
<1>5. CompletedRunSettles'
  BY <1>1 DEF AccountingInv, CompletedRunSettles
<1>6. ASSUME NEW s \in Request, Sound(s) PROVE Sound(s)'
  <2>1. \A e \in Events : s.loaded[e].run \in Runs \cup {NoRun}
    BY DEF Request, Event
  <2>2. \A e \in Events : HasRun(s.loaded[e])'
    BY <1>3, <1>6, <2>1 DEF Sound
  <2>3. s.run \in Runs \cup {NoRun}
    BY DEF Request
  <2>4. QED
    BY <1>2, <1>6, <2>2, <2>3 DEF Sound
<1>7. QED
  BY <1>4, <1>5, <1>6 DEF AccountingInv, Unrecorded

\* The session that opens or closes a run goes on as q.
LEMMA RunnerStep ==
    ASSUME TypeOK, NEW r \in Requests, NEW q, Sound(q)', SessionInv,
           \A s \in Request : Sound(s) => Sound(s)',
           request' = [request EXCEPT ![r] = q]
    PROVE  SessionInv'
<1>1. \A t \in Requests : request[t] \in Request /\ request'[t] \in {request[t], q}
  BY DEF TypeOK
<1>2. QED
  BY <1>1 DEF SessionInv

LEMMA CreateRunStep ==
    ASSUME TypeOK, AccountingInv, NEW r \in Requests, NEW x \in Runs, CreateRun(r, x)
    PROVE  AccountingInv'
<1>1. PICK s \in Request : s = request[r] /\ Sound(s)
  BY DEF TypeOK, AccountingInv, SessionInv
<1> DEFINE row == [status |-> "running", final |-> NoCost, covers |-> s.listed]
           q == [s EXCEPT !.stage = "fetch", !.run = x]
<1>2. /\ UNCHANGED <<recorded, event>> /\ run[x].status = "none"
      /\ run' = [run EXCEPT ![x] = row]
      /\ request' = [request EXCEPT ![r] = q]
  BY <1>1 DEF CreateRun
<1>3. row.status \notin {"none", "completed"}
  OBVIOUS
<1>4. /\ FinalCostHasRun' /\ CompletedRunSettles' /\ Unrecorded'
      /\ \A t \in Request : Sound(t) => Sound(t)'
  <2> HIDE DEF row
  <2>1. QED
    BY <1>2, <1>3, RunStep
<1>5. Sound(q)'
  <2>1. Sound(s)'
    BY <1>1, <1>4
  <2>2. run'[x].status # "none" /\ run'[x].covers = s.listed
    BY <1>2 DEF TypeOK
  <2>3. QED
    BY <1>1, <2>1, <2>2, AccountingAssumption DEF Sound, Request
<1> HIDE DEF q
<1>6. SessionInv'
  BY <1>2, <1>4, <1>5, RunnerStep DEF AccountingInv
<1>7. QED
  BY <1>4, <1>6 DEF AccountingInv

\* A run that is closed, as completed or as failed, by the session that has
\* created it.
LEMMA CloseRunStep ==
    ASSUME TypeOK, AccountingInv, NEW r \in Requests, CompleteRun(r) \/ FailRun(r)
    PROVE  AccountingInv'
<1> DEFINE q == request[r]
<1>1. q \in Request /\ Sound(q)
  BY DEF TypeOK, AccountingInv, SessionInv
<1>2. q.stage \in {"complete", "fail"}
  BY DEF CompleteRun, FailRun
<1>3. q.run \in Runs /\ run[q.run].status # "none" /\ run[q.run].covers = q.listed
  BY <1>1, <1>2 DEF Sound, Request
<1>4. CASE Goto(r, "broken") /\ UNCHANGED <<recorded, event, run>>
  BY <1>2, <1>4, GotoStep
<1>5. ASSUME NEW status \in {"completed", "failed"}, NEW final,
             status = "completed" => q.stage = "complete",
             run' = [run EXCEPT ![q.run].status = status, ![q.run].final = final],
             Close(r), UNCHANGED <<recorded, event>>
      PROVE  AccountingInv'
  <2> DEFINE row == [run[q.run] EXCEPT !.status = status, !.final = final]
  <2>1. run[q.run] \in Run
    BY <1>3 DEF TypeOK
  <2>2. row.status = status /\ row.covers = q.listed
    BY <1>3, <2>1 DEF Run
  <2>3. run' = [run EXCEPT ![q.run] = row]
    BY <1>3, <1>5 DEF TypeOK
  <2>4. status = "completed" => \A e \in q.listed : event[e].status \in Done
    BY <1>1, <1>5 DEF Sound
  <2>5. PICK x \in Runs : x = q.run
    BY <1>3
  <2>6. PICK new : new = row
    OBVIOUS
  <2>7. /\ FinalCostHasRun' /\ CompletedRunSettles' /\ Unrecorded'
        /\ \A t \in Request : Sound(t) => Sound(t)'
    <3> HIDE DEF row
    <3>1. /\ run' = [run EXCEPT ![x] = new] /\ new.status # "none"
          /\ new.covers = run[x].covers
          /\ new.status = "completed" => \A e \in new.covers : event[e].status \in Done
      BY <1>3, <2>2, <2>3, <2>4, <2>5, <2>6
    <3>2. QED
      BY <1>5, <3>1, RunStep
  <2>8. Sound(Idle)'
    BY <2>7, IdleSound, IdleType
  <2>9. SessionInv'
    BY <1>5, <2>7, <2>8, RunnerStep DEF AccountingInv, Close
  <2>10. QED
    BY <2>7, <2>9 DEF AccountingInv
<1>6. QED
  BY <1>4, <1>5 DEF CompleteRun, FailRun

\* Selecting, allocating and loading: the steps of a run that write nothing.
LEMMA WorkStep ==
    ASSUME TypeOK, AccountingInv, NEW r \in Requests,
           FetchCosts(r) \/ Allocate(r) \/ LoadEvent(r)
    PROVE  AccountingInv'
<1>1. PICK s \in Request : s = request[r] /\ Sound(s)
  BY DEF TypeOK, AccountingInv, SessionInv
<1>2. /\ UNCHANGED <<recorded, event, run>>
      /\ s.stage \in {"fetch", "allocate", "load"}
  BY <1>1 DEF FetchCosts, Allocate, LoadEvent
<1>3. ASSUME NEW stage \in {"fail", "load"}, Goto(r, stage)
      PROVE  AccountingInv'
  BY <1>1, <1>2, <1>3, GotoStep
<1>4. ASSUME NEW q, Sound(q), request' = [request EXCEPT ![r] = q]
      PROVE  AccountingInv'
  BY <1>2, <1>4, SessionStep
<1>5. CASE FetchCosts(r)
  <2>1. \A total : Sound([s EXCEPT !.stage = "allocate", !.total = total])
    BY <1>1, <1>2 DEF Sound, Request
  <2>2. QED
    BY <1>1, <1>3, <1>4, <1>5, <2>1 DEF FetchCosts
<1>6. CASE Allocate(r)
  <2>1. CASE s.listed = {}
    BY <1>1, <1>3, <1>6, <2>1 DEF Allocate
  <2>2. CASE s.listed # {}
    <3>1. PICK share : request' = [request EXCEPT ![r] =
                                      [s EXCEPT !.stage = "load", !.unread = s.listed, !.share = share]]
      BY <1>1, <1>6, <2>2 DEF Allocate
    <3>2. Sound([s EXCEPT !.stage = "load", !.unread = s.listed, !.share = share])
      BY <1>1, <1>2 DEF Sound, Request
    <3>3. QED
      BY <1>4, <3>1, <3>2
  <2>3. QED
    BY <2>1, <2>2
<1>7. CASE LoadEvent(r)
  <2>1. PICK e, unread : request' = [request EXCEPT ![r] =
                                        [s EXCEPT !.unread = unread, !.loaded[e] = event[e]]]
    BY <1>1, <1>7 DEF LoadEvent
  <2> DEFINE q == [s EXCEPT !.unread = unread, !.loaded[e] = event[e]]
  <2>2. q.loaded = [s.loaded EXCEPT ![e] = event[e]] /\ s.loaded \in [Events -> Event]
    BY DEF Request
  <2>3. \A d \in Events : HasRun(q.loaded[d]) /\ (q.loaded[d].status \in Done => event[d].status \in Done)
    BY <1>1, <2>2 DEF Sound, AccountingInv, FinalCostHasRun
  <2>4. /\ q.stage = s.stage /\ q.run = s.run /\ q.listed = s.listed
    BY DEF Request
  <2>5. Sound(q)
    <3> HIDE DEF q
    <3>1. QED
      BY <1>1, <2>3, <2>4 DEF Sound
  <2> HIDE DEF q
  <2>6. request' = [request EXCEPT ![r] = q]
    BY <2>1 DEF q
  <2>7. QED
    BY <1>4, <2>5, <2>6
<1>8. QED
  BY <1>5, <1>6, <1>7

-----------------------------------------------------------------------------
(* The budget                                                              *)

LEMMA EventsFinite == IsFiniteSet(Events)
  BY AccountingAssumption, FS_Interval DEF Events

LEMMA CostsAreNatural ==
    /\ \A row \in Event : row.cost \in Nat
    /\ \A q \in Request : q.cost \in Nat
<1>1. \A c \in Costs \cup {0} : c \in Nat
  BY AccountingAssumption
<1>2. /\ \A row \in Event : row.cost \in Costs \cup {0}
      /\ \A q \in Request : q.cost \in Costs \cup {0}
  BY DEF Event, Request
<1>3. QED
  BY <1>1, <1>2

LEMMA BudgetTypes ==
    ASSUME TypeOK
    PROVE  /\ Paid \in SUBSET Events /\ IsFiniteSet(Paid)
           /\ \A e \in Events : Estimates[e] = event[e].cost /\ Estimates[e] \in Nat
           /\ InFlight \in SUBSET Requests /\ IsFiniteSet(InFlight)
           /\ \A r \in Requests : request[r].cost \in Nat
           /\ Spent \in Nat /\ Owed \in Nat
<1>1. Paid \in SUBSET Events /\ InFlight \in SUBSET Requests
  BY AccountingAssumption DEF Paid, InFlight, TypeOK, Events
<1>2. IsFiniteSet(Paid) /\ IsFiniteSet(InFlight)
  BY <1>1, EventsFinite, AccountingAssumption, FS_Subset
<1>3. \A e \in Events : Estimates[e] = event[e].cost /\ Estimates[e] \in Nat
  BY CostsAreNatural DEF Estimates, TypeOK
<1>4. \A r \in Requests : request[r].cost \in Nat
  BY CostsAreNatural DEF TypeOK
<1>5. Spent \in Nat
  <2>1. \A e \in Paid : Estimates[e] \in Nat
    BY <1>1, <1>3
  <2>2. QED
    BY <1>2, <2>1, SumNat DEF Spent
<1>6. Owed \in Nat
  <2> DEFINE cost == [r \in Requests |-> request[r].cost]
  <2>1. \A r \in InFlight : cost[r] \in Nat
    BY <1>1, <1>4
  <2> HIDE DEF cost
  <2>2. SumOver(cost, InFlight) \in Nat
    BY <1>2, <2>1, SumNat
  <2>3. QED
    BY <2>2 DEF Owed, cost
<1>7. QED
  BY <1>1, <1>2, <1>3, <1>4, <1>5, <1>6

\* A flush writes neither what an event cost nor who answered it.
LEMMA SpentKept ==
    ASSUME TypeOK, TypeOK', recorded' = recorded,
           \A e \in Events : event'[e].cost = event[e].cost /\ event'[e].openai = event[e].openai
    PROVE  Spent' = Spent
<1>1. Paid \in SUBSET Events /\ IsFiniteSet(Paid)
  BY BudgetTypes
<1>2. Paid' = Paid
  BY AccountingAssumption DEF Paid, TypeOK, Events
<1>3. \A e \in Events : Estimates'[e] = Estimates[e]
  BY DEF Estimates
<1>4. SumOver(Estimates', Paid) = SumOver(Estimates, Paid)
  BY <1>1, <1>3, SumSame
<1>5. QED
  BY <1>2, <1>4 DEF Spent

LEMMA SpentMore ==
    ASSUME TypeOK, TypeOK', NEW paid \in BOOLEAN, NEW cost \in Costs \cup {0},
           Record(paid, cost)
    PROVE  Spent' = IF paid THEN Spent + cost ELSE Spent
<1> DEFINE new == recorded + 1
<1>1. new \in Events /\ recorded' = new /\ recorded \in Nat
  BY AccountingAssumption DEF Record, TypeOK, Events
<1>2. /\ event'[new] = NewEvent(paid, cost)
      /\ \A e \in Events : e # new => event'[e] = event[e]
  BY <1>1 DEF Record, TypeOK
<1>3. new \notin Paid /\ Paid' = IF paid THEN Paid \cup {new} ELSE Paid
  <2>1. 1..recorded' = (1..recorded) \cup {new} /\ new \notin 1..recorded
    BY <1>1
  <2>2. \A e \in 1..recorded : e \in Events /\ event'[e] = event[e]
    <3>1. \A e \in 1..recorded : e \in Events /\ e # new
      BY <1>1, AccountingAssumption DEF Events
    <3>2. QED
      BY <1>2, <3>1
  <2>3. event'[new].openai = paid
    BY <1>2 DEF NewEvent
  <2>4. QED
    BY <2>1, <2>2, <2>3 DEF Paid
<1>4. /\ Paid \in SUBSET Events /\ IsFiniteSet(Paid) /\ IsFiniteSet(Paid')
      /\ \A e \in Paid : Estimates'[e] = Estimates[e]
      /\ \A e \in Paid' : Estimates'[e] \in Int
  <2>1. Paid \in SUBSET Events /\ IsFiniteSet(Paid)
    BY BudgetTypes
  <2>2. IsFiniteSet(Paid') /\ Paid' \in SUBSET Events /\ \A e \in Events : Estimates'[e] \in Nat
    <3>1. IsFiniteSet(Paid')
      BY <1>3, <2>1, FS_AddElement
    <3>2. \A e \in Events : event'[e].cost \in Nat
      BY CostsAreNatural DEF TypeOK
    <3>3. QED
      BY <1>1, <1>3, <2>1, <3>1, <3>2 DEF Estimates
  <2>3. \A e \in Paid : Estimates'[e] = Estimates[e]
    BY <1>2, <1>3, <2>1 DEF Estimates
  <2>4. QED
    BY <2>1, <2>2, <2>3
<1>5. SumOver(Estimates', Paid) = Spent
  BY <1>4, SumSame DEF Spent
<1>6. CASE paid
  <2>1. Estimates'[new] = cost
    BY <1>1, <1>2 DEF Estimates, NewEvent
  <2>2. new \in Paid' /\ Paid' \ {new} = Paid
    BY <1>3, <1>6
  <2>3. Spent' = Estimates'[new] + SumOver(Estimates', Paid' \ {new})
    BY <1>4, <2>2, SumRemove DEF Spent
  <2>4. Spent \in Nat /\ cost \in Nat
    BY BudgetTypes, AccountingAssumption
  <2>5. SumOver(Estimates', Paid' \ {new}) = Spent
    BY <1>5, <2>2
  <2> HIDE DEF new
  <2>6. Spent' = cost + Spent
    BY <2>1, <2>3, <2>5
  <2>7. QED
    BY <1>6, <2>4, <2>6
<1>7. CASE ~paid
  BY <1>3, <1>5, <1>7 DEF Spent
<1>8. QED
  BY <1>6, <1>7

\* Who is in flight, and with what, is as before, but for the request r.
LEMMA OwedKept ==
    ASSUME TypeOK, TypeOK', InFlight' = InFlight,
           \A r \in InFlight : request'[r].cost = request[r].cost
    PROVE  Owed' = Owed
<1> DEFINE cost == [r \in Requests |-> request[r].cost]
           after == [r \in Requests |-> request'[r].cost]
<1>1. InFlight \in SUBSET Requests /\ IsFiniteSet(InFlight)
  BY BudgetTypes
<1>2. \A r \in InFlight : after[r] = cost[r]
  BY <1>1
<1>3. Owed' = SumOver(after, InFlight) /\ Owed = SumOver(cost, InFlight)
  BY DEF Owed
<1> HIDE DEF cost, after
<1>4. SumOver(after, InFlight) = SumOver(cost, InFlight)
  BY <1>1, <1>2, SumSame
<1>5. QED
  BY <1>3, <1>4

LEMMA OwedBound ==
    ASSUME TypeOK, NEW c \in Nat, \A r \in InFlight : request[r].cost <= c
    PROVE  Owed <= Cardinality(InFlight) * c
<1> DEFINE cost == [r \in Requests |-> request[r].cost]
<1>1. InFlight \in SUBSET Requests /\ IsFiniteSet(InFlight)
  BY BudgetTypes
<1>2. \A r \in InFlight : cost[r] \in 0..c
  BY <1>1, BudgetTypes
<1> HIDE DEF cost
<1>3. SumOver(cost, InFlight) <= Cardinality(InFlight) * c
  BY <1>1, <1>2, SumBound
<1>4. QED
  BY <1>3 DEF Owed, cost

LEMMA OwedMore ==
    ASSUME TypeOK, NEW r \in Requests, NEW after \in [Requests -> Nat],
           NEW flying, r \notin InFlight, flying = InFlight \cup {r},
           \A s \in InFlight : after[s] = request[s].cost
    PROVE  SumOver(after, flying) = Owed + after[r]
<1> DEFINE cost == [s \in Requests |-> request[s].cost]
<1>1. InFlight \in SUBSET Requests /\ IsFiniteSet(InFlight) /\ Owed \in Nat
  BY BudgetTypes
<1>2. /\ IsFiniteSet(flying) /\ r \in flying /\ flying \ {r} = InFlight
      /\ \A s \in flying : after[s] \in Int
  BY <1>1, FS_AddElement
<1>3. \A s \in InFlight : after[s] = cost[s]
  BY <1>1
<1>4. Owed = SumOver(cost, InFlight)
  BY DEF Owed
<1> HIDE DEF cost
<1>5. SumOver(after, InFlight) = Owed
  BY <1>1, <1>3, <1>4, SumSame
<1>6. SumOver(after, flying) = after[r] + SumOver(after, InFlight)
  BY <1>2, SumRemove
<1>7. after[r] \in Nat
  OBVIOUS
<1>8. QED
  BY <1>1, <1>5, <1>6, <1>7

\* A reconciliation touches neither what is spent nor what is in flight.
LEMMA ReconcileSpendsNothing ==
    ASSUME TypeOK, NEW r \in Requests, Reconcile(r)
    PROVE  /\ recorded' = recorded
           /\ \A e \in Events : /\ event'[e].cost = event[e].cost
                                /\ event'[e].openai = event[e].openai
           /\ request[r].stage # "record" /\ request'[r].stage # "record"
           /\ \A s \in Requests : s # r => request'[s] = request[s]
<1> DEFINE q == request[r]
<1>1. q \in Request
  BY DEF TypeOK
<1>2. ASSUME ~CommitEvents(r)
      PROVE  event' = event
  BY <1>2 DEF Reconcile, BeginReconcile, CreateRun, FetchCosts, Allocate, LoadEvent,
              CompleteRun, FailRun, FailRunBroken
<1>3. ASSUME CommitEvents(r), NEW e \in Events
      PROVE  event'[e].cost = event[e].cost /\ event'[e].openai = event[e].openai
  <2> DEFINE after == Flushed(event[e], q.loaded[e], Reconciled(q, e))
  <2>1. event[e] \in Event /\ q.loaded[e] \in Event /\ Reconciled(q, e) \in Event
    BY <1>1, ReconciledEvent DEF TypeOK, Request
  <2>2. Reconciled(q, e).cost = q.loaded[e].cost /\ Reconciled(q, e).openai = q.loaded[e].openai
    BY <2>1 DEF Reconciled, Event
  <2>3. after.cost = event[e].cost /\ after.openai = event[e].openai
    BY <2>1, <2>2, FlushedEvent
  <2> HIDE DEF after
  <2>4. event'[e] \in {event[e], after}
    BY <1>3 DEF CommitEvents, WriteEvents, after
  <2>5. QED
    BY <2>3, <2>4
<1>4. \E p : p.stage # "record" /\ request' = [request EXCEPT ![r] = p]
  <2> DEFINE GoesOn == \E p : p.stage # "record" /\ request' = [request EXCEPT ![r] = p]
  <2>1. ASSUME NEW p, p.stage # "record", request' = [request EXCEPT ![r] = p]
        PROVE  GoesOn
    BY <2>1
  <2>2. ASSUME NEW stage, stage # "record", Goto(r, stage)
        PROVE  GoesOn
    <3>1. [q EXCEPT !.stage = stage].stage # "record"
      BY <1>1, <2>2 DEF Request
    <3>2. QED
      BY <2>2, <3>1 DEF Goto
  <2>3. CASE Close(r)
    BY <2>3 DEF Close, Idle, NewSession
  <2>4. ASSUME NEW first \in Events, NEW last \in Events, BeginReconcile(r, first, last)
        PROVE  GoesOn
    <3>1. PICK listed : request' = [request EXCEPT ![r] = [NewSession("create") EXCEPT !.listed = listed]]
      BY <2>4 DEF BeginReconcile
    <3>2. [NewSession("create") EXCEPT !.listed = listed].stage # "record"
      BY DEF NewSession
    <3>3. QED
      BY <3>1, <3>2
  <2>5. ASSUME NEW x \in Runs, CreateRun(r, x)
        PROVE  GoesOn
    <3>1. [q EXCEPT !.stage = "fetch", !.run = x].stage # "record"
      BY <1>1 DEF Request
    <3>2. QED
      BY <2>5, <3>1 DEF CreateRun
  <2>6. CASE FetchCosts(r)
    <3>1. \A total : [q EXCEPT !.stage = "allocate", !.total = total].stage # "record"
      BY <1>1 DEF Request
    <3>2. QED
      BY <2>2, <2>6, <3>1 DEF FetchCosts
  <2>7. CASE Allocate(r)
    <3>1. \A unread, share :
              [q EXCEPT !.stage = "load", !.unread = unread, !.share = share].stage # "record"
      BY <1>1 DEF Request
    <3>2. QED
      BY <2>2, <2>7, <3>1 DEF Allocate
  <2>8. CASE LoadEvent(r)
    <3>1. \A unread, e :
              [q EXCEPT !.unread = unread, !.loaded[e] = event[e]].stage # "record"
      BY <1>1, <2>8 DEF Request, LoadEvent
    <3>2. QED
      BY <2>8, <3>1 DEF LoadEvent
  <2>9. CASE CommitEvents(r)
    BY <2>2, <2>9 DEF CommitEvents
  <2>10. CASE CompleteRun(r) \/ FailRun(r) \/ FailRunBroken(r)
    BY <2>2, <2>3, <2>10 DEF CompleteRun, FailRun, FailRunBroken
  <2>11. QED
    BY <2>4, <2>5, <2>6, <2>7, <2>8, <2>9, <2>10 DEF Reconcile
<1>5. request'[r].stage # "record" /\ q.stage # "record"
  <2>1. request'[r].stage # "record"
    BY <1>4 DEF TypeOK
  <2>2. q.stage # "record"
    <3>1. \A first, last : BeginReconcile(r, first, last) => q.stage = "idle"
      BY DEF BeginReconcile, Idle, NewSession
    <3>2. \A x : CreateRun(r, x) => q.stage = "create"
      BY DEF CreateRun
    <3>3. FetchCosts(r) \/ Allocate(r) \/ LoadEvent(r) \/ CommitEvents(r) =>
              q.stage \in {"fetch", "allocate", "load"}
      BY DEF FetchCosts, Allocate, LoadEvent, CommitEvents
    <3>4. CompleteRun(r) \/ FailRun(r) \/ FailRunBroken(r) =>
              q.stage \in {"complete", "fail", "broken"}
      BY DEF CompleteRun, FailRun, FailRunBroken
    <3> HIDE DEF q
    <3>5. QED
      BY <3>1, <3>2, <3>3, <3>4 DEF Reconcile
  <2>3. QED
    BY <2>1, <2>2
<1>6. recorded' = recorded
  BY DEF Reconcile, BeginReconcile, CreateRun, FetchCosts, Allocate, LoadEvent, CommitEvents,
         CompleteRun, FailRun, FailRunBroken
<1>7. \A s \in Requests : s # r => request'[s] = request[s]
  BY <1>4 DEF TypeOK
<1>8. QED
  BY <1>2, <1>3, <1>5, <1>6, <1>7

\* What has passed the check is spent.
LEMMA BudgetKept ==
    ASSUME TypeOK, TypeOK', BudgetInv, [Next]_vars
    PROVE  BudgetInv'
<1> DEFINE limit == Monthly + (Cardinality(Requests) - 1) * Single
<1>1. /\ InFlight \in SUBSET Requests /\ IsFiniteSet(InFlight)
      /\ Spent \in Nat /\ Owed \in Nat
  BY BudgetTypes
<1>2. /\ \A s \in InFlight : request[s].cost \in Nat /\ request[s].cost <= Single
      /\ Spent + Owed <= limit
  BY <1>1, CostsAreNatural DEF BudgetInv, TypeOK
<1>3. Monthly \in Nat /\ Single \in Nat /\ Cardinality(Requests) \in Nat \ {0} /\ limit \in Int
  <2>1. Cardinality(Requests) \in Nat \ {0}
    BY AccountingAssumption, FS_CardinalityType, FS_EmptySet
  <2>2. QED
    BY <2>1, AccountingAssumption
<1>4. ASSUME Spent' = Spent, InFlight' = InFlight,
             \A s \in InFlight : request'[s].cost = request[s].cost
      PROVE  BudgetInv'
  BY <1>2, <1>4, OwedKept DEF BudgetInv
<1>5. CASE RunLocally
  <2>1. Spent' = Spent
    BY <1>5, SpentMore DEF RunLocally
  <2>2. InFlight' = InFlight /\ request' = request
    BY <1>5 DEF RunLocally, InFlight
  <2>3. QED
    BY <1>4, <2>1, <2>2
<1>6. ASSUME NEW r \in Requests, NEW cost \in Costs, EnforceBudget(r, cost)
      PROVE  BudgetInv'
  <2> DEFINE after == [s \in Requests |-> request'[s].cost]
  <2>1. /\ request'[r].cost = cost /\ request'[r].stage = "record"
        /\ \A s \in Requests : s # r => request'[s] = request[s]
    BY <1>6 DEF EnforceBudget, TypeOK, NewSession
  <2>2. r \notin InFlight
    BY <1>6 DEF EnforceBudget, InFlight, Idle, NewSession
  <2>3. InFlight' = InFlight \cup {r}
    BY <2>1 DEF InFlight
  <2>4. cost \in Nat /\ cost <= Single /\ Spent + cost <= Monthly
    BY <1>6, AccountingAssumption DEF EnforceBudget
  <2>5. after \in [Requests -> Nat] /\ after[r] = cost
    BY <2>1, CostsAreNatural DEF TypeOK
  <2>6. \A s \in InFlight : after[s] = request[s].cost
    BY <1>1, <2>1, <2>2
  <2>7. Owed' = SumOver(after, InFlight')
    BY DEF Owed
  <2> HIDE DEF after
  <2>8. Owed' = Owed + cost
    BY <2>2, <2>3, <2>5, <2>6, <2>7, OwedMore
  <2>9. Spent' = Spent
    BY <1>6, SpentKept DEF EnforceBudget
  <2>10. Owed <= (Cardinality(Requests) - 1) * Single
    <3>1. Cardinality(InFlight) \in Nat /\ Cardinality(InFlight) <= Cardinality(Requests) - 1
      BY <1>1, <2>2, AccountingAssumption, FS_RemoveElement, FS_Subset, FS_CardinalityType
    <3>2. Owed <= Cardinality(InFlight) * Single
      BY <1>1, <1>2, <1>3, OwedBound
    <3>3. \A a, b \in Nat : a <= b => a * Single <= b * Single
      BY <1>3
    <3>4. QED
      BY <1>1, <1>3, <3>1, <3>2, <3>3
  <2>11. Spent' + Owed' <= limit
    BY <1>1, <1>3, <2>4, <2>8, <2>9, <2>10
  <2>12. \A s \in InFlight' : request'[s].cost <= Single
    BY <1>1, <1>2, <2>1, <2>3, <2>4
  <2>13. QED
    BY <2>11, <2>12 DEF BudgetInv
<1>7. ASSUME NEW r \in Requests, RecordUsage(r)
      PROVE  BudgetInv'
  <2> DEFINE cost == request[r].cost
             before == [s \in Requests |-> request[s].cost]
  <2>1. /\ request'[r] = Idle
        /\ \A s \in Requests : s # r => request'[s] = request[s]
    BY <1>7 DEF RecordUsage, Close, TypeOK
  <2>2. r \in InFlight /\ InFlight' = InFlight \ {r}
    BY <1>7, <2>1 DEF RecordUsage, InFlight, Idle, NewSession
  <2>3. cost \in Costs \cup {0} /\ cost \in Nat
    BY CostsAreNatural DEF TypeOK, Request
  <2>4. Spent' = Spent + cost
    BY <1>7, <2>3, SpentMore DEF RecordUsage
  <2>5. Owed = cost + Owed'
    <3> DEFINE after == [s \in Requests |-> request'[s].cost]
    <3>1. \A s \in InFlight' : after[s] = before[s]
      BY <1>1, <2>1, <2>2
    <3>2. \A s \in InFlight : before[s] \in Int
      BY <1>1, <1>2
    <3>3. Owed = SumOver(before, InFlight) /\ Owed' = SumOver(after, InFlight') /\ before[r] = cost
      BY DEF Owed
    <3>4. IsFiniteSet(InFlight')
      BY <1>1, <2>2, FS_Subset
    <3> HIDE DEF before, after
    <3>5. SumOver(before, InFlight) = before[r] + SumOver(before, InFlight \ {r})
      BY <1>1, <2>2, <3>2, SumRemove
    <3>6. SumOver(after, InFlight') = SumOver(before, InFlight')
      BY <3>1, <3>4, SumSame
    <3>7. QED
      BY <2>2, <3>3, <3>5, <3>6
  <2>6. Owed' \in Int
    <3> DEFINE after == [s \in Requests |-> request'[s].cost]
    <3>1. IsFiniteSet(InFlight') /\ InFlight' \in SUBSET Requests
      BY <1>1, <2>2, FS_Subset
    <3>2. \A s \in InFlight' : after[s] \in Int
      BY <3>1, CostsAreNatural DEF TypeOK
    <3> HIDE DEF after
    <3>3. SumOver(after, InFlight') \in Int
      BY <3>1, <3>2, SumInt
    <3>4. QED
      BY <3>3 DEF Owed, after
  <2> HIDE DEF cost
  <2>7. Spent' + Owed' <= limit
    BY <1>1, <1>2, <2>3, <2>4, <2>5, <2>6
  <2>8. \A s \in InFlight' : request'[s].cost <= Single
    BY <1>1, <1>2, <2>1, <2>2
  <2>9. QED
    BY <2>7, <2>8 DEF BudgetInv
<1>8. ASSUME NEW r \in Requests, Reconcile(r)
      PROVE  BudgetInv'
  <2>1. Spent' = Spent
    BY <1>8, ReconcileSpendsNothing, SpentKept
  <2>2. InFlight' = InFlight /\ \A s \in InFlight : request'[s] = request[s]
    BY <1>8, ReconcileSpendsNothing DEF InFlight
  <2>3. QED
    BY <1>4, <2>1, <2>2
<1>9. CASE Restart
  <2>1. Spent' = Spent
    BY <1>9, SpentKept DEF Restart
  <2>2. InFlight' = {}
    BY <1>9 DEF Restart, InFlight, Idle, NewSession
  <2>3. Owed' = 0
    BY <2>2, FS_EmptySet, SumUnfold DEF Owed
  <2>4. QED
    BY <1>1, <1>2, <1>3, <2>1, <2>2, <2>3 DEF BudgetInv
<1>10. CASE UNCHANGED vars
  <2>1. Spent' = Spent /\ InFlight' = InFlight /\ request' = request
    BY <1>10 DEF vars, Spent, Paid, Estimates, InFlight
  <2>2. QED
    BY <1>4, <2>1
<1>11. QED
  BY <1>5, <1>6, <1>7, <1>8, <1>9, <1>10 DEF Next

-----------------------------------------------------------------------------
(* The allocation                                                          *)

LEMMA GreatestEvent ==
    ASSUME NEW S \in SUBSET Events, S # {}
    PROVE  Max(S) \in S
<1> DEFINE Has(T) == T # {} => \E x \in T : \A y \in T : y <= x
           Good == {T \in SUBSET S : Has(T)}
<1>1. \A x \in S : x \in Nat
  BY DEF Events
<1>2. ASSUME NEW T \in SUBSET S, \A x \in T : T \ {x} \in Good
      PROVE  T \in Good
  <2> SUFFICES ASSUME T # {} PROVE \E x \in T : \A y \in T : y <= x
    OBVIOUS
  <2>1. PICK a : a \in T
    OBVIOUS
  <2>2. Has(T \ {a})
    BY <1>2, <2>1
  <2>3. CASE T \ {a} = {}
    BY <1>1, <2>1, <2>3
  <2>4. CASE T \ {a} # {}
    <3>1. PICK b \in T \ {a} : \A y \in T \ {a} : y <= b
      BY <2>2, <2>4
    <3>2. a \in Nat /\ b \in Nat /\ \A y \in T : y \in Nat
      BY <1>1, <2>1, <3>1
    <3>3. \A y \in T : y = a \/ y <= b
      BY <3>1
    <3>4. (\A y \in T : y <= a) \/ (\A y \in T : y <= b)
      BY <3>2, <3>3
    <3>5. QED
      BY <2>1, <3>1, <3>4
  <2>5. QED
    BY <2>3, <2>4
<1>3. IsFiniteSet(S)
  BY EventsFinite, FS_Subset
<1> HIDE DEF Good
<1>4. S \in Good
  BY <1>2, <1>3, FiniteSetInduction
<1>5. PICK x \in S : \A y \in S : y <= x
  BY <1>4 DEF Good
<1>6. \A y \in S : x >= y
  BY <1>1, <1>5
<1>7. QED
  BY <1>5, <1>6 DEF Max

\* The last event gets what the others leave, so the shares of all of them are
\* the total, however the others were rounded.
LEMMA SharesAddUp ==
    ASSUME NEW events \in SUBSET Events, events # {}, NEW total \in Nat,
           NEW share \in Shares(events, total)
    PROVE  /\ share \in [events -> Int]
           /\ SumOver(share, events) = total
<1> DEFINE last == Max(events)
           others == events \ {last}
<1>1. IsFiniteSet(events) /\ IsFiniteSet(others) /\ last \in events
  BY EventsFinite, FS_Subset, GreatestEvent
<1>2. share \in [events -> Int]
  BY DEF Shares
<1>3. PICK s \in [others -> 0..total] :
          share = [e \in events |-> IF e = last THEN Remainder(events, total, s) ELSE s[e]]
  BY DEF Shares
<1>4. SumOver(share, others) = SumOver(s, others)
  <2>1. \A e \in others : share[e] = s[e]
    BY <1>3
  <2> HIDE DEF others
  <2>2. QED
    BY <1>1, <2>1, SumSame
<1>5. share[last] = total - SumOver(s, others)
  BY <1>1, <1>3 DEF Remainder
<1>6. SumOver(share, events) = share[last] + SumOver(share, others)
  <2>1. \A e \in events : share[e] \in Int
    BY <1>2
  <2> HIDE DEF last
  <2>2. QED
    BY <1>1, <2>1, SumRemove
<1>7. SumOver(s, others) \in Int
  <2>1. \A e \in others : s[e] \in Int
    OBVIOUS
  <2> HIDE DEF others
  <2>2. QED
    BY <1>1, <2>1, SumInt
<1> HIDE DEF last, others
<1>8. QED
  BY <1>2, <1>4, <1>5, <1>6, <1>7

LEMMA ApartSymmetric == ASSUME NEW q, NEW p, Apart(q, p) PROVE Apart(p, q)
  BY DEF Apart

\* A session without a run that has listed estimates only.
LEMMA FreshAllocating ==
    ASSUME NEW q, q.run = NoRun, q.stage \in {"idle", "record", "create"},
           q.loaded = NoEvents, q.listed \in SUBSET Events,
           \A e \in q.listed : event[e].status \notin Done
    PROVE  /\ Allocating(q)
           /\ \A p : Apart(q, p)
<1>1. \A e \in Events : NoEvents[e].status \notin Done
  BY NewEventType DEF NoEvents
<1>2. QED
  BY <1>1 DEF Allocating, Apart, Pending

LEMMA IdleAllocating == Allocating(Idle) /\ \A p : Apart(Idle, p)
  BY FreshAllocating DEF Idle, NewSession

\* A step of session r that writes no event and changes at most the run x, which
\* is no other's.
LEMMA RunAllocated ==
    ASSUME TypeOK, AllocationInv, event' = event, NEW r \in Requests, NEW q,
           request' = [request EXCEPT ![r] = q],
           NEW x, \A y \in Runs : y # x => run'[y] = run[y],
           \A s \in Requests : s # r /\ request[s].run # NoRun => request[s].run # x,
           Allocating(q)', \A s \in Requests : s # r => Apart(q, request[s]),
           x \in Runs /\ run'[x].status = "completed" /\ run'[x].covers # {}
             /\ (\A e \in run'[x].covers : event[e].run = x)
             => SumOver([e \in Events |-> event[e].final], run'[x].covers) = run'[x].final
    PROVE  AllocationInv'
<1>1. \A t \in Requests : request'[t] = IF t = r THEN q ELSE request[t]
  BY DEF TypeOK
<1>2. RunIsAllocated'
  BY DEF AllocationInv, RunIsAllocated
<1>3. ASSUME NEW t \in Requests PROVE Allocating(request[t])'
  <2>1. CASE t = r
    BY <1>1, <2>1
  <2>2. CASE t # r
    <3>1. PICK s \in Request : s = request[t] /\ Allocating(s)
      BY DEF TypeOK, AllocationInv
    <3>2. s.run # NoRun => s.run \in Runs /\ run'[s.run] = run[s.run]
      BY <2>2, <3>1 DEF Request
    <3>3. Allocating(s)'
      BY <3>1, <3>2 DEF Allocating, Pending
    <3>4. QED
      BY <1>1, <2>2, <3>1, <3>3
  <2>3. QED
    BY <2>1, <2>2
<1>4. ASSUME NEW t \in Requests, NEW u \in Requests, t # u
      PROVE  Apart(request[t], request[u])'
  <2>1. Apart(request'[t], request'[u])
    BY <1>1, <1>4, ApartSymmetric DEF AllocationInv
  <2>2. \A p, s : Apart(p, s) => Apart(p, s)'
    BY DEF Apart
  <2>3. PICK p, s : p = request'[t] /\ s = request'[u]
    OBVIOUS
  <2>4. Apart(p, s)'
    BY <2>1, <2>2, <2>3
  <2>5. QED
    BY <2>3, <2>4
<1>5. QED
  BY <1>2, <1>3, <1>4 DEF AllocationInv

\* A step of session r that writes neither events nor runs.
LEMMA QuietAllocated ==
    ASSUME TypeOK, AllocationInv, UNCHANGED <<event, run>>, NEW r \in Requests, NEW q,
           request' = [request EXCEPT ![r] = q],
           Allocating(q), \A s \in Requests : s # r => Apart(q, request[s])
    PROVE  AllocationInv'
<1>1. Allocating(q)'
  BY DEF Allocating
<1>2. PICK x : x = NoRun
  OBVIOUS
<1>3. x \notin Runs /\ \A y \in Runs : y # x => run'[y] = run[y]
  BY <1>2, AccountingAssumption
<1>4. \A s \in Requests : s # r /\ request[s].run # NoRun => request[s].run # x
  BY <1>2
<1>5. QED
  BY <1>1, <1>3, <1>4, RunAllocated

\* It goes on with its run and the events it has listed, and writes nothing more
\* than before.
LEMMA SameRunAllocated ==
    ASSUME TypeOK, AllocationInv, UNCHANGED <<event, run>>, NEW r \in Requests, NEW q,
           request' = [request EXCEPT ![r] = q], Allocating(q),
           q.run = request[r].run, q.listed = request[r].listed,
           Pending(q) => Pending(request[r])
    PROVE  AllocationInv'
<1>1. \A s \in Requests : s # r => Apart(q, request[s])
  <2> SUFFICES ASSUME NEW s \in Requests, s # r PROVE Apart(q, request[s])
    OBVIOUS
  <2>1. Apart(request[r], request[s])
    BY DEF AllocationInv
  <2>2. QED
    BY <2>1 DEF Apart
<1>2. QED
  BY <1>1, QuietAllocated

LEMMA ClosedAllocated ==
    ASSUME TypeOK, AllocationInv, UNCHANGED <<event, run>>, NEW r \in Requests, Close(r)
    PROVE  AllocationInv'
  BY IdleAllocating, QuietAllocated DEF Close

LEMMA GoneAllocated ==
    ASSUME TypeOK, AllocationInv, UNCHANGED <<event, run>>, NEW r \in Requests,
           Goto(r, "fail") \/ Goto(r, "broken")
    PROVE  AllocationInv'
<1>1. PICK s \in Request : s = request[r] /\ Allocating(s)
  BY DEF TypeOK, AllocationInv
<1>2. ASSUME NEW stage \in {"fail", "broken"}, Goto(r, stage)
      PROVE  AllocationInv'
  <2> DEFINE q == [s EXCEPT !.stage = stage]
  <2>1. /\ q.stage = stage /\ q.run = s.run /\ q.listed = s.listed
    BY DEF Request
  <2>2. request' = [request EXCEPT ![r] = q]
    BY <1>1, <1>2 DEF Goto
  <2> HIDE DEF q
  <2>3. Allocating(q) /\ ~Pending(q)
    BY <1>1, <2>1 DEF Allocating, Pending
  <2>4. QED
    BY <1>1, <2>1, <2>2, <2>3, SameRunAllocated
<1>3. QED
  BY <1>2

\* Selecting, allocating and loading.
LEMMA WorkAllocated ==
    ASSUME TypeOK, AllocationInv, NEW r \in Requests,
           FetchCosts(r) \/ Allocate(r) \/ LoadEvent(r)
    PROVE  AllocationInv'
<1>1. PICK s \in Request : s = request[r] /\ Allocating(s)
  BY DEF TypeOK, AllocationInv
<1>2. UNCHANGED <<event, run>> /\ Pending(s)
  BY <1>1 DEF FetchCosts, Allocate, LoadEvent, Pending
<1>3. ASSUME NEW q, Allocating(q), request' = [request EXCEPT ![r] = q],
             q.run = s.run, q.listed = s.listed
      PROVE  AllocationInv'
  BY <1>1, <1>2, <1>3, SameRunAllocated
<1>4. CASE FetchCosts(r)
  <2>1. CASE Goto(r, "fail")
    BY <1>2, <2>1, GoneAllocated
  <2>2. ASSUME NEW total, request' = [request EXCEPT ![r] =
                                        [s EXCEPT !.stage = "allocate", !.total = total]]
        PROVE  AllocationInv'
    <3> DEFINE q == [s EXCEPT !.stage = "allocate", !.total = total]
    <3>1. /\ q.stage = "allocate" /\ q.run = s.run /\ q.listed = s.listed
          /\ q.loaded = s.loaded
      BY DEF Request
    <3>2. request' = [request EXCEPT ![r] = q]
      BY <2>2
    <3> HIDE DEF q
    <3>3. Allocating(q)
      BY <1>1, <1>2, <3>1 DEF Allocating, Pending
    <3>4. QED
      BY <1>3, <3>1, <3>2, <3>3
  <2>3. QED
    BY <1>1, <1>4, <2>1, <2>2 DEF FetchCosts
<1>5. CASE Allocate(r)
  <2>1. ASSUME NEW unread, NEW share,
               request' = [request EXCEPT ![r] =
                             [s EXCEPT !.stage = "load", !.unread = unread, !.share = share]],
               s.listed # {} => SumOver(share, s.listed) = s.total
        PROVE  AllocationInv'
    <3> DEFINE q == [s EXCEPT !.stage = "load", !.unread = unread, !.share = share]
    <3>1. /\ q.stage = "load" /\ q.run = s.run /\ q.listed = s.listed
          /\ q.loaded = s.loaded /\ q.share = share /\ q.total = s.total
      BY DEF Request
    <3>2. request' = [request EXCEPT ![r] = q]
      BY <2>1
    <3> HIDE DEF q
    <3>3. Allocating(q)
      BY <1>1, <1>2, <2>1, <3>1 DEF Allocating, Pending
    <3>4. QED
      BY <1>3, <3>1, <3>2, <3>3
  <2>2. CASE s.listed = {}
    <3>1. request' = [request EXCEPT ![r] = [s EXCEPT !.stage = "load"]]
      BY <1>1, <1>5, <2>2 DEF Allocate, Goto
    <3>2. [s EXCEPT !.stage = "load"] =
              [s EXCEPT !.stage = "load", !.unread = s.unread, !.share = s.share]
      BY DEF Request
    <3>3. QED
      BY <2>1, <2>2, <3>1, <3>2
  <2>3. CASE s.listed # {}
    <3> DEFINE listed == request[r].listed
    <3>1. PICK share \in Shares(listed, request[r].total) :
             request' = [request EXCEPT ![r] = [request[r] EXCEPT
                 !.stage = "load", !.unread = listed,
                 !.share = [e \in Events |-> IF e \in listed THEN share[e] ELSE 0]]]
      BY <1>1, <1>5, <2>3 DEF Allocate
    <3>2. PICK given : given = [e \in Events |-> IF e \in listed THEN share[e] ELSE 0]
      OBVIOUS
    <3>3. /\ s.listed \in SUBSET Events /\ s.total \in Nat
          /\ share \in Shares(s.listed, s.total)
      BY <1>1, <3>1 DEF Request
    <3>4. SumOver(share, s.listed) = s.total
      BY <2>3, <3>3, SharesAddUp
    <3>5. IsFiniteSet(s.listed) /\ \A e \in s.listed : given[e] = share[e]
      BY <1>1, <3>2, <3>3, EventsFinite, FS_Subset
    <3>6. request' = [request EXCEPT ![r] =
                        [request[r] EXCEPT !.stage = "load", !.unread = listed, !.share = given]]
      BY <3>1, <3>2
    <3>7. SumOver(given, s.listed) = s.total
      BY <3>4, <3>5, SumSame
    <3>8. request' = [request EXCEPT ![r] =
                        [s EXCEPT !.stage = "load", !.unread = s.listed, !.share = given]]
      BY <1>1, <3>6
    <3>9. QED
      BY <2>1, <3>7, <3>8
  <2>4. QED
    BY <2>2, <2>3
<1>6. CASE LoadEvent(r)
  <2>1. PICK e, unread : request' = [request EXCEPT ![r] =
                                        [s EXCEPT !.unread = unread, !.loaded[e] = event[e]]]
    BY <1>1, <1>6 DEF LoadEvent
  <2> DEFINE q == [s EXCEPT !.unread = unread, !.loaded[e] = event[e]]
  <2>2. q.loaded = [s.loaded EXCEPT ![e] = event[e]] /\ s.loaded \in [Events -> Event]
    BY DEF Request
  <2>3. \A d \in Events : q.loaded[d] = event[d] \/ q.loaded[d] = s.loaded[d]
    BY <2>2
  <2>4. /\ q.stage = s.stage /\ q.run = s.run /\ q.listed = s.listed
        /\ q.share = s.share /\ q.total = s.total /\ s.listed \in SUBSET Events
    BY DEF Request
  <2> HIDE DEF q
  <2>5. Allocating(q)
    BY <1>1, <1>2, <2>3, <2>4 DEF Allocating, Pending
  <2>6. request' = [request EXCEPT ![r] = q]
    BY <2>1 DEF q
  <2>7. QED
    BY <1>3, <2>4, <2>5, <2>6
<1>7. QED
  BY <1>4, <1>5, <1>6

\* A new session, of a request within the budget or of a reconciliation.
LEMMA StartAllocated ==
    ASSUME TypeOK, AllocationInv, UNCHANGED <<event, run>>, NEW r \in Requests,
           \/ \E cost \in Costs : EnforceBudget(r, cost)
           \/ \E first, last \in Events : BeginReconcile(r, first, last)
    PROVE  AllocationInv'
<1>1. ASSUME NEW q, request' = [request EXCEPT ![r] = q], q.run = NoRun,
             q.stage \in {"record", "create"}, q.loaded = NoEvents, q.listed \in SUBSET Events,
             \A e \in q.listed : event[e].status \notin Done
      PROVE  AllocationInv'
  BY <1>1, FreshAllocating, QuietAllocated
<1>2. ASSUME NEW cost \in Costs, EnforceBudget(r, cost)
      PROVE  AllocationInv'
  <2> DEFINE q == [NewSession("record") EXCEPT !.cost = cost]
  <2>1. /\ q.run = NoRun /\ q.stage = "record" /\ q.loaded = NoEvents /\ q.listed = {}
        /\ request' = [request EXCEPT ![r] = q]
    BY <1>2 DEF EnforceBudget, NewSession
  <2> HIDE DEF q
  <2>2. QED
    BY <1>1, <2>1
<1>3. ASSUME NEW first \in Events, NEW last \in Events, BeginReconcile(r, first, last)
      PROVE  AllocationInv'
  <2> DEFINE listed == {e \in (first..last) \cap (1..recorded) : event[e].status = "estimated"}
  <2>1. listed \in SUBSET Events /\ \A e \in listed : event[e].status \notin Done
    BY AccountingAssumption DEF Events, TypeOK, Done
  <2> DEFINE q == [NewSession("create") EXCEPT !.listed = listed]
  <2>2. request' = [request EXCEPT ![r] = q]
    BY <1>3 DEF BeginReconcile
  <2>3. q.run = NoRun /\ q.stage = "create" /\ q.loaded = NoEvents /\ q.listed = listed
    BY DEF NewSession
  <2> HIDE DEF q, listed
  <2>4. QED
    BY <1>1, <2>1, <2>2, <2>3
<1>4. QED
  BY <1>2, <1>3

LEMMA CreateAllocated ==
    ASSUME TypeOK, AccountingInv, AllocationInv, NEW r \in Requests, NEW x \in Runs,
           CreateRun(r, x)
    PROVE  AllocationInv'
<1>1. PICK s \in Request : s = request[r] /\ Sound(s) /\ Allocating(s)
  BY DEF TypeOK, AccountingInv, SessionInv, AllocationInv
<1> DEFINE q == [s EXCEPT !.stage = "fetch", !.run = x]
<1>2. /\ event' = event /\ request' = [request EXCEPT ![r] = q] /\ Pending(s)
      /\ \A y \in Runs : y # x => run'[y] = run[y]
      /\ run'[x].status = "running" /\ run[x].status = "none"
  BY <1>1 DEF CreateRun, Pending, TypeOK
<1>3. /\ q.stage = "fetch" /\ q.run = x /\ q.listed = s.listed /\ q.loaded = s.loaded
  BY DEF Request
<1> HIDE DEF q
<1>4. \A t \in Requests : request[t].run # NoRun => request[t].run # x
  BY <1>2 DEF AllocationInv, Allocating
<1>5. \A e \in Events : event[e].run # x
  BY <1>2, AccountingAssumption DEF AccountingInv, FinalCostHasRun, HasRun
<1>6. Allocating(q)'
  BY <1>1, <1>2, <1>3, <1>5 DEF Allocating, Pending
<1>7. \A t \in Requests : t # r => Apart(q, request[t])
  <2> SUFFICES ASSUME NEW t \in Requests, t # r PROVE Apart(q, request[t])
    OBVIOUS
  <2>1. Apart(s, request[t])
    BY <1>1 DEF AllocationInv
  <2>2. x # request[t].run
    BY <1>4, AccountingAssumption
  <2>3. QED
    BY <1>2, <1>3, <2>1, <2>2 DEF Apart
<1>8. QED
  BY <1>2, <1>4, <1>6, <1>7, RunAllocated

\* What a completed run has covered and still names it adds up to its total.
LEMMA CloseAllocated ==
    ASSUME TypeOK, AccountingInv, AllocationInv, NEW r \in Requests, CompleteRun(r) \/ FailRun(r)
    PROVE  AllocationInv'
<1>1. PICK s \in Request : s = request[r] /\ Sound(s) /\ Allocating(s)
  BY DEF TypeOK, AccountingInv, SessionInv, AllocationInv
<1>2. CASE Goto(r, "broken") /\ UNCHANGED <<event, run>>
  BY <1>2, GoneAllocated
<1>3. ASSUME NEW status \in {"completed", "failed"}, NEW final,
             status = "completed" => s.stage = "complete" /\ final = s.total,
             run' = [run EXCEPT ![s.run].status = status, ![s.run].final = final],
             Close(r), UNCHANGED event, s.stage \in {"complete", "fail"}
      PROVE  AllocationInv'
  <2>1. PICK x \in Runs : x = s.run /\ run[x] \in Run /\ run[x].covers = s.listed
    BY <1>1, <1>3 DEF Sound, Request, TypeOK
  <2>2. /\ \A y \in Runs : y # x => run'[y] = run[y]
        /\ run'[x].status = status /\ run'[x].final = final /\ run'[x].covers = s.listed
    BY <1>3, <2>1 DEF TypeOK, Run
  <2>3. \A t \in Requests : t # r /\ request[t].run # NoRun => request[t].run # x
    BY <1>1, <2>1, AccountingAssumption DEF AllocationInv, Apart
  <2>4. Allocating(Idle)' /\ \A t \in Requests : t # r => Apart(Idle, request[t])
    <3>1. Allocating(Idle)'
      BY DEF Allocating, Idle, NewSession, Pending
    <3>2. QED
      BY <3>1, IdleAllocating
  <2>5. request' = [request EXCEPT ![r] = Idle]
    BY <1>3 DEF Close
  <2>6. ASSUME status = "completed", s.listed # {}, \A e \in s.listed : event[e].run = x
        PROVE  SumOver([e \in Events |-> event[e].final], s.listed) = final
    <3> DEFINE finals == [e \in Events |-> event[e].final]
    <3>1. SumOver(s.share, s.listed) = final
      BY <1>1, <1>3, <2>6 DEF Allocating
    <3>2. \A e \in s.listed : finals[e] = s.share[e]
      BY <1>1, <1>3, <2>1, <2>6 DEF Allocating, Request
    <3>3. IsFiniteSet(s.listed)
      BY EventsFinite, FS_Subset DEF Request
    <3> HIDE DEF finals
    <3>4. SumOver(finals, s.listed) = final
      BY <3>1, <3>2, <3>3, SumSame
    <3>5. QED
      BY <3>4 DEF finals
  <2>7. run'[x].status = "completed" /\ run'[x].covers # {}
          /\ (\A e \in run'[x].covers : event[e].run = x)
          => SumOver([e \in Events |-> event[e].final], run'[x].covers) = run'[x].final
    BY <2>2, <2>6
  <2>8. event' = event
    BY <1>3
  <2>9. QED
    BY <2>2, <2>3, <2>4, <2>5, <2>7, <2>8, RunAllocated
<1>4. QED
  BY <1>1, <1>2, <1>3 DEF CompleteRun, FailRun

\* A recorded event names no run, and no session has listed it.
LEMMA RecordAllocated ==
    ASSUME TypeOK, AccountingInv, AllocationInv, NEW paid \in BOOLEAN,
           NEW cost \in Costs \cup {0}, Record(paid, cost), UNCHANGED run,
           \A t \in Requests : request'[t] \in {request[t], Idle}
    PROVE  AllocationInv'
<1> DEFINE new == recorded + 1
<1>1. new \in Events /\ new \notin 1..recorded
  BY AccountingAssumption DEF Record, TypeOK, Events
<1>2. /\ event'[new].run = NoRun /\ event'[new].status \notin Done
      /\ \A e \in Events : e # new => event'[e] = event[e]
  BY <1>1, NewEventType DEF Record, TypeOK, NewEvent
<1> HIDE DEF new
<1>3. ASSUME NEW t \in Requests PROVE new \notin request[t].listed /\ request[t].listed \in SUBSET Events
  BY <1>1 DEF AccountingInv, SessionInv, Sound, TypeOK, Request
<1>4. RunIsAllocated'
  <2> SUFFICES ASSUME NEW x \in Runs, run[x].status = "completed", run[x].covers # {},
                      \A e \in run[x].covers : event'[e].run = x
               PROVE  SumOver([e \in Events |-> event'[e].final], run[x].covers) = run[x].final
    BY DEF RunIsAllocated
  <2> DEFINE covers == run[x].covers
             finals == [e \in Events |-> event[e].final]
             after == [e \in Events |-> event'[e].final]
  <2>1. covers \in SUBSET Events /\ IsFiniteSet(covers)
    BY EventsFinite, FS_Subset DEF TypeOK, Run
  <2>2. \A e \in covers : event'[e] = event[e]
    BY <1>2, <2>1, AccountingAssumption
  <2>3. \A e \in covers : after[e] = finals[e]
    BY <2>1, <2>2
  <2>4. SumOver(finals, covers) = run[x].final
    BY <2>2 DEF AllocationInv, RunIsAllocated
  <2> HIDE DEF covers, finals, after
  <2>5. SumOver(after, covers) = run[x].final
    BY <2>1, <2>3, <2>4, SumSame
  <2>6. QED
    BY <2>5 DEF covers, after
<1>5. ASSUME NEW s, Allocating(s), new \notin s.listed, s.listed \in SUBSET Events
      PROVE  Allocating(s)'
  <2>1. \A e \in Events : event'[e].run \in {event[e].run, NoRun}
    BY <1>2
  <2>2. \A e \in s.listed : event'[e] = event[e]
    BY <1>2, <1>5
  <2>3. QED
    BY <1>5, <2>1, <2>2 DEF Allocating, Pending
<1>6. \A t \in Requests : Allocating(request[t])'
  <2> SUFFICES ASSUME NEW t \in Requests PROVE Allocating(request[t])'
    OBVIOUS
  <2>1. PICK s : s = request'[t]
    OBVIOUS
  <2>2. Allocating(s) /\ new \notin s.listed /\ s.listed \in SUBSET Events
    <3>1. CASE s = request[t]
      BY <1>3, <3>1 DEF AllocationInv
    <3>2. CASE s = Idle
      <4>1. Idle.listed = {}
        BY DEF Idle, NewSession
      <4>2. QED
        BY <3>2, <4>1, IdleAllocating
    <3>3. QED
      BY <2>1, <3>1, <3>2
  <2>3. Allocating(s)'
    BY <1>5, <2>2
  <2>4. QED
    BY <2>1, <2>3
<1>7. ASSUME NEW t \in Requests, NEW u \in Requests, t # u
      PROVE  Apart(request[t], request[u])'
  <2>1. PICK p, q : p = request'[t] /\ q = request'[u]
    OBVIOUS
  <2>2. Apart(p, q)
    BY <1>7, <2>1, IdleAllocating, ApartSymmetric DEF AllocationInv
  <2>3. new \notin p.listed /\ p.listed \in SUBSET Events
    BY <1>3, <2>1 DEF Idle, NewSession
  <2>4. Apart(p, q)'
    BY <1>2, <2>2, <2>3 DEF Apart, Pending
  <2>5. QED
    BY <2>1, <2>4
<1>8. QED
  BY <1>4, <1>6, <1>7 DEF AllocationInv

\* The rows a flush leaves: the stale ones among those loaded were estimates, so
\* every column is written.
LEMMA CommittedRow ==
    ASSUME TypeOK, AccountingInv, AllocationInv, NEW r \in Requests,
           request[r].stage = "load", NEW e \in request[r].listed,
           NEW row, row = Flushed(event[e], request[r].loaded[e], Reconciled(request[r], e))
    PROVE  row.run = request[r].run /\ row.final = request[r].share[e] /\ row.status \in Done
<1> DEFINE q == request[r]
           now == Reconciled(q, e)
           loaded == q.loaded[e]
<1>1. q \in Request /\ Sound(q) /\ Allocating(q) /\ e \in Events
  BY DEF TypeOK, AccountingInv, SessionInv, AllocationInv, Request
<1>2. /\ event[e] \in Event /\ loaded \in Event /\ now \in Event
      /\ now.status \in Done /\ now.run = q.run /\ now.final = q.share[e]
      /\ q.share[e] \in Int
  BY <1>1, ReconciledEvent DEF TypeOK, Request
<1>3. /\ HasRun(loaded) /\ q.run # NoRun /\ event[e].run # q.run
      /\ loaded.status \in Done => /\ event[e].status \in Done
                                   /\ event[e].final = loaded.final
                                   /\ event[e].run = loaded.run
  BY <1>1 DEF Sound, Allocating, Pending
<1>4. \A c \in {"status", "final", "run"} :
          row[c] = IF now[c] # loaded[c] THEN now[c] ELSE event[e][c]
  BY <1>2, FlushedEvent
<1> HIDE DEF now, loaded
<1>5. loaded.run # q.run
  BY <1>3 DEF HasRun
<1>6. q.share[e] = loaded.final => event[e].final = q.share[e]
  BY <1>2, <1>3, AccountingAssumption DEF HasRun
<1>7. now.status = loaded.status => event[e].status \in Done
  BY <1>2, <1>3
<1> HIDE DEF q
<1>8. row.run = q.run
  BY <1>2, <1>4, <1>5
<1>9. row.final = q.share[e]
  BY <1>2, <1>4, <1>6
<1>10. row.status \in Done
  <2>1. now.status = loaded.status => row.status = event[e].status
    BY <1>4
  <2>2. now.status # loaded.status => row.status = now.status
    BY <1>4
  <2>3. QED
    BY <1>2, <1>7, <2>1, <2>2
<1>11. QED
  BY <1>8, <1>9, <1>10 DEF q

LEMMA CommitAllocated ==
    ASSUME TypeOK, AccountingInv, AllocationInv, TwoOverlap, NEW r \in Requests, CommitEvents(r)
    PROVE  AllocationInv'
<1>1. PICK q \in Request : q = request[r] /\ Sound(q) /\ Allocating(q)
  BY DEF TypeOK, AccountingInv, SessionInv, AllocationInv
<1>2. q.stage = "load" /\ Pending(q) /\ UNCHANGED run /\ q.run \in Runs /\ q.run # NoRun
  BY <1>1 DEF CommitEvents, Pending, Sound, Request
<1>3. CASE Overflows(q)
  BY <1>1, <1>3, GoneAllocated DEF CommitEvents
<1>4. CASE ~Overflows(q)
  <2> DEFINE done == [q EXCEPT !.stage = "complete"]
  <2>1. request' = [request EXCEPT ![r] = done] /\ WriteEvents(request[r])
    BY <1>1, <1>4 DEF CommitEvents, Goto
  <2>2. /\ done.stage = "complete" /\ done.run = q.run /\ done.listed = q.listed
        /\ done.share = q.share /\ done.total = q.total /\ done.loaded = q.loaded
        /\ q.listed \in SUBSET Events
    BY DEF Request
  <2>3. /\ \A t \in Requests : request'[t] = IF t = r THEN done ELSE request[t]
    BY <2>1 DEF TypeOK
  <2> HIDE DEF done
  <2>4. \A e \in Events \ q.listed : event'[e] = event[e]
    BY <1>1, <2>1 DEF WriteEvents
  <2>5. ASSUME NEW e \in q.listed
        PROVE  event'[e].run = q.run /\ event'[e].final = q.share[e] /\ event'[e].status \in Done
    <3>1. event'[e] = Flushed(event[e], request[r].loaded[e], Reconciled(request[r], e))
      BY <1>1, <2>1, <2>2, <2>5 DEF WriteEvents
    <3>2. PICK row : row = event'[e]
      OBVIOUS
    <3>3. row.run = request[r].run /\ row.final = request[r].share[e] /\ row.status \in Done
      BY <1>1, <1>2, <2>5, <3>1, <3>2, CommittedRow
    <3>4. QED
      BY <1>1, <3>2, <3>3
  <2>6. RunIsAllocated'
    <3> SUFFICES ASSUME NEW x \in Runs, run[x].status = "completed", run[x].covers # {},
                        \A e \in run[x].covers : event'[e].run = x
                 PROVE  SumOver([e \in Events |-> event'[e].final], run[x].covers) = run[x].final
      BY <1>2 DEF RunIsAllocated
    <3> DEFINE covers == run[x].covers
               finals == [e \in Events |-> event[e].final]
               after == [e \in Events |-> event'[e].final]
    <3>1. covers \in SUBSET Events /\ IsFiniteSet(covers)
      BY EventsFinite, FS_Subset DEF TypeOK, Run
    <3>2. q.run # x
      BY <1>1, <1>2 DEF Allocating
    <3>3. \A e \in covers : event'[e] = event[e]
      BY <2>4, <2>5, <3>1, <3>2
    <3>4. \A e \in covers : after[e] = finals[e]
      BY <3>1, <3>3
    <3>5. SumOver(finals, covers) = run[x].final
      BY <3>3 DEF AllocationInv, RunIsAllocated
    <3> HIDE DEF covers, finals, after
    <3>6. SumOver(after, covers) = run[x].final
      BY <3>1, <3>4, <3>5, SumSame
    <3>7. QED
      BY <3>6 DEF covers, after
  <2>7. Allocating(done)'
    BY <1>1, <1>2, <2>2, <2>5 DEF Allocating, Pending
  <2>8. ASSUME NEW t \in Requests, t # r, NEW s, s = request[t]
        PROVE  Allocating(s)'
    <3>1. /\ s \in Request /\ Sound(s) /\ Allocating(s) /\ Apart(q, s)
          /\ s.listed \in SUBSET Events
      BY <1>1, <2>8 DEF TypeOK, AccountingInv, SessionInv, AllocationInv, Request
    <3>2. s.run # NoRun => s.run # q.run
      BY <1>2, <3>1 DEF Apart
    <3>3. \A e \in Events : event'[e].run \in {event[e].run, q.run}
      BY <2>4, <2>5
    <3>4. ASSUME Pending(s), NEW e \in s.listed, s.loaded[e].status \in Done
          PROVE  event'[e] = event[e]
      <4>1. event[e].status \in Done
        BY <3>1, <3>4 DEF Sound
      <4>2. e \notin q.listed
        BY <1>2, <3>1, <3>4, <4>1 DEF Apart
      <4>3. QED
        BY <2>4, <3>1, <4>2
    <3>5. ASSUME s.stage = "complete", NEW e \in s.listed, event'[e].run = s.run
          PROVE  event'[e] = event[e]
      <4>1. s.run # NoRun
        BY <3>1, <3>5 DEF Sound
      <4>2. e \notin q.listed
        BY <2>5, <3>2, <3>5, <4>1
      <4>3. QED
        BY <2>4, <3>1, <4>2
    <3>6. /\ s.run # NoRun => run'[s.run].status = "running"
          /\ s.stage \in {"load", "complete"} /\ s.listed # {} =>
                SumOver(s.share, s.listed) = s.total
      BY <1>2, <3>1 DEF Allocating
    <3>7. Pending(s) /\ s.run # NoRun => \A e \in Events : event'[e].run # s.run
      BY <3>1, <3>2, <3>3 DEF Allocating
    <3>8. Pending(s) => \A e \in s.listed : s.loaded[e].status \in Done =>
             event'[e].final = s.loaded[e].final /\ event'[e].run = s.loaded[e].run
      BY <3>1, <3>4 DEF Allocating
    <3>9. s.stage = "complete" => \A e \in s.listed :
             event'[e].run = s.run => event'[e].final = s.share[e]
      BY <3>1, <3>5 DEF Allocating
    <3>10. QED
      BY <3>6, <3>7, <3>8, <3>9 DEF Allocating, Pending
  <2>9. \A t \in Requests : Allocating(request[t])'
    <3> SUFFICES ASSUME NEW t \in Requests PROVE Allocating(request[t])'
      OBVIOUS
    <3>1. PICK s : s = request[t]
      OBVIOUS
    <3>2. QED
      BY <2>3, <2>7, <2>8, <3>1
  <2>10. ASSUME NEW t \in Requests, NEW u \in Requests, t # u
         PROVE  Apart(request[t], request[u])'
    <3>1. t # r /\ u # r => ~Pending(request[t]) \/ ~Pending(request[u])
      BY <1>1, <1>2, <2>10 DEF TwoOverlap
    <3>2. PICK p, s : p = request'[t] /\ s = request'[u]
      OBVIOUS
    <3>3. ~Pending(p) \/ ~Pending(s)
      <4>1. ~Pending(done)
        BY <2>2 DEF Pending
      <4>2. QED
        BY <2>3, <3>1, <3>2, <4>1
    <3>4. p.run # NoRun => p.run # s.run
      BY <1>1, <2>2, <2>3, <2>10, <3>2 DEF AllocationInv, Apart
    <3>5. Apart(p, s)'
      BY <3>3, <3>4 DEF Apart, Pending
    <3>6. QED
      BY <3>2, <3>5
  <2>11. QED
    BY <2>6, <2>9, <2>10 DEF AllocationInv
<1>5. QED
  BY <1>3, <1>4

-----------------------------------------------------------------------------
(* Theorems                                                                *)

Settled == TypeOK /\ AccountingInv

LEMMA StepSettles ==
    ASSUME Settled, [Next]_vars
    PROVE  /\ AccountingInv'
           /\ \A e \in Events : event[e].status \in Done => event'[e].status \in Done
<1> DEFINE Kept == \A e \in Events : event[e].status \in Done => event'[e].status \in Done
<1> USE DEF Settled
<1>1. CASE RunLocally
  BY <1>1, RecordStep DEF RunLocally
<1>2. ASSUME NEW r \in Requests, NEW cost \in Costs, EnforceBudget(r, cost)
      PROVE  AccountingInv' /\ Kept
  <2>1. PICK q : q = [NewSession("record") EXCEPT !.cost = cost] /\ Sound(q)
    BY FreshSound
  <2>2. QED
    BY <1>2, <2>1, SessionStep DEF EnforceBudget
<1>3. ASSUME NEW r \in Requests, RecordUsage(r)
      PROVE  AccountingInv' /\ Kept
  <2>1. request[r].cost \in Costs \cup {0} /\ \A t \in Requests : request'[t] \in {request[t], Idle}
    BY <1>3 DEF TypeOK, Request, RecordUsage, Close
  <2>2. QED
    BY <1>3, <2>1, RecordStep DEF RecordUsage
<1>4. ASSUME NEW r \in Requests, NEW first \in Events, NEW last \in Events,
             BeginReconcile(r, first, last)
      PROVE  AccountingInv' /\ Kept
  <2> DEFINE listed == {e \in (first..last) \cap (1..recorded) : event[e].status = "estimated"}
  <2>1. listed \in SUBSET (1..recorded)
    OBVIOUS
  <2>2. PICK q : q = [NewSession("create") EXCEPT !.listed = listed] /\ Sound(q)
    BY <2>1, FreshSound
  <2>3. QED
    BY <1>4, <2>2, SessionStep DEF BeginReconcile
<1>5. ASSUME NEW r \in Requests, NEW x \in Runs, CreateRun(r, x)
      PROVE  AccountingInv' /\ Kept
  BY <1>5, CreateRunStep DEF CreateRun
<1>6. ASSUME NEW r \in Requests, FetchCosts(r) \/ Allocate(r) \/ LoadEvent(r)
      PROVE  AccountingInv' /\ Kept
  BY <1>6, WorkStep DEF FetchCosts, Allocate, LoadEvent
<1>7. ASSUME NEW r \in Requests, CommitEvents(r)
      PROVE  AccountingInv' /\ Kept
  BY <1>7, CommitStep
<1>8. ASSUME NEW r \in Requests, CompleteRun(r) \/ FailRun(r)
      PROVE  AccountingInv' /\ Kept
  BY <1>8, CloseRunStep DEF CompleteRun, FailRun
<1>9. ASSUME NEW r \in Requests, FailRunBroken(r)
      PROVE  AccountingInv' /\ Kept
  BY <1>9, IdleSound, SessionStep DEF FailRunBroken, Close
<1>10. ASSUME Restart \/ UNCHANGED vars
       PROVE  AccountingInv' /\ Kept
  <2>1. \A s : Sound(s) => Sound(s)'
    BY <1>10 DEF Restart, vars, Sound, HasRun
  <2>2. \A t \in Requests : request'[t] \in {request[t], Idle}
    BY <1>10 DEF Restart, vars
  <2>3. SessionInv'
    BY <2>1, <2>2, IdleSound DEF AccountingInv, SessionInv
  <2>4. QED
    BY <1>10, <2>3 DEF Restart, vars, AccountingInv, FinalCostHasRun, HasRun,
                       CompletedRunSettles, Unrecorded
<1>11. QED
  BY <1>1, <1>2, <1>3, <1>4, <1>5, <1>6, <1>7, <1>8, <1>9, <1>10 DEF Next, Reconcile

\* The inductive invariant: rows that have a final cost name a run, sessions
\* work on the run they have created, and what they have loaded as reconciled
\* still is.
THEOREM AccountingInvariant == Spec => []Settled
<1>1. Init => AccountingInv
  <2> SUFFICES ASSUME Init PROVE AccountingInv
    OBVIOUS
  <2>1. \A e \in Events : HasRun(event[e]) /\ event[e].status \notin Done
    BY NewEventType DEF Init, NoEvents
  <2>2. SessionInv
    BY IdleSound DEF Init, SessionInv
  <2>3. QED
    BY <2>1, <2>2 DEF Init, AccountingInv, FinalCostHasRun, CompletedRunSettles, Unrecorded
<1>2. Settled /\ [Next]_vars => AccountingInv'
  BY StepSettles
<1>3. QED
  BY <1>1, <1>2, AccountingTypes, PTL DEF Spec, Settled

\* However runs overlap, fail or are cut short, an event has a final cost
\* exactly when it names a run that exists.
THEOREM FinalCostsHaveRuns == Spec => []FinalCostHasRun
<1>1. Settled => FinalCostHasRun
  BY DEF Settled, AccountingInv
<1>2. QED
  BY <1>1, AccountingInvariant, PTL

\* A completed run has left none of its events unreconciled.
THEOREM CompletedRunsSettle == Spec => []CompletedRunSettles
<1>1. Settled => CompletedRunSettles
  BY DEF Settled, AccountingInv
<1>2. QED
  BY <1>1, AccountingInvariant, PTL

\* No step, stale sessions and partial updates included, turns a reconciled
\* event back into an estimate.
THEOREM ReconciledStaysReconciled == Spec => StaysReconciled
<1>1. Settled /\ [Next]_vars =>
        [\A e \in Events : event[e].status \in Done => event'[e].status \in Done]_vars
  BY StepSettles
<1>2. QED
  BY <1>1, AccountingInvariant, PTL DEF Spec, StaysReconciled

\* What is spent, with what has passed the check, stays within the month's budget
\* and one request less than there are.
THEOREM BudgetInvariant == Spec => []BudgetInv
<1>1. Init => BudgetInv
  <2> SUFFICES ASSUME Init PROVE BudgetInv
    OBVIOUS
  <2>1. Paid = {} /\ InFlight = {}
    BY DEF Init, Paid, InFlight, Idle, NewSession
  <2>2. Spent = 0 /\ Owed = 0
    BY <2>1, FS_EmptySet, SumUnfold DEF Spent, Owed
  <2>3. Cardinality(Requests) - 1 \in Nat
    BY AccountingAssumption, FS_CardinalityType, FS_EmptySet
  <2>4. (Cardinality(Requests) - 1) * Single \in Nat
    BY <2>3, AccountingAssumption
  <2>5. QED
    BY <2>1, <2>2, <2>4, AccountingAssumption DEF BudgetInv
<1>2. TypeOK /\ TypeOK' /\ BudgetInv /\ [Next]_vars => BudgetInv'
  BY BudgetKept
<1>3. QED
  BY <1>1, <1>2, AccountingTypes, PTL DEF Spec

\* However many requests overlap, they exceed the month's budget by no more than
\* one request each but one.
THEOREM OverspendIsBounded == Spec => []OverspendBounded
<1>1. TypeOK /\ BudgetInv => OverspendBounded
  <2> SUFFICES ASSUME TypeOK, BudgetInv PROVE OverspendBounded
    OBVIOUS
  <2>1. Spent \in Nat /\ Owed \in Nat
    BY BudgetTypes
  <2>2. Cardinality(Requests) \in Nat
    BY AccountingAssumption, FS_CardinalityType
  <2>3. (Cardinality(Requests) - 1) * Single \in Int /\ Monthly \in Int
    BY <2>2, AccountingAssumption
  <2>4. QED
    BY <2>1, <2>3 DEF BudgetInv, OverspendBounded
<1>2. QED
  BY <1>1, AccountingTypes, BudgetInvariant, PTL

LEMMA AllocationKept ==
    ASSUME Settled, AllocationInv, TwoOverlap, [Next]_vars
    PROVE  AllocationInv'
<1> USE DEF Settled
<1>1. CASE RunLocally
  BY <1>1, RecordAllocated DEF RunLocally
<1>2. ASSUME NEW r \in Requests, NEW cost \in Costs, EnforceBudget(r, cost)
      PROVE  AllocationInv'
  BY <1>2, StartAllocated DEF EnforceBudget
<1>3. ASSUME NEW r \in Requests, RecordUsage(r)
      PROVE  AllocationInv'
  <2>1. request[r].cost \in Costs \cup {0} /\ \A t \in Requests : request'[t] \in {request[t], Idle}
    BY <1>3 DEF TypeOK, Request, RecordUsage, Close
  <2>2. QED
    BY <1>3, <2>1, RecordAllocated DEF RecordUsage
<1>4. ASSUME NEW r \in Requests, NEW first \in Events, NEW last \in Events,
             BeginReconcile(r, first, last)
      PROVE  AllocationInv'
  BY <1>4, StartAllocated DEF BeginReconcile
<1>5. ASSUME NEW r \in Requests, NEW x \in Runs, CreateRun(r, x)
      PROVE  AllocationInv'
  BY <1>5, CreateAllocated
<1>6. ASSUME NEW r \in Requests, FetchCosts(r) \/ Allocate(r) \/ LoadEvent(r)
      PROVE  AllocationInv'
  BY <1>6, WorkAllocated
<1>7. ASSUME NEW r \in Requests, CommitEvents(r)
      PROVE  AllocationInv'
  BY <1>7, CommitAllocated
<1>8. ASSUME NEW r \in Requests, CompleteRun(r) \/ FailRun(r)
      PROVE  AllocationInv'
  BY <1>8, CloseAllocated
<1>9. ASSUME NEW r \in Requests, FailRunBroken(r)
      PROVE  AllocationInv'
  BY <1>9, ClosedAllocated DEF FailRunBroken
<1>10. ASSUME Restart \/ UNCHANGED vars
       PROVE  AllocationInv'
  <2>1. UNCHANGED <<event, run>> /\ \A t \in Requests : request'[t] \in {request[t], Idle}
    BY <1>10 DEF Restart, vars
  <2>2. RunIsAllocated'
    BY <2>1 DEF AllocationInv, RunIsAllocated
  <2>3. ASSUME NEW s, Allocating(s) PROVE Allocating(s)'
    BY <2>1, <2>3 DEF Allocating
  <2>4. ASSUME NEW p, NEW s, Apart(p, s) PROVE Apart(p, s)'
    BY <2>1, <2>4 DEF Apart
  <2>5. ASSUME NEW t \in Requests PROVE Allocating(request[t])'
    <3>1. PICK s : s = request'[t]
      OBVIOUS
    <3>2. Allocating(s)
      BY <2>1, <3>1, IdleAllocating DEF AllocationInv
    <3>3. QED
      BY <2>3, <3>1, <3>2
  <2>6. ASSUME NEW t \in Requests, NEW u \in Requests, t # u
        PROVE  Apart(request[t], request[u])'
    <3>1. PICK p, s : p = request'[t] /\ s = request'[u]
      OBVIOUS
    <3>2. Apart(p, s)
      BY <2>1, <2>6, <3>1, IdleAllocating, ApartSymmetric DEF AllocationInv
    <3>3. QED
      BY <2>4, <3>1, <3>2
  <2>7. QED
    BY <2>2, <2>5, <2>6 DEF AllocationInv
<1>11. QED
  BY <1>1, <1>2, <1>3, <1>4, <1>5, <1>6, <1>7, <1>8, <1>9, <1>10 DEF Next, Reconcile

\* While no three reconciliations overlap: every session's run is its own, its
\* shares add up to the provider's total, and what it has loaded as reconciled has
\* not changed.
THEOREM AllocationInvariant == Spec /\ []TwoOverlap => []AllocationInv
<1>1. Init => AllocationInv
  <2> SUFFICES ASSUME Init PROVE AllocationInv
    OBVIOUS
  <2>1. \A x \in Runs : run[x].status # "completed"
    BY DEF Init
  <2>2. QED
    BY <2>1, IdleAllocating DEF Init, AllocationInv, RunIsAllocated
<1>2. Settled /\ TwoOverlap /\ AllocationInv /\ [Next]_vars => AllocationInv'
  BY AllocationKept
<1>3. QED
  BY <1>1, <1>2, AccountingInvariant, PTL DEF Spec

\* While no three reconciliations overlap, the final costs of a completed run's
\* events add up to what the provider reported, however they interleave, fail or
\* are cut short.
THEOREM RunsAreAllocated == Spec /\ []TwoOverlap => []RunIsAllocated
<1>1. AllocationInv => RunIsAllocated
  BY DEF AllocationInv
<1>2. QED
  BY <1>1, AllocationInvariant, PTL

LEMMA TwoRequests ==
    ASSUME Cardinality(Requests) <= 2
    PROVE  TwoOverlap
<1> SUFFICES ASSUME NEW r \in Requests, NEW s \in Requests, NEW t \in Requests,
                    r # s, s # t, r # t
             PROVE  FALSE
  BY DEF TwoOverlap
<1> DEFINE A == Requests \ {r}
           B == A \ {s}
<1>1. IsFiniteSet(Requests) /\ Cardinality(Requests) \in Nat
  BY AccountingAssumption, FS_CardinalityType
<1>2. IsFiniteSet(A) /\ Cardinality(A) = Cardinality(Requests) - 1
  BY <1>1, FS_RemoveElement
<1>3. s \in A /\ t \in B
  OBVIOUS
<1> HIDE DEF A
<1>4. IsFiniteSet(B) /\ Cardinality(B) = Cardinality(A) - 1
  BY <1>2, <1>3, FS_RemoveElement
<1> HIDE DEF B
<1>5. Cardinality(B) \in Nat /\ Cardinality(B) # 0
  BY <1>3, <1>4, FS_CardinalityType, FS_EmptySet
<1>6. QED
  BY <1>1, <1>2, <1>4, <1>5

\* Two request threads never overlap otherwise.
THEOREM TwoThreadsAllocate == ASSUME Cardinality(Requests) <= 2 PROVE Spec => []RunIsAllocated
<1>1. TwoOverlap
  BY TwoRequests
<1>2. QED
  BY <1>1, RunsAreAllocated, PTL

=============================================================================
