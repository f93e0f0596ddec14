---------------------------- MODULE AiAccounting ----------------------------
(***************************************************************************)
(* What AI requests cost: the budget check before a paid request, the      *)
(* recorded usage, and the reconciliation of the estimates with the costs  *)
(* the provider reports (backend/domains/ai/service.py and store.py,       *)
(* local_ai_accounting/reconcile.py; tables "ai_usage_events" and          *)
(* "ai_cost_reconciliation_runs").                                         *)
(*                                                                         *)
(* A request is a thread with its own SQLAlchemy session.  A SELECT, a     *)
(* call of the provider and a commit are steps; the flush writes only the  *)
(* columns that differ from what the session loaded.  Costs are counted in *)
(* the least unit of the columns (1e-8 USD).  Events are of one month and  *)
(* are never deleted.                                                      *)
(***************************************************************************)
EXTENDS Integers, FiniteSets, FiniteSetsExt

CONSTANTS
    Requests,     \* request threads
    MaxEvents,    \* bound: rows of ai_usage_events
    Runs,         \* ids of reconciliation runs (uuid4)
    Costs,        \* estimates of a request
    Totals,       \* what the provider may report for a period
    Monthly,      \* openai_monthly_budget_usd
    Single,       \* openai_single_request_budget_usd
    Tolerance,    \* tolerance_usd
    ColumnLimit,  \* the largest value of a Numeric(12, 8) column
    NoCost,       \* final_cost_usd is NULL
    NoRun         \* reconciliation_run_id is NULL

ASSUME AccountingAssumption ==
    /\ IsFiniteSet(Requests) /\ Requests # {}
    /\ Costs \subseteq Nat /\ Totals \subseteq Nat
    /\ MaxEvents \in Nat /\ Monthly \in Nat /\ Single \in Nat
    /\ Tolerance \in Nat /\ ColumnLimit \in Nat
    /\ NoCost \notin Int
    /\ NoRun \notin Runs

VARIABLES
    recorded,  \* how many events there are: their ids are 1..recorded
    event,     \* event[e]: the modelled columns of event e
    run,       \* run[x]: the row of run x
    request    \* request[r]: the session of thread r

vars == <<recorded, event, run, request>>

Events == 1..MaxEvents

Done == {"verified", "adjusted"}

Event == [openai : BOOLEAN, cost : Costs \cup {0},
          status : {"estimated", "not_billable"} \cup Done,
          final : Int \cup {NoCost}, run : Runs \cup {NoRun}]

\* covers is not a column: the events the run is about.
Run == [status : {"none", "running", "completed", "failed"},
        final : Nat \cup {NoCost}, covers : SUBSET Events]

\* listed: the events to reconcile.  unread: those still to be selected again.
\* loaded: the events as selected.  share: the final cost each is to get.
Stages == {"idle", "record", "create", "fetch", "allocate", "load", "complete", "fail", "broken"}

Request == [stage : Stages, cost : Costs \cup {0}, run : Runs \cup {NoRun},
            listed : SUBSET Events, unread : SUBSET Events, total : Nat,
            loaded : [Events -> Event], share : [Events -> Int]]

TypeOK ==
    /\ recorded \in 0..MaxEvents
    /\ event \in [Events -> Event]
    /\ run \in [Runs -> Run]
    /\ request \in [Requests -> Request]

NewEvent(paid, cost) ==
    [openai |-> paid, cost |-> cost, status |-> IF paid THEN "estimated" ELSE "not_billable",
     final |-> NoCost, run |-> NoRun]

NoEvents == [e \in Events |-> NewEvent(FALSE, 0)]

NewSession(stage) ==
    [stage |-> stage, cost |-> 0, run |-> NoRun, listed |-> {}, unread |-> {}, total |-> 0,
     loaded |-> NoEvents, share |-> [e \in Events |-> 0]]

Idle == NewSession("idle")

Init ==
    /\ recorded = 0
    /\ event = NoEvents
    /\ run = [x \in Runs |-> [status |-> "none", final |-> NoCost, covers |-> {}]]
    /\ request = [r \in Requests |-> Idle]

Goto(r, stage) == request' = [request EXCEPT ![r].stage = stage]

Close(r) == request' = [request EXCEPT ![r] = Idle]

-----------------------------------------------------------------------------
(* POST /ai/tasks/run                                                      *)

\* The sum of the f[x] with x in S.
SumOver(f, S) == MapThenSumSet(LAMBDA x : f[x], S)

Estimates == [e \in Events |-> event[e].cost]

Paid == {e \in 1..recorded : event[e].openai}

\* sum_provider_estimated_cost
Spent == SumOver(Estimates, Paid)

Record(paid, cost) ==
    /\ recorded < MaxEvents
    /\ recorded' = recorded + 1
    /\ event' = [event EXCEPT ![recorded + 1] = NewEvent(paid, cost)]

\* A request that is answered locally costs nothing.
RunLocally ==
    /\ Record(FALSE, 0)
    /\ UNCHANGED <<run, request>>

\* Mutant of EnforceBudget: what the request itself costs is not counted.
EnforceBudgetSpentOnly(r, cost) ==
    /\ request[r] = Idle
    /\ cost <= Single
    /\ Spent <= Monthly
    /\ request' = [request EXCEPT ![r] = [NewSession("record") EXCEPT !.cost = cost]]
    /\ UNCHANGED <<recorded, event, run>>

\* _enforce_budget: a request that is refused (402) changes nothing.
EnforceBudget(r, cost) ==
    /\ request[r] = Idle
    /\ cost <= Single
    /\ Spent + cost <= Monthly
    /\ request' = [request EXCEPT ![r] = [NewSession("record") EXCEPT !.cost = cost]]
    /\ UNCHANGED <<recorded, event, run>>

RecordUsage(r) ==
    /\ request[r].stage = "record"
    /\ Record(TRUE, request[r].cost)
    /\ Close(r)
    /\ UNCHANGED run

-----------------------------------------------------------------------------
(* reconcile_cost_bucket: allocation in proportion to the estimates        *)

Estimated(events) == SumOver(Estimates, events)

\* Estimates of nothing weigh the same.
Weight(events, e) == IF Estimated(events) = 0 THEN 1 ELSE event[e].cost

Weights(events) == SumOver([e \in events |-> Weight(events, e)], events)

\* ROUND_HALF_UP of a quotient whose last digit is itself rounded: a half may
\* go either way.
Rounded(a, b) == {q \in {a \div b, a \div b + 1} : 2 * (a - q * b) \in (-b)..b}

\* Mutant of Remainder: the last event gets its own rounded share.
RemainderOwn(events, total, share) ==
    (total * Weight(events, Max(events))) \div Weights(events)

\* The last event gets what is left, whatever its estimate.
Remainder(events, total, share) ==
    total - SumOver(share, events \ {Max(events)})

Shares(events, total) ==
    LET rounded == {s \in [events \ {Max(events)} -> 0..total] :
                       \A e \in DOMAIN s :
                           s[e] \in Rounded(total * Weight(events, e), Weights(events))}
        allocated(s) == [e \in events |-> IF e = Max(events) THEN Remainder(events, total, s) ELSE s[e]]
    IN {share \in {allocated(s) : s \in rounded} : share \in [events -> Int]}

\* Mutant of Outcome: what is not confirmed is left for review.
OutcomeNeedsReview(events, total) ==
    IF total - Estimated(events) \in (-Tolerance)..Tolerance THEN "verified" ELSE "needs_review"

Outcome(events, total) ==
    IF total - Estimated(events) \in (-Tolerance)..Tolerance THEN "verified" ELSE "adjusted"

-----------------------------------------------------------------------------
(* POST /ai/accounting/reconcile/openai                                    *)

\* list_reconcilable_events of a period.
BeginReconcile(r, first, last) ==
    /\ request[r] = Idle
    /\ request' = [request EXCEPT ![r] = [NewSession("create") EXCEPT
           !.listed = {e \in (first..last) \cap (1..recorded) : event[e].status = "estimated"}]]
    /\ UNCHANGED <<recorded, event, run>>

CreateRun(r, x) ==
    /\ request[r].stage = "create"
    /\ run[x].status = "none"
    /\ run' = [run EXCEPT ![x] = [status |-> "running", final |-> NoCost,
                                  covers |-> request[r].listed]]
    /\ request' = [request EXCEPT ![r] = [@ EXCEPT !.stage = "fetch", !.run = x]]
    /\ UNCHANGED <<recorded, event>>

\* fetch_costs, which may raise.
FetchCosts(r) ==
    /\ request[r].stage = "fetch"
    /\ \/ Goto(r, "fail")
       \/ \E total \in Totals :
             request' = [request EXCEPT ![r] = [@ EXCEPT !.stage = "allocate", !.total = total]]
    /\ UNCHANGED <<recorded, event, run>>

\* No event to reconcile, nothing to allocate.
Allocate(r) ==
    LET q == request[r] IN
    /\ q.stage = "allocate"
    /\ IF q.listed = {}
         THEN Goto(r, "load")
         ELSE \E share \in Shares(q.listed, q.total) :
                 request' = [request EXCEPT ![r] = [q EXCEPT
                     !.stage = "load", !.unread = q.listed,
                     !.share = [e \in Events |-> IF e \in q.listed THEN share[e] ELSE 0]]]
    /\ UNCHANGED <<recorded, event, run>>

\* apply_event_updates, one session.get.
LoadEvent(r) ==
    LET q == request[r]
        e == Min(q.unread)
    IN /\ q.stage = "load" /\ q.unread # {}
       /\ request' = [request EXCEPT ![r] =
              [q EXCEPT !.unread = q.unread \ {e}, !.loaded[e] = event[e]]]
       /\ UNCHANGED <<recorded, event, run>>

\* The columns a flush writes: those that differ from what was loaded.
Flushed(stored, loaded, now) ==
    [c \in DOMAIN stored |-> IF now[c] # loaded[c] THEN now[c] ELSE stored[c]]

\* Mutants of Reconciled: the run is not named; what is not confirmed stays an
\* estimate.
ReconciledUnnamed(q, e) ==
    [q.loaded[e] EXCEPT !.status = Outcome(q.listed, q.total), !.final = q.share[e]]

ReconciledIfConfirmed(q, e) ==
    IF Outcome(q.listed, q.total) = "verified"
      THEN [q.loaded[e] EXCEPT !.status = "verified", !.final = q.share[e], !.run = q.run]
      ELSE [q.loaded[e] EXCEPT !.status = "estimated", !.final = NoCost, !.run = NoRun]

Reconciled(q, e) ==
    [q.loaded[e] EXCEPT !.status = Outcome(q.listed, q.total), !.final = q.share[e], !.run = q.run]

\* Mutant of WriteEvents: the first event is skipped.
WriteEventsButFirst(q) ==
    event' = [e \in Events |-> IF \E d \in q.listed : e \in q.listed /\ d < e
                                 THEN Flushed(event[e], q.loaded[e], Reconciled(q, e))
                                 ELSE event[e]]

WriteEvents(q) ==
    event' = [e \in Events |-> IF e \in q.listed
                                 THEN Flushed(event[e], q.loaded[e], Reconciled(q, e))
                                 ELSE event[e]]

Overflows(q) == \E e \in q.listed : q.share[e] > ColumnLimit /\ q.share[e] # q.loaded[e].final

\* A value that does not fit makes the flush raise, and the session refuses
\* all further work until it is rolled back.
CommitEvents(r) ==
    LET q == request[r] IN
    /\ q.stage = "load" /\ q.unread = {}
    /\ IF Overflows(q)
         THEN Goto(r, "broken") /\ UNCHANGED event
         ELSE Goto(r, "complete") /\ WriteEvents(q)
    /\ UNCHANGED <<recorded, run>>

CompleteRun(r) ==
    LET q == request[r] IN
    /\ q.stage = "complete"
    /\ IF q.total > ColumnLimit
         THEN Goto(r, "broken") /\ UNCHANGED run
         ELSE /\ run' = [run EXCEPT ![q.run].status = "completed", ![q.run].final = q.total]
              /\ Close(r)
    /\ UNCHANGED <<recorded, event>>

\* _record_failed_reconciliation
FailRun(r) ==
    LET q == request[r] IN
    /\ q.stage = "fail"
    /\ run' = [run EXCEPT ![q.run].status = "failed", ![q.run].final = NoCost]
    /\ Close(r)
    /\ UNCHANGED <<recorded, event>>

\* The same on a session that is not rolled back: session.get raises.
FailRunBroken(r) ==
    /\ request[r].stage = "broken"
    /\ Close(r)
    /\ UNCHANGED <<recorded, event, run>>

\* The service is restarted.
Restart ==
    /\ request' = [r \in Requests |-> Idle]
    /\ UNCHANGED <<recorded, event, run>>

-----------------------------------------------------------------------------
Reconcile(r) ==
    \/ \E first, last \in Events : BeginReconcile(r, first, last)
    \/ \E x \in Runs : CreateRun(r, x)
    \/ FetchCosts(r) \/ Allocate(r) \/ LoadEvent(r) \/ CommitEvents(r)
    \/ CompleteRun(r) \/ FailRun(r) \/ FailRunBroken(r)

Next ==
    \/ RunLocally
    \/ \E r \in Requests, cost \in Costs : EnforceBudget(r, cost)
    \/ \E r \in Requests : RecordUsage(r) \/ Reconcile(r)
    \/ Restart

Spec == Init /\ [][Next]_vars

-----------------------------------------------------------------------------
(* Properties                                                              *)

\* Requests that overlap may each pass the budget check, but together they
\* exceed the month's budget by no more than one request each (service.py
\* 160-167): what is in flight is bounded.
OverspendBounded == Spent <= Monthly + (Cardinality(Requests) - 1) * Single

HasRun(row) ==
    /\ row.final # NoCost <=> row.run # NoRun
    /\ row.status \in Done <=> row.run # NoRun
    /\ row.run # NoRun => run[row.run].status # "none"

\* An event has a final cost exactly when it names a run, and that run exists,
\* whatever runs overlap, fail or are cut short (store.py 166-179).
FinalCostHasRun == \A e \in Events : HasRun(event[e])

\* A completed run has left none of its events unreconciled.
CompletedRunSettles ==
    \A x \in Runs : run[x].status = "completed" =>
        \A e \in run[x].covers : event[e].status \in Done

\* While no more than two runs overlap, the costs of the events of a completed
\* run add up to the total of the provider, as long as no later run has taken
\* some of them over (reconcile.py 54-73).
RunIsAllocated ==
    \A x \in Runs :
        run[x].status = "completed" /\ run[x].covers # {}
            /\ (\A e \in run[x].covers : event[e].run = x)
        => SumOver([e \in Events |-> event[e].final], run[x].covers) = run[x].final

\* A reconciled event is never turned back into an estimate.
StaysReconciled ==
    [][\A e \in Events : event[e].status \in Done => event'[e].status \in Done]_vars

\* "Every failure must close the run before re-raising" (service.py 246): a
\* reconciliation that ends, other than by a restart, leaves no run running.
FailureClosesRun ==
    [][\A r \in Requests :
        request[r].run # NoRun /\ request'[r].run = NoRun /\ ~Restart
            => run'[request[r].run].status # "running"]_vars

-----------------------------------------------------------------------------
(* What makes them inductive                                               *)

\* A session works on the events of the run it has created; what it has loaded
\* as reconciled still is, and what it has written is reconciled.
Sound(q) ==
    /\ q.stage \in {"idle", "record", "create"} <=> q.run = NoRun
    /\ q.run # NoRun => run[q.run].status # "none" /\ run[q.run].covers = q.listed
    /\ \A e \in Events : HasRun(q.loaded[e])
    /\ \A e \in Events : q.loaded[e].status \in Done => event[e].status \in Done
    /\ q.stage = "complete" => \A e \in q.listed : event[e].status \in Done
    /\ q.listed \subseteq 1..recorded

SessionInv == \A r \in Requests : Sound(request[r])

\* The rows still to be recorded.
Unrecorded == \A e \in Events : e > recorded => event[e].status \notin Done

AccountingInv == FinalCostHasRun /\ CompletedRunSettles /\ SessionInv /\ Unrecorded

\* What has passed the check counts as spent before it is recorded: each of the
\* requests in flight saw at most the month's budget, its own cost included.
InFlight == {r \in Requests : request[r].stage = "record"}

Owed == SumOver([r \in Requests |-> request[r].cost], InFlight)

BudgetInv ==
    /\ \A r \in InFlight : request[r].cost <= Single
    /\ Spent + Owed <= Monthly + (Cardinality(Requests) - 1) * Single

\* A session that has not written its events yet.
Pending(q) == q.stage \in {"create", "fetch", "allocate", "load"}

\* No three reconciliations overlap.
TwoOverlap ==
    \A r, s, t \in Requests :
        Pending(request[r]) /\ Pending(request[s]) /\ Pending(request[t]) => r = s \/ s = t \/ r = t

\* Its run is its own and unfinished, its shares add up, what it has loaded as
\* reconciled has not changed since, and nothing names its run before it writes.
Allocating(q) ==
    /\ q.run # NoRun => run[q.run].status = "running"
    /\ q.stage \in {"load", "complete"} /\ q.listed # {} => SumOver(q.share, q.listed) = q.total
    /\ Pending(q) /\ q.run # NoRun => \A e \in Events : event[e].run # q.run
    /\ Pending(q) => \A e \in q.listed : q.loaded[e].status \in Done =>
          event[e].final = q.loaded[e].final /\ event[e].run = q.loaded[e].run
    /\ q.stage = "complete" => \A e \in q.listed :
          event[e].run = q.run => event[e].final = q.share[e]

\* Two sessions have different runs; of the events both are to write, neither
\* has written any.
Apart(q, p) ==
    /\ q.run # NoRun => q.run # p.run
    /\ Pending(q) /\ Pending(p) => \A e \in q.listed \cap p.listed : event[e].status \notin Done

AllocationInv ==
    /\ RunIsAllocated
    /\ \A r \in Requests : Allocating(request[r])
    /\ \A r, s \in Requests : r # s => Apart(request[r], request[s])

=============================================================================
