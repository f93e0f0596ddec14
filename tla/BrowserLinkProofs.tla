------------------------- MODULE BrowserLinkProofs -------------------------
(***************************************************************************)
(* For every set of links and request threads: the state has its types,    *)
(* only captured sessions are stored, and an expired link leaves no login  *)
(* browser behind.                                                         *)
(***************************************************************************)
EXTENDS BrowserLink, FiniteSetTheorems, TLAPS

\* There is always an id that no thread refers to: one more than threads.
LEMMA FreshIdExists ==
    ASSUME NEW f \in [Requests -> Nat]
    PROVE  \E id \in RowIds : \A r \in Requests : f[r] # id
<1> DEFINE taken == {f[r] : r \in Requests}
           n == Cardinality(Requests)
<1>1. IsFiniteSet(Requests) /\ n \in Nat
  BY LinkAssumption, FS_CardinalityType
<1>2. IsFiniteSet(taken) /\ Cardinality(taken) <= n
  <2>1. f \in Surjection(Requests, taken)
    BY DEF Surjection
  <2>2. QED
    BY <1>1, <2>1, FS_Surjection
<1>3. IsFiniteSet(RowIds) /\ Cardinality(RowIds) = n + 1
  BY <1>1, FS_Interval DEF RowIds
<1>4. ~(RowIds \subseteq taken)
  <2>1. SUFFICES ASSUME RowIds \subseteq taken PROVE FALSE
    OBVIOUS
  <2>2. Cardinality(RowIds) <= Cardinality(taken)
    BY <1>2, <2>1, FS_Subset
  <2>3. Cardinality(taken) \in Nat
    BY <1>2, FS_CardinalityType
  <2>4. QED
    BY <1>1, <1>2, <1>3, <2>2, <2>3
<1>5. QED
  BY <1>4

LEMMA FreshIdType == ASSUME TypeOK PROVE FreshId \in RowIds
<1> DEFINE f == [r \in Requests |-> request[r].loaded.id]
<1>1. \A r \in Requests : request[r].loaded.id \in Nat
  <2> SUFFICES ASSUME NEW r \in Requests PROVE request[r].loaded.id \in Nat
    OBVIOUS
  <2>1. request[r].loaded \in ProfileRow
    BY DEF TypeOK, Request
  <2>2. RowIds \subseteq Nat
    BY LinkAssumption, FS_CardinalityType DEF RowIds
  <2>3. QED
    <3>1. CASE request[r].loaded \in
                  [id : RowIds, secret : Secrets, account : Accounts \cup {NoAccount}]
      BY <2>2, <3>1
    <3>2. CASE request[r].loaded = NoRow
      <4>1. NoRow.id = 0
        BY DEF NoRow
      <4>2. QED
        BY <3>2, <4>1
    <3>3. QED
      BY <2>1, <3>1, <3>2 DEF ProfileRow
<1>2. f \in [Requests -> Nat]
  BY <1>1
<1>3. PICK id \in RowIds : \A r \in Requests : f[r] # id
  BY <1>2, FreshIdExists
<1>4. QED
  BY <1>3 DEF FreshId

-----------------------------------------------------------------------------
\* Changing one thread's record.
LEMMA RequestType ==
    ASSUME TypeOK, NEW r \in Requests, NEW q \in Request, request' = [request EXCEPT ![r] = q]
    PROVE  request' \in [Requests -> Request]
  BY DEF TypeOK

LEMMA GotoType ==
    ASSUME TypeOK, NEW r \in Requests, NEW stage \in Stages, Goto(r, stage)
    PROVE  request' \in [Requests -> Request]
<1>1. request[r] \in Request
  BY DEF TypeOK
<1>2. [request[r] EXCEPT !.stage = stage] \in Request
  BY <1>1 DEF Request
<1>3. request' = [request EXCEPT ![r] = [request[r] EXCEPT !.stage = stage]]
  BY DEF Goto
<1>4. QED
  BY <1>2, <1>3, RequestType

LEMMA SetStatusType ==
    ASSUME TypeOK, NEW r, NEW value \in Active \cup Settled, SetStatus(r, value)
    PROVE  status' \in [Links -> Active \cup Settled \cup {"none"}]
  BY DEF TypeOK, SetStatus

LEMMA IdleType == Idle \in Request /\ NoRow \in ProfileRow
  BY DEF Idle, Request, Stages, NoRow, ProfileRow, Secrets

LEMMA AbortType ==
    ASSUME TypeOK, NEW r \in Requests, Abort(r)
    PROVE  request' \in [Requests -> Request]
  BY IdleType, RequestType DEF Abort

\* The row after a flush, and what is left of the thread's record.
LEMMA UpsertedType ==
    ASSUME TypeOK, NEW r \in Requests, profile.id = request[r].loaded.id
    PROVE  Upserted(r) \in ProfileRow
<1> DEFINE q == request[r]
           accounts == Accounts \cup {NoAccount}
<1>1. /\ q.loaded \in ProfileRow /\ profile \in ProfileRow
      /\ q.value \in Secrets /\ q.account \in accounts
  BY DEF TypeOK, Request
<1>2. CASE q.loaded = NoRow
  BY <1>1, <1>2, FreshIdType DEF Upserted, ProfileRow
<1>3. CASE q.loaded # NoRow
  <2>1. q.loaded.id \in RowIds
    BY <1>1, <1>3 DEF ProfileRow
  <2>2. 0 \notin RowIds
    BY LinkAssumption, FS_CardinalityType DEF RowIds
  <2>3. profile \in [id : RowIds, secret : Secrets, account : accounts]
    <3>1. profile # NoRow
      BY <2>1, <2>2 DEF NoRow
    <3>2. QED
      BY <1>1, <3>1 DEF ProfileRow
  <2>4. QED
    BY <1>1, <1>3, <2>3 DEF Upserted, ProfileRow
<1>4. QED
  BY <1>2, <1>3

LEMMA RestType ==
    ASSUME NEW q \in Request, NEW stage \in Stages
    PROVE  Rest(q, stage) \in Request
  BY IdleType DEF Rest, Request

LEMMA SavedType == ASSUME NEW q \in Request PROVE Saved(q) \in Request
  BY IdleType, RestType DEF Saved, Stages

-----------------------------------------------------------------------------
\* Threads, rows and sessions keep their types; in particular an id for a new
\* row can always be found.
THEOREM LinkTypes == Spec => [](TypeOK /\ KnownLink)
<1>0. Init => KnownLink
  BY DEF Init, KnownLink, NoPage, Idle
<1>1. Init => TypeOK
  BY LinkAssumption DEF Init, TypeOK, Request, Idle, Stages, NoRow, ProfileRow, NoPage, Secrets
<1>2. TypeOK /\ KnownLink /\ [Next]_vars => TypeOK'
  <2> SUFFICES ASSUME TypeOK, KnownLink, [Next]_vars PROVE TypeOK'
    OBVIOUS
  <2> USE DEF TypeOK
  <2>1. ASSUME NEW r \in Requests, request' \in [Requests -> Request],
               UNCHANGED <<status, overdue, helper, result, profile, page>>
        PROVE  TypeOK'
    BY <2>1
  <2>2. ASSUME NEW r \in Requests, BeginPoll(r) \/ BeginCapture(r)
        PROVE  TypeOK'
    <3>1. CASE BeginPoll(r)
      <4>1. [Idle EXCEPT !.stage = "checkExpiry", !.link = page.link, !.wanted = TRUE] \in Request
        BY IdleType DEF Request, Stages
      <4>2. QED
        BY <2>1, <3>1, <4>1, RequestType DEF BeginPoll
    <3>2. CASE BeginCapture(r)
      <4>1. \A stage \in {"checkCapture", "checkExpiry"} :
               [Idle EXCEPT !.stage = stage, !.op = "capture",
                            !.link = page.link, !.wanted = TRUE] \in Request
        BY IdleType DEF Request, Stages
      <4>2. QED
        BY <2>1, <3>2, <4>1, RequestType DEF BeginCapture
    <3>3. QED
      BY <2>2, <3>1, <3>2
  <2>3. ASSUME NEW r \in Requests, NEW s \in Links, NEW a \in Accounts, BeginStart(r, s, a)
        PROVE  TypeOK'
    <3>1. [Idle EXCEPT !.stage = "upsert", !.op = "start", !.link = s,
                       !.loaded = profile, !.account = a, !.wanted = TRUE] \in Request
      BY IdleType DEF Request, Stages
    <3>2. QED
      BY <2>1, <2>3, <3>1, RequestType DEF BeginStart
  <2>3b. ASSUME NEW r \in Requests, NEW edit \in Edits, BeginPut(r, edit)
         PROVE  TypeOK'
    <3>1. edit.value \in Secrets /\ edit.account \in Accounts \cup {NoAccount}
      BY LinkAssumption DEF Secrets
    <3>2. [Idle EXCEPT !.stage = "upsert", !.op = "put", !.loaded = profile,
                       !.value = edit.value, !.account = edit.account] \in Request
      BY <3>1, IdleType DEF Request, Stages
    <3>3. QED
      BY <2>1, <2>3b, <3>2, RequestType DEF BeginPut
  <2>4. ASSUME NEW r \in Requests, Handler(r)
        PROVE  TypeOK'
    <3> DEFINE q == request[r]
    <3>a. q \in Request
      OBVIOUS
    <3>1. CASE CheckCapture(r)
      BY <2>1, <3>1, GotoType DEF CheckCapture, Stages
    <3>2. CASE SetCapture(r)
      BY <3>2, SetStatusType, GotoType DEF SetCapture, Stages, Active
    <3>3. CASE CheckExpiry(r)
      BY <2>1, <3>3, GotoType DEF CheckExpiry, Stages
    <3>4. CASE Expire(r)
      BY <3>4, SetStatusType, GotoType DEF Expire, Stages, Settled
    <3>5. CASE Terminate(r)
      <4>1. helper' \in [Links -> {"none", "running", "terminated", "exited"}]
        BY <3>5 DEF Terminate
      <4>2. request' \in [Requests -> Request]
        BY <3>5, GotoType DEF Terminate, Stages
      <4>3. QED
        BY <3>5, <4>1, <4>2 DEF Terminate
    <3>6. CASE ReadResult(r)
      <4>1. "snapshot" \in Stages /\ "pollProcess" \in Stages
            /\ "linked" \in Settled /\ "failed" \in Settled
        BY DEF Stages, Settled
      <4>2. [q EXCEPT !.stage = "snapshot", !.cookie = TRUE] \in Request
        BY <3>a, <4>1 DEF Request
      <4>3. request' \in [Requests -> Request]
        BY <3>6, <4>1, <4>2, GotoType, RequestType DEF ReadResult
      <4>4. status' \in [Links -> Active \cup Settled \cup {"none"}]
        BY <3>6, <4>1, SetStatusType DEF ReadResult
      <4>5. QED
        BY <3>6, <4>3, <4>4 DEF ReadResult
    <3>7. CASE PollProcess(r)
      BY <2>1, <3>7, GotoType DEF PollProcess, Stages
    <3>8. CASE Fail(r)
      BY <3>8, SetStatusType, GotoType DEF Fail, Stages, Settled
    <3>9. CASE Snapshot(r)
      <4> DEFINE shows == status[q.link]
                 answered == [q EXCEPT !.shows = shows]
                 z == IF q.cookie /\ shows = "linked"
                        THEN [answered EXCEPT !.stage = "getProfile"] ELSE Rest(answered, "reply")
      <4>1. shows \in Active \cup Settled \cup {"none"}
        BY <3>9 DEF Snapshot, At, KnownLink
      <4>2. answered \in Request
        BY <3>a, <4>1 DEF Request
      <4>3. [answered EXCEPT !.stage = "getProfile"] \in Request
        BY <4>2 DEF Request, Stages
      <4>4. z \in Request
        <5>1. \A a \in Request : Rest(a, "reply") \in Request
          BY RestType DEF Stages
        <5>2. QED
          BY <4>2, <4>3, <5>1
      <4>5. request' = [request EXCEPT ![r] = z]
        BY <3>9 DEF Snapshot
      <4>6. request' \in [Requests -> Request]
        BY <4>4, <4>5, RequestType
      <4>7. QED
        BY <2>1, <3>9, <4>6 DEF Snapshot
    <3>10. CASE GetProfile(r)
      <4>1. CASE profile.account = NoAccount
        BY <2>1, <3>10, <4>1, AbortType DEF GetProfile
      <4>2. CASE profile.account # NoAccount
        <5>1. profile.account \in Accounts /\ q.link \in Links
          BY <3>10, <4>2 DEF ProfileRow, NoRow, GetProfile, At, KnownLink
        <5>2. [q EXCEPT !.stage = "reload", !.loaded = profile,
                        !.value = q.link, !.account = profile.account] \in Request
          BY <3>a, <5>1 DEF Request, Stages, Secrets
        <5>3. QED
          BY <2>1, <3>10, <4>2, <5>2, RequestType DEF GetProfile
      <4>3. QED
        BY <4>1, <4>2
    <3>11. CASE Reload(r)
      <4> DEFINE loaded == IF profile.id = q.loaded.id THEN q.loaded ELSE profile
      <4>1. request' = [request EXCEPT ![r] = [q EXCEPT !.stage = "upsert", !.loaded = loaded]]
        BY <3>11 DEF Reload
      <4>2. loaded \in ProfileRow
        BY <3>a DEF Request
      <4>3. [q EXCEPT !.stage = "upsert", !.loaded = loaded] \in Request
        BY ZenonT(60), <3>a, <4>2 DEF Request, Stages
      <4>4. QED
        BY <2>1, <3>11, <4>1, <4>3, RequestType DEF Reload
    <3>12. CASE CommitUpsert(r)
      <4>1. CASE profile.id # q.loaded.id
        BY <2>1, <3>12, <4>1, AbortType DEF CommitUpsert
      <4>2. CASE profile.id = q.loaded.id
        <5>1. profile' \in ProfileRow
          BY <3>12, <4>2, UpsertedType DEF CommitUpsert
        <5>2. Saved(q) \in Request
          BY <3>a, SavedType
        <5>3. request' \in [Requests -> Request]
          BY <3>12, <4>2, <5>2, RequestType DEF CommitUpsert
        <5>4. QED
          BY <3>12, <5>1, <5>3 DEF CommitUpsert
      <4>3. QED
        BY <4>1, <4>2
    <3>13. CASE Launch(r)
      <4>1. PICK started \in {"running", "failed"} :
               /\ SetStatus(r, started)
               /\ helper' = [helper EXCEPT ![q.link] = IF started = "running" THEN "running" ELSE @]
               /\ request' = [request EXCEPT ![r] = [q EXCEPT !.stage = "reply", !.shows = started]]
        BY <3>13 DEF Launch
      <4>2. started \in Active \cup Settled
        BY DEF Active, Settled
      <4>3. [q EXCEPT !.stage = "reply", !.shows = started] \in Request
        BY <3>a, <4>2 DEF Request, Stages
      <4>4. request' \in [Requests -> Request]
        BY <4>1, <4>3, RequestType
      <4>5. status' \in [Links -> Active \cup Settled \cup {"none"}]
        BY <4>1, <4>2, SetStatusType
      <4>6. helper' \in [Links -> {"none", "running", "terminated", "exited"}]
        BY <4>1
      <4>7. QED
        BY <3>13, <4>4, <4>5, <4>6 DEF Launch
    <3>14. CASE Reply(r)
      <4>1. \A x \in Requests : [request[x] EXCEPT !.wanted = FALSE] \in Request
        <5> TAKE x \in Requests
        <5>1. request[x] \in Request
          OBVIOUS
        <5>2. QED
          BY <5>1 DEF Request
      <4>2. request' \in [Requests -> Request]
        BY <3>14, <4>1, IdleType, AbortType DEF Reply
      <4>3. page' \in [link : Links \cup {NoLink}, status : Active \cup Settled \cup {"none"}]
        BY <3>14, <3>a DEF Reply, Request
      <4>4. QED
        BY <3>14, <4>2, <4>3 DEF Reply
    <3>15. QED
      BY <2>4, <3>1, <3>2, <3>3, <3>4, <3>5, <3>6, <3>7, <3>8, <3>9, <3>10, <3>11, <3>12,
         <3>13, <3>14 DEF Handler
  <2>5. ASSUME NEW s \in Links, HelperExits(s) \/ Deadline(s)
        PROVE  TypeOK'
    BY <2>5 DEF HelperExits, Deadline
  <2>6. ASSUME NEW s \in Links, NEW outcome \in {"captured", "failed"}, HelperWrites(s, outcome)
        PROVE  TypeOK'
    BY <2>6 DEF HelperWrites
  <2>7. CASE DeleteProfile
    BY <2>7, IdleType DEF DeleteProfile
  <2>8. CASE UNCHANGED vars
    BY <2>8 DEF vars
  <2>9. QED
    BY <2>2, <2>3, <2>3b, <2>4, <2>5, <2>6, <2>7, <2>8 DEF Next
<1>3. TypeOK /\ TypeOK' /\ KnownLink /\ [Next]_vars => KnownLink'
  <2> SUFFICES ASSUME TypeOK, TypeOK', KnownLink, [Next]_vars PROVE KnownLink'
    OBVIOUS
  <2> USE DEF TypeOK
  <2>1. ASSUME NEW r \in Requests, NEW q, UNCHANGED page,
               request' = [request EXCEPT ![r] = q],
               \/ q.stage = "idle"
               \/ q.stage = "upsert" /\ q.op = "put"
               \/ q.op # "put" /\ q.link \in Links
        PROVE  KnownLink'
    BY <2>1 DEF KnownLink
  <2>2. ASSUME NEW r \in Requests, NEW stage, ~At(r, "idle"), ~At(r, "upsert"),
               Goto(r, stage), UNCHANGED page
        PROVE  KnownLink'
    BY <2>2 DEF KnownLink, Goto, At, Request
  <2>3. ASSUME NEW r \in Requests, Abort(r), UNCHANGED page
        PROVE  KnownLink'
    BY <2>1, <2>3, IdleType DEF Abort, Idle
  <2>4. ASSUME NEW r \in Requests, BeginPoll(r) \/ BeginCapture(r)
        PROVE  KnownLink'
    <3>1. CASE BeginPoll(r)
      BY <3>1 DEF KnownLink, BeginPoll, Active, Idle
    <3>2. CASE BeginCapture(r)
      <4>1. page.link \in Links
        BY <3>2 DEF BeginCapture
      <4>2. QED
        BY <3>2, <4>1 DEF KnownLink, BeginCapture, Idle
    <3>3. QED
      BY <2>4, <3>1, <3>2
  <2>5. ASSUME NEW r \in Requests, NEW s \in Links, NEW a \in Accounts, BeginStart(r, s, a)
        PROVE  KnownLink'
    BY <2>5 DEF KnownLink, BeginStart, Idle
  <2>5b. ASSUME NEW r \in Requests, NEW edit \in Edits, BeginPut(r, edit)
         PROVE  KnownLink'
    BY <2>5b DEF KnownLink, BeginPut, Idle
  <2>6. ASSUME NEW r \in Requests, Handler(r)
        PROVE  KnownLink'
    <3> DEFINE q == request[r]
    <3>a. q \in Request
      OBVIOUS
    <3>1. CASE \/ CheckCapture(r) \/ SetCapture(r) \/ CheckExpiry(r) \/ Expire(r)
               \/ Terminate(r) \/ PollProcess(r) \/ Fail(r)
      BY <2>2, <3>1 DEF CheckCapture, SetCapture, CheckExpiry, Expire, Terminate, PollProcess,
                        Fail, At
    <3>2. CASE ReadResult(r)
      <4>1. ~At(r, "idle") /\ ~At(r, "upsert") /\ UNCHANGED page
        BY <3>2 DEF ReadResult, At
      <4>2. q.op # "put" /\ q.link \in Links
        BY <4>1 DEF At, KnownLink
      <4>3. CASE request' = [request EXCEPT ![r] = [q EXCEPT !.stage = "snapshot", !.cookie = TRUE]]
        BY <2>1, <3>a, <4>1, <4>2, <4>3 DEF Request
      <4>4. QED
        BY <2>2, <3>2, <4>1, <4>3 DEF ReadResult
    <3>3. CASE Snapshot(r)
      <4> DEFINE shows == status[q.link]
                 answered == [q EXCEPT !.shows = shows]
                 z == IF q.cookie /\ shows = "linked"
                        THEN [answered EXCEPT !.stage = "getProfile"] ELSE Rest(answered, "reply")
      <4>1. q.op # "put" /\ q.link \in Links
        BY <3>3 DEF Snapshot, At, KnownLink
      <4>2. answered.op = q.op /\ answered.link = q.link
        BY <3>a DEF Request
      <4>3. /\ [answered EXCEPT !.stage = "getProfile"].op = q.op
            /\ [answered EXCEPT !.stage = "getProfile"].link = q.link
        BY <3>a DEF Request
      <4>4. Rest(answered, "reply").op = q.op /\ Rest(answered, "reply").link = q.link
        BY <4>2 DEF Rest, Idle
      <4>5. z.op = q.op /\ z.link = q.link
        BY <4>3, <4>4
      <4>6. request' = [request EXCEPT ![r] = z] /\ UNCHANGED page
        BY <3>3 DEF Snapshot
      <4> HIDE DEF z
      <4>7. QED
        BY <2>1, <4>1, <4>5, <4>6
    <3>4. CASE GetProfile(r)
      <4>1. CASE Abort(r)
        BY <2>3, <3>4, <4>1 DEF GetProfile
      <4>2. CASE ~Abort(r)
        <5> DEFINE z == [q EXCEPT !.stage = "reload", !.loaded = profile,
                                  !.value = q.link, !.account = profile.account]
        <5>1. request' = [request EXCEPT ![r] = z] /\ UNCHANGED page
          BY <3>4, <4>2 DEF GetProfile
        <5>2. z.op # "put" /\ z.link \in Links
          BY <3>4, <3>a DEF GetProfile, At, KnownLink, Request
        <5> HIDE DEF z
        <5>3. QED
          BY <2>1, <5>1, <5>2
      <4>3. QED
        BY <4>1, <4>2
    <3>5. CASE Reload(r)
      BY <3>5, <3>a DEF Reload, At, KnownLink, Request
    <3>6. CASE CommitUpsert(r)
      <4>1. CASE Abort(r)
        BY <2>3, <3>6, <4>1 DEF CommitUpsert
      <4>2. CASE q.op # "put" /\ ~Abort(r)
        <5>1. Saved(q).op = q.op /\ Saved(q).link = q.link
          BY <4>2, <3>a DEF Saved, Rest, Idle
        <5>2. q.link \in Links
          BY <3>6, <4>2 DEF CommitUpsert, At, KnownLink
        <5>3. QED
          BY <2>1, <3>6, <4>2, <5>1, <5>2 DEF CommitUpsert
      <4>3. CASE q.op = "put"
        BY <2>3, <3>6, <4>3 DEF CommitUpsert, Saved, Abort
      <4>4. QED
        BY <4>1, <4>2, <4>3
    <3>7. CASE Launch(r)
      BY <3>7, <3>a DEF Launch, At, KnownLink, Request
    <3>8. CASE Reply(r)
      <4>1. q.op # "put" /\ q.link \in Links
        BY <3>8 DEF Reply, At, KnownLink
      <4>2. page'.status # "none" => page'.link \in Links
        BY <3>8, <4>1 DEF Reply, KnownLink
      <4>3. \A x \in Requests :
               \/ request'[x] = Idle \/ request'[x] = request[x]
               \/ request'[x] = [request[x] EXCEPT !.wanted = FALSE]
        BY <3>8 DEF Reply, Abort
      <4>4. ASSUME NEW x \in Requests
            PROVE  \/ request'[x].stage = "idle"
                   \/ request'[x].stage = "upsert" /\ request'[x].op = "put"
                   \/ request'[x].op # "put" /\ request'[x].link \in Links
        <5>1. request[x] \in Request
          OBVIOUS
        <5>2. QED
          BY <4>3, <5>1 DEF KnownLink, Idle, Request
      <4>5. QED
        BY <4>2, <4>4 DEF KnownLink
    <3>9. QED
      BY <2>6, <3>1, <3>2, <3>3, <3>4, <3>5, <3>6, <3>7, <3>8 DEF Handler
  <2>7. CASE UNCHANGED <<page, request>>
    BY <2>7 DEF KnownLink
  <2>8. QED
    BY <2>4, <2>5, <2>5b, <2>6, <2>7
       DEF Next, HelperExits, Deadline, HelperWrites, DeleteProfile, vars
<1>4. QED
  BY <1>0, <1>1, <1>2, <1>3, PTL DEF Spec

-----------------------------------------------------------------------------
\* Whatever is stored as a captured session was captured by its helper, with
\* any number of threads, late polls and edits of the profile.
THEOREM StoredSessionsAreCaptured == Spec => [](StoredIsCaptured /\ CookieInv)
<1>1. Init => StoredIsCaptured /\ CookieInv
  BY LinkAssumption DEF Init, StoredIsCaptured, CookieInv, NoRow, Idle
<1>2. TypeOK /\ KnownLink /\ StoredIsCaptured /\ CookieInv /\ [Next]_vars
         => (StoredIsCaptured /\ CookieInv)'
  <2> SUFFICES ASSUME TypeOK, KnownLink, StoredIsCaptured, CookieInv, [Next]_vars
               PROVE  StoredIsCaptured' /\ CookieInv'
    OBVIOUS
  <2> DEFINE Holds(q) ==
               /\ q.cookie => q.link \in Links /\ result[q.link] = "captured"
               /\ q.stage = "getProfile" => q.cookie
               /\ q.value \in Links => result[q.value] = "captured"
  <2>1. \A r \in Requests : Holds(request[r]) /\ request[r] \in Request
    BY DEF CookieInv, TypeOK
  <2>2. ASSUME NEW r \in Requests, NEW q, Holds(q),
               request' = [request EXCEPT ![r] = q], UNCHANGED <<result, profile>>
        PROVE  StoredIsCaptured' /\ CookieInv'
    BY <2>1, <2>2 DEF TypeOK, StoredIsCaptured, CookieInv
  <2>3. Holds(Idle)
    BY LinkAssumption DEF Idle
  <2>3b. \A q, stage : stage # "getProfile" => Holds(Rest(q, stage))
    BY LinkAssumption DEF Rest, Idle
  <2>4. ASSUME NEW r \in Requests, NEW stage, stage # "getProfile", Goto(r, stage),
               UNCHANGED <<result, profile>>
        PROVE  StoredIsCaptured' /\ CookieInv'
    <3>1. Holds([request[r] EXCEPT !.stage = stage])
      BY <2>1, <2>4 DEF Request
    <3>2. QED
      BY <2>2, <2>4, <3>1 DEF Goto
  <2>5. ASSUME NEW r \in Requests, Abort(r), UNCHANGED <<result, profile>>
        PROVE  StoredIsCaptured' /\ CookieInv'
    BY <2>2, <2>3, <2>5 DEF Abort
  <2>6. ASSUME NEW r \in Requests, BeginPoll(r) \/ BeginCapture(r)
        PROVE  StoredIsCaptured' /\ CookieInv'
    <3>1. CASE BeginPoll(r)
      <4>1. Holds([Idle EXCEPT !.stage = "checkExpiry", !.link = page.link, !.wanted = TRUE])
        BY <2>3 DEF Idle
      <4>2. QED
        BY <2>2, <3>1, <4>1 DEF BeginPoll
    <3>2. CASE BeginCapture(r)
      <4>1. \A stage \in {"checkCapture", "checkExpiry"} :
               Holds([Idle EXCEPT !.stage = stage, !.op = "capture",
                                  !.link = page.link, !.wanted = TRUE])
        BY <2>3 DEF Idle
      <4>2. QED
        BY <2>2, <3>2, <4>1 DEF BeginCapture
    <3>3. QED
      BY <2>6, <3>1, <3>2
  <2>6b. ASSUME NEW r \in Requests, NEW edit \in Edits, BeginPut(r, edit)
         PROVE  StoredIsCaptured' /\ CookieInv'
    <3>1. edit.value \notin Links
      BY LinkAssumption
    <3>2. Holds([Idle EXCEPT !.stage = "upsert", !.op = "put", !.loaded = profile,
                             !.value = edit.value, !.account = edit.account])
      BY <3>1 DEF Idle
    <3>3. QED
      BY <2>2, <2>6b, <3>2 DEF BeginPut
  <2>7. ASSUME NEW r \in Requests, NEW s \in Links, NEW a \in Accounts, BeginStart(r, s, a)
        PROVE  StoredIsCaptured' /\ CookieInv'
    <3>1. Holds([Idle EXCEPT !.stage = "upsert", !.op = "start", !.link = s,
                             !.loaded = profile, !.account = a, !.wanted = TRUE])
      BY <2>3 DEF Idle
    <3>2. QED
      BY <2>2, <2>7, <3>1 DEF BeginStart
  <2>8. ASSUME NEW r \in Requests, Handler(r)
        PROVE  StoredIsCaptured' /\ CookieInv'
    <3> DEFINE q == request[r]
    <3>1. q \in Request /\ Holds(q)
      BY <2>1
    <3>2. CASE \/ CheckCapture(r) \/ SetCapture(r) \/ CheckExpiry(r) \/ Expire(r)
               \/ Terminate(r) \/ PollProcess(r) \/ Fail(r)
      BY <2>4, <3>2 DEF CheckCapture, SetCapture, CheckExpiry, Expire, Terminate, PollProcess, Fail
    <3>3. CASE ReadResult(r)
      <4>1. q.link \in Links
        BY <3>3 DEF ReadResult, At, KnownLink
      <4>2. CASE \/ Goto(r, "pollProcess")
                 \/ Goto(r, "snapshot")
        BY <2>4, <3>3, <4>2 DEF ReadResult
      <4>3. CASE /\ result[q.link] = "captured"
                 /\ request' = [request EXCEPT ![r] =
                                   [q EXCEPT !.stage = "snapshot", !.cookie = TRUE]]
        <5>1. Holds([q EXCEPT !.stage = "snapshot", !.cookie = TRUE])
          BY <3>1, <4>1, <4>3 DEF Request
        <5>2. QED
          BY <2>2, <3>3, <4>3, <5>1 DEF ReadResult
      <4>4. QED
        BY <3>3, <4>2, <4>3 DEF ReadResult
    <3>4. CASE Snapshot(r)
      <4> DEFINE shows == status[q.link]
                 answered == [q EXCEPT !.shows = shows]
                 z == IF q.cookie /\ shows = "linked"
                        THEN [answered EXCEPT !.stage = "getProfile"] ELSE Rest(answered, "reply")
      <4>1. q.cookie => Holds([answered EXCEPT !.stage = "getProfile"])
        BY <3>1 DEF Request
      <4>2. Holds(Rest(answered, "reply"))
        BY <2>3b
      <4>3. Holds(z)
        BY <4>1, <4>2
      <4>4. request' = [request EXCEPT ![r] = z] /\ UNCHANGED <<result, profile>>
        BY <3>4 DEF Snapshot
      <4> HIDE DEF z
      <4>5. QED
        BY <2>2, <4>3, <4>4
    <3>5. CASE GetProfile(r)
      <4>1. q.cookie /\ q.link \in Links /\ result[q.link] = "captured"
        BY <3>1, <3>5 DEF GetProfile, At
      <4>2. Holds([q EXCEPT !.stage = "reload", !.loaded = profile,
                            !.value = q.link, !.account = profile.account])
        BY <3>1, <4>1 DEF Request
      <4>3. QED
        <5>1. \/ Abort(r)
              \/ request' = [request EXCEPT ![r] =
                    [q EXCEPT !.stage = "reload", !.loaded = profile,
                              !.value = q.link, !.account = profile.account]]
          BY <3>5 DEF GetProfile
        <5>2. UNCHANGED <<result, profile>>
          BY <3>5 DEF GetProfile
        <5>3. QED
          BY <2>2, <2>5, <4>2, <5>1, <5>2
    <3>6. CASE Reload(r)
      <4> DEFINE loaded == IF profile.id = q.loaded.id THEN q.loaded ELSE profile
      <4>1. Holds([q EXCEPT !.stage = "upsert", !.loaded = loaded])
        BY <3>1 DEF Request
      <4>2. QED
        <5>1. request' = [request EXCEPT ![r] = [q EXCEPT !.stage = "upsert", !.loaded = loaded]]
          BY <3>6 DEF Reload
        <5>2. QED
          BY ZenonT(60), <2>2, <3>6, <4>1, <5>1 DEF Reload
    <3>7. CASE CommitUpsert(r)
      <4>1. CASE profile.id # q.loaded.id
        BY <2>5, <3>7, <4>1 DEF CommitUpsert
      <4>2. CASE profile.id = q.loaded.id
        <5>1. profile' = Upserted(r)
          BY <3>7, <4>2 DEF CommitUpsert
        <5>2. profile'.secret \in {profile.secret, q.value}
          BY <5>1 DEF Upserted, TypeOK, ProfileRow, NoRow
        <5>3. StoredIsCaptured'
          BY <3>1, <3>7, <5>2 DEF StoredIsCaptured, CommitUpsert
        <5>4. Holds(Saved(q))
          BY <2>3, <2>3b DEF Saved
        <5>5. \A x \in Requests : Holds(request'[x])
          BY <2>1, <3>7, <4>2, <5>4 DEF CommitUpsert, TypeOK
        <5>6. CookieInv'
          BY <3>7, <5>5 DEF CookieInv, CommitUpsert
        <5>7. QED
          BY <5>3, <5>6
      <4>3. QED
        BY <4>1, <4>2
    <3>8. CASE Launch(r)
      <4>1. PICK started \in {"running", "failed"} :
               request' = [request EXCEPT ![r] = [q EXCEPT !.stage = "reply", !.shows = started]]
        BY <3>8 DEF Launch
      <4>2. Holds([q EXCEPT !.stage = "reply", !.shows = started])
        BY <3>1 DEF Request
      <4>3. QED
        BY <2>2, <3>8, <4>1, <4>2 DEF Launch
    <3>9. CASE Reply(r)
      <4>1. \A x \in Requests :
               \/ request'[x] = Idle \/ request'[x] = request[x]
               \/ request'[x] = [request[x] EXCEPT !.wanted = FALSE]
        <5>1. CASE q.wanted
          BY <3>9, <5>1 DEF Reply
        <5>2. CASE ~q.wanted
          BY <3>9, <5>2 DEF Reply, Abort, TypeOK
        <5>3. QED
          BY <5>1, <5>2
      <4>2. ASSUME NEW x \in Requests PROVE Holds(request'[x])
        <5>1. Holds([request[x] EXCEPT !.wanted = FALSE])
          BY <2>1 DEF Request
        <5>2. QED
          BY <2>1, <2>3, <4>1, <5>1
      <4>3. UNCHANGED <<result, profile>>
        BY <3>9 DEF Reply
      <4>4. QED
        BY <4>2, <4>3 DEF CookieInv, StoredIsCaptured
    <3>10. QED
      BY <2>8, <3>2, <3>3, <3>4, <3>5, <3>6, <3>7, <3>8, <3>9 DEF Handler
  <2>9. ASSUME NEW s \in Links, NEW outcome \in {"captured", "failed"}, HelperWrites(s, outcome)
        PROVE  StoredIsCaptured' /\ CookieInv'
    <3>1. \A x : result[x] = "captured" => result'[x] = "captured"
      BY <2>9 DEF HelperWrites, TypeOK
    <3>2. UNCHANGED <<profile, request>>
      BY <2>9 DEF HelperWrites
    <3>3. QED
      BY <3>1, <3>2 DEF StoredIsCaptured, CookieInv
  <2>10. CASE DeleteProfile
    <3>1. profile'.secret \notin Links /\ UNCHANGED <<result, request>>
      BY <2>10, LinkAssumption DEF DeleteProfile, NoRow
    <3>2. QED
      BY <3>1 DEF StoredIsCaptured, CookieInv
  <2>11. CASE UNCHANGED <<result, profile, request>>
    BY <2>11 DEF StoredIsCaptured, CookieInv
  <2>12. QED
    BY <2>6, <2>6b, <2>7, <2>8, <2>9, <2>10, <2>11 DEF Next, HelperExits, Deadline, vars
<1>3. QED
  BY <1>1, <1>2, LinkTypes, PTL DEF Spec

\* An expired link has no running browser, except while some thread is about
\* to terminate it: only Launch starts one, and it does so before any expiry.
THEOREM ExpiredHelpersAreStopped == Spec => []ExpiredHelperIsStopped
<1>1. Init => ExpiredHelperIsStopped
  BY DEF Init, ExpiredHelperIsStopped
<1>2. TypeOK /\ KnownLink /\ ExpiredHelperIsStopped /\ [Next]_vars => ExpiredHelperIsStopped'
  <2> SUFFICES ASSUME TypeOK, KnownLink, ExpiredHelperIsStopped, [Next]_vars, NEW s \in Links,
                      status'[s] = "expired", helper'[s] = "running",
                      \A r \in Requests : ~(At(r, "terminate")' /\ request'[r].link = s)
               PROVE  FALSE
    BY DEF ExpiredHelperIsStopped
  <2> DEFINE Quiet == /\ status'[s] = status[s] /\ helper'[s] = helper[s]
                      /\ \A r \in Requests :
                            request[r].stage = "terminate" =>
                               request'[r].stage = "terminate" /\ request'[r].link = request[r].link
  <2>1. CASE Quiet
    BY <2>1 DEF ExpiredHelperIsStopped, At
  <2>2. ASSUME NEW r \in Requests, NEW q, request[r].stage # "terminate",
               request' = [request EXCEPT ![r] = q]
        PROVE  \A x \in Requests :
                  request[x].stage = "terminate" =>
                     request'[x].stage = "terminate" /\ request'[x].link = request[x].link
    BY <2>2 DEF TypeOK
  <2>3. ASSUME NEW r \in Requests,
               \/ BeginPoll(r) \/ BeginCapture(r) \/ CheckCapture(r)
               \/ CheckExpiry(r) \/ PollProcess(r) \/ Snapshot(r) \/ GetProfile(r) \/ Reload(r)
        PROVE  FALSE
    <3>1. /\ request[r].stage # "terminate" /\ UNCHANGED <<status, helper>>
          /\ \E q : request' = [request EXCEPT ![r] = q]
      BY <2>3, Zenon DEF BeginPoll, BeginCapture, CheckCapture, CheckExpiry, PollProcess,
                  Snapshot, GetProfile, Reload, At, Goto, Abort
    <3>2. QED
      BY <2>1, <2>2, <3>1
  <2>4. ASSUME NEW r \in Requests, NEW z \in Links, NEW a \in Accounts, BeginStart(r, z, a)
        PROVE  FALSE
    BY <2>1, <2>2, <2>4 DEF BeginStart, At
  <2>4b. ASSUME NEW r \in Requests, NEW edit \in Edits, BeginPut(r, edit)
         PROVE  FALSE
    BY <2>1, <2>2, <2>4b DEF BeginPut, At
  <2>5. ASSUME NEW r \in Requests, CommitUpsert(r)
        PROVE  FALSE
    <3>1. \E q : request' = [request EXCEPT ![r] = q]
      BY <2>5 DEF CommitUpsert, Abort
    <3>2. QED
      BY <2>1, <2>2, <2>5, <3>1 DEF CommitUpsert, At
  <2>6. ASSUME NEW r \in Requests, SetCapture(r) \/ Fail(r) \/ ReadResult(r) \/ Launch(r)
        PROVE  FALSE
    <3>1. request[r].stage # "terminate" /\ request[r].link \in Links
      BY <2>6 DEF SetCapture, Fail, ReadResult, Launch, At, KnownLink
    <3>2. \E q : request' = [request EXCEPT ![r] = q]
      BY <2>6 DEF SetCapture, Fail, ReadResult, Launch, Goto
    <3>3. /\ request[r].link = s => status'[s] \in {"capture_requested", "failed", "linked", "running"}
                                    \/ UNCHANGED <<status, helper>>
          /\ request[r].link # s => status'[s] = status[s] /\ helper'[s] = helper[s]
      BY <2>6, <3>1 DEF SetCapture, Fail, ReadResult, Launch, SetStatus, TypeOK
    <3>4. QED
      BY <2>1, <2>2, <3>1, <3>2, <3>3
  <2>7. ASSUME NEW r \in Requests, Expire(r)
        PROVE  FALSE
    <3>1. request[r].stage = "expire" /\ \E q : request' = [request EXCEPT ![r] = q]
      BY <2>7 DEF Expire, At, Goto
    <3>2. CASE request[r].link = s
      <4>1. request'[r].stage = "terminate" /\ request'[r].link = s
        BY <2>7, <3>2 DEF Expire, Goto, TypeOK, Request
      <4>2. QED
        BY <4>1 DEF At
    <3>3. CASE request[r].link # s
      BY <2>1, <2>2, <2>7, <3>1, <3>3 DEF Expire, SetStatus, TypeOK
    <3>4. QED
      BY <3>2, <3>3
  <2>8. ASSUME NEW r \in Requests, Terminate(r)
        PROVE  FALSE
    <3>1. CASE request[r].link = s
      BY <2>8, <3>1 DEF Terminate, TypeOK
    <3>2. CASE request[r].link # s
      <4>1. /\ status'[s] = status[s] /\ helper'[s] = helper[s]
            /\ \A x \in Requests \ {r} : request'[x] = request[x]
        BY <2>8, <3>2 DEF Terminate, Goto, TypeOK
      <4>2. QED
        BY <3>2, <4>1 DEF ExpiredHelperIsStopped, At
    <3>3. QED
      BY <3>1, <3>2
  <2>9. ASSUME NEW r \in Requests, Reply(r)
        PROVE  FALSE
    <3>1. /\ request[r].stage = "reply" /\ UNCHANGED <<status, helper>>
          /\ \A x \in Requests \ {r} :
                request'[x] = request[x] \/ request'[x] = [request[x] EXCEPT !.wanted = FALSE]
      <4>1. request[r].stage = "reply" /\ UNCHANGED <<status, helper>>
        BY <2>9 DEF Reply, At
      <4>2. CASE request[r].wanted
        BY <2>9, <4>1, <4>2 DEF Reply
      <4>3. CASE ~request[r].wanted
        BY <2>9, <4>1, <4>3 DEF Reply, Abort, TypeOK
      <4>4. QED
        BY <4>2, <4>3
    <3>2. \A x \in Requests \ {r} :
             request'[x].stage = request[x].stage /\ request'[x].link = request[x].link
      <4> TAKE x \in Requests \ {r}
      <4>1. request[x] \in Request
        BY DEF TypeOK
      <4>2. QED
        BY <3>1, <4>1 DEF Request
    <3>3. QED
      BY <2>1, <3>1, <3>2
  <2>10. ASSUME NEW x \in Links, HelperExits(x)
         PROVE  FALSE
    BY <2>10 DEF HelperExits, TypeOK, ExpiredHelperIsStopped, At
  <2>11. CASE UNCHANGED <<status, helper, request>>
    BY <2>1, <2>11
  <2>12. QED
    BY <2>3, <2>4, <2>4b, <2>5, <2>6, <2>7, <2>8, <2>9, <2>10, <2>11
       DEF Next, Handler, Deadline, HelperWrites, DeleteProfile, vars
<1>3. QED
  BY <1>1, <1>2, LinkTypes, PTL DEF Spec
=============================================================================
