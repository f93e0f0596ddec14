----------------------------- MODULE BrowserLink -----------------------------
(***************************************************************************)
(* Linking a source-site account through a login browser: the link         *)
(* sessions the server keeps in memory (site_scanning/browser_link.py),    *)
(* the helper process that drives the browser                              *)
(* (scripts/site-auth-browser-link.mjs), the row of "site_auth_profiles"   *)
(* that ends up with the captured cookie (site_scanning/routes.py and      *)
(* store.py), and the settings page that polls                             *)
(* (useModelSourceAuth.ts).  One site: only one runner supports linking.   *)
(*                                                                         *)
(* Handlers are threads that share the session objects without a lock, so  *)
(* every test of session.status and every assignment to it is a step.  The *)
(* signal file only chooses a failure message and is left out.             *)
(***************************************************************************)
EXTENDS Naturals, FiniteSets

CONSTANTS
    Links,      \* link sessions that may be started
    Requests,   \* request threads
    NoLink,     \* the page shows no link
    Manual,     \* a secret an admin enters by hand
    NoSecret,   \* encrypted_value is NULL
    Accounts,   \* account identifiers at the source site
    NoAccount,  \* account_identifier is NULL
    Edits       \* what admins save by hand: a secret or none, an account or none

ASSUME LinkAssumption ==
    /\ IsFiniteSet(Requests)
    /\ NoLink \notin Links /\ Manual \notin Links /\ NoSecret \notin Links
    /\ Manual # NoSecret
    /\ NoAccount \notin Accounts
    /\ Edits \subseteq [value : {Manual, NoSecret}, account : Accounts \cup {NoAccount}]

VARIABLES
    status,   \* status[s]: _BrowserLinkSession.status, "none" before the start
    overdue,  \* overdue[s]: expires_at has passed
    helper,   \* helper[s]: the helper process
    result,   \* result[s]: the result file, renamed into place once
    profile,  \* the row of site_auth_profiles, or NoRow
    page,     \* the link and the status the settings page shows
    request   \* request[r]: the handler running in thread r

vars == <<status, overdue, helper, result, profile, page, request>>

Active == {"running", "capture_requested"}
Settled == {"linked", "failed", "expired"}

Secrets == Links \cup {Manual, NoSecret}

RowIds == 1..(Cardinality(Requests) + 1)

NoRow == [id |-> 0, secret |-> NoSecret, account |-> NoAccount]
ProfileRow == [id : RowIds, secret : Secrets, account : Accounts \cup {NoAccount}] \cup {NoRow}

NoPage == [link |-> NoLink, status |-> "none"]

\* op: what was asked for.  loaded: the profile as the thread has loaded it;
\* value, account: what it is to get.  wanted: the page still uses the reply.
Stages == {"idle", "checkCapture", "setCapture", "checkExpiry", "expire", "terminate",
           "readResult", "pollProcess", "fail", "snapshot", "getProfile", "reload",
           "upsert", "launch", "reply"}

Request == [stage : Stages, op : {"poll", "capture", "start", "put"},
            link : Links \cup {NoLink}, cookie : BOOLEAN, shows : Active \cup Settled \cup {"none"},
            loaded : ProfileRow, value : Secrets, account : Accounts \cup {NoAccount},
            wanted : BOOLEAN]

Idle == [stage |-> "idle", op |-> "poll", link |-> NoLink, cookie |-> FALSE,
         shows |-> "none", loaded |-> NoRow, value |-> NoSecret, account |-> NoAccount,
         wanted |-> FALSE]

TypeOK ==
    /\ status \in [Links -> Active \cup Settled \cup {"none"}]
    /\ overdue \in [Links -> BOOLEAN]
    /\ helper \in [Links -> {"none", "running", "terminated", "exited"}]
    /\ result \in [Links -> {"absent", "captured", "failed"}]
    /\ profile \in ProfileRow
    /\ page \in [link : Links \cup {NoLink}, status : Active \cup Settled \cup {"none"}]
    /\ request \in [Requests -> Request]

Init ==
    /\ status = [s \in Links |-> "none"]
    /\ overdue = [s \in Links |-> FALSE]
    /\ helper = [s \in Links |-> "none"]
    /\ result = [s \in Links |-> "absent"]
    /\ profile = NoRow
    /\ page = NoPage
    /\ request = [r \in Requests |-> Idle]

-----------------------------------------------------------------------------
(* The helper process and the deadline                                     *)

\* captureIfReady finds the cookies, or the helper gives up; the file is
\* renamed into place before the browser is closed.
HelperWrites(s, outcome) ==
    /\ helper[s] = "running" /\ result[s] = "absent"
    /\ result' = [result EXCEPT ![s] = outcome]
    /\ UNCHANGED <<status, overdue, helper, profile, page, request>>

\* It exits after its result, when terminated, or when it crashes.
HelperExits(s) ==
    /\ helper[s] \in {"running", "terminated"}
    /\ helper' = [helper EXCEPT ![s] = "exited"]
    /\ UNCHANGED <<status, overdue, result, profile, page, request>>

Deadline(s) ==
    /\ status[s] # "none" /\ ~overdue[s]
    /\ overdue' = [overdue EXCEPT ![s] = TRUE]
    /\ UNCHANGED <<status, helper, result, profile, page, request>>

-----------------------------------------------------------------------------
(* Steps of a handler                                                      *)

At(r, stage) == request[r].stage = stage

Goto(r, stage) == request' = [request EXCEPT ![r].stage = stage]

\* The handler is done with the profile and the cookie.
Rest(q, stage) ==
    [Idle EXCEPT !.stage = stage, !.op = q.op, !.link = q.link, !.shows = q.shows,
                 !.wanted = q.wanted]

\* An error response: the page keeps what it shows.
Abort(r) == request' = [request EXCEPT ![r] = Idle]

SetStatus(r, value) == status' = [status EXCEPT ![request[r].link] = value]

\* The page polls every 2.5 s while it shows an active link.
BeginPoll(r) ==
    /\ At(r, "idle") /\ page.status \in Active
    /\ request' = [request EXCEPT ![r] = [Idle EXCEPT !.stage = "checkExpiry", !.link = page.link,
                                                      !.wanted = TRUE]]
    /\ UNCHANGED <<status, overdue, helper, result, profile, page>>

\* The capture and refresh buttons; their replies are always used.
BeginCapture(r) ==
    /\ At(r, "idle") /\ page.link # NoLink
    /\ \E stage \in {"checkCapture", "checkExpiry"} :
          request' = [request EXCEPT ![r] = [Idle EXCEPT !.stage = stage, !.op = "capture",
                                                         !.link = page.link, !.wanted = TRUE]]
    /\ UNCHANGED <<status, overdue, helper, result, profile, page>>

CheckCapture(r) ==
    /\ At(r, "checkCapture")
    /\ Goto(r, IF status[request[r].link] \in Settled THEN "checkExpiry" ELSE "setCapture")
    /\ UNCHANGED <<status, overdue, helper, result, profile, page>>

SetCapture(r) ==
    /\ At(r, "setCapture")
    /\ SetStatus(r, "capture_requested")
    /\ Goto(r, "checkExpiry")
    /\ UNCHANGED <<overdue, helper, result, profile, page>>

\* Mutant: a link has no deadline.
CheckExpiryNever(r) ==
    /\ At(r, "checkExpiry")
    /\ Goto(r, "readResult")
    /\ UNCHANGED <<status, overdue, helper, result, profile, page>>

CheckExpiry(r) ==
    LET s == request[r].link IN
    /\ At(r, "checkExpiry")
    /\ Goto(r, IF overdue[s] /\ status[s] \notin {"linked", "failed"} THEN "expire" ELSE "readResult")
    /\ UNCHANGED <<status, overdue, helper, result, profile, page>>

\* Mutant: the helper of an expired link is left running.
ExpireKeepingHelper(r) ==
    /\ At(r, "expire")
    /\ SetStatus(r, "expired")
    /\ Goto(r, "snapshot")
    /\ UNCHANGED <<overdue, helper, result, profile, page>>

Expire(r) ==
    /\ At(r, "expire")
    /\ SetStatus(r, "expired")
    /\ Goto(r, "terminate")
    /\ UNCHANGED <<overdue, helper, result, profile, page>>

Terminate(r) ==
    LET s == request[r].link IN
    /\ At(r, "terminate")
    /\ helper' = [helper EXCEPT ![s] = IF @ = "running" THEN "terminated" ELSE @]
    /\ Goto(r, "snapshot")
    /\ UNCHANGED <<status, overdue, result, profile, page>>

\* Mutant: any result file counts as a captured session.
ReadResultUnchecked(r) ==
    LET s == request[r].link IN
    /\ At(r, "readResult")
    /\ \/ /\ result[s] = "absent"
          /\ Goto(r, "pollProcess")
          /\ UNCHANGED status
       \/ /\ result[s] # "absent"
          /\ SetStatus(r, "linked")
          /\ request' = [request EXCEPT ![r] = [@ EXCEPT !.stage = "snapshot", !.cookie = TRUE]]
    /\ UNCHANGED <<overdue, helper, result, profile, page>>

ReadResult(r) ==
    LET s == request[r].link IN
    /\ At(r, "readResult")
    /\ \/ /\ result[s] = "absent"
          /\ Goto(r, "pollProcess")
          /\ UNCHANGED status
       \/ /\ result[s] = "captured"
          /\ SetStatus(r, "linked")
          /\ request' = [request EXCEPT ![r] = [@ EXCEPT !.stage = "snapshot", !.cookie = TRUE]]
       \/ /\ result[s] = "failed"
          /\ SetStatus(r, "failed")
          /\ Goto(r, "snapshot")
    /\ UNCHANGED <<overdue, helper, result, profile, page>>

PollProcess(r) ==
    LET s == request[r].link IN
    /\ At(r, "pollProcess")
    /\ Goto(r, IF helper[s] = "exited" /\ status[s] # "linked" THEN "fail" ELSE "snapshot")
    /\ UNCHANGED <<status, overdue, helper, result, profile, page>>

Fail(r) ==
    /\ At(r, "fail")
    /\ SetStatus(r, "failed")
    /\ Goto(r, "snapshot")
    /\ UNCHANGED <<overdue, helper, result, profile, page>>

\* _status reads the session object again, whoever wrote it last; a cookie
\* is stored only if that status is still "linked".
Snapshot(r) ==
    LET shows == status[request[r].link]
        answered == [request[r] EXCEPT !.shows = shows]
        store == request[r].cookie /\ shows = "linked"
    IN
    /\ At(r, "snapshot")
    /\ request' = [request EXCEPT ![r] =
           IF store THEN [answered EXCEPT !.stage = "getProfile"] ELSE Rest(answered, "reply")]
    /\ UNCHANGED <<status, overdue, helper, result, profile, page>>

-----------------------------------------------------------------------------
(* The profile row: SELECT, then UPDATE by primary key or INSERT           *)

\* Storing a captured session needs a row with an account, which it keeps: 400
\* without them.
GetProfile(r) ==
    /\ At(r, "getProfile")
    /\ IF profile.account = NoAccount
          THEN Abort(r)
          ELSE request' = [request EXCEPT ![r] = [@ EXCEPT
                   !.stage = "reload", !.loaded = profile,
                   !.value = request[r].link, !.account = profile.account]]
    /\ UNCHANGED <<status, overdue, helper, result, profile, page>>

\* upsert_profile selects again: a row the session holds keeps the values it
\* was loaded with, a row deleted since is not found and will be inserted.
Reload(r) ==
    /\ At(r, "reload")
    /\ request' = [request EXCEPT ![r].stage = "upsert",
                                  ![r].loaded = IF profile.id = @.id THEN @ ELSE profile]
    /\ UNCHANGED <<status, overdue, helper, result, profile, page>>

\* Ids stand for sequence values: one that no thread refers to is new.
FreshId == CHOOSE id \in RowIds : \A r \in Requests : request[r].loaded.id # id

\* The row after the flush, which writes what differs from what was loaded (an
\* encrypted value always does); without a loaded row it inserts one.
Upserted(r) ==
    LET q == request[r] IN
    IF q.loaded = NoRow
      THEN [id |-> FreshId, secret |-> q.value, account |-> q.account]
      ELSE [id      |-> profile.id,
            secret  |-> IF q.value = NoSecret /\ q.loaded.secret = NoSecret
                          THEN profile.secret ELSE q.value,
            account |-> IF q.account = q.loaded.account THEN profile.account ELSE q.account]

\* After the commit: a link is launched, a captured session answered, and the
\* profile an admin saved is of no concern to the page's links.
Saved(q) ==
    CASE q.op = "start" -> Rest(q, "launch")
      [] q.op = "put"   -> Idle
      [] OTHER          -> Rest(q, "reply")

\* Mutant: the row is written whatever happened to it since it was loaded.
CommitUpsertUnchecked(r) ==
    /\ At(r, "upsert")
    /\ profile' = Upserted(r)
    /\ request' = [request EXCEPT ![r] = Saved(@)]
    /\ UNCHANGED <<status, overdue, helper, result, page>>

\* An UPDATE of a row that is gone and an INSERT beside another row raise.
CommitUpsert(r) ==
    /\ At(r, "upsert")
    /\ IF profile.id # request[r].loaded.id
          THEN Abort(r) /\ UNCHANGED profile
          ELSE /\ profile' = Upserted(r)
               /\ request' = [request EXCEPT ![r] = Saved(@)]
    /\ UNCHANGED <<status, overdue, helper, result, page>>

\* Starting a link first saves the profile without a secret.
BeginStart(r, s, a) ==
    /\ At(r, "idle") /\ status[s] = "none"
    /\ \A q \in Requests : request[q].op = "start" => request[q].link # s
    /\ request' = [request EXCEPT ![r] = [Idle EXCEPT !.stage = "upsert", !.op = "start",
                                                      !.link = s, !.loaded = profile,
                                                      !.account = a, !.wanted = TRUE]]
    /\ UNCHANGED <<status, overdue, helper, result, profile, page>>

\* Popen, which may fail; the session is registered either way.
Launch(r) ==
    LET s == request[r].link IN
    /\ At(r, "launch")
    /\ \E started \in {"running", "failed"} :
          /\ SetStatus(r, started)
          /\ helper' = [helper EXCEPT ![s] = IF started = "running" THEN "running" ELSE @]
          /\ request' = [request EXCEPT ![r] = [@ EXCEPT !.stage = "reply", !.shows = started]]
    /\ UNCHANGED <<overdue, result, profile, page>>

\* An admin saves the profile; its mode says what it has.
BeginPut(r, edit) ==
    /\ At(r, "idle")
    /\ request' = [request EXCEPT ![r] = [Idle EXCEPT !.stage = "upsert", !.op = "put",
                                                      !.loaded = profile, !.value = edit.value,
                                                      !.account = edit.account]]
    /\ UNCHANGED <<status, overdue, helper, result, profile, page>>

\* One step: a delete that finds its row already gone changes nothing.
DeleteProfile ==
    /\ profile # NoRow
    /\ profile' = NoRow
    /\ UNCHANGED <<status, overdue, helper, result, page, request>>

\* The page takes the reply, and with that drops the polls it had in flight.
Reply(r) ==
    LET q == request[r] IN
    /\ At(r, "reply")
    /\ IF q.wanted
          THEN /\ page' = [link |-> q.link, status |-> q.shows]
               /\ request' = [x \in Requests |->
                     IF x = r THEN Idle
                     ELSE IF request[x].op = "poll" THEN [request[x] EXCEPT !.wanted = FALSE]
                     ELSE request[x]]
          ELSE Abort(r) /\ UNCHANGED page
    /\ UNCHANGED <<status, overdue, helper, result, profile>>

-----------------------------------------------------------------------------
Handler(r) ==
    \/ CheckCapture(r) \/ SetCapture(r) \/ CheckExpiry(r) \/ Expire(r) \/ Terminate(r)
    \/ ReadResult(r) \/ PollProcess(r) \/ Fail(r) \/ Snapshot(r)
    \/ GetProfile(r) \/ Reload(r) \/ CommitUpsert(r) \/ Launch(r) \/ Reply(r)

Next ==
    \/ \E s \in Links : HelperExits(s) \/ Deadline(s)
    \/ \E s \in Links, outcome \in {"captured", "failed"} : HelperWrites(s, outcome)
    \/ \E r \in Requests : Handler(r) \/ BeginPoll(r) \/ BeginCapture(r)
    \/ \E r \in Requests, edit \in Edits : BeginPut(r, edit)
    \/ \E r \in Requests, s \in Links, a \in Accounts : BeginStart(r, s, a)
    \/ DeleteProfile

Spec == Init /\ [][Next]_vars

\* A handler runs to its end, time passes, a terminated process goes away, and
\* the interval timer gets its poll through however often the threads are busy.
Fairness ==
    /\ \A r \in Requests : WF_vars(Handler(r))
    /\ \A s \in Links : WF_vars(Deadline(s)) /\ WF_vars(helper[s] = "terminated" /\ HelperExits(s))
    /\ SF_vars(\E r \in Requests : BeginPoll(r))

FairSpec == Spec /\ Fairness

-----------------------------------------------------------------------------
(* Properties                                                              *)

\* The vault holds, as a captured session, only what a helper captured: no
\* mix of sessions, late polls and profile edits stores a cookie for a link
\* whose helper failed or is still waiting for the login.
StoredIsCaptured == profile.secret \in Links => result[profile.secret] = "captured"

\* A link that has expired leaves no login browser behind, once the threads
\* that are in the middle of terminating it are through.
ExpiredHelperIsStopped ==
    \A s \in Links :
        (status[s] = "expired" /\ \A r \in Requests : ~(At(r, "terminate") /\ request[r].link = s))
            => helper[s] # "running"

\* Unless the profile is removed or loses its account, the page does not show a
\* link as pending for ever: stale replies and dropped polls are made up for
\* (useModelSourceAuth.ts 44-75, browser_link.py 137-163).
LinkSettles == []<>(page.status \notin Active \/ profile.account = NoAccount)

\* A link that has failed is one whose login was not captured: "Login browser
\* exited before a site session was captured" (browser_link.py 160-162).
FailedMeansNotCaptured == \A s \in Links : status[s] = "failed" => result[s] # "captured"

-----------------------------------------------------------------------------
(* What makes the invariants inductive                                     *)

\* A page that shows a status, and a handler that looks at one, has a link.
KnownLink ==
    /\ page.status # "none" => page.link \in Links
    /\ \A r \in Requests :
          \/ request[r].stage = "idle"
          \/ request[r].stage = "upsert" /\ request[r].op = "put"
          \/ request[r].op # "put" /\ request[r].link \in Links

\* A thread that has a cookie, or a captured session to store, has it from a
\* result that says "captured".
CookieInv ==
    \A r \in Requests :
        LET q == request[r] IN
        /\ q.cookie => q.link \in Links /\ result[q.link] = "captured"
        /\ q.stage = "getProfile" => q.cookie
        /\ q.value \in Links => result[q.value] = "captured"

LinkInv == StoredIsCaptured /\ CookieInv /\ KnownLink
=============================================================================
