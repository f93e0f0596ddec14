---------------------------- MODULE SiteAccounts ----------------------------
(***************************************************************************)
(* One source site's rows: the account profile and the adapter record      *)
(* (backend/domains/site_scanning/store.py and the routes that save them). *)
(*                                                                         *)
(* A request loads the row with a SELECT, assigns to the instance and      *)
(* commits.  No row is locked, and the UPDATE names only the columns whose *)
(* values differ from the loaded ones, so two overlapping requests may     *)
(* leave a row that neither of them asked for.                             *)
(***************************************************************************)
EXTENDS Naturals

CONSTANTS
    SiteThreads,     \* request threads
    UsedModes,       \* auth modes the requests ask for
    SiteAccountIds,  \* account identifiers
    HeaderNames,     \* names of headers that carry an API token
    SiteSecrets,     \* secret values; a stored one stands for its ciphertext
    Null,            \* a column or a field that is not set
    Declarations,    \* what an adapter's declaration may say
    Declared,        \* what it says in this version of the program
    DeclaredEnabled  \* whether the declaration comes enabled

AuthModes == {"none", "api_token", "bearer_token", "cookie_header", "username_password",
              "browser_session"}

ASSUME SiteAssumption ==
    /\ UsedModes \subseteq AuthModes
    /\ Null \notin SiteAccountIds \cup HeaderNames \cup SiteSecrets \cup Declarations
    /\ Declared \in Declarations
    /\ DeclaredEnabled \in BOOLEAN

VARIABLES
    profile,         \* the site_auth_profiles row, or NoProfile
    adapter,         \* the model_site_adapters row, or NoAdapter
    work             \* work[t]: what thread t is doing

siteVars == <<profile, adapter, work>>

NoProfile == [mode |-> "missing"]
NoAdapter == [declared |-> Null]
NoRequest == [op |-> "idle"]

Profile ==
    [mode : AuthModes, account : SiteAccountIds \cup {Null}, header : HeaderNames \cup {Null},
     secret : SiteSecrets \cup {Null}, enabled : BOOLEAN]

Adapter == [declared : Declarations, enabled : BOOLEAN]

\* base: the row as it was loaded; gone: that row has been deleted since.
PutRequest == [op : {"put"}, want : Profile, base : Profile \cup {NoProfile}, gone : BOOLEAN]

\* wanted: the value of a toggle; op "list" only synchronises the registry.
AdapterRequest ==
    [op : {"list", "toggle"}, phase : {"sync", "reload", "write"}, wanted : BOOLEAN,
     base : Adapter \cup {NoAdapter}]

SiteTypeOK ==
    /\ profile \in Profile \cup {NoProfile}
    /\ adapter \in Adapter \cup {NoAdapter}
    /\ work \in [SiteThreads -> PutRequest \cup AdapterRequest \cup {NoRequest}]

\* The adapter's row may be that of an earlier version of the program.
InitSite ==
    /\ profile = NoProfile
    /\ adapter \in {NoAdapter} \cup [declared : Declarations, enabled : {DeclaredEnabled}]
    /\ work = [t \in SiteThreads |-> NoRequest]

Reply(t) == work' = [work EXCEPT ![t] = NoRequest]

-----------------------------------------------------------------------------
(* The account profile                                                     *)

NeedsAccount == {"username_password", "browser_session"}

\* _normalize_account_identifier, _normalize_header_name and
\* _normalize_secret_value: what the mode has no use for is dropped, and a
\* request without what it needs is refused (400).
Normalised(mode, account, header, secret, enabled) ==
    [mode |-> mode,
     account |-> IF mode \in NeedsAccount THEN account ELSE Null,
     header |-> IF mode = "api_token" THEN header ELSE Null,
     secret |-> IF mode = "none" THEN Null ELSE secret,
     enabled |-> enabled]

Acceptable(row) ==
    /\ row.mode \in NeedsAccount => row.account # Null
    /\ row.mode = "api_token" => row.header # Null
    /\ row.mode \notin {"none", "browser_session"} => row.secret # Null

Put(t, row) ==
    /\ work[t] = NoRequest
    /\ Acceptable(row)
    /\ work' = [work EXCEPT ![t] =
                    [op |-> "put", want |-> row, base |-> profile, gone |-> FALSE]]
    /\ UNCHANGED <<profile, adapter>>

\* upsert_site_auth_profile; starting a browser link puts a browser_session
\* without a secret.
BeginPut(t) ==
    \E mode \in UsedModes, account \in SiteAccountIds \cup {Null},
       header \in HeaderNames \cup {Null}, secret \in SiteSecrets \cup {Null}, enabled \in BOOLEAN :
        Put(t, Normalised(mode, account, header, secret, enabled))

\* _persist_captured_browser_session: the account is the loaded row's.
BeginCapture(t) ==
    /\ profile # NoProfile
    /\ \E secret \in SiteSecrets :
        Put(t, Normalised("browser_session", profile.account, Null, secret, TRUE))

\* Every encryption of a secret is a new ciphertext, so a secret that is set
\* is always written.
Differs(k, column) ==
    \/ k.want[column] # k.base[column]
    \/ column = "secret" /\ k.want.secret # Null

\* upsert_profile, its commit.  The INSERT of a second row and the UPDATE of a
\* deleted one fail, and nothing is written (500).
CommitPut(t) ==
    /\ work[t].op = "put"
    /\ LET k == work[t] IN
        profile' = IF k.base = NoProfile
                   THEN IF profile = NoProfile THEN k.want ELSE profile
                   ELSE IF k.gone THEN profile
                   ELSE [column \in DOMAIN profile |->
                            IF Differs(k, column) THEN k.want[column] ELSE profile[column]]
    /\ Reply(t)
    /\ UNCHANGED adapter

\* delete_profile
DeleteProfile ==
    /\ profile # NoProfile
    /\ profile' = NoProfile
    /\ work' = [t \in SiteThreads |->
        IF work[t].op = "put" /\ work[t].base # NoProfile
        THEN [work[t] EXCEPT !.gone = TRUE] ELSE work[t]]
    /\ UNCHANGED adapter

\* readiness_for_site
LinkStatus(row) ==
    CASE row = NoProfile \/ row.mode = "none" -> "public_only"
      [] row # NoProfile /\ row.mode # "none" /\ ~ row.enabled -> "disabled"
      [] row # NoProfile /\ row.mode # "none" /\ row.enabled /\ row.secret = Null ->
            IF row.mode = "browser_session" THEN "needs_relink" ELSE "not_linked"
      [] OTHER -> "linked"

\* auth_context_for_site: how the secret is sent, "off" when it is not.
SentAs(row) ==
    IF row = NoProfile \/ row.mode = "none" THEN "off"
    ELSE IF ~ row.enabled \/ row.secret = Null THEN "off"
    ELSE CASE row.mode = "api_token" -> IF row.header # Null THEN "header" ELSE "off"
           [] row.mode = "bearer_token" -> "bearer"
           [] row.mode \in {"cookie_header", "browser_session"} -> "cookie"
           [] row.mode = "username_password" -> "password"

-----------------------------------------------------------------------------
(* The adapter registry                                                    *)

\* list_adapter_records loads the row, for a GET or for a toggle.
BeginAdapters(t) ==
    /\ work[t] = NoRequest
    /\ \E op \in {"list", "toggle"}, wanted \in BOOLEAN :
        work' = [work EXCEPT ![t] =
            [op |-> op, phase |-> "sync", wanted |-> wanted, base |-> adapter]]
    /\ UNCHANGED <<profile, adapter>>

AdapterStep(t, phase) == work[t].op \in {"list", "toggle"} /\ work[t].phase = phase

\* The rest of the request: a toggle goes on, with its instance expired when
\* there was something to commit.
AfterSync(t, committed) ==
    IF work[t].op = "list" THEN Reply(t)
    ELSE work' = [work EXCEPT ![t].phase = IF committed THEN "reload" ELSE "write"]

\* The synchronised record written as a whole (a mutant).
SyncAdapterWhole(t) ==
    /\ AdapterStep(t, "sync")
    /\ LET base == work[t].base IN
        \/ /\ base = NoAdapter /\ adapter = NoAdapter
           /\ adapter' = [declared |-> Declared, enabled |-> DeclaredEnabled]
           /\ AfterSync(t, TRUE)
        \/ base = NoAdapter /\ adapter # NoAdapter /\ Reply(t) /\ UNCHANGED adapter
        \/ /\ base # NoAdapter /\ base.declared # Declared
           /\ adapter' = [base EXCEPT !.declared = Declared]
           /\ AfterSync(t, TRUE)
        \/ base.declared = Declared /\ AfterSync(t, FALSE) /\ UNCHANGED adapter
    /\ UNCHANGED profile

\* list_adapter_records, its commit: a missing row is inserted (which fails
\* when another request was faster), a row that differs from the declaration
\* is updated, and enabled is left alone.
SyncAdapter(t) ==
    /\ AdapterStep(t, "sync")
    /\ LET base == work[t].base IN
        \/ /\ base = NoAdapter /\ adapter = NoAdapter
           /\ adapter' = [declared |-> Declared, enabled |-> DeclaredEnabled]
           /\ AfterSync(t, TRUE)
        \/ base = NoAdapter /\ adapter # NoAdapter /\ Reply(t) /\ UNCHANGED adapter
        \/ /\ base # NoAdapter /\ base.declared # Declared
           /\ adapter' = [adapter EXCEPT !.declared = Declared]
           /\ AfterSync(t, TRUE)
        \/ base.declared = Declared /\ AfterSync(t, FALSE) /\ UNCHANGED adapter
    /\ UNCHANGED profile

ReloadAdapter(t) ==
    /\ AdapterStep(t, "reload")
    /\ work' = [work EXCEPT ![t].phase = "write", ![t].base = adapter]
    /\ UNCHANGED <<profile, adapter>>

\* update_adapter_enabled, its commit: no UPDATE when the loaded value is the
\* wanted one.
CommitToggle(t) ==
    /\ AdapterStep(t, "write")
    /\ adapter' = IF work[t].wanted = work[t].base.enabled THEN adapter
                  ELSE [adapter EXCEPT !.enabled = work[t].wanted]
    /\ Reply(t)
    /\ UNCHANGED profile

NextSite ==
    \/ \E t \in SiteThreads :
        \/ BeginPut(t) \/ BeginCapture(t) \/ CommitPut(t)
        \/ BeginAdapters(t) \/ SyncAdapter(t) \/ ReloadAdapter(t) \/ CommitToggle(t)
    \/ DeleteProfile

SiteSpec == InitSite /\ [][NextSite]_siteVars

-----------------------------------------------------------------------------

\* Whoever synchronises the registry, and however old the row it has loaded,
\* an adapter is switched on or off only by the answer to a request that asked
\* for it.
ToggleIsKept ==
    [][adapter # NoAdapter /\ adapter'.enabled # adapter.enabled =>
        \E t \in SiteThreads :
            /\ AdapterStep(t, "write")
            /\ work'[t] = NoRequest
            /\ work[t].wanted = adapter'.enabled]_siteVars

\* store.py:323: an account reported as linked "is available for unattended
\* authenticated requests".
ReadinessAgrees == LinkStatus(profile) = "linked" => SentAs(profile) # "off"
=============================================================================
