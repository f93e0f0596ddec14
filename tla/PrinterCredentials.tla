------------------------- MODULE PrinterCredentials -------------------------
(***************************************************************************)
(* Bambu LAN credentials of the saved printers: the credential columns of  *)
(* the "printers" table, the "provider_secrets" table and the HTTP         *)
(* requests that change them (backend/domains/printers/credentials.py and  *)
(* the routes, store and scan code that write the same columns).           *)
(*                                                                         *)
(* Every request runs in a thread with a SQLAlchemy session of its own.    *)
(* The session loads a printer row, decides, and at commit writes ONLY the *)
(* columns whose new value differs from the value it loaded, whatever has  *)
(* been committed in between (PostgreSQL READ COMMITTED).  An UPDATE that  *)
(* matches no row, or an INSERT that breaks a unique index, rolls the      *)
(* whole request back.                                                     *)
(***************************************************************************)
EXTENDS Naturals, FiniteSets

CONSTANTS
    Printers,    \* ids the printers.id sequence can hand out (never reused)
    Requests,    \* request threads; each serves one request after another
    Adapters,    \* adapter types a printer can have
    BambuMqtt,   \* the adapter type the credentials are for
    DeviceIds,   \* Bambu device ids an admin can enter
    NoDevice,    \* capabilities without a "device_id" key
    MaxSecrets   \* bound: rows ever inserted into provider_secrets

ASSUME CredentialAssumption ==
    /\ BambuMqtt \in Adapters
    /\ NoDevice \notin DeviceIds
    /\ MaxSecrets \in Nat

VARIABLES
    issued,      \* printer ids handed out so far
    live,        \* ids of the rows in "printers"
    printer,     \* printer[p]: the modelled columns of row p
    secret,      \* secret[p]: primary key of secret printer_{p}_bambu_lan
    inserted,    \* primary keys of provider_secrets used so far
    request      \* request[r]: the session of thread r

vars == <<issued, live, printer, secret, inserted, request>>

NoSecret == 0

\* capabilities is one JSON column: the engine whose defaults it holds, and
\* the device_id key.
Capabilities == [engine : Adapters, device : DeviceIds \cup {NoDevice}]

\* credential: printers.credential_secret_name is not NULL.
Row == [adapter : Adapters, credential : BOOLEAN, capabilities : Capabilities]

SecretKey == 0..MaxSecrets

Idle == [op |-> "idle"]

\* A session: the operation, the printer, the row as loaded, what it is to be
\* changed to, and the primary key of the secret it has read.
Session ==
    [op : {"configure", "configureSecret", "remove", "removeSecret",
           "retype", "refresh", "refreshMatch"},
     id : Printers, loaded : Row, edited : Row, key : SecretKey]

TypeOK ==
    /\ issued \subseteq Printers
    /\ live \subseteq issued
    /\ printer \in [Printers -> Row]
    /\ secret \in [Printers -> SecretKey]
    /\ inserted \in SecretKey
    /\ request \in [Requests -> Session \cup {Idle}]

-----------------------------------------------------------------------------
(* The session machinery                                                   *)

DefaultCapabilities(a) == [engine |-> a, device |-> NoDevice]

NewRow(a) ==
    [adapter |-> a, credential |-> FALSE, capabilities |-> DefaultCapabilities(a)]

\* The UPDATE a flush sends: the columns that differ from what was loaded.
Flushed(stored, loaded, edited) ==
    [column \in DOMAIN stored |->
        IF edited[column] # loaded[column] THEN edited[column] ELSE stored[column]]

\* The flush finds the row it must update, or has nothing to update.
RowUpdatable(s) == s.edited = s.loaded \/ s.id \in live

WriteRow(s) ==
    printer' = [printer EXCEPT ![s.id] =
                    IF s.id \in live THEN Flushed(@, s.loaded, s.edited) ELSE @]

Open(r, op, p, edited) ==
    /\ request[r] = Idle
    /\ p \in live
    /\ request' = [request EXCEPT ![r] =
                      [op |-> op, id |-> p, loaded |-> printer[p],
                       edited |-> edited, key |-> NoSecret]]

Close(r) == request' = [request EXCEPT ![r] = Idle]

Init ==
    /\ issued = {}
    /\ live = {}
    /\ printer = [p \in Printers |-> NewRow(BambuMqtt)]
    /\ secret = [p \in Printers |-> NoSecret]
    /\ inserted = 0
    /\ request = [r \in Requests |-> Idle]

-----------------------------------------------------------------------------
(* Rows come and go                                                        *)

\* Mutant of CreatePrinter: the id may be handed out again.
CreatePrinterReused(p, a) ==
    /\ p \notin live
    /\ live' = live \cup {p}
    /\ printer' = [printer EXCEPT ![p] = NewRow(a)]
    /\ UNCHANGED <<issued, secret, inserted, request>>

CreatePrinter(p, a) ==
    /\ p \notin issued
    /\ issued' = issued \cup {p}
    /\ live' = live \cup {p}
    /\ printer' = [printer EXCEPT ![p] = NewRow(a)]
    /\ UNCHANGED <<secret, inserted, request>>

\* DELETE /printers/{id}: the row goes, its provider secret stays.
DeletePrinter(p) ==
    /\ p \in live
    /\ live' = live \ {p}
    /\ UNCHANGED <<issued, printer, secret, inserted, request>>

-----------------------------------------------------------------------------
(* PUT /printers/{id}/credentials/bambu-lan                                *)

\* The row is loaded and its adapter checked (404 and 409 change nothing).
BeginConfigure(r, p, d) ==
    /\ printer[p].adapter = BambuMqtt
    /\ Open(r, "configure", p,
            [printer[p] EXCEPT !.credential = TRUE, !.capabilities.device = d])
    /\ UNCHANGED <<issued, live, printer, secret, inserted>>

\* _get_printer_secret_record: a second SELECT, other commits in between.
ReadSecretToConfigure(r) ==
    /\ request[r].op = "configure"
    /\ request' = [request EXCEPT ![r].op = "configureSecret",
                                  ![r].key = secret[request[r].id]]
    /\ UNCHANGED <<issued, live, printer, secret, inserted>>

CommitConfigure(r) ==
    LET s == request[r] IN
    /\ s.op = "configureSecret"
    /\ secret[s.id] = s.key        \* else unique violation or stale UPDATE
    /\ RowUpdatable(s)
    /\ IF s.key = NoSecret
         THEN /\ inserted < MaxSecrets
              /\ inserted' = inserted + 1
              /\ secret' = [secret EXCEPT ![s.id] = inserted + 1]
         ELSE UNCHANGED <<secret, inserted>>
    /\ WriteRow(s)
    /\ Close(r)
    /\ UNCHANGED <<issued, live>>

RollbackConfigure(r) ==
    LET s == request[r] IN
    /\ s.op = "configureSecret"
    /\ secret[s.id] # s.key \/ ~RowUpdatable(s)
    /\ Close(r)
    /\ UNCHANGED <<issued, live, printer, secret, inserted>>

-----------------------------------------------------------------------------
(* DELETE /printers/{id}/credentials/bambu-lan                             *)

\* Mutant of BeginRemove: the column keeps the name of the deleted secret.
BeginRemoveKeepsName(r, p) ==
    /\ Open(r, "remove", p, [printer[p] EXCEPT !.capabilities.device = NoDevice])
    /\ UNCHANGED <<issued, live, printer, secret, inserted>>

BeginRemove(r, p) ==
    /\ Open(r, "remove", p,
            [printer[p] EXCEPT !.credential = FALSE, !.capabilities.device = NoDevice])
    /\ UNCHANGED <<issued, live, printer, secret, inserted>>

\* The secret is looked up only when the loaded row names one.
ReadSecretToRemove(r) ==
    /\ request[r].op = "remove"
    /\ request' = [request EXCEPT ![r].op = "removeSecret",
                                  ![r].key = IF request[r].loaded.credential
                                               THEN secret[request[r].id] ELSE NoSecret]
    /\ UNCHANGED <<issued, live, printer, secret, inserted>>

\* A DELETE that matches no row is only a warning.
CommitRemove(r) ==
    LET s == request[r] IN
    /\ s.op = "removeSecret"
    /\ RowUpdatable(s)
    /\ secret' = [secret EXCEPT ![s.id] = IF @ = s.key THEN NoSecret ELSE @]
    /\ WriteRow(s)
    /\ Close(r)
    /\ UNCHANGED <<issued, live, inserted>>

RollbackRemove(r) ==
    /\ request[r].op = "removeSecret"
    /\ ~RowUpdatable(request[r])
    /\ Close(r)
    /\ UNCHANGED <<issued, live, printer, secret, inserted>>

-----------------------------------------------------------------------------
(* Other writers of the same columns                                       *)

\* PUT /printers/{id} with a printer_type: the adapter is inferred again and
\* the capabilities are replaced, device_id included; the credential stays.
BeginRetype(r, p, a) ==
    /\ Open(r, "retype", p,
            [printer[p] EXCEPT !.adapter = a, !.capabilities = DefaultCapabilities(a)])
    /\ UNCHANGED <<issued, live, printer, secret, inserted>>

\* POST /printers/scan, as far as it concerns these columns: the known
\* printer's capabilities are copied into the discovery when the rows are
\* listed ...
BeginRefresh(r, p) ==
    /\ Open(r, "refresh", p, printer[p])
    /\ UNCHANGED <<issued, live, printer, secret, inserted>>

\* ... and, after the probes, merged over the row as it is selected again:
\* a key the stale copy has wins over the row's.
MatchRefresh(r) ==
    LET s == request[r]
        known == s.edited.capabilities
        row == printer[s.id]
        merged == [engine |-> known.engine,
                   device |-> IF known.device # NoDevice
                                THEN known.device ELSE row.capabilities.device]
    IN /\ s.op = "refresh"
       /\ request' =
            [request EXCEPT ![r] =
                IF s.id \in live
                  THEN [s EXCEPT !.op = "refreshMatch", !.loaded = row,
                                 !.edited = [row EXCEPT !.capabilities = merged]]
                  ELSE Idle]
       /\ UNCHANGED <<issued, live, printer, secret, inserted>>

CommitRow(r) ==
    LET s == request[r] IN
    /\ s.op \in {"retype", "refreshMatch"}
    /\ WriteRow(s)     \* on a row deleted meanwhile: nothing, the request fails
    /\ Close(r)
    /\ UNCHANGED <<issued, live, secret, inserted>>

-----------------------------------------------------------------------------
RequestStep(r) ==
    \/ \E p \in Printers, d \in DeviceIds : BeginConfigure(r, p, d)
    \/ ReadSecretToConfigure(r)
    \/ CommitConfigure(r)
    \/ RollbackConfigure(r)
    \/ \E p \in Printers : BeginRemove(r, p)
    \/ ReadSecretToRemove(r)
    \/ CommitRemove(r)
    \/ RollbackRemove(r)
    \/ \E p \in Printers, a \in Adapters : BeginRetype(r, p, a)
    \/ \E p \in Printers : BeginRefresh(r, p)
    \/ MatchRefresh(r)
    \/ CommitRow(r)

Next ==
    \/ \E p \in Printers, a \in Adapters : CreatePrinter(p, a)
    \/ \E p \in Printers : DeletePrinter(p)
    \/ \E r \in Requests : RequestStep(r)

Spec == Init /\ [][Next]_vars

-----------------------------------------------------------------------------
(* Properties                                                              *)

\* A saved printer whose row names a credential has that credential in the
\* secret store, however configure, remove, retype and scan requests overlap
\* (credentials.py 19-81): a status read never finds the name dangling.
CredentialHasSecret ==
    \A p \in live : printer[p].credential => secret[p] # NoSecret

\* A configure request that commits
\* leaves the row naming the credential (routes.py 186-211).
ConfigureTakesEffect ==
    [][\A r \in Requests :
        CommitConfigure(r) /\ request[r].id \in live
            => printer'[request[r].id].credential]_vars

\* The sessions' part of the inductive invariant: what each kind of request is
\* about to do to the credential column, and that a remove request holds a
\* secret's key only when it has loaded the row naming that secret.
SessionInv ==
    \A r \in Requests :
        LET s == request[r] IN
        /\ s.op \in {"configure", "configureSecret"} => s.edited.credential
        /\ s.op \in {"remove", "removeSecret"} => ~s.edited.credential
        /\ s.op = "removeSecret" /\ s.key # NoSecret => s.loaded.credential
        /\ s.op \in {"retype", "refresh", "refreshMatch"}
             => s.edited.credential = s.loaded.credential

CredentialInv == CredentialHasSecret /\ SessionInv

=============================================================================
