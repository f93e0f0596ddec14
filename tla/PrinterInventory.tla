-------------------------- MODULE PrinterInventory --------------------------
(***************************************************************************)
(* The saved printers and the discovery of printers on the LAN: the        *)
(* "printers" and "network_scan_results" tables, the LAN that a scan       *)
(* observes, and the requests that create, scan, confirm, update and       *)
(* delete printers (backend/domains/printers/store.py, service.py,         *)
(* identity.py, adapter_capabilities.py and their routes).                 *)
(*                                                                         *)
(* A request is a thread with its own SQLAlchemy session (autoflush off).  *)
(* Rows it has loaded and changed keep the values it loaded; SELECTs match *)
(* on what is committed; the flush at commit writes only the columns that  *)
(* differ from the loaded ones.  A missing row, a broken foreign key or a  *)
(* second printer with one identity_key rolls the request back.            *)
(***************************************************************************)
EXTENDS Naturals, FiniteSets, Functions

CONSTANTS
    Printers,      \* ids the printers.id sequence can hand out
    Requests,      \* request threads
    Hosts,         \* addresses on the LAN
    Ports,         \* a port together with its protocol
    ServiceTypes,  \* printer_type / service_type values
    StableKeys,    \* identity keys that do not start with "endpoint:"
    Devices,       \* machines on the LAN
    Services,      \* Services[d]: what d answers, see Service
    NoKey,         \* identity_key is NULL
    NoDevice,      \* nothing at an address
    NoPrinter,     \* matched_printer_id is NULL
    MaxResults     \* bound: rows kept in network_scan_results

\* A port that answers, the type its detector reports, and the stable identity
\* in the answer, if any.
Service == [port : Ports, type : ServiceTypes, key : StableKeys \cup {NoKey}]

ASSUME InventoryAssumption ==
    /\ Services \in [Devices -> SUBSET Service]
    /\ NoKey \notin StableKeys
    /\ NoDevice \notin Devices
    /\ NoPrinter \notin Printers
    /\ MaxResults \in Nat

VARIABLES
    issued,   \* printer ids handed out so far
    printer,  \* the rows of "printers", a function on the ids in the table
    results,  \* rows of "network_scan_results"
    lan,      \* lan[h]: the device at address h
    request   \* request[r]: the session of thread r

vars == <<issued, printer, results, lan, request>>

-----------------------------------------------------------------------------
(* Engines and identities                                                  *)

Adapters == {"moonraker", "octoprint", "bambu_mqtt", "none"}

InferAdapter(type) ==
    CASE type = "octoprint" -> "octoprint"
      [] type = "bambu_mqtt" -> "bambu_mqtt"
      [] type \in {"moonraker", "snapmaker_moonraker"} -> "moonraker"
      [] OTHER -> "none"

EndpointKeys == [type : ServiceTypes, host : Hosts, port : Ports]

Keys == StableKeys \cup EndpointKeys \cup {NoKey}

\* printer_identity_key: the device's own key, else one made of the endpoint.
IdentityOf(f) ==
    IF f.key # NoKey THEN f.key ELSE [type |-> f.type, host |-> f.host, port |-> f.port]

-----------------------------------------------------------------------------
(* Rows, findings and sessions                                             *)

Row == [host : Hosts, port : Ports, type : ServiceTypes, adapter : Adapters,
        key : Keys]

Rows == UNION {[ids -> Row] : ids \in SUBSET Printers}

Finding == [host : Hosts, port : Ports, type : ServiceTypes, key : Keys]

Result == [finding : Finding, key : Keys, match : Printers \cup {NoPrinter}]

\* known: the rows listed and still to probe.  found: findings not matched yet.
\* loaded, now: the rows the session has changed, as it loaded them and as it
\* leaves them.  saved: results to add.
Session ==
    [stage : {"idle", "discovered", "probing", "matching",
              "confirming", "creating", "updating"},
     known : Rows, found : SUBSET Finding, loaded : Rows, now : Rows, saved : SUBSET Result]

live == DOMAIN printer

TypeOK ==
    /\ printer \in Rows
    /\ issued \subseteq Printers /\ live \subseteq issued
    /\ results \subseteq Result
    /\ lan \in [Hosts -> Devices \cup {NoDevice}]
    /\ request \in [Requests -> Session]

NoRows == [p \in {} |-> NoKey]

With(rows, p, row) == [q \in DOMAIN rows \cup {p} |-> IF q = p THEN row ELSE rows[q]]

NewSession(stage) ==
    [stage |-> stage, known |-> NoRows, found |-> {},
     loaded |-> NoRows, now |-> NoRows, saved |-> {}]

Idle == NewSession("idle")

\* Row p as the session sees it: its own copy once it has changed it.
Seen(s, p) == IF p \in DOMAIN s.now THEN s.now[p] ELSE printer[p]

\* The session changes row p to row.
Touch(s, p, row) ==
    [s EXCEPT !.loaded = IF p \in DOMAIN @ THEN @ ELSE With(@, p, printer[p]),
              !.now = With(@, p, row)]

Close(r) == request' = [request EXCEPT ![r] = Idle]

-----------------------------------------------------------------------------
(* Matching and merging                                                    *)

\* find_known_printer: by identity, and only then by endpoint.
WithKey(key) == {p \in live : printer[p].key = key}

AtEndpoint(f) == {p \in live : printer[p].host = f.host /\ printer[p].port = f.port}

KnownMatches(key, f) == IF WithKey(key) # {} THEN WithKey(key) ELSE AtEndpoint(f)

\* Mutants of UpdateKnown: the finding's own key instead of the computed one,
\* the adapter not inferred again, the confirmed endpoint not preserved.
UpdateKnownRawKey(row, f, key, state) ==
    [host |-> f.host, port |-> f.port, type |-> f.type,
     adapter |-> InferAdapter(f.type), key |-> f.key]

UpdateKnownOldAdapter(row, f, key, state) ==
    [host |-> f.host, port |-> f.port, type |-> f.type,
     adapter |-> row.adapter, key |-> IF row.key = NoKey THEN key ELSE row.key]

UpdateKnownAlways(row, f, key, state) ==
    [host |-> f.host, port |-> f.port, type |-> f.type,
     adapter |-> InferAdapter(f.type), key |-> IF row.key = NoKey THEN key ELSE row.key]

\* _update_known_printer_from_discovery: a scan ("online") that recognises the
\* printer by its stable identity takes over the address only.
UpdateKnown(row, f, key, state) ==
    LET preserve == state = "online" /\ row.key = key /\ key \in StableKeys
    IN [host  |-> f.host,
        port  |-> IF preserve THEN row.port ELSE f.port,
        type  |-> IF preserve THEN row.type ELSE f.type,
        adapter |-> IF preserve THEN row.adapter ELSE InferAdapter(f.type),
        key   |-> IF row.key = NoKey THEN key ELSE row.key]

\* The columns a flush writes: those that differ from what was loaded.
Flushed(stored, loaded, now) ==
    [c \in DOMAIN stored |-> IF now[c] # loaded[c] THEN now[c] ELSE stored[c]]

AfterFlush(s) ==
    [p \in live |-> IF p \in DOMAIN s.now
                      THEN Flushed(printer[p], s.loaded[p], s.now[p])
                      ELSE printer[p]]

\* The unique index uq_printers_identity_key (NULLs do not collide).
DistinctKeys(rows) ==
    \A p, q \in DOMAIN rows : rows[p].key = rows[q].key /\ rows[p].key # NoKey => p = q

\* Mutants of Accepted: no unique index, no foreign key.
AcceptedWithoutIndex(s) == DOMAIN s.now \subseteq live

AcceptedWithoutForeignKey(s) == DistinctKeys(AfterFlush(s))

\* What the database accepts: every row written or referred to is still
\* there, and no two rows share an identity.
Accepted(s) ==
    /\ DOMAIN s.now \subseteq live
    /\ DistinctKeys(AfterFlush(s))

-----------------------------------------------------------------------------
(* The LAN, and printers saved and deleted by hand                         *)

Leases == {a \in [Hosts -> Devices \cup {NoDevice}] :
              \A g, h \in Hosts : a[g] = a[h] /\ a[g] # NoDevice => g = h}

Init ==
    /\ issued = {}
    /\ printer = NoRows
    /\ results = {}
    /\ lan \in Leases
    /\ request = [r \in Requests |-> Idle]

\* A device is switched on or off, or gets another address.
MoveDevices(a) ==
    /\ lan' = a
    /\ UNCHANGED <<issued, printer, results, request>>

\* Mutant of Insert: the sequence may hand out the id again.
InsertReused(p, row) ==
    /\ p \notin live
    /\ issued' = issued
    /\ printer' = With(printer, p, row)

Insert(p, row) ==
    /\ p \notin issued
    /\ issued' = issued \cup {p}
    /\ printer' = With(printer, p, row)

\* POST /printers: no identity, and no search for a known printer.
CreatePrinter(p, h, port, t) ==
    /\ Insert(p, [host |-> h, port |-> port, type |-> t, adapter |-> InferAdapter(t),
                  key |-> NoKey])
    /\ UNCHANGED <<results, lan, request>>

\* DELETE /printers/{id}: the foreign key sets matched_printer_id to NULL.
DeletePrinter(p) ==
    /\ p \in live
    /\ printer' = Restrict(printer, live \ {p})
    /\ results' = {[res EXCEPT !.match = IF @ = p THEN NoPrinter ELSE @] : res \in results}
    /\ UNCHANGED <<issued, lan, request>>

-----------------------------------------------------------------------------
(* POST /printers/scan                                                     *)

FindingOf(h, s) ==
    [host |-> h, port |-> s.port, type |-> s.type, key |-> s.key]

ServicesAt(h) == IF lan[h] = NoDevice THEN {} ELSE Services[lan[h]]

\* scan_lan_for_printers: a probe that is late is left out, so any part of
\* what is there may be found.
BeginScan(r) ==
    /\ request[r] = Idle
    /\ \E found \in SUBSET UNION {{FindingOf(h, s) : s \in ServicesAt(h)} : h \in Hosts} :
          request' = [request EXCEPT ![r] = [NewSession("discovered") EXCEPT !.found = found]]
    /\ UNCHANGED <<issued, printer, results, lan>>

ListKnown(r) ==
    /\ request[r].stage = "discovered"
    /\ request' = [request EXCEPT ![r] =
                      [@ EXCEPT !.stage = "probing", !.known = printer]]
    /\ UNCHANGED <<issued, printer, results, lan>>

\* _known_printer_already_discovered
Discovered(row, found) ==
    \E f \in found : \/ row.key = f.key /\ f.key # NoKey
                     \/ row.host = f.host /\ row.port = f.port

\* probe_known_printer_endpoint: a detector recognises a service on the known
\* address, or a port is open but nothing is recognised, or nothing answers.
ProbeOutcomes(row) ==
    LET here == ServicesAt(row.host)
    IN {{}} \cup
       {{[FindingOf(row.host, s) EXCEPT !.key = IF @ # NoKey THEN @ ELSE row.key]} : s \in here} \cup
       {{[host |-> row.host, port |-> s.port, type |-> row.type, key |-> row.key]} : s \in here}

ProbeKnown(r, p) ==
    LET s == request[r] IN
    /\ s.stage = "probing" /\ p \in DOMAIN s.known
    /\ \E outcome \in IF Discovered(s.known[p], s.found) THEN {{}}
                      ELSE ProbeOutcomes(s.known[p]) :
          request' = [request EXCEPT ![r] =
                         [s EXCEPT !.known = Restrict(s.known, DOMAIN s.known \ {p}),
                                   !.found = s.found \cup outcome]]
    /\ UNCHANGED <<issued, printer, results, lan>>

\* save_scan_result, one finding: the SELECTs see what is committed, a row this
\* session has changed already is the changed one.
MatchFinding(r, f) ==
    LET s == request[r]
        key == IdentityOf(f)
        result(match) == [finding |-> f, key |-> key, match |-> match]
        matches == KnownMatches(key, f)
        after(t, match) == [t EXCEPT !.stage = "matching", !.found = @ \ {f},
                                     !.saved = @ \cup {result(match)}]
    IN /\ s.stage \in {"probing", "matching"} /\ DOMAIN s.known = {}
       /\ f \in s.found
       /\ \/ /\ matches = {}
             /\ request' = [request EXCEPT ![r] = after(s, NoPrinter)]
          \/ \E p \in matches :
                request' = [request EXCEPT ![r] =
                   after(Touch(s, p, UpdateKnown(Seen(s, p), f, key, "online")), p)]
       /\ UNCHANGED <<issued, printer, results, lan>>

Scanned(s) == s.stage \in {"probing", "matching"} /\ DOMAIN s.known = {} /\ s.found = {}

CommitScan(r) ==
    LET s == request[r] IN
    /\ Scanned(s) /\ Accepted(s)
    /\ Cardinality(results \cup s.saved) <= MaxResults
    /\ printer' = AfterFlush(s)
    /\ results' = results \cup s.saved
    /\ Close(r)
    /\ UNCHANGED <<issued, lan>>

-----------------------------------------------------------------------------
(* POST /printers/confirm-discovered                                       *)

\* The result named by the request, or a body that repeats it without naming
\* it; the printer it matched, if it is still there, else a known printer.
LoadConfirm(r, res, named) ==
    LET f == [res.finding EXCEPT !.key = res.key]
        matched == IF named THEN {res.match} \cap live ELSE {}
        existing == IF matched # {} THEN matched ELSE KnownMatches(res.key, f)
    IN /\ request[r] = Idle
       /\ res \in results
       /\ \/ /\ existing = {}
             /\ request' = [request EXCEPT ![r] =
                               [NewSession("creating") EXCEPT !.found = {f}]]
          \/ \E p \in existing :
                request' = [request EXCEPT ![r] =
                   Touch(NewSession("confirming"), p,
                         UpdateKnown(printer[p], f, res.key, "confirmed"))]
       /\ UNCHANGED <<issued, printer, results, lan>>

CommitConfirmNew(r, p) ==
    \E f \in request[r].found :
        /\ request[r].stage = "creating"
        /\ WithKey(f.key) = {}
        /\ Insert(p, [host |-> f.host, port |-> f.port, type |-> f.type,
                      adapter |-> InferAdapter(f.type), key |-> f.key])
        /\ Close(r)
        /\ UNCHANGED <<results, lan>>

-----------------------------------------------------------------------------
(* PUT /printers/{id}                                                      *)

\* A printer_type in the request sets the adapter too; the identity is kept,
\* whatever the new endpoint.
LoadUpdate(r, p, h, port) ==
    /\ request[r] = Idle
    /\ p \in live
    /\ LET moved == [printer[p] EXCEPT !.host = h, !.port = port]
       IN \E edited \in {moved} \cup
             {[moved EXCEPT !.type = t, !.adapter = InferAdapter(t)] : t \in ServiceTypes} :
            request' = [request EXCEPT ![r] = Touch(NewSession("updating"), p, edited)]
    /\ UNCHANGED <<issued, printer, results, lan>>

\* The commit of a confirmed or updated row.
CommitRow(r) ==
    /\ request[r].stage \in {"confirming", "updating"}
    /\ Accepted(request[r])
    /\ printer' = AfterFlush(request[r])
    /\ Close(r)
    /\ UNCHANGED <<issued, results, lan>>

\* The database refuses the flush: nothing is changed, the request fails.
Rollback(r) ==
    LET s == request[r] IN
    /\ \/ (Scanned(s) \/ s.stage \in {"confirming", "updating"}) /\ ~Accepted(s)
       \/ s.stage = "creating" /\ \E f \in s.found : WithKey(f.key) # {}
    /\ Close(r)
    /\ UNCHANGED <<issued, printer, results, lan>>

-----------------------------------------------------------------------------
RequestStep(r) ==
    \/ BeginScan(r)
    \/ ListKnown(r)
    \/ \E p \in Printers : ProbeKnown(r, p)
    \/ \E f \in request[r].found : MatchFinding(r, f)
    \/ CommitScan(r)
    \/ \E res \in results, named \in BOOLEAN : LoadConfirm(r, res, named)
    \/ \E p \in Printers : CommitConfirmNew(r, p)
    \/ \E p \in Printers, h \in Hosts, port \in Ports : LoadUpdate(r, p, h, port)
    \/ CommitRow(r)
    \/ Rollback(r)

Next ==
    \/ \E a \in Leases : MoveDevices(a)
    \/ \E p \in Printers, h \in Hosts, port \in Ports, t \in ServiceTypes :
          CreatePrinter(p, h, port, t)
    \/ \E p \in Printers : DeletePrinter(p)
    \/ \E r \in Requests : RequestStep(r)

Spec == Init /\ [][Next]_vars

-----------------------------------------------------------------------------
(* Properties                                                              *)

\* No two saved printers have one identity, whatever scans, confirmations and
\* updates overlap: a discovered device is one printer (store.py 236-253).
UniqueIdentity == DistinctKeys(printer)

\* A scan result names a printer that is there, or none: the printer a scan
\* matched may be deleted before the scan is saved (store.py 149-155, 182-232).
MatchesLive == \A res \in results : res.match \in live \cup {NoPrinter}

\* A printer that has been recognised stays recognisable: no request clears the
\* identity of a printer that stays saved (store.py 255-296).
IdentityKept ==
    [][\A p \in live \cap live' : printer[p].key # NoKey => printer'[p].key # NoKey]_vars

\* With one request at a time the engine that serves a printer is the one of
\* its type, through scans that match it twice, confirmations and updates.
AdapterFollowsType == \A p \in live : printer[p].adapter = InferAdapter(printer[p].type)

\* With one request at a time, a scan that has recognised a printer only by its
\* stable identity leaves the endpoint the admin confirmed (store.py 269-290).
ScanKeepsConfirmedEndpoint ==
    [][\A r \in Requests :
        CommitScan(r) =>
            \A p \in live :
                /\ printer[p].key \in StableKeys
                /\ \A res \in request[r].saved : res.match = p => res.key = printer[p].key
                => \A c \in {"port", "type", "adapter"} : printer'[p][c] = printer[p][c]]_vars

\* A saved scan that found a known stable identity at one address leaves the
\* printer at that address (store.py 182-201); a scan does not update another
\* printer's row because of the address it had before.
ScanFollowsIdentity ==
    [][\A r \in Requests :
        CommitScan(r) =>
            \A res \in request[r].saved :
                /\ res.key \in StableKeys /\ res.match \in live
                /\ printer[res.match].key = res.key
                /\ \A other \in request[r].saved :
                      other.key = res.key => other.finding.host = res.finding.host
                => printer'[res.match].host = res.finding.host]_vars

-----------------------------------------------------------------------------
(* What makes them inductive                                               *)

\* A session remembers how it loaded each row it changes, never takes an
\* identity away from it, and changes each printer its results name.
SessionInv ==
    \A r \in Requests :
        LET s == request[r] IN
        /\ DOMAIN s.loaded = DOMAIN s.now
        /\ \A p \in DOMAIN s.now : s.now[p].key = NoKey => s.loaded[p].key = NoKey
        /\ \A res \in s.saved : res.match \in DOMAIN s.now \cup {NoPrinter}

InventoryInv == UniqueIdentity /\ MatchesLive /\ SessionInv

=============================================================================
