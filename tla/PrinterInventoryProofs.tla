----------------------- MODULE PrinterInventoryProofs -----------------------
(***************************************************************************)
(* For every set of printers, requests, hosts, ports, types, keys and      *)
(* devices: the inventory keeps its types, gives no identity to two        *)
(* printers, names no deleted printer in a scan result, and never takes an *)
(* identity away.                                                          *)
(***************************************************************************)
EXTENDS PrinterInventory, TLAPS

-----------------------------------------------------------------------------
(* Rows and sets of rows                                                   *)

LEMMA RowsFacts ==
    ASSUME NEW rows \in Rows
    PROVE  DOMAIN rows \subseteq Printers /\ \A p \in DOMAIN rows : rows[p] \in Row
  BY DEF Rows

LEMMA MakeRows ==
    ASSUME NEW ids \in SUBSET Printers, NEW rows \in [ids -> Row]
    PROVE  rows \in Rows
  BY DEF Rows

LEMMA NoRowsType == NoRows \in Rows /\ DOMAIN NoRows = {}
<1>1. NoRows \in [{} -> Row]
  BY DEF NoRows
<1>2. QED
  BY <1>1, MakeRows DEF NoRows

LEMMA WithType ==
    ASSUME NEW rows \in Rows, NEW p \in Printers, NEW row \in Row
    PROVE  /\ With(rows, p, row) \in Rows
           /\ DOMAIN With(rows, p, row) = DOMAIN rows \cup {p}
           /\ With(rows, p, row)[p] = row
           /\ \A q \in DOMAIN rows \ {p} : With(rows, p, row)[q] = rows[q]
<1>1. DOMAIN rows \cup {p} \in SUBSET Printers
  BY RowsFacts
<1>2. With(rows, p, row) \in [DOMAIN rows \cup {p} -> Row]
  BY RowsFacts DEF With
<1>3. QED
  BY <1>1, <1>2, MakeRows DEF With

LEMMA RestrictType ==
    ASSUME NEW rows \in Rows, NEW ids \in SUBSET DOMAIN rows
    PROVE  /\ Restrict(rows, ids) \in Rows
           /\ DOMAIN Restrict(rows, ids) = ids
           /\ \A p \in ids : Restrict(rows, ids)[p] = rows[p]
<1>1. ids \in SUBSET Printers
  BY RowsFacts
<1>2. Restrict(rows, ids) \in [ids -> Row]
  BY RowsFacts DEF Restrict
<1>3. QED
  BY <1>1, <1>2, MakeRows DEF Restrict

LEMMA AdapterType == ASSUME NEW t PROVE InferAdapter(t) \in Adapters
  BY DEF InferAdapter, Adapters

\* Merging a finding into a row makes a row, with an identity if it had one.
LEMMA UpdateKnownType ==
    ASSUME NEW row \in Row, NEW f \in Finding, NEW key \in Keys, NEW state
    PROVE  /\ UpdateKnown(row, f, key, state) \in Row
           /\ UpdateKnown(row, f, key, state).key = NoKey => row.key = NoKey
  BY AdapterType DEF UpdateKnown, Row, Finding

\* A flush makes each row of what is stored and what the session holds.
LEMMA FlushedType ==
    ASSUME NEW stored \in Row, NEW loaded \in Row, NEW now \in Row
    PROVE  /\ Flushed(stored, loaded, now) \in Row
           /\ Flushed(stored, loaded, now).key =
                 IF now.key # loaded.key THEN now.key ELSE stored.key
<1> DEFINE f == Flushed(stored, loaded, now)
<1>1. DOMAIN stored = {"host", "port", "type", "adapter", "key"}
  BY DEF Row
<1>2. /\ f.host \in Hosts /\ f.port \in Ports /\ f.type \in ServiceTypes
      /\ f.adapter \in Adapters /\ f.key \in Keys
      /\ f.key = IF now.key # loaded.key THEN now.key ELSE stored.key
  BY <1>1 DEF Flushed, Row
<1>3. f = [host |-> f.host, port |-> f.port, type |-> f.type,
           adapter |-> f.adapter, key |-> f.key]
  BY <1>1 DEF Flushed
<1>4. f \in Row
  BY <1>2, <1>3 DEF Row
<1>5. QED
  BY <1>2, <1>4

-----------------------------------------------------------------------------
(* Sessions                                                                *)

LEMMA SessionFacts ==
    ASSUME TypeOK, NEW r \in Requests
    PROVE  /\ request[r] \in Session
           /\ request[r].known \in Rows /\ request[r].loaded \in Rows /\ request[r].now \in Rows
           /\ request[r].found \subseteq Finding /\ request[r].saved \subseteq Result
  BY DEF TypeOK, Session

LEMMA NewSessionType ==
    ASSUME NEW stage \in {"idle", "discovered", "confirming", "creating", "updating"}
    PROVE  NewSession(stage) \in Session
  BY NoRowsType DEF NewSession, Session

LEMMA TouchType ==
    ASSUME TypeOK, NEW s \in Session, DOMAIN s.loaded = DOMAIN s.now,
           NEW p \in live, NEW row \in Row
    PROVE  /\ Touch(s, p, row) \in Session
           /\ DOMAIN Touch(s, p, row).now = DOMAIN s.now \cup {p}
           /\ DOMAIN Touch(s, p, row).loaded = DOMAIN s.now \cup {p}
           /\ Touch(s, p, row).now[p] = row
           /\ \A q \in DOMAIN s.now \ {p} : /\ Touch(s, p, row).now[q] = s.now[q]
                                            /\ Touch(s, p, row).loaded[q] = s.loaded[q]
           /\ Touch(s, p, row).loaded[p] =
                 IF p \in DOMAIN s.now THEN s.loaded[p] ELSE printer[p]
           /\ Touch(s, p, row).saved = s.saved
           /\ Touch(s, p, row).found = s.found
<1>1. p \in Printers /\ printer[p] \in Row
  BY RowsFacts DEF TypeOK, live
<1>2. s.now \in Rows /\ s.loaded \in Rows
  BY DEF Session
<1> DEFINE loaded == IF p \in DOMAIN s.loaded THEN s.loaded ELSE With(s.loaded, p, printer[p])
           now == With(s.now, p, row)
<1>3. Touch(s, p, row) = [s EXCEPT !.loaded = loaded, !.now = now]
  BY DEF Touch
<1>4. now \in Rows /\ DOMAIN now = DOMAIN s.now \cup {p} /\ now[p] = row
      /\ \A q \in DOMAIN s.now \ {p} : now[q] = s.now[q]
  BY <1>1, <1>2, WithType
<1>5. /\ loaded \in Rows /\ DOMAIN loaded = DOMAIN s.now \cup {p}
      /\ loaded[p] = IF p \in DOMAIN s.now THEN s.loaded[p] ELSE printer[p]
      /\ \A q \in DOMAIN s.now \ {p} : loaded[q] = s.loaded[q]
  <2>1. CASE p \in DOMAIN s.loaded
    <3>1. loaded = s.loaded
      BY <2>1
    <3>2. DOMAIN s.now \cup {p} = DOMAIN s.now
      BY <2>1
    <3>3. QED
      BY <1>2, <2>1, <3>1, <3>2
  <2>2. CASE p \notin DOMAIN s.loaded
    <3>1. loaded = With(s.loaded, p, printer[p])
      BY <2>2
    <3> HIDE DEF loaded
    <3>2. QED
      <4> DEFINE w == With(s.loaded, p, printer[p])
      <4>1. /\ w \in Rows /\ DOMAIN w = DOMAIN s.loaded \cup {p}
            /\ w[p] = printer[p]
            /\ \A q \in DOMAIN s.loaded \ {p} : w[q] = s.loaded[q]
        BY ZenonT(60), <1>1, <1>2, WithType
      <4> HIDE DEF w
      <4>2. loaded = w
        BY <3>1 DEF w
      <4>3. QED
        BY <2>2, <4>1, <4>2
  <2>3. QED
    BY <2>1, <2>2
<1> HIDE DEF loaded, now
<1>6. QED
  BY <1>3, <1>4, <1>5 DEF Session

\* The rows after the flush of a session that the database accepts.
LEMMA AfterFlushType ==
    ASSUME TypeOK, NEW s \in Session, DOMAIN s.loaded = DOMAIN s.now
    PROVE  /\ AfterFlush(s) \in Rows
           /\ DOMAIN AfterFlush(s) = live
           /\ \A p \in live : AfterFlush(s)[p] =
                 IF p \in DOMAIN s.now THEN Flushed(printer[p], s.loaded[p], s.now[p])
                 ELSE printer[p]
<1>1. printer \in Rows /\ s.now \in Rows /\ s.loaded \in Rows
  BY DEF TypeOK, Session
<1>2. \A p \in live : AfterFlush(s)[p] \in Row
  <2> SUFFICES ASSUME NEW p \in live PROVE AfterFlush(s)[p] \in Row
    OBVIOUS
  <2>1. printer[p] \in Row
    BY <1>1, RowsFacts DEF live
  <2>2. CASE p \in DOMAIN s.now
    <3>1. s.now[p] \in Row /\ s.loaded[p] \in Row
      BY <1>1, <2>2, RowsFacts
    <3>2. QED
      BY <2>1, <2>2, <3>1, FlushedType DEF AfterFlush
  <2>3. CASE p \notin DOMAIN s.now
    BY <2>1, <2>3 DEF AfterFlush
  <2>4. QED
    BY <2>2, <2>3
<1>3. AfterFlush(s) \in [live -> Row]
  BY <1>2 DEF AfterFlush
<1>4. live \in SUBSET Printers
  BY <1>1, RowsFacts DEF live
<1>5. QED
  BY <1>3, <1>4, MakeRows DEF AfterFlush

-----------------------------------------------------------------------------
(* Steps                                                                   *)

Invariant == TypeOK /\ InventoryInv

\* What a session must satisfy for Invariant.
Sound(s) ==
    /\ s \in Session
    /\ DOMAIN s.loaded = DOMAIN s.now
    /\ \A p \in DOMAIN s.now : s.now[p].key = NoKey => s.loaded[p].key = NoKey
    /\ \A res \in s.saved : res.match \in DOMAIN s.now \cup {NoPrinter}

LEMMA SoundSessions ==
    ASSUME Invariant, NEW r \in Requests
    PROVE  Sound(request[r])
  BY SessionFacts DEF Invariant, InventoryInv, SessionInv, Sound

LEMMA NewSessionSound ==
    ASSUME NEW stage \in {"idle", "discovered", "confirming", "creating", "updating"}
    PROVE  Sound(NewSession(stage))
  BY NewSessionType, NoRowsType DEF NewSession, Sound

\* A step that only changes one thread's session keeps the invariant.
LEMMA SessionStep ==
    ASSUME Invariant, NEW r \in Requests, NEW s, Sound(s),
           request' = [request EXCEPT ![r] = s],
           UNCHANGED <<issued, printer, results, lan>>
    PROVE  Invariant'
<1>1. TypeOK'
  BY DEF Invariant, TypeOK, Sound, live
<1>2. SessionInv'
  BY DEF Invariant, InventoryInv, SessionInv, TypeOK, Sound
<1>3. UniqueIdentity' /\ MatchesLive'
  BY DEF Invariant, InventoryInv, UniqueIdentity, MatchesLive, DistinctKeys, live
<1>4. QED
  BY <1>1, <1>2, <1>3 DEF Invariant, InventoryInv

\* So does one that changes the tables and closes the session.
LEMMA CloseStep ==
    ASSUME Invariant, NEW r \in Requests, Close(r)
    PROVE  request' \in [Requests -> Session] /\ SessionInv'
<1>1. Sound(Idle)
  BY NewSessionSound DEF Idle
<1>2. QED
  BY <1>1 DEF Close, Invariant, InventoryInv, SessionInv, TypeOK, Sound

\* A session that touches a row keeps what Invariant asks of it.
LEMMA TouchSound ==
    ASSUME Invariant, NEW s, Sound(s), NEW p \in live, NEW row \in Row,
           row.key = NoKey => Seen(s, p).key = NoKey
    PROVE  /\ Sound(Touch(s, p, row))
           /\ DOMAIN Touch(s, p, row).now = DOMAIN s.now \cup {p}
           /\ Touch(s, p, row).saved = s.saved
           /\ Touch(s, p, row).found = s.found
<1> DEFINE t == Touch(s, p, row)
<1>1. /\ t \in Session /\ t.saved = s.saved /\ t.found = s.found
      /\ DOMAIN t.now = DOMAIN s.now \cup {p} /\ DOMAIN t.loaded = DOMAIN s.now \cup {p}
      /\ t.now[p] = row
      /\ \A q \in DOMAIN s.now \ {p} : t.now[q] = s.now[q] /\ t.loaded[q] = s.loaded[q]
      /\ t.loaded[p] = IF p \in DOMAIN s.now THEN s.loaded[p] ELSE printer[p]
  BY TouchType DEF Invariant, Sound
<1> HIDE DEF t
<1>2. \A q \in DOMAIN t.now : t.now[q].key = NoKey => t.loaded[q].key = NoKey
  <2> SUFFICES ASSUME NEW q \in DOMAIN t.now, t.now[q].key = NoKey
               PROVE  t.loaded[q].key = NoKey
    OBVIOUS
  <2>1. CASE q # p
    BY <1>1, <2>1 DEF Sound
  <2>2. CASE q = p
    BY <1>1, <2>2 DEF Sound, Seen
  <2>3. QED
    BY <2>1, <2>2
<1>3. Sound(t)
  BY <1>1, <1>2 DEF Sound
<1>4. QED
  BY <1>1, <1>3 DEF t

\* The row of p as a session sees it is a row.
LEMMA SeenType ==
    ASSUME Invariant, NEW s, Sound(s), NEW p \in live
    PROVE  Seen(s, p) \in Row /\ printer[p] \in Row
  BY RowsFacts DEF Seen, Sound, Session, Invariant, TypeOK, live

LEMMA IdentityType == ASSUME NEW f \in Finding PROVE IdentityOf(f) \in Keys
  BY DEF IdentityOf, Finding, EndpointKeys, Keys

-----------------------------------------------------------------------------
\* POST /printers/scan up to the commit.
LEMMA ScanSteps ==
    ASSUME Invariant, NEW r \in Requests,
           \/ BeginScan(r) \/ ListKnown(r)
           \/ \E p \in Printers : ProbeKnown(r, p)
           \/ \E f \in request[r].found : MatchFinding(r, f)
    PROVE  Invariant'
<1> DEFINE s == request[r]
<1>1. Sound(s) /\ s \in Session
  BY SoundSessions DEF Sound
<1>2. \A h \in Hosts : ServicesAt(h) \subseteq Service
  BY InventoryAssumption DEF ServicesAt, Invariant, TypeOK
<1>3. \A h \in Hosts : \A x \in ServicesAt(h) : FindingOf(h, x) \in Finding
  BY <1>2 DEF FindingOf, Service, Finding, Keys
<1>4. CASE BeginScan(r)
  <2>1. PICK found \in SUBSET UNION {{FindingOf(h, x) : x \in ServicesAt(h)} : h \in Hosts} :
           request' = [request EXCEPT ![r] = [NewSession("discovered") EXCEPT !.found = found]]
    BY <1>4 DEF BeginScan
  <2>2. found \subseteq Finding
    BY <1>3
  <2>3. Sound([NewSession("discovered") EXCEPT !.found = found])
    BY <2>2, NewSessionSound DEF Sound, Session
  <2>4. QED
    BY <1>4, <2>1, <2>3, SessionStep DEF BeginScan
<1>5. CASE ListKnown(r)
  <2>1. Sound([s EXCEPT !.stage = "probing", !.known = printer])
    BY <1>1 DEF Sound, Session, Invariant, TypeOK
  <2>2. QED
    BY <1>5, <2>1, SessionStep DEF ListKnown
<1>6. ASSUME NEW p \in Printers, ProbeKnown(r, p)
      PROVE  Invariant'
  <2> DEFINE known == Restrict(s.known, DOMAIN s.known \ {p})
  <2>1. PICK outcome \in {{}} \cup ProbeOutcomes(s.known[p]) :
           request' = [request EXCEPT ![r] =
              [s EXCEPT !.known = known, !.found = s.found \cup outcome]]
    BY <1>6 DEF ProbeKnown
  <2>2. s.known \in Rows /\ p \in DOMAIN s.known /\ s.found \subseteq Finding
    BY <1>1, <1>6 DEF Session, ProbeKnown
  <2>3. s.known[p] \in Row
    BY <2>2, RowsFacts
  <2>4. outcome \subseteq Finding
    <3> DEFINE row == s.known[p]
    <3>1. row.host \in Hosts /\ row.type \in ServiceTypes /\ row.key \in Keys
      BY <2>3 DEF Row
    <3>2. \A x \in ServicesAt(row.host) :
             /\ [FindingOf(row.host, x) EXCEPT !.key = IF @ # NoKey THEN @ ELSE row.key] \in Finding
             /\ [host |-> row.host, port |-> x.port, type |-> row.type, key |-> row.key] \in Finding
      BY <1>2, <1>3, <3>1 DEF Finding, Service
    <3>3. CASE outcome = {}
      BY <3>3
    <3>4. CASE \E x \in ServicesAt(row.host) :
                  \/ outcome = {[FindingOf(row.host, x) EXCEPT
                                   !.key = IF @ # NoKey THEN @ ELSE row.key]}
                  \/ outcome = {[host |-> row.host, port |-> x.port, type |-> row.type,
                                 key |-> row.key]}
      BY <3>2, <3>4
    <3>5. QED
      BY <2>1, <3>3, <3>4, Zenon DEF ProbeOutcomes
  <2>5. known \in Rows
    BY <2>2, RestrictType
  <2>6. Sound([s EXCEPT !.known = known, !.found = s.found \cup outcome])
    BY <1>1, <2>2, <2>4, <2>5 DEF Sound, Session
  <2>7. QED
    BY <1>6, <2>1, <2>6, SessionStep DEF ProbeKnown
<1>7. ASSUME NEW f \in s.found, MatchFinding(r, f)
      PROVE  Invariant'
  <2> DEFINE key == IdentityOf(f)
             result(match) == [finding |-> f, key |-> key, match |-> match]
             after(t, match) == [t EXCEPT !.stage = "matching", !.found = @ \ {f},
                                          !.saved = @ \cup {result(match)}]
  <2>1. f \in Finding /\ key \in Keys
    BY <1>1, IdentityType DEF Session
  <2>2. ASSUME NEW t, Sound(t), NEW match \in Printers \cup {NoPrinter},
               match \in DOMAIN t.now \cup {NoPrinter}
        PROVE  Sound(after(t, match))
    <3>1. result(match) \in Result
      BY <2>1 DEF Result
    <3>2. t \in Session
      BY <2>2 DEF Sound
    <3>3. after(t, match) \in Session
      BY <3>1, <3>2 DEF Session
    <3>4. /\ after(t, match).now = t.now /\ after(t, match).loaded = t.loaded
          /\ after(t, match).saved = t.saved \cup {result(match)}
      BY <3>2 DEF Session
    <3>5. QED
      BY <2>2, <3>3, <3>4 DEF Sound
  <2>3. CASE request' = [request EXCEPT ![r] = after(s, NoPrinter)]
    BY <1>1, <1>7, <2>2, <2>3, SessionStep DEF MatchFinding
  <2>4. ASSUME NEW p \in KnownMatches(key, f),
               request' = [request EXCEPT ![r] =
                  after(Touch(s, p, UpdateKnown(Seen(s, p), f, key, "online")), p)]
        PROVE  Invariant'
    <3> DEFINE row == UpdateKnown(Seen(s, p), f, key, "online")
    <3>1. p \in live /\ p \in Printers
      BY RowsFacts DEF KnownMatches, WithKey, AtEndpoint, live, Invariant, TypeOK
    <3>2. row \in Row /\ (row.key = NoKey => Seen(s, p).key = NoKey)
      BY <1>1, <2>1, <3>1, SeenType, UpdateKnownType
    <3>3. Sound(Touch(s, p, row)) /\ p \in DOMAIN Touch(s, p, row).now
      <4> HIDE DEF row
      <4>1. QED
        BY <1>1, <3>1, <3>2, TouchSound
    <3>4. Sound(after(Touch(s, p, row), p))
      <4> HIDE DEF row, after
      <4>1. QED
        BY <2>2, <3>1, <3>3
    <3>5. QED
      BY <1>7, <2>4, <3>4, SessionStep DEF MatchFinding
  <2>5. QED
    BY <1>7, <2>3, <2>4 DEF MatchFinding
<1>8. QED
  BY <1>4, <1>5, <1>6, <1>7

\* The first half of a confirmation and of an update.
LEMMA LoadSteps ==
    ASSUME Invariant, NEW r \in Requests,
           \/ \E res \in results, named \in BOOLEAN : LoadConfirm(r, res, named)
           \/ \E p \in Printers, h \in Hosts, port \in Ports : LoadUpdate(r, p, h, port)
           \/ Rollback(r)
    PROVE  Invariant'
<1>1. ASSUME NEW res \in results, NEW named \in BOOLEAN, LoadConfirm(r, res, named)
      PROVE  Invariant'
  <2> DEFINE f == [res.finding EXCEPT !.key = res.key]
             matched == IF named THEN {res.match} \cap live ELSE {}
             existing == IF matched # {} THEN matched ELSE KnownMatches(res.key, f)
             fresh == [NewSession("creating") EXCEPT !.found = {f}]
  <2>1. res \in Result
    BY DEF Invariant, TypeOK
  <2>2. f \in Finding /\ res.key \in Keys
    BY <2>1 DEF Result, Finding
  <2>3. CASE request' = [request EXCEPT ![r] = fresh]
    <3>1. Sound(fresh)
      BY <2>2, NewSessionSound DEF Sound, Session
    <3>2. QED
      BY <1>1, <2>3, <3>1, SessionStep DEF LoadConfirm
  <2>4. ASSUME NEW p \in existing,
               request' = [request EXCEPT ![r] =
                  Touch(NewSession("confirming"), p,
                        UpdateKnown(printer[p], f, res.key, "confirmed"))]
        PROVE  Invariant'
    <3> DEFINE row == UpdateKnown(printer[p], f, res.key, "confirmed")
    <3>1. p \in live
      BY DEF KnownMatches, WithKey, AtEndpoint
    <3>2. Sound(NewSession("confirming"))
      BY NewSessionSound
    <3>3. Seen(NewSession("confirming"), p) = printer[p] /\ printer[p] \in Row
      BY <3>1, <3>2, SeenType, NoRowsType DEF Seen, NewSession
    <3>4. row \in Row /\ (row.key = NoKey => printer[p].key = NoKey)
      BY <2>2, <3>3, UpdateKnownType
    <3>5. Sound(Touch(NewSession("confirming"), p, row))
      <4> HIDE DEF row
      <4>1. QED
        BY <3>1, <3>2, <3>3, <3>4, TouchSound
    <3>6. QED
      BY <1>1, <2>4, <3>5, SessionStep DEF LoadConfirm
  <2>5. QED
    BY <1>1, <2>3, <2>4 DEF LoadConfirm
<1>2. ASSUME NEW p \in Printers, NEW h \in Hosts, NEW port \in Ports, LoadUpdate(r, p, h, port)
      PROVE  Invariant'
  <2> DEFINE moved == [printer[p] EXCEPT !.host = h, !.port = port]
  <2>1. PICK edited \in {moved} \cup
             {[moved EXCEPT !.type = t, !.adapter = InferAdapter(t)] : t \in ServiceTypes} :
           request' = [request EXCEPT ![r] = Touch(NewSession("updating"), p, edited)]
    BY <1>2 DEF LoadUpdate
  <2>2. p \in live
    BY <1>2 DEF LoadUpdate
  <2>3. Sound(NewSession("updating"))
    BY NewSessionSound
  <2>4. Seen(NewSession("updating"), p) = printer[p] /\ printer[p] \in Row
    BY <2>2, <2>3, SeenType, NoRowsType DEF Seen, NewSession
  <2>5. moved \in Row /\ moved.key = printer[p].key
    BY <2>4 DEF Row
  <2>6. edited \in Row /\ edited.key = printer[p].key
    BY ZenonT(60), <2>5, AdapterType DEF Row
  <2>7. Sound(Touch(NewSession("updating"), p, edited))
    BY <2>2, <2>3, <2>4, <2>6, TouchSound
  <2>8. QED
    BY <1>2, <2>1, <2>7, SessionStep DEF LoadUpdate
<1>3. CASE Rollback(r)
  BY <1>3, SessionStep, NewSessionSound DEF Rollback, Close, Idle
<1>4. QED
  BY <1>1, <1>2, <1>3

-----------------------------------------------------------------------------
(* Steps that write the tables                                             *)

\* A printer added under a fresh id, with an identity no other row has.
LEMMA InsertFacts ==
    ASSUME Invariant, NEW p \in Printers, NEW row \in Row, Insert(p, row),
           row.key = NoKey \/ WithKey(row.key) = {}
    PROVE  /\ printer' \in Rows
           /\ live' = live \cup {p} /\ p \notin live
           /\ \A q \in live : printer'[q] = printer[q]
           /\ issued' \subseteq Printers /\ live' \subseteq issued'
           /\ UniqueIdentity'
<1>1. printer \in Rows /\ issued \subseteq Printers /\ live \subseteq issued
  BY DEF Invariant, TypeOK
<1>2. p \notin live /\ issued' = issued \cup {p} /\ printer' = With(printer, p, row)
  BY <1>1 DEF Insert
<1>3. /\ printer' \in Rows /\ DOMAIN printer' = DOMAIN printer \cup {p}
      /\ printer'[p] = row
      /\ \A q \in DOMAIN printer \ {p} : printer'[q] = printer[q]
  BY <1>1, <1>2, WithType
<1>4. \A q \in live : printer'[q] = printer[q]
  BY <1>2, <1>3 DEF live
<1>5. UniqueIdentity'
  <2> SUFFICES ASSUME NEW x \in live', NEW y \in live',
                      printer'[x].key = printer'[y].key, printer'[x].key # NoKey
               PROVE  x = y
    BY DEF UniqueIdentity, DistinctKeys, live
  <2>1. CASE x \in live /\ y \in live
    BY <1>4, <2>1 DEF Invariant, InventoryInv, UniqueIdentity, DistinctKeys, live
  <2>2. CASE x = p /\ y \in live
    BY <1>3, <1>4, <2>2 DEF WithKey
  <2>3. CASE y = p /\ x \in live
    BY <1>3, <1>4, <2>3 DEF WithKey
  <2>4. QED
    BY <1>3, <2>1, <2>2, <2>3 DEF live
<1>6. QED
  BY <1>1, <1>2, <1>3, <1>4, <1>5 DEF live

\* Printers added by hand or from a confirmed scan result.
LEMMA InsertSteps ==
    ASSUME Invariant,
           \/ \E p \in Printers, h \in Hosts, port \in Ports, t \in ServiceTypes :
                 CreatePrinter(p, h, port, t)
           \/ \E r \in Requests, p \in Printers : CommitConfirmNew(r, p)
    PROVE  Invariant'
<1>1. ASSUME NEW p \in Printers, NEW row \in Row, Insert(p, row),
             row.key = NoKey \/ WithKey(row.key) = {},
             UNCHANGED <<results, lan>>, request' \in [Requests -> Session], SessionInv'
      PROVE  Invariant'
  <2>1. /\ printer' \in Rows /\ live' = live \cup {p}
        /\ issued' \subseteq Printers /\ live' \subseteq issued' /\ UniqueIdentity'
    BY <1>1, InsertFacts
  <2>2. TypeOK'
    BY <1>1, <2>1 DEF Invariant, TypeOK
  <2>3. MatchesLive'
    BY <1>1, <2>1 DEF Invariant, InventoryInv, MatchesLive
  <2>4. QED
    BY <1>1, <2>1, <2>2, <2>3 DEF Invariant, InventoryInv
<1>2. ASSUME NEW p \in Printers, NEW h \in Hosts, NEW port \in Ports, NEW t \in ServiceTypes,
             CreatePrinter(p, h, port, t)
      PROVE  Invariant'
  <2> DEFINE row == [host |-> h, port |-> port, type |-> t, adapter |-> InferAdapter(t),
                     key |-> NoKey]
  <2>1. row \in Row
    BY AdapterType DEF Row, Keys
  <2>2. Insert(p, row) /\ UNCHANGED <<results, lan, request>>
    BY <1>2 DEF CreatePrinter
  <2>3. request' \in [Requests -> Session] /\ SessionInv'
    BY <2>2 DEF Invariant, InventoryInv, TypeOK, SessionInv
  <2>4. QED
    BY <1>1, <2>1, <2>2, <2>3
<1>3. ASSUME NEW r \in Requests, NEW p \in Printers, CommitConfirmNew(r, p)
      PROVE  Invariant'
  <2>1. PICK f \in request[r].found :
           /\ WithKey(f.key) = {}
           /\ Insert(p, [host |-> f.host, port |-> f.port, type |-> f.type,
                         adapter |-> InferAdapter(f.type), key |-> f.key])
           /\ Close(r) /\ UNCHANGED <<results, lan>>
    BY <1>3 DEF CommitConfirmNew
  <2> DEFINE row == [host |-> f.host, port |-> f.port, type |-> f.type,
                     adapter |-> InferAdapter(f.type), key |-> f.key]
  <2>2. f \in Finding
    BY SessionFacts DEF Invariant
  <2>3. row \in Row
    BY <2>2, AdapterType DEF Row, Finding
  <2>4. request' \in [Requests -> Session] /\ SessionInv'
    BY <2>1, CloseStep
  <2>5. QED
    BY <1>1, <2>1, <2>3, <2>4
<1>4. QED
  BY <1>2, <1>3

\* Deleting a printer clears it from the results that named it.
LEMMA DeleteStep ==
    ASSUME Invariant, NEW p \in Printers, DeletePrinter(p)
    PROVE  Invariant'
<1> DEFINE cleared(res) == [res EXCEPT !.match = IF @ = p THEN NoPrinter ELSE @]
<1>1. /\ printer \in Rows /\ printer' = Restrict(printer, live \ {p})
      /\ results' = {cleared(res) : res \in results}
      /\ UNCHANGED <<issued, lan, request>>
  BY DEF DeletePrinter, Invariant, TypeOK
<1>2. /\ printer' \in Rows /\ live' = live \ {p}
      /\ \A q \in live' : printer'[q] = printer[q]
  BY <1>1, RestrictType DEF live
<1>3. \A res \in results : /\ cleared(res) \in Result
                           /\ cleared(res).match \in (live \ {p}) \cup {NoPrinter}
  BY DEF Invariant, TypeOK, Result, InventoryInv, MatchesLive
<1>4. TypeOK'
  BY <1>1, <1>2, <1>3 DEF Invariant, TypeOK
<1>5. MatchesLive'
  BY <1>1, <1>2, <1>3 DEF MatchesLive
<1>6. UniqueIdentity'
  BY <1>2 DEF Invariant, InventoryInv, UniqueIdentity, DistinctKeys, live
<1>7. SessionInv'
  BY <1>1 DEF Invariant, InventoryInv, SessionInv
<1>8. QED
  BY <1>4, <1>5, <1>6, <1>7 DEF Invariant, InventoryInv

\* A flush that the database accepts.
LEMMA FlushSteps ==
    ASSUME Invariant, NEW r \in Requests, CommitScan(r) \/ CommitRow(r)
    PROVE  Invariant'
<1> DEFINE s == request[r]
<1>1. Sound(s) /\ s \in Session /\ s.saved \subseteq Result
  BY SoundSessions DEF Sound, Session
<1>2. /\ Accepted(s) /\ printer' = AfterFlush(s)
      /\ Close(r) /\ UNCHANGED <<issued, lan>>
      /\ results' \subseteq results \cup s.saved
  BY DEF CommitScan, CommitRow
<1>3. printer' \in Rows /\ live' = live
  BY <1>1, <1>2, AfterFlushType DEF Sound, Invariant, live
<1>4. UniqueIdentity'
  BY <1>2 DEF Accepted, UniqueIdentity, DistinctKeys
<1>5. MatchesLive'
  <2> SUFFICES ASSUME NEW res \in results' PROVE res.match \in live' \cup {NoPrinter}
    BY DEF MatchesLive
  <2>1. CASE res \in results
    BY <1>3, <2>1 DEF Invariant, InventoryInv, MatchesLive
  <2>2. CASE res \in s.saved
    BY <1>1, <1>2, <1>3, <2>2 DEF Sound, Accepted
  <2>3. QED
    BY <1>2, <2>1, <2>2
<1>6. request' \in [Requests -> Session] /\ SessionInv'
  BY <1>2, CloseStep
<1>7. TypeOK'
  BY <1>1, <1>2, <1>3, <1>6 DEF Invariant, TypeOK
<1>8. QED
  BY <1>4, <1>5, <1>6, <1>7 DEF Invariant, InventoryInv

-----------------------------------------------------------------------------
(* Theorems                                                                *)

\* The inductive invariant: types, identities, matches, and what open sessions
\* remember of the rows they change.
THEOREM InventoryInvariant == Spec => []Invariant
<1>1. Init => Invariant
  <2> SUFFICES ASSUME Init PROVE Invariant
    OBVIOUS
  <2>1. printer = NoRows /\ DOMAIN printer = {} /\ results = {} /\ issued = {}
    BY NoRowsType DEF Init
  <2>2. lan \in [Hosts -> Devices \cup {NoDevice}]
    BY DEF Init, Leases
  <2>3. Sound(Idle) /\ request = [r \in Requests |-> Idle]
    BY NewSessionSound DEF Init, Idle
  <2>4. TypeOK
    BY <2>1, <2>2, <2>3, NoRowsType DEF TypeOK, live, Sound
  <2>5. UniqueIdentity /\ MatchesLive
    BY <2>1 DEF UniqueIdentity, DistinctKeys, MatchesLive
  <2>6. SessionInv
    BY <2>3 DEF SessionInv, Sound
  <2>7. QED
    BY <2>4, <2>5, <2>6 DEF Invariant, InventoryInv
<1>2. Invariant /\ [Next]_vars => Invariant'
  <2> SUFFICES ASSUME Invariant, [Next]_vars PROVE Invariant'
    OBVIOUS
  <2>1. ASSUME NEW a \in Leases, MoveDevices(a)
        PROVE  Invariant'
    <3>1. lan' \in [Hosts -> Devices \cup {NoDevice}]
      BY <2>1 DEF MoveDevices, Leases
    <3>2. QED
      BY <2>1, <3>1 DEF MoveDevices, Invariant, TypeOK, InventoryInv, UniqueIdentity,
                        MatchesLive, SessionInv, DistinctKeys, live
  <2>2. ASSUME NEW r \in Requests, RequestStep(r)
        PROVE  Invariant'
    BY <2>2, ScanSteps, LoadSteps, FlushSteps, InsertSteps DEF RequestStep
  <2>3. CASE UNCHANGED vars
    BY <2>3 DEF vars, Invariant, TypeOK, InventoryInv, UniqueIdentity, MatchesLive,
                SessionInv, DistinctKeys, live
  <2>4. QED
    BY <2>1, <2>2, <2>3, InsertSteps, DeleteStep DEF Next
<1>3. QED
  BY <1>1, <1>2, PTL DEF Spec

\* The tables and the sessions always have the declared types.
THEOREM InventoryTypes == Spec => []TypeOK
<1>1. Invariant => TypeOK
  BY DEF Invariant
<1>2. QED
  BY <1>1, InventoryInvariant, PTL

\* One identity, one printer.
THEOREM IdentitiesAreUnique == Spec => []UniqueIdentity
<1>1. Invariant => UniqueIdentity
  BY DEF Invariant, InventoryInv
<1>2. QED
  BY <1>1, InventoryInvariant, PTL

\* No scan result names a printer that is not there.
THEOREM ResultsMatchLive == Spec => []MatchesLive
<1>1. Invariant => MatchesLive
  BY DEF Invariant, InventoryInv
<1>2. QED
  BY <1>1, InventoryInvariant, PTL

\* A flush leaves an identity where there was one.
LEMMA FlushKeepsIdentity ==
    ASSUME Invariant, NEW r \in Requests, printer' = AfterFlush(request[r]),
           NEW p \in live, printer[p].key # NoKey
    PROVE  printer'[p].key # NoKey
<1> DEFINE s == request[r]
<1>1. Sound(s) /\ s \in Session /\ s.now \in Rows /\ s.loaded \in Rows
  BY SoundSessions DEF Sound, Session
<1>2. printer[p] \in Row
  BY <1>1, SeenType
<1>3. printer'[p] = IF p \in DOMAIN s.now THEN Flushed(printer[p], s.loaded[p], s.now[p])
                    ELSE printer[p]
  BY <1>1, AfterFlushType DEF Sound, Invariant
<1>4. CASE p \in DOMAIN s.now
  <2>1. s.now[p] \in Row /\ s.loaded[p] \in Row
    BY <1>1, <1>4, RowsFacts DEF Sound
  <2>2. printer'[p].key = IF s.now[p].key # s.loaded[p].key THEN s.now[p].key
                          ELSE printer[p].key
    BY <1>2, <1>3, <1>4, <2>1, FlushedType
  <2>3. s.now[p].key = NoKey => s.loaded[p].key = NoKey
    BY <1>1, <1>4 DEF Sound
  <2>4. QED
    BY <2>2, <2>3
<1>5. CASE p \notin DOMAIN s.now
  BY <1>3, <1>5
<1>6. QED
  BY <1>4, <1>5

\* No step takes the identity of a printer that stays saved.
THEOREM IdentitiesAreKept == Spec => IdentityKept
<1> DEFINE Kept == \A p \in live \cap live' : printer[p].key # NoKey => printer'[p].key # NoKey
<1>1. Invariant /\ [Next]_vars => Kept \/ UNCHANGED vars
  <2> SUFFICES ASSUME Invariant, Next PROVE Kept
    OBVIOUS
  <2>1. CASE UNCHANGED printer
    BY <2>1
  <2>2. ASSUME NEW p \in Printers, NEW row, Insert(p, row)
        PROVE  Kept
    <3>1. p \notin live /\ \A q \in live : printer'[q] = printer[q]
      BY <2>2 DEF Insert, With, live, Invariant, TypeOK
    <3>2. QED
      BY <3>1
  <2>3. ASSUME NEW p \in Printers, DeletePrinter(p)
        PROVE  Kept
    BY <2>3, RestrictType DEF DeletePrinter, live, Invariant, TypeOK
  <2>4. ASSUME NEW r \in Requests, CommitScan(r) \/ CommitRow(r)
        PROVE  Kept
    BY <2>4, FlushKeepsIdentity DEF CommitScan, CommitRow
  <2>5. ASSUME NEW r \in Requests, RequestStep(r)
        PROVE  Kept
    <3>1. CASE \E p \in Printers : CommitConfirmNew(r, p)
      BY <2>2, <3>1 DEF CommitConfirmNew
    <3>2. CASE CommitScan(r) \/ CommitRow(r)
      BY <2>4, <3>2
    <3>3. CASE \/ BeginScan(r) \/ ListKnown(r) \/ Rollback(r)
               \/ \E p \in Printers : ProbeKnown(r, p)
               \/ \E f \in request[r].found : MatchFinding(r, f)
               \/ \E res \in results, named \in BOOLEAN : LoadConfirm(r, res, named)
               \/ \E p \in Printers, h \in Hosts, port \in Ports : LoadUpdate(r, p, h, port)
      BY <2>1, <3>3 DEF BeginScan, ListKnown, Rollback, ProbeKnown, MatchFinding,
                        LoadConfirm, LoadUpdate
    <3>4. QED
      BY <2>5, <3>1, <3>2, <3>3 DEF RequestStep
  <2>6. QED
    BY <2>1, <2>2, <2>3, <2>5 DEF Next, MoveDevices, CreatePrinter
<1>2. QED
  BY <1>1, InventoryInvariant, PTL DEF Spec, IdentityKept
-----------------------------------------------------------------------------
(* One request at a time                                                   *)

\* What a session is about to write is a row whose engine is that of its type,
\* and the rows it has loaded are still as it loaded them.
Current(s) ==
    \A p \in DOMAIN s.now :
        /\ p \in issued
        /\ p \in live => s.loaded[p] = printer[p]
        /\ s.now[p].adapter = InferAdapter(s.now[p].type)

\* A scan that has recognised a row only by its stable identity leaves what an
\* admin has confirmed.
Keeps(s) ==
    s.stage \notin {"confirming", "updating"} =>
        \A p \in DOMAIN s.now :
            /\ s.loaded[p].key \in StableKeys
            /\ \A res \in s.saved : res.match = p => res.key = s.loaded[p].key
            => /\ s.now[p].key = s.loaded[p].key
               /\ s.now[p].port = s.loaded[p].port
               /\ s.now[p].type = s.loaded[p].type
               /\ s.now[p].adapter = s.loaded[p].adapter

SequentialInv ==
    /\ AdapterFollowsType
    /\ \A r \in Requests : Current(request[r]) /\ Keeps(request[r])

LEMMA SequentialSession ==
    ASSUME Invariant, SequentialInv, NEW r \in Requests, NEW s, Current(s), Keeps(s),
           request' = [request EXCEPT ![r] = s],
           UNCHANGED <<issued, printer>>
    PROVE  SequentialInv'
<1>1. \A q \in Requests : request'[q] = IF q = r THEN s ELSE request[q]
  BY DEF Invariant, TypeOK
<1>2. AdapterFollowsType' /\ live' = live
  BY DEF SequentialInv, AdapterFollowsType, live
<1>3. \A q \in Requests : Current(request[q])' /\ Keeps(request[q])'
  BY <1>1, <1>2 DEF SequentialInv, Current, Keeps
<1>4. QED
  BY <1>2, <1>3 DEF SequentialInv

LEMMA FreshSession ==
    ASSUME NEW stage
    PROVE  Current(NewSession(stage)) /\ Keeps(NewSession(stage))
  BY NoRowsType DEF NewSession, Current, Keeps

\* The engine of a merged row is that of its type when it was before.
LEMMA UpdateKnownAdapter ==
    ASSUME NEW row, row.adapter = InferAdapter(row.type), NEW f, NEW key, NEW state
    PROVE  UpdateKnown(row, f, key, state).adapter
              = InferAdapter(UpdateKnown(row, f, key, state).type)
  BY DEF UpdateKnown

LEMMA TouchCurrent ==
    ASSUME Invariant, NEW s, Sound(s), Current(s), NEW p \in live, NEW row \in Row,
           row.adapter = InferAdapter(row.type)
    PROVE  Current(Touch(s, p, row))
<1> DEFINE t == Touch(s, p, row)
<1>1. /\ DOMAIN t.now = DOMAIN s.now \cup {p}
      /\ t.now[p] = row
      /\ \A q \in DOMAIN s.now \ {p} : t.now[q] = s.now[q] /\ t.loaded[q] = s.loaded[q]
      /\ t.loaded[p] = IF p \in DOMAIN s.now THEN s.loaded[p] ELSE printer[p]
  BY TouchType DEF Invariant, Sound
<1>2. p \in issued
  BY DEF Invariant, TypeOK
<1> HIDE DEF t
<1>3. Current(t)
  BY <1>1, <1>2 DEF Current
<1>4. QED
  BY <1>3 DEF t

\* The row of p as a session sees it has the engine of its type.
LEMMA SeenAdapter ==
    ASSUME SequentialInv, NEW s, Current(s), NEW p \in live
    PROVE  Seen(s, p).adapter = InferAdapter(Seen(s, p).type)
  BY DEF SequentialInv, AdapterFollowsType, Current, Seen

\* A scan, up to its commit.
LEMMA SequentialScan ==
    ASSUME Invariant, SequentialInv, NEW r \in Requests,
           \/ BeginScan(r) \/ ListKnown(r)
           \/ \E p \in Printers : ProbeKnown(r, p)
           \/ \E f \in request[r].found : MatchFinding(r, f)
    PROVE  SequentialInv'
<1> DEFINE s == request[r]
<1>1. Sound(s) /\ s \in Session /\ Current(s) /\ Keeps(s)
  BY SoundSessions DEF Sound, SequentialInv
<1>2. CASE BeginScan(r)
  <2>1. PICK found :
           request' = [request EXCEPT ![r] = [NewSession("discovered") EXCEPT !.found = found]]
    BY <1>2 DEF BeginScan
  <2> DEFINE t == [NewSession("discovered") EXCEPT !.found = found]
  <2>2. Current(t) /\ Keeps(t)
    BY NoRowsType DEF NewSession, Current, Keeps
  <2>3. QED
    BY <1>2, <2>1, <2>2, SequentialSession DEF BeginScan
<1>3. ASSUME NEW t, request' = [request EXCEPT ![r] = t], UNCHANGED <<issued, printer>>,
             t.now = s.now, t.loaded = s.loaded, t.saved = s.saved,
             s.stage \notin {"confirming", "updating"}
      PROVE  SequentialInv'
  <2>1. Current(t) /\ Keeps(t)
    BY <1>1, <1>3 DEF Current, Keeps
  <2>2. QED
    BY <1>3, <2>1, SequentialSession
<1>4. CASE ListKnown(r)
  <2> DEFINE t == [s EXCEPT !.stage = "probing", !.known = printer]
  <2>1. t.now = s.now /\ t.loaded = s.loaded /\ t.saved = s.saved
    BY <1>1 DEF Session
  <2>2. QED
    BY <1>3, <1>4, <2>1 DEF ListKnown
<1>5. ASSUME NEW p \in Printers, ProbeKnown(r, p)
      PROVE  SequentialInv'
  <2>1. PICK outcome :
           request' = [request EXCEPT ![r] =
              [s EXCEPT !.known = Restrict(s.known, DOMAIN s.known \ {p}),
                        !.found = s.found \cup outcome]]
    BY <1>5 DEF ProbeKnown
  <2> DEFINE t == [s EXCEPT !.known = Restrict(s.known, DOMAIN s.known \ {p}),
                            !.found = s.found \cup outcome]
  <2>2. t.now = s.now /\ t.loaded = s.loaded /\ t.saved = s.saved
    BY <1>1 DEF Session
  <2>3. QED
    BY <1>3, <1>5, <2>1, <2>2 DEF ProbeKnown
<1>6. ASSUME NEW f \in s.found, MatchFinding(r, f)
      PROVE  SequentialInv'
  <2> DEFINE key == IdentityOf(f)
             result(match) == [finding |-> f, key |-> key, match |-> match]
             after(t, match) == [t EXCEPT !.stage = "matching", !.found = @ \ {f},
                                          !.saved = @ \cup {result(match)}]
  <2>1. s.stage \notin {"confirming", "updating"} /\ UNCHANGED <<issued, printer>>
    BY <1>6 DEF MatchFinding
  <2>2. ASSUME NEW t \in Session, NEW match
        PROVE  /\ after(t, match).now = t.now /\ after(t, match).loaded = t.loaded
               /\ after(t, match).stage = "matching"
               /\ after(t, match).saved = t.saved \cup {result(match)}
    BY DEF Session
  <2>3. CASE request' = [request EXCEPT ![r] = after(s, NoPrinter)]
    <3> DEFINE u == after(s, NoPrinter)
    <3>1. /\ u.now = s.now /\ u.loaded = s.loaded /\ u.stage = "matching"
          /\ s.saved \subseteq u.saved
      BY <1>1, <2>2
    <3> HIDE DEF u
    <3>2. Current(u) /\ Keeps(u)
      BY <1>1, <2>1, <3>1 DEF Current, Keeps
    <3>3. QED
      BY <2>1, <2>3, <3>2, SequentialSession DEF u
  <2>4. ASSUME NEW p \in KnownMatches(key, f),
               request' = [request EXCEPT ![r] =
                  after(Touch(s, p, UpdateKnown(Seen(s, p), f, key, "online")), p)]
        PROVE  SequentialInv'
    <3> DEFINE seen == Seen(s, p)
               row == UpdateKnown(seen, f, key, "online")
               t == Touch(s, p, row)
               u == after(t, p)
    <3>1. f \in Finding /\ key \in Keys /\ p \in live
      BY <1>1, IdentityType DEF Session, KnownMatches, WithKey, AtEndpoint
    <3>2. row \in Row /\ (row.key = NoKey => seen.key = NoKey)
      BY <1>1, <3>1, SeenType, UpdateKnownType
    <3>3. row.adapter = InferAdapter(row.type)
      BY <1>1, <3>1, SeenAdapter, UpdateKnownAdapter
    <3>4. /\ row.key = IF seen.key = NoKey THEN key ELSE seen.key
          /\ seen.key = key /\ key \in StableKeys =>
                /\ row.port = seen.port /\ row.type = seen.type /\ row.adapter = seen.adapter
      BY DEF UpdateKnown
    <3>5. /\ t \in Session
          /\ DOMAIN t.now = DOMAIN s.now \cup {p}
          /\ t.now[p] = row
          /\ \A q \in DOMAIN s.now \ {p} : t.now[q] = s.now[q] /\ t.loaded[q] = s.loaded[q]
          /\ t.loaded[p] = IF p \in DOMAIN s.now THEN s.loaded[p] ELSE printer[p]
          /\ t.saved = s.saved
      <4> HIDE DEF row
      <4>1. QED
        BY <1>1, <3>1, <3>2, TouchType DEF Invariant, Sound
    <3>6. Current(t)
      <4> HIDE DEF row
      <4>1. QED
        BY <1>1, <3>1, <3>2, <3>3, TouchCurrent
    <3>7. /\ u.now = t.now /\ u.loaded = t.loaded /\ u.stage = "matching"
          /\ u.saved = s.saved \cup {result(p)}
      <4> HIDE DEF t
      <4>1. QED
        BY <2>2, <3>5
    <3>8. result(p).match = p /\ result(p).key = key
      OBVIOUS
    <3>9. seen = IF p \in DOMAIN s.now THEN s.now[p] ELSE printer[p]
      BY DEF Seen
    <3> HIDE DEF t, u, row, seen, key, result
    <3>10. Current(u)
      BY <3>6, <3>7 DEF Current
    <3>11. Keeps(u)
      <4> SUFFICES ASSUME NEW q \in DOMAIN u.now, u.loaded[q].key \in StableKeys,
                          \A res \in u.saved : res.match = q => res.key = u.loaded[q].key
                   PROVE  /\ u.now[q].key = u.loaded[q].key
                          /\ u.now[q].port = u.loaded[q].port
                          /\ u.now[q].type = u.loaded[q].type
                          /\ u.now[q].adapter = u.loaded[q].adapter
        BY DEF Keeps
      <4>1. CASE q # p
        <5>1. /\ q \in DOMAIN s.now /\ u.now[q] = s.now[q] /\ u.loaded[q] = s.loaded[q]
          BY <3>5, <3>7, <4>1
        <5>2. \A res \in s.saved : res.match = q => res.key = s.loaded[q].key
          BY <3>7, <5>1
        <5>3. QED
          BY <1>1, <2>1, <5>1, <5>2 DEF Keeps
      <4>2. CASE q = p
        <5>1. key = u.loaded[p].key /\ key \in StableKeys /\ key # NoKey
          BY <3>7, <3>8, <4>2, InventoryAssumption
        <5>2. /\ seen.key = u.loaded[p].key /\ seen.port = u.loaded[p].port
              /\ seen.type = u.loaded[p].type /\ seen.adapter = u.loaded[p].adapter
          <6>1. CASE p \in DOMAIN s.now
            <7>1. u.loaded[p] = s.loaded[p] /\ seen = s.now[p]
              BY <3>5, <3>7, <3>9, <6>1
            <7>2. \A res \in s.saved : res.match = p => res.key = s.loaded[p].key
              BY <3>7, <4>2, <7>1
            <7>3. QED
              BY <1>1, <2>1, <4>2, <6>1, <7>1, <7>2 DEF Keeps
          <6>2. CASE p \notin DOMAIN s.now
            BY <3>5, <3>7, <3>9, <6>2
          <6>3. QED
            BY <6>1, <6>2
        <5>3. u.now[q] = row
          BY <3>5, <3>7, <4>2
        <5>4. QED
          BY <3>4, <4>2, <5>1, <5>2, <5>3
      <4>3. QED
        BY <4>1, <4>2
    <3>12. QED
      BY <2>1, <2>4, <3>10, <3>11, SequentialSession DEF u, t, row, seen, key, result
  <2>5. QED
    BY <1>6, <2>3, <2>4 DEF MatchFinding
<1>7. QED
  BY <1>2, <1>4, <1>5, <1>6

\* Loading a row to confirm or to update it.
LEMMA SequentialLoad ==
    ASSUME Invariant, SequentialInv, NEW r \in Requests,
           \/ \E res \in results, named \in BOOLEAN : LoadConfirm(r, res, named)
           \/ \E p \in Printers, h \in Hosts, port \in Ports : LoadUpdate(r, p, h, port)
           \/ Rollback(r)
    PROVE  SequentialInv'
<1>1. ASSUME NEW stage \in {"confirming", "updating"}, NEW p \in live, NEW row \in Row,
             row.adapter = InferAdapter(row.type), UNCHANGED <<issued, printer>>,
             request' = [request EXCEPT ![r] = Touch(NewSession(stage), p, row)]
      PROVE  SequentialInv'
  <2> DEFINE t == Touch(NewSession(stage), p, row)
  <2>1. Sound(NewSession(stage)) /\ Current(NewSession(stage))
    BY <1>1, NewSessionSound, FreshSession
  <2>2. Current(t)
    BY <1>1, <2>1, TouchCurrent
  <2>3. t.stage = stage
    BY <2>1, <1>1 DEF Touch, NewSession
  <2>4. Keeps(t)
    BY <1>1, <2>3 DEF Keeps
  <2>5. QED
    BY <1>1, <2>2, <2>4, SequentialSession
<1>2. ASSUME NEW res \in results, NEW named \in BOOLEAN, LoadConfirm(r, res, named)
      PROVE  SequentialInv'
  <2> DEFINE f == [res.finding EXCEPT !.key = res.key]
             matched == IF named THEN {res.match} \cap live ELSE {}
             existing == IF matched # {} THEN matched ELSE KnownMatches(res.key, f)
             fresh == [NewSession("creating") EXCEPT !.found = {f}]
  <2>1. f \in Finding /\ res.key \in Keys
    BY DEF Invariant, TypeOK, Result, Finding
  <2>2. CASE request' = [request EXCEPT ![r] = fresh]
    <3>1. Current(fresh) /\ Keeps(fresh)
      BY NoRowsType DEF NewSession, Current, Keeps
    <3>2. QED
      BY <1>2, <2>2, <3>1, SequentialSession DEF LoadConfirm
  <2>3. ASSUME NEW p \in existing,
               request' = [request EXCEPT ![r] =
                  Touch(NewSession("confirming"), p,
                        UpdateKnown(printer[p], f, res.key, "confirmed"))]
        PROVE  SequentialInv'
    <3> DEFINE row == UpdateKnown(printer[p], f, res.key, "confirmed")
    <3>1. p \in live
      BY DEF KnownMatches, WithKey, AtEndpoint
    <3>2. printer[p] \in Row /\ printer[p].adapter = InferAdapter(printer[p].type)
      BY <3>1, RowsFacts DEF Invariant, TypeOK, live, SequentialInv, AdapterFollowsType
    <3>3. row \in Row /\ row.adapter = InferAdapter(row.type)
      BY <2>1, <3>2, UpdateKnownType, UpdateKnownAdapter
    <3> HIDE DEF row
    <3>4. QED
      BY <1>1, <1>2, <2>3, <3>1, <3>3 DEF LoadConfirm, row
  <2>4. QED
    BY <1>2, <2>2, <2>3 DEF LoadConfirm
<1>3. ASSUME NEW p \in Printers, NEW h \in Hosts, NEW port \in Ports, LoadUpdate(r, p, h, port)
      PROVE  SequentialInv'
  <2> DEFINE moved == [printer[p] EXCEPT !.host = h, !.port = port]
  <2>1. PICK edited \in {moved} \cup
             {[moved EXCEPT !.type = t, !.adapter = InferAdapter(t)] : t \in ServiceTypes} :
           request' = [request EXCEPT ![r] = Touch(NewSession("updating"), p, edited)]
    BY <1>3 DEF LoadUpdate
  <2>2. p \in live /\ UNCHANGED <<issued, printer>>
    BY <1>3 DEF LoadUpdate
  <2>3. printer[p] \in Row /\ printer[p].adapter = InferAdapter(printer[p].type)
    BY <2>2, RowsFacts DEF Invariant, TypeOK, live, SequentialInv, AdapterFollowsType
  <2>4. moved \in Row /\ moved.adapter = InferAdapter(moved.type)
    BY <2>3 DEF Row
  <2>5. edited \in Row /\ edited.adapter = InferAdapter(edited.type)
    <3>1. ASSUME NEW t \in ServiceTypes, edited = [moved EXCEPT !.type = t, !.adapter = InferAdapter(t)]
          PROVE  edited \in Row /\ edited.adapter = InferAdapter(edited.type)
      <4> HIDE DEF moved
      <4>1. QED
        BY <2>4, <3>1, AdapterType DEF Row
    <3>2. QED
      BY <2>1, <2>4, <3>1
  <2>6. QED
    BY <1>1, <2>1, <2>2, <2>5
<1>4. CASE Rollback(r)
  BY <1>4, FreshSession, SequentialSession DEF Rollback, Close, Idle
<1>5. QED
  BY <1>2, <1>3, <1>4

\* A row added under an id that no session knows.
LEMMA SequentialInsert ==
    ASSUME Invariant, SequentialInv, NEW p \in Printers, NEW row \in Row, Insert(p, row),
           row.adapter = InferAdapter(row.type),
           \A r \in Requests : request'[r] \in {request[r], Idle}
    PROVE  SequentialInv'
<1>1. printer \in Rows /\ live \subseteq issued /\ p \notin issued
  BY DEF Invariant, TypeOK, Insert
<1>2. /\ issued' = issued \cup {p} /\ live' = live \cup {p}
      /\ printer'[p] = row
      /\ \A q \in live : printer'[q] = printer[q]
  <2>1. /\ DOMAIN With(printer, p, row) = DOMAIN printer \cup {p}
        /\ With(printer, p, row)[p] = row
        /\ \A q \in DOMAIN printer \ {p} : With(printer, p, row)[q] = printer[q]
    BY <1>1, WithType
  <2>2. issued' = issued \cup {p} /\ printer' = With(printer, p, row)
    BY DEF Insert
  <2>3. p \notin DOMAIN printer
    BY <1>1 DEF live
  <2>4. QED
    BY <2>1, <2>2, <2>3 DEF live
<1>3. AdapterFollowsType'
  BY <1>2 DEF AdapterFollowsType, SequentialInv
<1>4. ASSUME NEW s, Current(s), NEW q \in DOMAIN s.now
      PROVE  q \in issued' /\ (q \in live' => s.loaded[q] = printer'[q])
  BY <1>1, <1>2, <1>4 DEF Current
<1>5. ASSUME NEW r \in Requests
      PROVE  Current(request[r])' /\ Keeps(request[r])'
  <2>1. Current(request[r]) /\ Keeps(request[r]) /\ Current(Idle) /\ Keeps(Idle)
    BY FreshSession DEF SequentialInv, Idle
  <2>2. CASE request'[r] = request[r]
    BY <1>4, <2>1, <2>2 DEF Current, Keeps
  <2>3. CASE request'[r] = Idle
    BY <1>4, <2>1, <2>3 DEF Current, Keeps
  <2>4. QED
    BY <2>2, <2>3
<1>6. QED
  BY <1>3, <1>5 DEF SequentialInv

\* A session that loaded a row as it is writes it as it has it.
LEMMA FlushedCurrent ==
    ASSUME NEW stored \in Row, NEW now \in Row
    PROVE  /\ Flushed(stored, stored, now).adapter = now.adapter
           /\ Flushed(stored, stored, now).type = now.type
           /\ Flushed(stored, stored, now).port = now.port
<1>1. DOMAIN stored = {"host", "port", "type", "adapter", "key"}
  BY DEF Row
<1>2. QED
  BY <1>1 DEF Flushed

\* What a flush makes of a row when its session is the only one.
LEMMA SequentialFlush ==
    ASSUME Invariant, SequentialInv, NEW r \in Requests, CommitScan(r) \/ CommitRow(r),
           NEW p \in live
    PROVE  /\ live' = live
           /\ p \notin DOMAIN request[r].now => printer'[p] = printer[p]
           /\ p \in DOMAIN request[r].now =>
                /\ request[r].loaded[p] = printer[p]
                /\ printer'[p].adapter = request[r].now[p].adapter
                /\ printer'[p].type = request[r].now[p].type
                /\ printer'[p].port = request[r].now[p].port
<1> DEFINE s == request[r]
<1>1. Sound(s) /\ s \in Session /\ Current(s) /\ s.now \in Rows /\ s.loaded \in Rows
  BY SoundSessions DEF Sound, Session, SequentialInv
<1>2. printer' = AfterFlush(s)
  BY DEF CommitScan, CommitRow
<1>3. /\ live' = live
      /\ printer'[p] = IF p \in DOMAIN s.now THEN Flushed(printer[p], s.loaded[p], s.now[p])
                       ELSE printer[p]
  BY <1>1, <1>2, AfterFlushType DEF Sound, Invariant, live
<1>4. ASSUME p \in DOMAIN s.now
      PROVE  /\ s.loaded[p] = printer[p]
             /\ printer'[p] = Flushed(printer[p], printer[p], s.now[p])
             /\ s.now[p] \in Row /\ printer[p] \in Row
  BY <1>1, <1>3, <1>4, RowsFacts DEF Current, Invariant, TypeOK, live
<1>5. QED
  BY <1>3, <1>4, FlushedCurrent

\* A scan commit of the only session keeps what was confirmed.
LEMMA ScanCommitKeeps ==
    ASSUME Invariant, SequentialInv, NEW r \in Requests, CommitScan(r), NEW p \in live,
           printer[p].key \in StableKeys,
           \A res \in request[r].saved : res.match = p => res.key = printer[p].key
    PROVE  /\ printer'[p].port = printer[p].port
           /\ printer'[p].type = printer[p].type
           /\ printer'[p].adapter = printer[p].adapter
<1> DEFINE s == request[r]
<1>1. Keeps(s) /\ s.stage \notin {"confirming", "updating"}
  BY DEF SequentialInv, CommitScan, Scanned
<1>2. CASE p \notin DOMAIN s.now
  BY <1>2, SequentialFlush
<1>3. CASE p \in DOMAIN s.now
  <2>1. /\ s.loaded[p] = printer[p] /\ printer'[p].adapter = s.now[p].adapter
        /\ printer'[p].type = s.now[p].type /\ printer'[p].port = s.now[p].port
    BY <1>3, SequentialFlush
  <2>2. QED
    BY <1>1, <1>3, <2>1 DEF Keeps
<1>4. QED
  BY <1>2, <1>3

LEMMA SequentialStep ==
    ASSUME \A r, q \in Requests : r = q, Invariant, SequentialInv, [Next]_vars
    PROVE  SequentialInv'
<1>1. ASSUME UNCHANGED <<issued, printer, request>>
      PROVE  SequentialInv'
  BY <1>1 DEF SequentialInv, AdapterFollowsType, Current, Keeps, live
<1>2. ASSUME NEW p \in Printers, NEW h \in Hosts, NEW port \in Ports, NEW t \in ServiceTypes,
             CreatePrinter(p, h, port, t)
      PROVE  SequentialInv'
  <2> DEFINE row == [host |-> h, port |-> port, type |-> t, adapter |-> InferAdapter(t),
                     key |-> NoKey]
  <2>1. row \in Row /\ row.adapter = InferAdapter(row.type)
    BY AdapterType DEF Row, Keys
  <2>2. Insert(p, row) /\ request' = request
    BY <1>2 DEF CreatePrinter
  <2> HIDE DEF row
  <2>3. QED
    BY <2>1, <2>2, SequentialInsert
<1>3. ASSUME NEW p \in Printers, DeletePrinter(p)
      PROVE  SequentialInv'
  <2>1. /\ printer' = Restrict(printer, live \ {p}) /\ UNCHANGED <<issued, request>>
        /\ printer \in Rows
    BY <1>3 DEF DeletePrinter, Invariant, TypeOK
  <2>2. live' = live \ {p} /\ \A q \in live' : q \in live /\ printer'[q] = printer[q]
    BY <2>1, RestrictType DEF live
  <2>3. AdapterFollowsType'
    BY <2>2 DEF SequentialInv, AdapterFollowsType
  <2>4. \A r \in Requests : Current(request[r])' /\ Keeps(request[r])'
    BY <2>1, <2>2 DEF SequentialInv, Current, Keeps
  <2>5. QED
    BY <2>3, <2>4 DEF SequentialInv
<1>4. ASSUME NEW r \in Requests, NEW p \in Printers, CommitConfirmNew(r, p)
      PROVE  SequentialInv'
  <2>1. PICK f \in request[r].found :
           /\ Insert(p, [host |-> f.host, port |-> f.port, type |-> f.type,
                         adapter |-> InferAdapter(f.type), key |-> f.key])
           /\ Close(r)
    BY <1>4 DEF CommitConfirmNew
  <2> DEFINE row == [host |-> f.host, port |-> f.port, type |-> f.type,
                     adapter |-> InferAdapter(f.type), key |-> f.key]
  <2>2. f \in Finding
    BY SessionFacts DEF Invariant
  <2>3. row \in Row /\ row.adapter = InferAdapter(row.type)
    BY <2>2, AdapterType DEF Row, Finding
  <2>4. \A q \in Requests : request'[q] \in {request[q], Idle}
    BY <2>1 DEF Close, Invariant, TypeOK
  <2> HIDE DEF row
  <2>5. QED
    BY <2>1, <2>3, <2>4, SequentialInsert DEF row
<1>5. ASSUME NEW r \in Requests, CommitScan(r) \/ CommitRow(r)
      PROVE  SequentialInv'
  <2>1. \A q \in Requests : request'[q] = Idle
    BY <1>5 DEF CommitScan, CommitRow, Close, Invariant, TypeOK
  <2>2. ASSUME NEW p \in live
        PROVE  live' = live /\ printer'[p].adapter = InferAdapter(printer'[p].type)
    <3>1. printer[p].adapter = InferAdapter(printer[p].type) /\ Current(request[r])
      BY DEF SequentialInv, AdapterFollowsType
    <3>2. QED
      BY <1>5, <3>1, SequentialFlush DEF Current
  <2>3. live' \subseteq live
    BY <1>5, SoundSessions, AfterFlushType DEF CommitScan, CommitRow, Sound, Invariant, live
  <2>4. AdapterFollowsType'
    BY <2>2, <2>3 DEF AdapterFollowsType
  <2>5. \A q \in Requests : Current(request[q])' /\ Keeps(request[q])'
    BY <2>1, NoRowsType DEF Idle, NewSession, Current, Keeps
  <2>6. QED
    BY <2>4, <2>5 DEF SequentialInv
<1>6. ASSUME NEW r \in Requests, RequestStep(r)
      PROVE  SequentialInv'
  BY <1>4, <1>5, <1>6, SequentialScan, SequentialLoad DEF RequestStep
<1>7. CASE \E a \in Leases : MoveDevices(a)
  BY <1>1, <1>7 DEF MoveDevices
<1>8. CASE UNCHANGED vars
  BY <1>1, <1>8 DEF vars
<1>9. QED
  BY <1>2, <1>3, <1>6, <1>7, <1>8 DEF Next

LEMMA SequentialInitially == Init => SequentialInv
<1> SUFFICES ASSUME Init PROVE SequentialInv
  OBVIOUS
<1>1. live = {} /\ \A r \in Requests : request[r] = Idle
  BY NoRowsType DEF Init, live
<1>2. QED
  BY <1>1, FreshSession DEF SequentialInv, AdapterFollowsType, Idle

\* With one request at a time the engine of a printer is that of its type.
THEOREM AdaptersFollowTypes ==
    ASSUME \A r, q \in Requests : r = q
    PROVE  Spec => []AdapterFollowsType
<1>1. Invariant /\ SequentialInv /\ [Next]_vars => SequentialInv'
  BY SequentialStep
<1>2. SequentialInv => AdapterFollowsType
  BY DEF SequentialInv
<1>3. QED
  BY <1>1, <1>2, SequentialInitially, InventoryInvariant, PTL DEF Spec

\* With one request at a time a scan keeps the endpoint an admin confirmed.
THEOREM ScansKeepEndpoints ==
    ASSUME \A r, q \in Requests : r = q
    PROVE  Spec => ScanKeepsConfirmedEndpoint
<1> DEFINE Kept ==
      \A r \in Requests :
        CommitScan(r) =>
            \A p \in live :
                /\ printer[p].key \in StableKeys
                /\ \A res \in request[r].saved : res.match = p => res.key = printer[p].key
                => \A c \in {"port", "type", "adapter"} : printer'[p][c] = printer[p][c]
<1>1. Invariant /\ SequentialInv /\ [Next]_vars => SequentialInv'
  BY SequentialStep
<1>2. Invariant /\ SequentialInv /\ [Next]_vars => [Kept]_vars
  BY ScanCommitKeeps
<1>3. QED
  BY <1>1, <1>2, SequentialInitially, InventoryInvariant, PTL
     DEF Spec, ScanKeepsConfirmedEndpoint
=============================================================================
