---------------------------- MODULE BackendProofs ----------------------------
(***************************************************************************)
(* The stores of the backend, one after another and then side by side, for *)
(* every set of threads, rows and values: printer credentials, users and   *)
(* sessions, the key file and the accounts of a source site; the library   *)
(* has a module of its own.                                                *)
(***************************************************************************)
EXTENDS MCBackend, LibraryProofs

-----------------------------------------------------------------------------
(* Printer credentials                                                     *)

\* A row made of some columns of one row and the rest of another is a row.
LEMMA FlushedRow ==
    ASSUME NEW stored \in Row, NEW loaded \in Row, NEW edited \in Row
    PROVE  /\ Flushed(stored, loaded, edited) \in Row
           /\ Flushed(stored, loaded, edited).credential =
                IF edited.credential # loaded.credential
                  THEN edited.credential ELSE stored.credential
<1> DEFINE f == Flushed(stored, loaded, edited)
<1>1. DOMAIN stored = {"adapter", "credential", "capabilities"}
  BY DEF Row
<1>2. /\ f.adapter \in Adapters
      /\ f.credential \in BOOLEAN
      /\ f.capabilities \in Capabilities
      /\ f.credential = IF edited.credential # loaded.credential
                          THEN edited.credential ELSE stored.credential
  BY <1>1 DEF Flushed, Row
<1>3. f = [adapter |-> f.adapter, credential |-> f.credential,
           capabilities |-> f.capabilities]
  BY <1>1 DEF Flushed
<1>4. f \in Row
  BY <1>2, <1>3 DEF Row
<1>5. QED
  BY <1>2, <1>4

\* What an idle thread stores when it opens a session.
LEMMA OpenType ==
    ASSUME TypeOK, NEW r \in Requests, NEW p \in Printers, NEW edited \in Row,
           NEW op \in {"configure", "remove", "retype", "refresh"},
           Open(r, op, p, edited)
    PROVE  request' \in [Requests -> Session \cup {Idle}]
  BY CredentialAssumption DEF Open, TypeOK, Session, SecretKey, NoSecret

\* A thread that is in the middle of a request holds a session.
LEMMA BusySession ==
    ASSUME TypeOK, NEW r \in Requests, request[r].op # "idle"
    PROVE  request[r] \in Session
  BY DEF TypeOK, Idle

\* Writing a session's changed columns keeps every row a row.
LEMMA WriteRowType ==
    ASSUME TypeOK, NEW s \in Session, WriteRow(s)
    PROVE  printer' \in [Printers -> Row]
<1>1. s.id \in Printers /\ s.loaded \in Row /\ s.edited \in Row
  BY DEF Session
<1>2. Flushed(printer[s.id], s.loaded, s.edited) \in Row
  BY <1>1, FlushedRow DEF TypeOK
<1>3. QED
  BY <1>1, <1>2 DEF WriteRow, TypeOK

LEMMA RowFacts ==
    ASSUME NEW row \in Row, NEW a \in Adapters, NEW d \in DeviceIds,
           NEW known \in Row
    PROVE  /\ NewRow(a) \in Row
           /\ [row EXCEPT !.credential = TRUE, !.capabilities.device = d] \in Row
           /\ [row EXCEPT !.credential = FALSE, !.capabilities.device = NoDevice] \in Row
           /\ [row EXCEPT !.adapter = a, !.capabilities = DefaultCapabilities(a)] \in Row
           /\ [row EXCEPT !.capabilities =
                   [engine |-> known.capabilities.engine,
                    device |-> IF known.capabilities.device # NoDevice
                                 THEN known.capabilities.device
                                 ELSE row.capabilities.device]] \in Row
  BY DEF Row, Capabilities, NewRow, DefaultCapabilities

-----------------------------------------------------------------------------
\* The state always has the declared types: credentials, keys and sessions,
\* over any interleaving of the requests.
THEOREM CredentialTypes == Spec => []TypeOK
<1>1. Init => TypeOK
  <2> SUFFICES ASSUME Init PROVE TypeOK
    OBVIOUS
  <2>1. NewRow(BambuMqtt) \in Row
    BY CredentialAssumption DEF NewRow, Row, Capabilities, DefaultCapabilities
  <2>2. QED
    BY <2>1, CredentialAssumption DEF Init, TypeOK, SecretKey, NoSecret
<1>2. TypeOK /\ [Next]_vars => TypeOK'
  <2> SUFFICES ASSUME TypeOK, [Next]_vars PROVE TypeOK'
    OBVIOUS
  <2>1. ASSUME NEW p \in Printers, NEW a \in Adapters, CreatePrinter(p, a)
        PROVE  TypeOK'
    <3>1. NewRow(a) \in Row
      BY DEF NewRow, Row, Capabilities, DefaultCapabilities
    <3>2. printer' \in [Printers -> Row]
      BY <2>1, <3>1 DEF CreatePrinter, TypeOK
    <3>3. issued' \subseteq Printers /\ live' \subseteq issued'
      BY <2>1 DEF CreatePrinter, TypeOK
    <3>4. QED
      BY <2>1, <3>2, <3>3 DEF CreatePrinter, TypeOK
  <2>2. ASSUME NEW p \in Printers, DeletePrinter(p)
        PROVE  TypeOK'
    BY <2>2 DEF DeletePrinter, TypeOK
  <2>3. ASSUME NEW r \in Requests, RequestStep(r)
        PROVE  TypeOK'
    <3>1. ASSUME NEW p \in Printers, NEW d \in DeviceIds, BeginConfigure(r, p, d)
          PROVE  TypeOK'
      <4>1. printer[p] \in Row
        BY DEF TypeOK
      <4>2. [printer[p] EXCEPT !.credential = TRUE, !.capabilities.device = d] \in Row
        BY <4>1, CredentialAssumption, RowFacts
      <4>3. request' \in [Requests -> Session \cup {Idle}]
        BY <3>1, <4>2, OpenType DEF BeginConfigure
      <4>4. QED
        BY <3>1, <4>3 DEF BeginConfigure, TypeOK
    <3>2. CASE ReadSecretToConfigure(r)
      <4>1. request[r] \in Session
        BY <3>2, BusySession DEF ReadSecretToConfigure
      <4>2. secret[request[r].id] \in SecretKey
        BY <4>1 DEF TypeOK, Session
      <4>3. [request[r] EXCEPT !.op = "configureSecret",
                               !.key = secret[request[r].id]] \in Session
        BY <4>1, <4>2 DEF Session
      <4>4. QED
        BY <3>2, <4>3 DEF ReadSecretToConfigure, TypeOK
    <3>3. CASE CommitConfigure(r)
      <4>1. request[r] \in Session
        BY <3>3, BusySession DEF CommitConfigure
      <4>2. printer' \in [Printers -> Row]
        BY <3>3, <4>1, WriteRowType DEF CommitConfigure
      <4>3. secret' \in [Printers -> SecretKey] /\ inserted' \in SecretKey
        BY <3>3, <4>1, CredentialAssumption
           DEF CommitConfigure, TypeOK, Session, SecretKey
      <4>4. request' \in [Requests -> Session \cup {Idle}]
        BY <3>3 DEF CommitConfigure, Close, TypeOK
      <4>5. QED
        BY <3>3, <4>2, <4>3, <4>4 DEF CommitConfigure, TypeOK
    <3>4. CASE RollbackConfigure(r)
      BY <3>4 DEF RollbackConfigure, Close, TypeOK
    <3>5. ASSUME NEW p \in Printers, BeginRemove(r, p)
          PROVE  TypeOK'
      <4>1. [printer[p] EXCEPT !.credential = FALSE,
                               !.capabilities.device = NoDevice] \in Row
        BY DEF TypeOK, Row, Capabilities
      <4>2. request' \in [Requests -> Session \cup {Idle}]
        BY <3>5, <4>1, OpenType DEF BeginRemove
      <4>3. QED
        BY <3>5, <4>2 DEF BeginRemove, TypeOK
    <3>6. CASE ReadSecretToRemove(r)
      <4>1. request[r] \in Session
        BY <3>6, BusySession DEF ReadSecretToRemove
      <4>2. secret[request[r].id] \in SecretKey /\ NoSecret \in SecretKey
        BY <4>1, CredentialAssumption DEF TypeOK, Session, SecretKey, NoSecret
      <4>3. [request[r] EXCEPT !.op = "removeSecret",
                !.key = IF request[r].loaded.credential
                          THEN secret[request[r].id] ELSE NoSecret] \in Session
        BY <4>1, <4>2 DEF Session
      <4>4. QED
        BY <3>6, <4>3 DEF ReadSecretToRemove, TypeOK
    <3>7. CASE CommitRemove(r)
      <4>1. request[r] \in Session
        BY <3>7, BusySession DEF CommitRemove
      <4>2. printer' \in [Printers -> Row]
        BY <3>7, <4>1, WriteRowType DEF CommitRemove
      <4>3. secret' \in [Printers -> SecretKey]
        BY <3>7, <4>1, CredentialAssumption
           DEF CommitRemove, TypeOK, Session, SecretKey, NoSecret
      <4>4. request' \in [Requests -> Session \cup {Idle}]
        BY <3>7 DEF CommitRemove, Close, TypeOK
      <4>5. QED
        BY <3>7, <4>2, <4>3, <4>4 DEF CommitRemove, TypeOK
    <3>8. CASE RollbackRemove(r)
      BY <3>8 DEF RollbackRemove, Close, TypeOK
    <3>9. ASSUME NEW p \in Printers, NEW a \in Adapters, BeginRetype(r, p, a)
          PROVE  TypeOK'
      <4>1. [printer[p] EXCEPT !.adapter = a,
                               !.capabilities = DefaultCapabilities(a)] \in Row
        BY DEF TypeOK, Row, Capabilities, DefaultCapabilities
      <4>2. request' \in [Requests -> Session \cup {Idle}]
        BY <3>9, <4>1, OpenType DEF BeginRetype
      <4>3. QED
        BY <3>9, <4>2 DEF BeginRetype, TypeOK
    <3>10. ASSUME NEW p \in Printers, BeginRefresh(r, p)
           PROVE  TypeOK'
      <4>1. printer[p] \in Row
        BY DEF TypeOK
      <4>2. request' \in [Requests -> Session \cup {Idle}]
        BY <3>10, <4>1, OpenType DEF BeginRefresh
      <4>3. QED
        BY <3>10, <4>2 DEF BeginRefresh, TypeOK
    <3>11. CASE MatchRefresh(r)
      <4> DEFINE s == request[r]
                 known == s.edited.capabilities
                 row == printer[s.id]
                 merged == [engine |-> known.engine,
                            device |-> IF known.device # NoDevice
                                         THEN known.device
                                         ELSE row.capabilities.device]
      <4>1. s \in Session
        BY <3>11, BusySession DEF MatchRefresh
      <4>2. row \in Row /\ known \in Capabilities
        BY <4>1 DEF Session, Row, TypeOK
      <4>3. [row EXCEPT !.capabilities = merged] \in Row
        BY <4>2 DEF Row, Capabilities
      <4>4. [s EXCEPT !.op = "refreshMatch", !.loaded = row,
                      !.edited = [row EXCEPT !.capabilities = merged]] \in Session
        BY <4>1, <4>2, <4>3 DEF Session
      <4>5. QED
        BY <3>11, <4>4 DEF MatchRefresh, TypeOK
    <3>12. CASE CommitRow(r)
      <4>1. request[r] \in Session
        BY <3>12, BusySession DEF CommitRow
      <4>2. printer' \in [Printers -> Row]
        BY <3>12, <4>1, WriteRowType DEF CommitRow
      <4>3. QED
        BY <3>12, <4>2 DEF CommitRow, Close, TypeOK
    <3>13. QED
      BY <2>3, <3>1, <3>2, <3>3, <3>4, <3>5, <3>6, <3>7, <3>8, <3>9, <3>10,
         <3>11, <3>12 DEF RequestStep
  <2>4. CASE UNCHANGED vars
    BY <2>4 DEF vars, TypeOK
  <2>5. QED
    BY <2>1, <2>2, <2>3, <2>4 DEF Next
<1>3. QED
  BY <1>1, <1>2, PTL DEF Spec

-----------------------------------------------------------------------------
\* The credential column after a session's flush: written when the session
\* changed it, kept otherwise; other rows are not touched.
LEMMA WriteRowCredential ==
    ASSUME TypeOK, NEW s \in Session, WriteRow(s)
    PROVE  /\ \A p \in Printers \ {s.id} : printer'[p] = printer[p]
           /\ s.id \in live =>
                printer'[s.id].credential =
                    IF s.edited.credential # s.loaded.credential
                      THEN s.edited.credential ELSE printer[s.id].credential
<1>1. s.id \in Printers /\ s.loaded \in Row /\ s.edited \in Row
  BY DEF Session
<1>2. printer[s.id] \in Row
  BY <1>1 DEF TypeOK
<1>3. Flushed(printer[s.id], s.loaded, s.edited).credential =
        IF s.edited.credential # s.loaded.credential
          THEN s.edited.credential ELSE printer[s.id].credential
  BY <1>1, <1>2, FlushedRow
<1>4. QED
  BY <1>1, <1>3 DEF WriteRow, TypeOK

\* Opening a session records what the request is about to do.
LEMMA OpenInv ==
    ASSUME TypeOK, CredentialInv, NEW r \in Requests, NEW p \in Printers,
           NEW edited \in Row, NEW op \in {"configure", "remove", "retype", "refresh"},
           Open(r, op, p, edited),
           op = "configure" => edited.credential,
           op = "remove" => ~edited.credential,
           op \in {"retype", "refresh"} => edited.credential = printer[p].credential
    PROVE  SessionInv'
  BY DEF Open, TypeOK, CredentialInv, SessionInv, NoSecret

\* Closing one asks nothing of the others.
LEMMA CloseInv ==
    ASSUME TypeOK, SessionInv, NEW r \in Requests, Close(r)
    PROVE  SessionInv'
  BY DEF Close, TypeOK, SessionInv, Idle

\* CredentialHasSecret with its strengthening, for every interleaving.
THEOREM CredentialsAreBacked == Spec => []CredentialInv
<1>1. Init => CredentialInv
  <2> SUFFICES ASSUME Init PROVE CredentialInv
    OBVIOUS
  <2>1. CredentialHasSecret
    BY DEF Init, CredentialHasSecret
  <2>2. SessionInv
    BY DEF Init, SessionInv, Idle
  <2>3. QED
    BY <2>1, <2>2 DEF CredentialInv
<1>2. TypeOK /\ CredentialInv /\ [Next]_vars => CredentialInv'
  <2> SUFFICES ASSUME TypeOK, CredentialInv, [Next]_vars PROVE CredentialInv'
    OBVIOUS
  <2> USE DEF CredentialInv
  <2>1. ASSUME NEW p \in Printers, NEW a \in Adapters, CreatePrinter(p, a)
        PROVE  CredentialInv'
    <3>1. CredentialHasSecret'
      BY <2>1 DEF CreatePrinter, CredentialHasSecret, NewRow, TypeOK
    <3>2. SessionInv'
      BY <2>1 DEF CreatePrinter, SessionInv
    <3>3. QED
      BY <3>1, <3>2
  <2>2. ASSUME NEW p \in Printers, DeletePrinter(p)
        PROVE  CredentialInv'
    BY <2>2 DEF DeletePrinter, CredentialHasSecret, SessionInv
  <2>3. ASSUME NEW r \in Requests, RequestStep(r)
        PROVE  CredentialInv'
    <3>1. ASSUME UNCHANGED <<live, printer, secret>>, SessionInv'
          PROVE  CredentialInv'
      BY <3>1 DEF CredentialHasSecret
    <3>2. ASSUME NEW p \in Printers, NEW d \in DeviceIds, BeginConfigure(r, p, d)
          PROVE  CredentialInv'
      <4> DEFINE edited == [printer[p] EXCEPT !.credential = TRUE,
                                              !.capabilities.device = d]
      <4>1. edited \in Row /\ edited.credential
        BY DEF TypeOK, Row, Capabilities
      <4>2. SessionInv'
        BY <3>2, <4>1, OpenInv DEF BeginConfigure
      <4>3. QED
        BY <3>1, <3>2, <4>2 DEF BeginConfigure
    <3>3. CASE ReadSecretToConfigure(r)
      <4>1. SessionInv'
        BY <3>3 DEF ReadSecretToConfigure, SessionInv, TypeOK
      <4>2. QED
        BY <3>1, <3>3, <4>1 DEF ReadSecretToConfigure
    <3>4. CASE CommitConfigure(r)
      <4> DEFINE s == request[r]
      <4>1. s \in Session
        BY <3>4, BusySession DEF CommitConfigure
      <4>2. secret'[s.id] # NoSecret
        BY <3>4, <4>1 DEF CommitConfigure, TypeOK, Session, SecretKey, NoSecret
      <4>3. \A p \in Printers \ {s.id} : /\ secret'[p] = secret[p]
                                         /\ printer'[p] = printer[p]
        BY <3>4, <4>1, WriteRowCredential DEF CommitConfigure, TypeOK, Session
      <4>4. live' = live /\ live \subseteq Printers
        BY <3>4 DEF CommitConfigure, TypeOK
      <4>5. CredentialHasSecret'
        BY <4>2, <4>3, <4>4 DEF CredentialHasSecret
      <4>6. SessionInv'
        BY <3>4, CloseInv DEF CommitConfigure
      <4>7. QED
        BY <4>5, <4>6
    <3>5. CASE RollbackConfigure(r)
      BY <3>1, <3>5, CloseInv DEF RollbackConfigure
    <3>6. ASSUME NEW p \in Printers, BeginRemove(r, p)
          PROVE  CredentialInv'
      <4> DEFINE edited == [printer[p] EXCEPT !.credential = FALSE,
                                              !.capabilities.device = NoDevice]
      <4>1. edited \in Row /\ ~edited.credential
        BY DEF TypeOK, Row, Capabilities
      <4>2. SessionInv'
        BY <3>6, <4>1, OpenInv DEF BeginRemove
      <4>3. QED
        BY <3>1, <3>6, <4>2 DEF BeginRemove
    <3>7. CASE ReadSecretToRemove(r)
      <4>1. SessionInv'
        BY <3>7 DEF ReadSecretToRemove, SessionInv, TypeOK
      <4>2. QED
        BY <3>1, <3>7, <4>1 DEF ReadSecretToRemove
    <3>8. CASE CommitRemove(r)
      <4> DEFINE s == request[r]
      <4>1. s \in Session /\ ~s.edited.credential
        BY <3>8, BusySession DEF CommitRemove, SessionInv
      <4>2. s.id \in Printers
        BY <4>1 DEF Session
      <4>3. \A p \in Printers \ {s.id} : /\ secret'[p] = secret[p]
                                         /\ printer'[p] = printer[p]
        BY <3>8, <4>1, WriteRowCredential DEF CommitRemove, TypeOK
      <4>4. s.id \in live =>
              printer'[s.id].credential =
                  IF s.edited.credential # s.loaded.credential
                    THEN s.edited.credential ELSE printer[s.id].credential
        BY <3>8, <4>1, WriteRowCredential DEF CommitRemove
      \* The secret goes only with a row that was loaded naming it, and then
      \* the flush clears the name.
      <4>5. s.id \in live /\ printer'[s.id].credential => secret'[s.id] # NoSecret
        <5>1. CASE s.key = NoSecret
          <6>1. secret'[s.id] = secret[s.id]
            BY <3>8, <4>2, <5>1 DEF CommitRemove, TypeOK
          <6>2. s.id \in live /\ printer'[s.id].credential => printer[s.id].credential
            BY <4>1, <4>4
          <6>3. QED
            BY <6>1, <6>2 DEF CredentialHasSecret
        <5>2. CASE s.key # NoSecret
          <6>1. s.loaded.credential
            BY <3>8, <5>2 DEF CommitRemove, SessionInv
          <6>2. s.id \in live => ~printer'[s.id].credential
            BY <4>1, <4>4, <6>1
          <6>3. QED
            BY <6>2
        <5>3. QED
          BY <5>1, <5>2
      <4>6. live' = live /\ live \subseteq Printers
        BY <3>8 DEF CommitRemove, TypeOK
      <4>7. CredentialHasSecret'
        BY <4>3, <4>5, <4>6 DEF CredentialHasSecret
      <4>8. SessionInv'
        BY <3>8, CloseInv DEF CommitRemove
      <4>9. QED
        BY <4>7, <4>8
    <3>9. CASE RollbackRemove(r)
      BY <3>1, <3>9, CloseInv DEF RollbackRemove
    <3>10. ASSUME NEW p \in Printers, NEW a \in Adapters, BeginRetype(r, p, a)
           PROVE  CredentialInv'
      <4> DEFINE edited == [printer[p] EXCEPT !.adapter = a,
                                !.capabilities = DefaultCapabilities(a)]
      <4>1. edited \in Row /\ edited.credential = printer[p].credential
        BY DEF TypeOK, Row, Capabilities, DefaultCapabilities
      <4>2. SessionInv'
        BY <3>10, <4>1, OpenInv DEF BeginRetype
      <4>3. QED
        BY <3>1, <3>10, <4>2 DEF BeginRetype
    <3>11. ASSUME NEW p \in Printers, BeginRefresh(r, p)
           PROVE  CredentialInv'
      <4>1. printer[p] \in Row
        BY DEF TypeOK
      <4>2. SessionInv'
        BY <3>11, <4>1, OpenInv DEF BeginRefresh
      <4>3. QED
        BY <3>1, <3>11, <4>2 DEF BeginRefresh
    <3>12. CASE MatchRefresh(r)
      <4>1. request[r] \in Session
        BY <3>12, BusySession DEF MatchRefresh
      <4>2. printer[request[r].id] \in Row
        BY <4>1 DEF Session, TypeOK
      <4>3. SessionInv'
        BY <3>12, <4>1, <4>2 DEF MatchRefresh, SessionInv, TypeOK, Idle, Session, Row
      <4>4. QED
        BY <3>1, <3>12, <4>3 DEF MatchRefresh
    <3>13. CASE CommitRow(r)
      <4> DEFINE s == request[r]
      <4>1. s \in Session /\ s.edited.credential = s.loaded.credential
        BY <3>13, BusySession DEF CommitRow, SessionInv
      <4>2. \A p \in live : printer'[p].credential = printer[p].credential
        BY <3>13, <4>1, WriteRowCredential DEF CommitRow, TypeOK
      <4>3. CredentialHasSecret'
        BY <3>13, <4>2 DEF CommitRow, CredentialHasSecret
      <4>4. SessionInv'
        BY <3>13, CloseInv DEF CommitRow
      <4>5. QED
        BY <4>3, <4>4
    <3>14. QED
      BY <2>3, <3>2, <3>3, <3>4, <3>5, <3>6, <3>7, <3>8, <3>9, <3>10, <3>11,
         <3>12, <3>13 DEF RequestStep
  <2>4. CASE UNCHANGED vars
    BY <2>4 DEF vars, CredentialHasSecret, SessionInv
  <2>5. QED
    BY <2>1, <2>2, <2>3, <2>4 DEF Next
<1>3. QED
  BY <1>1, <1>2, CredentialTypes, PTL DEF Spec

\* A saved printer that names a credential has it in the secret store.
THEOREM CredentialNeverDangles == Spec => []CredentialHasSecret
<1>1. CredentialInv => CredentialHasSecret
  BY DEF CredentialInv
<1>2. QED
  BY <1>1, CredentialsAreBacked, PTL

-----------------------------------------------------------------------------
(* Users and sessions                                                      *)

Known == {n \in UserNames : accounts[n] # NoAccount}

\* The request runs without a user, or is about to insert an owner.
Unguarded(s) ==
    \/ s.op = "guard" /\ s.phase = "handler" /\ s.name = NoUser
    \/ s.op = "bootstrap" /\ s.phase = "insert"

\* What a request relies on: the names, token and passwords it is about to use
\* are there, and while nobody is known it has come in before everybody.
RequestFits(s, known) ==
    s # Free =>
        /\ s.op = "bootstrap" => s.name \in UserNames /\ s.password \in Passwords
        /\ s.op = "change" => s.next \in Passwords
        /\ s.phase \in {"session", "touch"} => s.token \in UserTokens
        /\ s.phase \in {"touch", "verify", "write"} => s.name \in known
        /\ known = {} \/ Unguarded(s) => s.early

SessionsInv ==
    \A k \in UserTokens : sessions[k] # NoUser => sessions[k] \in Known /\ k \notin revoked

UsersInv ==
    /\ UsersTypeOK
    /\ \A t \in UserThreads : RequestFits(thread[t], Known)
    /\ SessionsInv

LEMMA UsersInitially == InitUsers => UsersInv
<1> SUFFICES ASSUME InitUsers PROVE UsersInv
  OBVIOUS
<1>1. UsersTypeOK
  BY DEF InitUsers, UsersTypeOK
<1>2. \A t \in UserThreads : RequestFits(thread[t], Known)
  BY DEF InitUsers, RequestFits
<1>3. SessionsInv
  BY DEF InitUsers, SessionsInv
<1>4. QED
  BY <1>1, <1>2, <1>3 DEF UsersInv

-----------------------------------------------------------------------------

LEMMA FitsMore ==
    ASSUME NEW s, NEW known, NEW more, known \subseteq more, RequestFits(s, known)
    PROVE  RequestFits(s, more)
  BY DEF RequestFits

LEMMA NobodyKnown == HasUsers <=> Known # {}
  BY DEF HasUsers, Known

\* One request moves on, and meanwhile rows come and go as the invariant allows.
LEMMA RowsMove ==
    ASSUME UsersInv, NEW t \in UserThreads, NEW s \in Thread \cup {Free},
           thread' = [thread EXCEPT ![t] = s],
           NEW more, more = Known', Known \subseteq more, RequestFits(s, more),
           accounts' \in [UserNames -> Account \cup {NoAccount}],
           sessions' \in [UserTokens -> UserNames \cup {NoUser}],
           revoked' \subseteq UserTokens, SessionsInv'
    PROVE  UsersInv'
<1>1. thread \in [UserThreads -> Thread \cup {Free}]
  BY DEF UsersInv, UsersTypeOK
<1>2. UsersTypeOK'
  BY <1>1 DEF UsersTypeOK
<1>3. \A u \in UserThreads : RequestFits(thread[u], more)
  BY FitsMore DEF UsersInv
<1>4. \A u \in UserThreads : thread'[u] = IF u = t THEN s ELSE thread[u]
  BY <1>1
<1>5. \A u \in UserThreads : RequestFits(thread'[u], more)
  BY <1>3, <1>4
<1>6. QED
  BY <1>2, <1>5 DEF UsersInv

\* One request moves on and the rows stay.
LEMMA RequestMoves ==
    ASSUME UsersInv, NEW t \in UserThreads, NEW s \in Thread \cup {Free},
           thread' = [thread EXCEPT ![t] = s], RequestFits(s, Known),
           UNCHANGED <<accounts, sessions, revoked>>
    PROVE  UsersInv'
<1> PICK more : more = Known
  OBVIOUS
<1>1. more = Known' /\ Known \subseteq more /\ RequestFits(s, more)
  BY DEF Known
<1>2. SessionsInv'
  BY DEF UsersInv, SessionsInv, Known
<1>3. /\ accounts' \in [UserNames -> Account \cup {NoAccount}]
      /\ sessions' \in [UserTokens -> UserNames \cup {NoUser}]
      /\ revoked' \subseteq UserTokens
  BY DEF UsersInv, UsersTypeOK
<1>4. QED
  BY <1>1, <1>2, <1>3, RowsMove

LEMMA AnswerMoves ==
    ASSUME UsersInv, NEW t \in UserThreads, Answer(t), UNCHANGED <<accounts, sessions, revoked>>
    PROVE  UsersInv'
<1>1. RequestFits(Free, Known) /\ thread' = [thread EXCEPT ![t] = Free]
  BY DEF RequestFits, Answer
<1>2. QED
  BY <1>1, RequestMoves

LEMMA ThreadRecord ==
    ASSUME UsersInv, NEW t \in UserThreads, thread[t] # Free
    PROVE  thread[t] \in Thread /\ RequestFits(thread[t], Known)
  BY DEF UsersInv, UsersTypeOK

LEMMA ContinueMoves ==
    ASSUME UsersInv, NEW t \in UserThreads, thread[t] # Free,
           NEW phase \in {"insert", "session", "verify", "write", "handler"}, Continue(t, phase),
           phase = "session" => thread[t].token \in UserTokens,
           phase \in {"verify", "write"} => thread[t].name \in Known,
           phase = "insert" \/ (phase = "handler" /\ thread[t].name = NoUser) => thread[t].early,
           UNCHANGED <<accounts, sessions, revoked>>
    PROVE  UsersInv'
<1> DEFINE s == [thread[t] EXCEPT !.phase = phase]
<1>1. thread[t] \in Thread /\ RequestFits(thread[t], Known)
  BY ThreadRecord
<1>2. s \in Thread /\ s.phase = phase
  BY <1>1 DEF Thread
<1>3. /\ s.op = thread[t].op /\ s.name = thread[t].name /\ s.token = thread[t].token
      /\ s.password = thread[t].password /\ s.next = thread[t].next /\ s.early = thread[t].early
  BY <1>1 DEF Thread
<1>4. thread' = [thread EXCEPT ![t] = s]
  BY DEF Continue
<1> HIDE DEF s
<1>5. RequestFits(s, Known)
  BY <1>1, <1>2, <1>3 DEF RequestFits, Unguarded
<1>6. QED
  BY <1>2, <1>4, <1>5, RequestMoves

-----------------------------------------------------------------------------
(* Requests that come in                                                   *)

LEMMA BlankRecord ==
    ASSUME NEW op \in Operations, NEW phase \in {"start", "session", "verify"}
    PROVE  /\ Blank(op, phase) \in Thread /\ Blank(op, phase) # Free
           /\ Blank(op, phase).op = op /\ Blank(op, phase).phase = phase
           /\ Known = {} => Blank(op, phase).early
<1>1. HasUsers \in BOOLEAN
  BY DEF HasUsers
<1>2. "viewer" \in Roles
  BY DEF Roles, RoleRank
<1>3. Blank(op, phase) \in Thread
  BY <1>1, <1>2 DEF Blank, Thread
<1>4. Blank(op, phase).op # Free.op
  BY DEF Blank, Free, Operations
<1>5. QED
  BY <1>3, <1>4, NobodyKnown DEF Blank

LEMMA ReceiveMoves ==
    ASSUME UsersInv, NEW t \in UserThreads, NEW asked \in Thread, Receive(t, asked),
           RequestFits(asked, Known)
    PROVE  UsersInv'
  BY RequestMoves DEF Receive

LEMMA BeginBootstrapPreserves ==
    ASSUME UsersInv, NEW t \in UserThreads, BeginBootstrap(t)
    PROVE  UsersInv'
<1>1. PICK n \in UserNames, p \in Passwords :
        Receive(t, [Blank("bootstrap", "start") EXCEPT !.name = n, !.password = p])
  BY DEF BeginBootstrap
<1> DEFINE b == Blank("bootstrap", "start")
           s == [b EXCEPT !.name = n, !.password = p]
<1>2. b \in Thread /\ b.op = "bootstrap" /\ b.phase = "start" /\ (Known = {} => b.early)
  BY BlankRecord DEF Operations
<1>3. Receive(t, s)
  BY <1>1
<1> HIDE DEF b
<1>4. s \in Thread
  BY <1>2 DEF Thread
<1>5. /\ s.op = "bootstrap" /\ s.phase = "start" /\ s.name = n /\ s.password = p
      /\ s.early = b.early
  BY <1>2 DEF Thread
<1> HIDE DEF s
<1>6. RequestFits(s, Known)
  BY <1>2, <1>5 DEF RequestFits, Unguarded
<1>7. QED
  BY <1>3, <1>4, <1>6, ReceiveMoves

LEMMA BeginGuardedPreserves ==
    ASSUME UsersInv, NEW t \in UserThreads, BeginGuarded(t)
    PROVE  UsersInv'
<1>1. PICK op \in {"me", "guard"}, k \in UserTokens \cup {NoToken}, role \in GuardRoles :
        Receive(t, [Blank(op, "start") EXCEPT !.token = k, !.role = role])
  BY DEF BeginGuarded
<1> DEFINE b == Blank(op, "start")
           s == [b EXCEPT !.token = k, !.role = role]
<1>2. b \in Thread /\ b.op = op /\ b.phase = "start" /\ (Known = {} => b.early)
  BY BlankRecord DEF Operations
<1>3. Receive(t, s)
  BY <1>1
<1> HIDE DEF b
<1>4. s \in Thread
  BY <1>2, UserAssumption DEF Thread
<1>5. s.op = op /\ s.phase = "start" /\ s.early = b.early
  BY <1>2 DEF Thread
<1> HIDE DEF s
<1>6. RequestFits(s, Known)
  BY <1>2, <1>5 DEF RequestFits, Unguarded
<1>7. QED
  BY <1>3, <1>4, <1>6, ReceiveMoves

LEMMA BeginChangePreserves ==
    ASSUME UsersInv, NEW t \in UserThreads, BeginChangePassword(t)
    PROVE  UsersInv'
<1>1. PICK k \in UserTokens, p \in Passwords, next \in Passwords :
        Receive(t, [Blank("change", "session") EXCEPT
                        !.token = k, !.password = p, !.next = next])
  BY DEF BeginChangePassword
<1> DEFINE b == Blank("change", "session")
           s == [b EXCEPT !.token = k, !.password = p, !.next = next]
<1>2. b \in Thread /\ b.op = "change" /\ b.phase = "session" /\ (Known = {} => b.early)
  BY BlankRecord DEF Operations
<1>3. Receive(t, s)
  BY <1>1
<1> HIDE DEF b
<1>4. s \in Thread
  BY <1>2 DEF Thread
<1>5. s.op = "change" /\ s.phase = "session" /\ s.token = k /\ s.next = next /\ s.early = b.early
  BY <1>2 DEF Thread
<1> HIDE DEF s
<1>6. RequestFits(s, Known)
  BY <1>2, <1>5 DEF RequestFits, Unguarded
<1>7. QED
  BY <1>3, <1>4, <1>6, ReceiveMoves

LEMMA BeginLoginPreserves ==
    ASSUME UsersInv, NEW t \in UserThreads, BeginLogin(t)
    PROVE  UsersInv'
<1>1. PICK n \in UserNames, p \in Passwords :
        /\ accounts[n] # NoAccount
        /\ Receive(t, [Blank("login", "verify") EXCEPT
                        !.name = n, !.password = p, !.hash = accounts[n].password])
  BY DEF BeginLogin
<1> DEFINE b == Blank("login", "verify")
           s == [b EXCEPT !.name = n, !.password = p, !.hash = accounts[n].password]
<1>2. b \in Thread /\ b.op = "login" /\ b.phase = "verify" /\ (Known = {} => b.early)
  BY BlankRecord DEF Operations
<1>3. Receive(t, s)
  BY <1>1
<1> HIDE DEF b
<1>4. accounts[n].password \in Passwords
  BY <1>1 DEF UsersInv, UsersTypeOK, Account
<1>5. s \in Thread
  BY <1>2, <1>4 DEF Thread
<1>6. s.op = "login" /\ s.phase = "verify" /\ s.name = n /\ s.early = b.early
  BY <1>2 DEF Thread
<1> HIDE DEF s
<1>7. n \in Known
  BY <1>1 DEF Known
<1>8. RequestFits(s, Known)
  BY <1>2, <1>6, <1>7 DEF RequestFits, Unguarded
<1>9. QED
  BY <1>3, <1>5, <1>8, ReceiveMoves

-----------------------------------------------------------------------------
(* Rows that are written                                                   *)

\* A session is opened for a user who is known by then.
LEMMA OpenSessionPreserves ==
    ASSUME UsersInv, NEW name \in UserNames, OpenSession(name),
           NEW more, more = Known', Known \subseteq more, name \in more, UNCHANGED revoked
    PROVE  sessions' \in [UserTokens -> UserNames \cup {NoUser}] /\ SessionsInv'
<1>1. PICK k \in FreshTokens : sessions' = [sessions EXCEPT ![k] = name]
  BY DEF OpenSession
<1>2. k \in UserTokens /\ k \notin revoked
  BY <1>1 DEF FreshTokens
<1>3. sessions \in [UserTokens -> UserNames \cup {NoUser}]
  BY DEF UsersInv, UsersTypeOK
<1>4. \A j \in UserTokens : sessions'[j] = IF j = k THEN name ELSE sessions[j]
  BY <1>1, <1>3
<1>5. \A j \in UserTokens : sessions'[j] # NoUser => sessions'[j] \in more /\ j \notin revoked'
  BY <1>2, <1>4 DEF UsersInv, SessionsInv
<1>6. QED
  BY <1>1, <1>3, <1>5 DEF SessionsInv

LEMMA InsertOwnerPreserves ==
    ASSUME UsersInv, NEW t \in UserThreads, InsertOwner(t)
    PROVE  UsersInv'
<1> PICK n : n = thread[t].name
  OBVIOUS
<1>1. thread[t] # Free /\ thread[t].op = "bootstrap" /\ Answer(t) /\ UNCHANGED revoked
  BY DEF InsertOwner, At
<1>2. n \in UserNames /\ thread[t].password \in Passwords
  BY <1>1, ThreadRecord DEF RequestFits
<1>3. CASE accounts[n] # NoAccount
  <2>1. UNCHANGED <<accounts, sessions, revoked>>
    BY <1>1, <1>3 DEF InsertOwner
  <2>2. QED
    BY <1>1, <2>1, AnswerMoves
<1>4. CASE accounts[n] = NoAccount
  <2> DEFINE owner == [role |-> "owner", password |-> thread[t].password, usable |-> TRUE]
  <2> PICK more : more = Known'
    OBVIOUS
  <2>1. accounts' = [accounts EXCEPT ![n] = owner] /\ OpenSession(n)
    BY <1>4 DEF InsertOwner
  <2>2. "owner" \in Roles
    BY DEF Roles, RoleRank
  <2>3. owner \in Account
    BY <1>2, <2>2 DEF Account
  <2>4. accounts \in [UserNames -> Account \cup {NoAccount}]
    BY DEF UsersInv, UsersTypeOK
  <2>5. owner # NoAccount
    BY DEF NoAccount
  <2> HIDE DEF owner
  <2>6. accounts' \in [UserNames -> Account \cup {NoAccount}]
    BY <2>1, <2>3, <2>4
  <2>7. Known \subseteq more /\ n \in more
    BY <1>2, <2>1, <2>4, <2>5 DEF Known
  <2>8. sessions' \in [UserTokens -> UserNames \cup {NoUser}] /\ SessionsInv'
    BY <1>1, <1>2, <2>1, <2>7, OpenSessionPreserves
  <2>9. thread' = [thread EXCEPT ![t] = Free] /\ RequestFits(Free, more)
    BY <1>1 DEF Answer, RequestFits
  <2>10. revoked' \subseteq UserTokens
    BY <1>1 DEF UsersInv, UsersTypeOK
  <2>11. QED
    BY <2>6, <2>7, <2>8, <2>9, <2>10, RowsMove
<1>5. QED
  BY <1>3, <1>4

LEMMA AcceptLoginPreserves ==
    ASSUME UsersInv, NEW t \in UserThreads, AcceptLogin(t)
    PROVE  UsersInv'
<1> PICK n : n = thread[t].name
  OBVIOUS
<1> PICK more : more = Known
  OBVIOUS
<1>1. /\ thread[t] # Free /\ thread[t].phase = "verify" /\ Answer(t) /\ OpenSession(n)
      /\ UNCHANGED <<accounts, revoked>>
  BY DEF AcceptLogin, At
<1>2. n \in Known
  BY <1>1, ThreadRecord DEF RequestFits
<1>3. n \in UserNames
  BY <1>2 DEF Known
<1>4. more = Known'
  BY <1>1 DEF Known
<1>5. sessions' \in [UserTokens -> UserNames \cup {NoUser}] /\ SessionsInv'
  BY <1>1, <1>2, <1>3, <1>4, OpenSessionPreserves
<1>6. thread' = [thread EXCEPT ![t] = Free] /\ RequestFits(Free, more)
  BY <1>1 DEF Answer, RequestFits
<1>7. accounts' \in [UserNames -> Account \cup {NoAccount}] /\ revoked' \subseteq UserTokens
  BY <1>1 DEF UsersInv, UsersTypeOK
<1>8. QED
  BY <1>4, <1>5, <1>6, <1>7, RowsMove

LEMMA LogoutPreserves ==
    ASSUME UsersInv, NEW k \in UserTokens, Logout(k)
    PROVE  UsersInv'
<1>1. /\ sessions' = [sessions EXCEPT ![k] = NoUser] /\ revoked' = revoked \cup {k}
      /\ UNCHANGED <<accounts, thread>>
  BY DEF Logout
<1>2. UsersTypeOK'
  BY <1>1 DEF UsersInv, UsersTypeOK
<1>3. \A t \in UserThreads : RequestFits(thread'[t], Known')
  BY <1>1 DEF UsersInv, Known
<1>4. \A j \in UserTokens : sessions'[j] = IF j = k THEN NoUser ELSE sessions[j]
  BY <1>1 DEF UsersInv, UsersTypeOK
<1>5. SessionsInv'
  BY <1>1, <1>4 DEF UsersInv, SessionsInv, Known
<1>6. QED
  BY <1>2, <1>3, <1>5 DEF UsersInv

LEMMA WritePasswordPreserves ==
    ASSUME UsersInv, NEW t \in UserThreads, WritePassword(t)
    PROVE  UsersInv'
<1> PICK n : n = thread[t].name
  OBVIOUS
<1> PICK more : more = Known
  OBVIOUS
<1> DEFINE row == [accounts[n] EXCEPT !.password = thread[t].next]
<1>1. /\ thread[t] # Free /\ thread[t].op = "change" /\ thread[t].phase = "write"
      /\ Answer(t) /\ UNCHANGED <<sessions, revoked>>
      /\ accounts' = [accounts EXCEPT ![n] = row]
  BY DEF WritePassword, At
<1>2. n \in Known /\ thread[t].next \in Passwords
  BY <1>1, ThreadRecord DEF RequestFits
<1>3. accounts \in [UserNames -> Account \cup {NoAccount}]
  BY DEF UsersInv, UsersTypeOK
<1>4. n \in UserNames /\ accounts[n] \in Account
  BY <1>2, <1>3 DEF Known
<1>5. row \in Account
  BY <1>2, <1>4 DEF Account
<1>6. \A account \in Account : account # NoAccount
  <2>1. NoAccount.role \notin Roles
    BY DEF NoAccount, Roles, RoleRank
  <2>2. \A account \in Account : account.role \in Roles
    BY DEF Account
  <2>3. QED
    BY <2>1, <2>2
<1> HIDE DEF row
<1>7. accounts' \in [UserNames -> Account \cup {NoAccount}]
  BY <1>1, <1>3, <1>5
<1>8. more = Known'
  BY <1>1, <1>2, <1>3, <1>4, <1>5, <1>6 DEF Known
<1>9. SessionsInv'
  BY <1>1, <1>8 DEF UsersInv, SessionsInv
<1>10. thread' = [thread EXCEPT ![t] = Free] /\ RequestFits(Free, more)
  BY <1>1 DEF Answer, RequestFits
<1>11. sessions' \in [UserTokens -> UserNames \cup {NoUser}] /\ revoked' \subseteq UserTokens
  BY <1>1 DEF UsersInv, UsersTypeOK
<1>12. QED
  BY <1>7, <1>8, <1>9, <1>10, <1>11, RowsMove

LEMMA InsertAccountPreserves ==
    ASSUME UsersInv, NEW n \in UserNames, InsertAccount(n)
    PROVE  UsersInv'
<1>1. PICK role \in AddedRoles, p \in Passwords, usable \in BOOLEAN :
        accounts' = [accounts EXCEPT ![n] = [role |-> role, password |-> p, usable |-> usable]]
  BY DEF InsertAccount
<1>2. UNCHANGED <<sessions, revoked, thread>> /\ accounts[n] = NoAccount
  BY DEF InsertAccount
<1> DEFINE row == [role |-> role, password |-> p, usable |-> usable]
<1> PICK more : more = Known'
  OBVIOUS
<1>3. row \in Account /\ row # NoAccount
  BY UserAssumption DEF Account, NoAccount
<1>4. accounts \in [UserNames -> Account \cup {NoAccount}] /\ accounts' = [accounts EXCEPT ![n] = row]
  BY <1>1 DEF UsersInv, UsersTypeOK
<1> HIDE DEF row
<1>5. UsersTypeOK'
  BY <1>2, <1>3, <1>4 DEF UsersInv, UsersTypeOK
<1>6. Known \subseteq more
  BY <1>3, <1>4 DEF Known
<1>7. \A t \in UserThreads : RequestFits(thread'[t], more)
  BY <1>2, <1>6, FitsMore DEF UsersInv
<1>8. SessionsInv'
  BY <1>2, <1>6 DEF UsersInv, SessionsInv
<1>9. QED
  BY <1>5, <1>7, <1>8 DEF UsersInv

-----------------------------------------------------------------------------
(* Requests that go on                                                     *)

LEMMA CountForBootstrapPreserves ==
    ASSUME UsersInv, NEW t \in UserThreads, CountForBootstrap(t)
    PROVE  UsersInv'
<1>1. thread[t] # Free /\ UNCHANGED <<accounts, sessions, revoked>>
  BY DEF CountForBootstrap, At
<1>2. CASE HasUsers
  BY <1>1, <1>2, AnswerMoves DEF CountForBootstrap
<1>3. CASE ~ HasUsers
  <2>1. Continue(t, "insert")
    BY <1>3 DEF CountForBootstrap
  <2>2. thread[t].early
    BY <1>1, <1>3, ThreadRecord, NobodyKnown DEF RequestFits
  <2>3. QED
    BY <1>1, <2>1, <2>2, ContinueMoves
<1>4. QED
  BY <1>2, <1>3

LEMMA CountUsersPreserves ==
    ASSUME UsersInv, NEW t \in UserThreads, CountUsers(t)
    PROVE  UsersInv'
<1>1. thread[t] # Free /\ thread[t].phase = "start" /\ UNCHANGED <<accounts, sessions, revoked>>
  BY DEF CountUsers, At
<1>2. CASE Answer(t)
  BY <1>1, <1>2, AnswerMoves
<1>3. CASE ~ HasUsers /\ Continue(t, "handler")
  <2>1. thread[t].early
    BY <1>1, <1>3, ThreadRecord, NobodyKnown DEF RequestFits
  <2>2. QED
    BY <1>1, <1>3, <2>1, ContinueMoves
<1>4. CASE thread[t].token # NoToken /\ Continue(t, "session")
  <2>1. thread[t].token \in UserTokens
    BY <1>1, <1>4, ThreadRecord DEF Thread
  <2>2. QED
    BY <1>1, <1>4, <2>1, ContinueMoves
<1>5. QED
  BY <1>2, <1>3, <1>4 DEF CountUsers

LEMMA SelectSessionPreserves ==
    ASSUME UsersInv, NEW t \in UserThreads, SelectSession(t)
    PROVE  UsersInv'
<1>1. thread[t] # Free /\ thread[t].phase = "session" /\ UNCHANGED <<accounts, sessions, revoked>>
  BY DEF SelectSession, At
<1>2. CASE Answer(t)
  BY <1>1, <1>2, AnswerMoves
<1>3. CASE /\ sessions[thread[t].token] # NoUser
           /\ thread' = [thread EXCEPT ![t].phase = "touch", ![t].name = sessions[thread[t].token]]
  <2> DEFINE n == sessions[thread[t].token]
             s == [thread[t] EXCEPT !.phase = "touch", !.name = n]
  <2>1. thread[t] \in Thread /\ RequestFits(thread[t], Known) /\ thread[t].token \in UserTokens
    BY <1>1, ThreadRecord DEF RequestFits
  <2>2. n \in Known
    BY <1>3, <2>1 DEF UsersInv, SessionsInv
  <2>3. n \in UserNames
    BY <2>2 DEF Known
  <2>4. thread' = [thread EXCEPT ![t] = s]
    BY <1>3
  <2> HIDE DEF n
  <2>5. s \in Thread
    BY <2>1, <2>3 DEF Thread
  <2>6. /\ s.op = thread[t].op /\ s.phase = "touch" /\ s.name = n /\ s.token = thread[t].token
        /\ s.password = thread[t].password /\ s.next = thread[t].next
        /\ s.early = thread[t].early
    BY <2>1 DEF Thread
  <2> HIDE DEF s
  <2>7. RequestFits(s, Known)
    BY <1>1, <2>1, <2>2, <2>3, <2>6 DEF RequestFits, Unguarded
  <2>8. QED
    BY <1>1, <2>4, <2>5, <2>7, RequestMoves
<1>4. QED
  BY <1>2, <1>3 DEF SelectSession

LEMMA TouchSessionPreserves ==
    ASSUME UsersInv, NEW t \in UserThreads, TouchSession(t)
    PROVE  UsersInv'
<1>1. thread[t] # Free /\ thread[t].phase = "touch" /\ UNCHANGED <<accounts, sessions, revoked>>
  BY DEF TouchSession, At
<1>2. thread[t].name \in Known
  BY <1>1, ThreadRecord DEF RequestFits
<1>3. thread[t].name # NoUser
  BY <1>2, UserAssumption DEF Known
<1>4. CASE Answer(t)
  BY <1>1, <1>4, AnswerMoves
<1>5. CASE Continue(t, "verify")
  BY <1>1, <1>2, <1>5, ContinueMoves
<1>6. CASE Continue(t, "handler")
  BY <1>1, <1>3, <1>6, ContinueMoves
<1>7. Answer(t) \/ Continue(t, "verify") \/ Continue(t, "handler")
  <2>1. Answer(t) \/ Proceed(t)
    BY DEF TouchSession
  <2>2. QED
    BY <2>1 DEF Proceed
<1>8. QED
  BY <1>4, <1>5, <1>6, <1>7

LEMMA VerifyCurrentPreserves ==
    ASSUME UsersInv, NEW t \in UserThreads, VerifyCurrent(t)
    PROVE  UsersInv'
<1>1. thread[t] # Free /\ thread[t].phase = "verify" /\ UNCHANGED <<accounts, sessions, revoked>>
  BY DEF VerifyCurrent, At
<1>2. thread[t].name \in Known
  BY <1>1, ThreadRecord DEF RequestFits
<1>3. CASE Answer(t)
  BY <1>1, <1>3, AnswerMoves
<1>4. CASE Continue(t, "write")
  BY <1>1, <1>2, <1>4, ContinueMoves
<1>5. QED
  BY <1>3, <1>4 DEF VerifyCurrent

-----------------------------------------------------------------------------

LEMMA UsersStep == UsersInv /\ [NextUsers]_usersVars => UsersInv'
<1> SUFFICES ASSUME UsersInv, [NextUsers]_usersVars PROVE UsersInv'
  OBVIOUS
<1>1. ASSUME NEW t \in UserThreads, BeginBootstrap(t) \/ CountForBootstrap(t) \/ InsertOwner(t)
      PROVE  UsersInv'
  BY <1>1, BeginBootstrapPreserves, CountForBootstrapPreserves, InsertOwnerPreserves
<1>2. ASSUME NEW t \in UserThreads, BeginLogin(t) \/ AcceptLogin(t)
      PROVE  UsersInv'
  BY <1>2, BeginLoginPreserves, AcceptLoginPreserves
<1>3. ASSUME NEW t \in UserThreads, RejectLogin(t)
      PROVE  UsersInv'
  BY <1>3, AnswerMoves DEF RejectLogin
<1>4. ASSUME NEW t \in UserThreads, BeginGuarded(t) \/ CountUsers(t) \/ SelectSession(t)
      PROVE  UsersInv'
  BY <1>4, BeginGuardedPreserves, CountUsersPreserves, SelectSessionPreserves
<1>5. ASSUME NEW t \in UserThreads, TouchSession(t)
      PROVE  UsersInv'
  BY <1>5, TouchSessionPreserves
<1>6. ASSUME NEW t \in UserThreads, EndHandler(t)
      PROVE  UsersInv'
  BY <1>6, AnswerMoves DEF EndHandler
<1>7. ASSUME NEW t \in UserThreads, BeginChangePassword(t) \/ VerifyCurrent(t) \/ WritePassword(t)
      PROVE  UsersInv'
  BY <1>7, BeginChangePreserves, VerifyCurrentPreserves, WritePasswordPreserves
<1>8. ASSUME NEW k \in UserTokens, Logout(k)
      PROVE  UsersInv'
  BY <1>8, LogoutPreserves
<1>9. ASSUME NEW n \in UserNames, InsertAccount(n)
      PROVE  UsersInv'
  BY <1>9, InsertAccountPreserves
<1>10. CASE UNCHANGED usersVars
  <2>1. UNCHANGED <<accounts, sessions, revoked, thread>>
    BY <1>10 DEF usersVars
  <2>2. UsersTypeOK'
    BY <2>1 DEF UsersInv, UsersTypeOK
  <2>3. \A t \in UserThreads : RequestFits(thread'[t], Known')
    BY <2>1 DEF UsersInv, Known
  <2>4. SessionsInv'
    BY <2>1 DEF UsersInv, SessionsInv, Known
  <2>5. QED
    BY <2>2, <2>3, <2>4 DEF UsersInv
<1>11. QED
  BY <1>1, <1>2, <1>3, <1>4, <1>5, <1>6, <1>7, <1>8, <1>9, <1>10 DEF NextUsers

\* The inductive invariant: a session belongs to a known user and has not been
\* logged out, a request finds what it is about to use, and one that runs
\* without a guard came in while nobody was known.
THEOREM UsersInvariant == UsersSpec => []UsersInv
<1>1. QED
  BY UsersInitially, UsersStep, PTL DEF UsersSpec

\* Users, sessions and request threads keep their types.
THEOREM UsersTypes == UsersSpec => []UsersTypeOK
<1>1. UsersInv => UsersTypeOK
  BY DEF UsersInv
<1>2. QED
  BY UsersInvariant, <1>1, PTL

\* The guards are open only to requests that came before the first user was
\* committed, for any number of requests that overlap with the bootstrap.
THEOREM WindowCloses == UsersSpec => []OpenWindowCloses
<1>1. UsersInv => OpenWindowCloses
  BY DEF UsersInv, OpenWindowCloses, RequestFits, Unguarded, At
<1>2. QED
  BY UsersInvariant, <1>1, PTL

-----------------------------------------------------------------------------

\* Only TouchSession lets a request go on that has found its session.
LEMMA OnlyTouchProceeds ==
    ASSUME UsersInv, [NextUsers]_usersVars, NEW t \in UserThreads,
           NEW op \in Operations, At(t, op, "touch"), thread'[t] # thread[t]
    PROVE  TouchSession(t)
<1>1. thread \in [UserThreads -> Thread \cup {Free}]
  BY DEF UsersInv, UsersTypeOK
<1>2. thread[t] # Free /\ thread[t].phase = "touch"
  BY DEF At
<1>3. ASSUME NEW u \in UserThreads, NEW s, thread' = [thread EXCEPT ![u] = s]
      PROVE  u = t
  BY <1>1, <1>3
<1>4. ASSUME NEW u \in UserThreads, NEW s, Receive(u, s)
      PROVE  FALSE
  BY <1>2, <1>3, <1>4 DEF Receive
<1>5. ASSUME NEW u \in UserThreads,
             BeginBootstrap(u) \/ BeginLogin(u) \/ BeginGuarded(u) \/ BeginChangePassword(u)
      PROVE  FALSE
  BY <1>4, <1>5 DEF BeginBootstrap, BeginLogin, BeginGuarded, BeginChangePassword
<1>6. ASSUME NEW u \in UserThreads, Answer(u)
      PROVE  u = t
  BY <1>3, <1>6 DEF Answer
<1>7. ASSUME NEW u \in UserThreads, NEW phase, Continue(u, phase)
      PROVE  u = t
  BY <1>3, <1>7 DEF Continue
<1>8. ASSUME NEW u \in UserThreads, CountForBootstrap(u) \/ InsertOwner(u)
      PROVE  FALSE
  BY <1>2, <1>6, <1>7, <1>8 DEF CountForBootstrap, InsertOwner, At
<1>9. ASSUME NEW u \in UserThreads, RejectLogin(u) \/ AcceptLogin(u) \/ EndHandler(u)
      PROVE  FALSE
  BY <1>2, <1>6, <1>9 DEF RejectLogin, AcceptLogin, EndHandler, At
<1>10. ASSUME NEW u \in UserThreads, CountUsers(u) \/ VerifyCurrent(u) \/ WritePassword(u)
      PROVE  FALSE
  BY <1>2, <1>6, <1>7, <1>10 DEF CountUsers, VerifyCurrent, WritePassword, At
<1>11. ASSUME NEW u \in UserThreads, SelectSession(u)
      PROVE  FALSE
  <2>1. thread[u].phase = "session"
    BY <1>11 DEF SelectSession, At
  <2>2. PICK s : thread' = [thread EXCEPT ![u] = s]
    BY <1>11 DEF SelectSession, Answer
  <2>3. QED
    BY <1>2, <1>3, <2>1, <2>2
<1>12. ASSUME NEW u \in UserThreads, TouchSession(u)
      PROVE  u = t
  <2>1. Answer(u) \/ Proceed(u)
    BY <1>12 DEF TouchSession
  <2>2. Answer(u) \/ \E phase : Continue(u, phase)
    BY <2>1 DEF Proceed
  <2>3. QED
    BY <1>6, <1>7, <2>2
<1>13. ASSUME NEW k \in UserTokens, Logout(k)
      PROVE  FALSE
  BY <1>13 DEF Logout
<1>14. ASSUME NEW n \in UserNames, InsertAccount(n)
      PROVE  FALSE
  BY <1>14 DEF InsertAccount
<1>15. CASE UNCHANGED usersVars
  BY <1>15 DEF usersVars
<1>16. QED
  BY <1>5, <1>8, <1>9, <1>10, <1>11, <1>12, <1>13, <1>14, <1>15 DEF NextUsers

\* However a logout overlaps with a guarded request that has found the session
\* before it was removed, the request does not get past the guard.
THEOREM LogoutIsFinal == UsersSpec => LoggedOutStaysOut
<1> DEFINE A == \A t \in UserThreads :
                    /\ \E op \in Operations : At(t, op, "touch")
                    /\ thread'[t] \notin {Free, thread[t]}
                    => thread[t].token \notin revoked
<1>1. UsersInv /\ [NextUsers]_usersVars => A
  <2> SUFFICES ASSUME UsersInv, [NextUsers]_usersVars, NEW t \in UserThreads,
                      NEW op \in Operations, At(t, op, "touch"),
                      thread'[t] \notin {Free, thread[t]}
               PROVE  thread[t].token \notin revoked
    OBVIOUS
  <2>1. TouchSession(t)
    BY OnlyTouchProceeds
  <2>2. thread[t].token \in UserTokens
    BY ThreadRecord DEF At, RequestFits
  <2>3. ~ Answer(t)
    BY DEF Answer, UsersInv, UsersTypeOK
  <2>4. sessions[thread[t].token] # NoUser
    BY <2>1, <2>3 DEF TouchSession
  <2>5. QED
    BY <2>2, <2>4 DEF UsersInv, SessionsInv
<1>2. QED
  BY <1>1, UsersInvariant, PTL DEF UsersSpec, LoggedOutStaysOut

-----------------------------------------------------------------------------
(* The key file                                                            *)

LEMMA KeyFileInitially == InitKeyFile => KeyFileInv
<1>1. Resting \in Caller
  BY DEF Resting, Caller
<1>2. QED
  BY <1>1 DEF InitKeyFile, KeyFileInv, KeyFileTypeOK, OneKey, WriterInv, In, Resting

-----------------------------------------------------------------------------
\* The record of one thread changes, the file and the row do not: the new
\* record has to fit the file as it is.
LEMMA OneThreadMoves ==
    ASSUME KeyFileInv, NEW c \in KeyCallers, NEW state \in Caller,
           caller' = [caller EXCEPT ![c] = state],
           UNCHANGED <<keyFile, secretKey>>, usedKeys' \subseteq FieldKeys,
           state.phase # "write",
           state.phase = "read" => keyFile # NoKey,
           state.phase \in {"ready", "saving"} => state.key \in FieldKeys /\ state.key = keyFile
    PROVE  KeyFileInv'
<1>1. caller \in [KeyCallers -> Caller]
  BY DEF KeyFileInv, KeyFileTypeOK
<1>2. \A d \in KeyCallers : caller'[d] = IF d = c THEN state ELSE caller[d]
  BY <1>1
<1>3. KeyFileTypeOK'
  BY <1>1 DEF KeyFileInv, KeyFileTypeOK
<1>4. OneKey'
  BY <1>2 DEF KeyFileInv, OneKey
<1>5. WriterInv'
  <2>1. \A d \in KeyCallers : In(d, "write")' => d # c /\ In(d, "write")
    BY <1>2 DEF In
  <2>2. \A d \in KeyCallers : In(d, "read")' => keyFile' # NoKey
    BY <1>2 DEF In, KeyFileInv, WriterInv
  <2>3. \A d \in KeyCallers :
            caller'[d].phase \in {"write", "ready", "saving"} => caller'[d].key \in FieldKeys
    BY <1>2 DEF KeyFileInv, WriterInv
  <2>4. QED
    BY <2>1, <2>2, <2>3 DEF KeyFileInv, WriterInv
<1>6. QED
  BY <1>3, <1>4, <1>5 DEF KeyFileInv

\* A thread that stops takes nothing with it.
LEMMA GiveUpMoves ==
    ASSUME KeyFileInv, NEW c \in KeyCallers, GiveUp(c),
           UNCHANGED <<keyFile, secretKey>>, usedKeys' \subseteq FieldKeys
    PROVE  KeyFileInv'
<1>1. Resting \in Caller /\ Resting.phase = "idle"
  BY DEF Resting, Caller
<1>2. QED
  BY <1>1, OneThreadMoves DEF GiveUp

\* Without a key in the file nobody has a cipher and nothing is stored.
LEMMA NothingEncryptedYet ==
    ASSUME KeyFileInv, keyFile \notin FieldKeys
    PROVE  /\ \A c \in KeyCallers : caller[c].phase \notin {"ready", "saving"}
           /\ secretKey = NoKey
  BY DEF KeyFileInv, KeyFileTypeOK, OneKey, WriterInv

-----------------------------------------------------------------------------

LEMMA LookPreserves ==
    ASSUME KeyFileInv, NEW c \in KeyCallers, LookForKeyFile(c)
    PROVE  KeyFileInv'
<1> DEFINE phase == IF keyFile = NoKey THEN "create" ELSE "read"
           state == [phase |-> phase, key |-> NoKey, seen |-> FALSE]
<1>1. state \in Caller
  BY DEF Caller
<1>2. caller' = [caller EXCEPT ![c] = state]
  BY DEF LookForKeyFile, Become
<1>3. UNCHANGED <<keyFile, secretKey>> /\ usedKeys' \subseteq FieldKeys
  BY DEF LookForKeyFile, KeyFileInv, KeyFileTypeOK
<1>4. state.phase = "read" => keyFile # NoKey
  OBVIOUS
<1>5. state.phase \in {"create", "read"}
  OBVIOUS
<1>6. QED
  BY <1>1, <1>2, <1>3, <1>4, <1>5, OneThreadMoves

LEMMA ReadPreserves ==
    ASSUME KeyFileInv, NEW c \in KeyCallers, ReadKeyFile(c)
    PROVE  KeyFileInv'
<1>1. UNCHANGED <<keyFile, secretKey>> /\ usedKeys' \subseteq FieldKeys
  BY DEF ReadKeyFile, KeyFileInv, KeyFileTypeOK
<1>2. CASE keyFile \in FieldKeys
  <2> DEFINE state == [phase |-> "ready", key |-> keyFile, seen |-> FALSE]
  <2>1. state \in Caller
    BY <1>2 DEF Caller
  <2>2. caller' = [caller EXCEPT ![c] = state]
    BY <1>2 DEF ReadKeyFile, Become
  <2>3. QED
    BY <1>1, <1>2, <2>1, <2>2, OneThreadMoves
<1>3. CASE keyFile \notin FieldKeys
  <2>1. GiveUp(c)
    BY <1>3 DEF ReadKeyFile
  <2>2. QED
    BY <1>1, <2>1, GiveUpMoves
<1>4. QED
  BY <1>2, <1>3

LEMMA CreatePreserves ==
    ASSUME KeyFileInv, NEW c \in KeyCallers, CreateKeyFile(c)
    PROVE  KeyFileInv'
<1>1. PICK key \in FieldKeys \ usedKeys :
        /\ usedKeys' = usedKeys \cup {key}
        /\ \/ keyFile = NoKey /\ keyFile' = EmptyKey /\ Become(c, "write", key)
           \/ keyFile # NoKey /\ GiveUp(c) /\ UNCHANGED keyFile
  BY DEF CreateKeyFile
<1>2. usedKeys' \subseteq FieldKeys /\ secretKey' = secretKey
  BY <1>1 DEF CreateKeyFile, KeyFileInv, KeyFileTypeOK
<1>3. CASE keyFile # NoKey
  BY <1>1, <1>2, <1>3, GiveUpMoves
<1>4. CASE keyFile = NoKey
  <2> DEFINE state == [phase |-> "write", key |-> key, seen |-> FALSE]
  <2>1. keyFile' = EmptyKey /\ caller' = [caller EXCEPT ![c] = state]
    BY <1>1, <1>4 DEF Become
  <2>2. caller \in [KeyCallers -> Caller] /\ state \in Caller
    BY DEF KeyFileInv, KeyFileTypeOK, Caller
  <2>3. \A d \in KeyCallers : caller'[d] = IF d = c THEN state ELSE caller[d]
    BY <2>1, <2>2
  <2>4. /\ \A d \in KeyCallers : caller[d].phase \notin {"ready", "saving"}
        /\ secretKey = NoKey
    BY <1>4, KeyFileAssumption, NothingEncryptedYet
  <2>5. \A d \in KeyCallers : caller[d].phase # "write"
    BY <1>4, KeyFileAssumption DEF KeyFileInv, WriterInv, In
  <2>6. KeyFileTypeOK'
    BY <1>2, <2>1, <2>2 DEF KeyFileInv, KeyFileTypeOK
  <2>7. OneKey'
    <3>1. \A d \in KeyCallers : caller'[d].phase \notin {"ready", "saving"}
      BY <2>3, <2>4
    <3>2. QED
      BY <1>2, <2>4, <3>1 DEF OneKey
  <2>8. WriterInv'
    BY <2>1, <2>3, <2>4, <2>5, KeyFileAssumption DEF WriterInv, In
  <2>9. QED
    BY <2>6, <2>7, <2>8 DEF KeyFileInv
<1>5. QED
  BY <1>3, <1>4

LEMMA WritePreserves ==
    ASSUME KeyFileInv, NEW c \in KeyCallers, WriteKeyFile(c)
    PROVE  KeyFileInv'
<1> DEFINE key == caller[c].key
           state == [phase |-> "ready", key |-> key, seen |-> FALSE]
<1>1. keyFile = EmptyKey /\ key \in FieldKeys
  BY DEF WriteKeyFile, KeyFileInv, WriterInv, In
<1>2. /\ keyFile' = key /\ caller' = [caller EXCEPT ![c] = state]
      /\ UNCHANGED <<secretKey, usedKeys>>
  BY DEF WriteKeyFile, Become
<1>3. caller \in [KeyCallers -> Caller] /\ state \in Caller
  BY <1>1 DEF KeyFileInv, KeyFileTypeOK, Caller
<1> HIDE DEF key
<1>4. \A d \in KeyCallers : caller'[d] = IF d = c THEN state ELSE caller[d]
  BY <1>2, <1>3
<1>5. /\ \A d \in KeyCallers : caller[d].phase \notin {"ready", "saving"}
      /\ secretKey = NoKey
  BY <1>1, KeyFileAssumption, NothingEncryptedYet
<1>6. \A d \in KeyCallers : caller[d].phase = "write" => d = c
  BY DEF WriteKeyFile, KeyFileInv, WriterInv, In
<1>7. KeyFileTypeOK'
  BY <1>1, <1>2, <1>3 DEF KeyFileInv, KeyFileTypeOK
<1>8. OneKey'
  BY <1>2, <1>4, <1>5 DEF OneKey
<1>9. WriterInv'
  BY <1>1, <1>2, <1>4, <1>5, <1>6, KeyFileAssumption DEF WriterInv, In
<1>10. QED
  BY <1>7, <1>8, <1>9 DEF KeyFileInv

LEMMA LoadPreserves ==
    ASSUME KeyFileInv, NEW c \in KeyCallers, LoadSecretRow(c)
    PROVE  KeyFileInv'
<1> DEFINE state == [caller[c] EXCEPT !.phase = "saving", !.seen = secretKey # NoKey]
<1>1. caller[c] \in Caller /\ caller[c].phase = "ready"
  BY DEF KeyFileInv, KeyFileTypeOK, LoadSecretRow, In
<1>2. caller[c].key = keyFile /\ caller[c].key \in FieldKeys
  BY <1>1 DEF KeyFileInv, OneKey, WriterInv
<1>3. state \in Caller /\ state.phase = "saving" /\ state.key = caller[c].key
  BY <1>1 DEF Caller
<1>4. caller' = [caller EXCEPT ![c] = state]
  BY DEF LoadSecretRow
<1>5. UNCHANGED <<keyFile, secretKey>> /\ usedKeys' \subseteq FieldKeys
  BY DEF LoadSecretRow, KeyFileInv, KeyFileTypeOK
<1> HIDE DEF state
<1>6. QED
  BY <1>2, <1>3, <1>4, <1>5, OneThreadMoves

\* Commit, delete and the end of the process: threads go back to rest, and the
\* row holds nothing or what is encrypted with the key of the file.
LEMMA RowChanges ==
    ASSUME KeyFileInv, secretKey' \in {NoKey, secretKey, keyFile},
           keyFile \in FieldKeys \/ secretKey' \in {NoKey, secretKey},
           NEW stopped \in SUBSET KeyCallers,
           caller' = [d \in KeyCallers |-> IF d \in stopped THEN Resting ELSE caller[d]],
           UNCHANGED <<keyFile, usedKeys>>
    PROVE  KeyFileInv'
<1>1. Resting \in Caller /\ Resting.phase = "idle"
  BY DEF Resting, Caller
<1>2. \A d \in KeyCallers : caller'[d] = caller[d] \/ caller'[d].phase = "idle"
  BY <1>1
<1>3. KeyFileTypeOK'
  BY <1>1 DEF KeyFileInv, KeyFileTypeOK
<1>4. OneKey'
  BY <1>2 DEF KeyFileInv, OneKey
<1>5. WriterInv'
  BY <1>2 DEF KeyFileInv, WriterInv, In
<1>6. QED
  BY <1>3, <1>4, <1>5 DEF KeyFileInv

LEMMA CommitPreserves ==
    ASSUME KeyFileInv, NEW c \in KeyCallers, CommitSecret(c)
    PROVE  KeyFileInv'
<1>1. caller[c].key = keyFile /\ keyFile \in FieldKeys
  BY DEF CommitSecret, In, KeyFileInv, OneKey, WriterInv
<1>2. secretKey' \in {secretKey, keyFile}
  BY <1>1 DEF CommitSecret
<1>3. caller' = [d \in KeyCallers |-> IF d \in {c} THEN Resting ELSE caller[d]]
  BY DEF CommitSecret, GiveUp, KeyFileInv, KeyFileTypeOK
<1>4. UNCHANGED <<keyFile, usedKeys>>
  BY DEF CommitSecret
<1>5. QED
  BY <1>1, <1>2, <1>3, <1>4, RowChanges

LEMMA DeletePreserves ==
    ASSUME KeyFileInv, NEW c \in KeyCallers, DeleteSecret(c)
    PROVE  KeyFileInv'
<1>1. secretKey' = NoKey /\ UNCHANGED <<keyFile, usedKeys>>
  BY DEF DeleteSecret
<1>2. caller' = [d \in KeyCallers |-> IF d \in {c} THEN Resting ELSE caller[d]]
  BY DEF DeleteSecret, GiveUp, KeyFileInv, KeyFileTypeOK
<1>3. QED
  BY <1>1, <1>2, RowChanges

LEMMA KillPreserves ==
    ASSUME KeyFileInv, KillProcess
    PROVE  KeyFileInv'
<1>1. caller' = [d \in KeyCallers |-> IF d \in KeyCallers THEN Resting ELSE caller[d]]
  BY DEF KillProcess
<1>2. UNCHANGED <<keyFile, secretKey, usedKeys>>
  BY DEF KillProcess
<1>3. QED
  BY <1>1, <1>2, RowChanges

-----------------------------------------------------------------------------

LEMMA KeyFileStep == KeyFileInv /\ [NextKeyFile]_keyFileVars => KeyFileInv'
<1> SUFFICES ASSUME KeyFileInv, [NextKeyFile]_keyFileVars PROVE KeyFileInv'
  OBVIOUS
<1>1. ASSUME NEW c \in KeyCallers, LookForKeyFile(c) PROVE KeyFileInv'
  BY <1>1, LookPreserves
<1>2. ASSUME NEW c \in KeyCallers, ReadKeyFile(c) PROVE KeyFileInv'
  BY <1>2, ReadPreserves
<1>3. ASSUME NEW c \in KeyCallers, CreateKeyFile(c) PROVE KeyFileInv'
  BY <1>3, CreatePreserves
<1>4. ASSUME NEW c \in KeyCallers, WriteKeyFile(c) PROVE KeyFileInv'
  BY <1>4, WritePreserves
<1>5. ASSUME NEW c \in KeyCallers, LoadSecretRow(c) PROVE KeyFileInv'
  BY <1>5, LoadPreserves
<1>6. ASSUME NEW c \in KeyCallers, CommitSecret(c) PROVE KeyFileInv'
  BY <1>6, CommitPreserves
<1>7. ASSUME NEW c \in KeyCallers, DeleteSecret(c) PROVE KeyFileInv'
  BY <1>7, DeletePreserves
<1>8. ASSUME NEW c \in KeyCallers, ReadSecret(c) PROVE KeyFileInv'
  <2>1. usedKeys' \subseteq FieldKeys
    BY <1>8 DEF ReadSecret, KeyFileInv, KeyFileTypeOK
  <2>2. QED
    BY <1>8, <2>1, GiveUpMoves DEF ReadSecret
<1>9. CASE KillProcess
  BY <1>9, KillPreserves
<1>10. CASE UNCHANGED keyFileVars
  BY <1>10 DEF keyFileVars, KeyFileInv, KeyFileTypeOK, OneKey, WriterInv, In
<1>11. QED
  BY <1>1, <1>2, <1>3, <1>4, <1>5, <1>6, <1>7, <1>8, <1>9, <1>10 DEF NextKeyFile

\* The inductive invariant of the key file: at most one thread is writing it,
\* it is empty until that thread is done, and every cipher has its key.
THEOREM KeyFileInvariant == KeyFileSpec => []KeyFileInv
<1>1. QED
  BY KeyFileInitially, KeyFileStep, PTL DEF KeyFileSpec

\* However many requests find no key file at the same time, and wherever the
\* process is killed, all ciphers and all stored secrets use the key that the
\* file holds: what has been stored stays readable.
THEOREM EverythingUsesOneKey == KeyFileSpec => []OneKey
<1>1. KeyFileInv => OneKey
  BY DEF KeyFileInv
<1>2. QED
  BY KeyFileInvariant, <1>1, PTL

-----------------------------------------------------------------------------
(* The accounts of a source site                                           *)

\* Inductive: a row that a request has loaded is still there, unless the
\* request knows that it is gone; a toggle writes to a row it has loaded.
WorkFits(k, row, record) ==
    /\ k.op = "put" /\ k.base # NoProfile /\ ~ k.gone => row # NoProfile
    /\ k.op \in {"list", "toggle"} =>
        /\ k.base # NoAdapter \/ k.phase = "reload" => record # NoAdapter
        /\ k.phase = "write" => k.base # NoAdapter

SiteInv == SiteTypeOK /\ \A t \in SiteThreads : WorkFits(work[t], profile, adapter)

SiteWork == PutRequest \cup AdapterRequest \cup {NoRequest}

LEMMA SiteWorkCases ==
    ASSUME NEW k \in SiteWork
    PROVE  /\ k.op = "put" => k \in PutRequest
           /\ k.op \in {"list", "toggle"} => k \in AdapterRequest
           /\ k.op \in {"put", "list", "toggle", "idle"}
  BY DEF SiteWork, PutRequest, AdapterRequest, NoRequest

\* One request goes on, and the rows stay or become rows again.
LEMMA SiteMoves ==
    ASSUME SiteInv, NEW t \in SiteThreads, NEW k \in SiteWork,
           work' = [work EXCEPT ![t] = k],
           profile' \in Profile \cup {NoProfile}, profile # NoProfile => profile' # NoProfile,
           adapter' \in Adapter \cup {NoAdapter}, adapter # NoAdapter => adapter' # NoAdapter,
           WorkFits(k, profile', adapter')
    PROVE  SiteInv'
<1>1. work \in [SiteThreads -> SiteWork]
  BY DEF SiteInv, SiteTypeOK, SiteWork
<1>2. \A u \in SiteThreads : work'[u] = IF u = t THEN k ELSE work[u]
  BY <1>1
<1>3. SiteTypeOK'
  BY <1>1 DEF SiteTypeOK, SiteWork
<1>4. \A u \in SiteThreads : WorkFits(work'[u], profile', adapter')
  BY <1>2 DEF SiteInv, WorkFits
<1>5. QED
  BY <1>3, <1>4 DEF SiteInv

LEMMA PutKeeps ==
    ASSUME SiteInv, NEW t \in SiteThreads, NEW row \in Profile, Put(t, row)
    PROVE  SiteInv'
<1> DEFINE k == [op |-> "put", want |-> row, base |-> profile, gone |-> FALSE]
<1>1. work' = [work EXCEPT ![t] = k] /\ UNCHANGED <<profile, adapter>>
  BY DEF Put
<1>2. k \in SiteWork
  BY DEF SiteInv, SiteTypeOK, SiteWork, PutRequest
<1>3. WorkFits(k, profile, adapter)
  BY DEF WorkFits
<1>4. QED
  BY <1>1, <1>2, <1>3, SiteMoves DEF SiteInv, SiteTypeOK

LEMMA NormalisedTyped ==
    ASSUME NEW mode \in AuthModes, NEW account \in SiteAccountIds \cup {Null},
           NEW header \in HeaderNames \cup {Null}, NEW given \in SiteSecrets \cup {Null},
           NEW enabled \in BOOLEAN
    PROVE  Normalised(mode, account, header, given, enabled) \in Profile
  BY DEF Normalised, Profile

LEMMA BeginPutKeeps ==
    ASSUME SiteInv, NEW t \in SiteThreads, BeginPut(t)
    PROVE  SiteInv'
<1>1. PICK mode \in UsedModes, account \in SiteAccountIds \cup {Null},
           header \in HeaderNames \cup {Null}, given \in SiteSecrets \cup {Null},
           enabled \in BOOLEAN :
        Put(t, Normalised(mode, account, header, given, enabled))
  BY DEF BeginPut
<1>2. Normalised(mode, account, header, given, enabled) \in Profile
  BY NormalisedTyped, SiteAssumption
<1>3. QED
  BY <1>1, <1>2, PutKeeps

LEMMA BeginCaptureKeeps ==
    ASSUME SiteInv, NEW t \in SiteThreads, BeginCapture(t)
    PROVE  SiteInv'
<1>1. PICK captured \in SiteSecrets :
        Put(t, Normalised("browser_session", profile.account, Null, captured, TRUE))
  BY DEF BeginCapture
<1>2. profile \in Profile
  BY DEF BeginCapture, SiteInv, SiteTypeOK
<1>3. profile.account \in SiteAccountIds \cup {Null} /\ "browser_session" \in AuthModes
  BY <1>2 DEF Profile, AuthModes
<1>4. Normalised("browser_session", profile.account, Null, captured, TRUE) \in Profile
  BY <1>3, NormalisedTyped
<1>5. QED
  BY <1>1, <1>4, PutKeeps

\* Columns of the row a request asks for and columns of the row that is there
\* make a row.
LEMMA MixedRow ==
    ASSUME NEW k \in PutRequest, NEW row \in Profile
    PROVE  [column \in DOMAIN row |->
                IF Differs(k, column) THEN k.want[column] ELSE row[column]] \in Profile
<1> DEFINE mixed == [column \in DOMAIN row |->
                        IF Differs(k, column) THEN k.want[column] ELSE row[column]]
<1>1. DOMAIN row = {"mode", "account", "header", "secret", "enabled"} /\ k.want \in Profile
  BY DEF Profile, PutRequest
<1>2. /\ mixed.mode \in AuthModes /\ mixed.account \in SiteAccountIds \cup {Null}
      /\ mixed.header \in HeaderNames \cup {Null} /\ mixed.secret \in SiteSecrets \cup {Null}
      /\ mixed.enabled \in BOOLEAN
  BY <1>1 DEF Profile
<1>3. mixed = [mode |-> mixed.mode, account |-> mixed.account, header |-> mixed.header,
               secret |-> mixed.secret, enabled |-> mixed.enabled]
  BY <1>1
<1>4. QED
  BY <1>2, <1>3 DEF Profile

LEMMA IdleFits ==
    ASSUME NEW row, NEW record
    PROVE  NoRequest \in SiteWork /\ WorkFits(NoRequest, row, record)
  BY DEF NoRequest, SiteWork, WorkFits

LEMMA CommitPutKeeps ==
    ASSUME SiteInv, NEW t \in SiteThreads, CommitPut(t)
    PROVE  SiteInv'
<1> DEFINE k == work[t]
<1>1. k \in PutRequest /\ k.op = "put" /\ k.want \in Profile
  <2>1. k \in SiteWork /\ k.op = "put"
    BY DEF CommitPut, SiteInv, SiteTypeOK, SiteWork
  <2>2. QED
    BY <2>1, SiteWorkCases DEF PutRequest
<1>2. /\ profile' = IF k.base = NoProfile
                    THEN IF profile = NoProfile THEN k.want ELSE profile
                    ELSE IF k.gone THEN profile
                    ELSE [column \in DOMAIN profile |->
                            IF Differs(k, column) THEN k.want[column] ELSE profile[column]]
      /\ work' = [work EXCEPT ![t] = NoRequest] /\ adapter' = adapter
  BY DEF CommitPut, Reply
<1>3. \A row \in Profile : row # NoProfile
  BY DEF Profile, NoProfile, AuthModes
<1>4. profile' \in Profile \cup {NoProfile} /\ (profile # NoProfile => profile' # NoProfile)
  <2>1. profile \in Profile \cup {NoProfile} /\ WorkFits(k, profile, adapter)
    BY DEF SiteInv, SiteTypeOK
  <2>2. CASE k.base # NoProfile /\ ~ k.gone
    <3>1. profile \in Profile
      BY <1>1, <2>1, <2>2 DEF WorkFits
    <3>2. profile' \in Profile
      BY <1>1, <1>2, <2>2, <3>1, MixedRow
    <3>3. QED
      BY <1>3, <3>2
  <2>3. CASE k.base = NoProfile \/ k.gone
    BY <1>1, <1>2, <1>3, <2>1, <2>3
  <2>4. QED
    BY <2>2, <2>3 DEF PutRequest
<1>5. QED
  BY <1>2, <1>4, IdleFits, SiteMoves DEF SiteInv, SiteTypeOK

\* Every request that has loaded the row learns that it is gone.
LEMMA DeleteProfileKeeps ==
    ASSUME SiteInv, DeleteProfile
    PROVE  SiteInv'
<1> DEFINE told(t) == [work[t] EXCEPT !.gone = TRUE]
           holds(t) == work[t].op = "put" /\ work[t].base # NoProfile
<1>1. /\ profile' = NoProfile /\ adapter' = adapter
      /\ work' = [t \in SiteThreads |-> IF holds(t) THEN told(t) ELSE work[t]]
  BY DEF DeleteProfile
<1>2. \A t \in SiteThreads : work[t] \in SiteWork
  BY DEF SiteInv, SiteTypeOK, SiteWork
<1>3. ASSUME NEW t \in SiteThreads, holds(t)
      PROVE  told(t) \in PutRequest /\ told(t).op = "put" /\ told(t).gone
  <2>1. work[t] \in PutRequest
    BY <1>2, <1>3, SiteWorkCases
  <2>2. QED
    BY <1>3, <2>1 DEF PutRequest
<1>4. ASSUME NEW t \in SiteThreads
      PROVE  work'[t] \in SiteWork /\ WorkFits(work'[t], NoProfile, adapter)
  <2>1. CASE holds(t)
    <3>1. work'[t] = told(t)
      BY <1>1, <2>1
    <3>2. QED
      BY <1>3, <2>1, <3>1 DEF SiteWork, WorkFits
  <2>2. CASE ~ holds(t)
    <3>1. work'[t] = work[t]
      BY <1>1, <2>2
    <3>2. QED
      BY <1>2, <2>2, <3>1 DEF SiteInv, WorkFits
  <2>3. QED
    BY <2>1, <2>2
<1>5. SiteTypeOK'
  <2>1. work' \in [SiteThreads -> SiteWork]
    BY <1>1, <1>4
  <2>2. QED
    BY <1>1, <2>1 DEF SiteInv, SiteTypeOK, SiteWork
<1>6. QED
  BY <1>1, <1>4, <1>5 DEF SiteInv

LEMMA BeginAdaptersKeeps ==
    ASSUME SiteInv, NEW t \in SiteThreads, BeginAdapters(t)
    PROVE  SiteInv'
<1>1. PICK op \in {"list", "toggle"}, wanted \in BOOLEAN :
        work' = [work EXCEPT ![t] =
            [op |-> op, phase |-> "sync", wanted |-> wanted, base |-> adapter]]
  BY DEF BeginAdapters
<1> DEFINE k == [op |-> op, phase |-> "sync", wanted |-> wanted, base |-> adapter]
<1>2. k \in SiteWork
  BY DEF SiteInv, SiteTypeOK, SiteWork, AdapterRequest
<1>3. WorkFits(k, profile, adapter)
  BY DEF WorkFits
<1>4. UNCHANGED <<profile, adapter>>
  BY DEF BeginAdapters
<1>5. QED
  BY <1>1, <1>2, <1>3, <1>4, SiteMoves DEF SiteInv, SiteTypeOK

\* What a step on the registry finds.
LEMMA AdapterStepFits ==
    ASSUME SiteInv, NEW t \in SiteThreads, NEW phase, AdapterStep(t, phase)
    PROVE  /\ work[t] \in AdapterRequest /\ work[t].op \in {"list", "toggle"}
           /\ work[t].base \in Adapter \cup {NoAdapter} /\ work[t].phase = phase
           /\ work[t].base # NoAdapter \/ phase = "reload" => adapter \in Adapter
           /\ phase = "write" => work[t].base \in Adapter
           /\ \A row \in Adapter : row # NoAdapter /\ row.declared # Null
<1>1. work[t] \in SiteWork /\ work[t].op \in {"list", "toggle"} /\ work[t].phase = phase
  BY DEF SiteInv, SiteTypeOK, SiteWork, AdapterStep
<1>2. work[t] \in AdapterRequest
  BY <1>1, SiteWorkCases
<1>3. work[t].base \in Adapter \cup {NoAdapter}
  BY <1>2 DEF AdapterRequest
<1>4. /\ work[t].base # NoAdapter \/ phase = "reload" => adapter # NoAdapter
      /\ phase = "write" => work[t].base # NoAdapter
  BY <1>1 DEF SiteInv, WorkFits
<1>5. \A row \in Adapter : row # NoAdapter /\ row.declared # Null
  BY SiteAssumption DEF Adapter, NoAdapter
<1>6. QED
  BY <1>1, <1>2, <1>3, <1>4, <1>5 DEF SiteInv, SiteTypeOK

LEMMA SyncAdapterKeeps ==
    ASSUME SiteInv, NEW t \in SiteThreads, SyncAdapter(t)
    PROVE  SiteInv'
<1> DEFINE base == work[t].base
<1>1. /\ work[t] \in AdapterRequest /\ base \in Adapter \cup {NoAdapter}
      /\ work[t].op \in {"list", "toggle"}
      /\ base # NoAdapter => adapter \in Adapter
      /\ \A row \in Adapter : row # NoAdapter /\ row.declared # Null
  BY AdapterStepFits DEF SyncAdapter
<1>2. profile' = profile
  BY DEF SyncAdapter
<1>3. adapter' \in Adapter \cup {NoAdapter} /\ (adapter # NoAdapter => adapter' # NoAdapter)
  <2>1. CASE adapter' = [declared |-> Declared, enabled |-> DeclaredEnabled]
    BY <1>1, <2>1, SiteAssumption DEF Adapter
  <2>2. CASE base # NoAdapter /\ adapter' = [adapter EXCEPT !.declared = Declared]
    <3>1. adapter' \in Adapter
      BY <1>1, <2>2, SiteAssumption DEF Adapter
    <3>2. QED
      BY <1>1, <3>1
  <2>3. CASE adapter' = adapter
    BY <2>3 DEF SiteInv, SiteTypeOK
  <2>4. QED
    BY <2>1, <2>2, <2>3 DEF SyncAdapter
<1>4. \/ work' = [work EXCEPT ![t] = NoRequest]
      \/ work' = [work EXCEPT ![t].phase = "reload"] /\ adapter' # NoAdapter
      \/ work' = [work EXCEPT ![t].phase = "write"] /\ base.declared = Declared
  <2>1. [declared |-> Declared, enabled |-> DeclaredEnabled] \in Adapter
    BY SiteAssumption DEF Adapter
  <2>2. base # NoAdapter => [adapter EXCEPT !.declared = Declared] \in Adapter
    BY <1>1, SiteAssumption DEF Adapter
  <2>3. QED
    BY <1>1, <2>1, <2>2 DEF SyncAdapter, AfterSync, Reply
<1>5. CASE work' = [work EXCEPT ![t] = NoRequest]
  BY <1>2, <1>3, <1>5, IdleFits, SiteMoves DEF SiteInv, SiteTypeOK
<1>6. ASSUME NEW phase \in {"reload", "write"}, phase = "write" => base.declared = Declared,
             phase = "reload" => adapter' # NoAdapter,
             work' = [work EXCEPT ![t].phase = phase]
      PROVE  SiteInv'
  <2> DEFINE k == [work[t] EXCEPT !.phase = phase]
  <2>1. /\ k \in AdapterRequest /\ k.op = work[t].op /\ k.base = base /\ k.phase = phase
    BY <1>1 DEF AdapterRequest
  <2>2. base # NoAdapter => adapter' # NoAdapter
    BY <1>1, <1>3
  <2>3. phase = "write" => base # NoAdapter
    BY <1>6, SiteAssumption DEF NoAdapter
  <2>4. k \in SiteWork /\ work' = [work EXCEPT ![t] = k]
    BY <1>6, <2>1 DEF SiteWork
  <2>5. WorkFits(k, profile', adapter')
    <3> HIDE DEF k, base
    <3> QED
      BY <1>1, <1>6, <2>1, <2>2, <2>3 DEF WorkFits
  <2>6. QED
    BY <1>2, <1>3, <2>4, <2>5, SiteMoves DEF SiteInv, SiteTypeOK
<1>7. QED
  BY <1>4, <1>5, <1>6

LEMMA ReloadAdapterKeeps ==
    ASSUME SiteInv, NEW t \in SiteThreads, ReloadAdapter(t)
    PROVE  SiteInv'
<1> DEFINE k == [work[t] EXCEPT !.phase = "write", !.base = adapter]
<1>1. work' = [work EXCEPT ![t] = k] /\ UNCHANGED <<profile, adapter>>
  BY DEF ReloadAdapter
<1>2. work[t] \in AdapterRequest /\ adapter \in Adapter /\ adapter # NoAdapter
  BY AdapterStepFits DEF ReloadAdapter
<1>3. k \in AdapterRequest /\ k.phase = "write" /\ k.base = adapter /\ k.op # "put"
  BY <1>2 DEF AdapterRequest
<1>4. k \in SiteWork
  BY <1>3 DEF SiteWork
<1>5. WorkFits(k, profile, adapter)
  <2> HIDE DEF k
  <2> QED
    BY <1>2, <1>3 DEF WorkFits
<1>6. QED
  BY <1>1, <1>4, <1>5, SiteMoves DEF SiteInv, SiteTypeOK

LEMMA CommitToggleKeeps ==
    ASSUME SiteInv, NEW t \in SiteThreads, CommitToggle(t)
    PROVE  SiteInv'
<1>1. /\ work[t] \in AdapterRequest /\ work[t].base \in Adapter /\ adapter \in Adapter
      /\ \A row \in Adapter : row # NoAdapter
  BY AdapterStepFits DEF CommitToggle
<1>2. /\ adapter' = IF work[t].wanted = work[t].base.enabled THEN adapter
                    ELSE [adapter EXCEPT !.enabled = work[t].wanted]
      /\ work' = [work EXCEPT ![t] = NoRequest] /\ profile' = profile
  BY DEF CommitToggle, Reply
<1>3. work[t].wanted \in BOOLEAN
  BY <1>1 DEF AdapterRequest
<1>4. adapter' \in Adapter
  BY <1>1, <1>2, <1>3 DEF Adapter
<1>5. QED
  BY <1>1, <1>2, <1>4, IdleFits, SiteMoves DEF SiteInv, SiteTypeOK

LEMMA SiteInitially == InitSite => SiteInv
<1> SUFFICES ASSUME InitSite PROVE SiteInv
  OBVIOUS
<1>1. [declared : Declarations, enabled : {DeclaredEnabled}] \subseteq Adapter
  BY SiteAssumption DEF Adapter
<1>2. SiteTypeOK
  BY <1>1 DEF InitSite, SiteTypeOK
<1>3. \A t \in SiteThreads : WorkFits(work[t], profile, adapter)
  BY IdleFits DEF InitSite
<1>4. QED
  BY <1>2, <1>3 DEF SiteInv

LEMMA SiteStep == SiteInv /\ [NextSite]_siteVars => SiteInv'
<1> SUFFICES ASSUME SiteInv, [NextSite]_siteVars PROVE SiteInv'
  OBVIOUS
<1>1. CASE UNCHANGED siteVars
  BY <1>1 DEF siteVars, SiteInv, SiteTypeOK
<1>2. QED
  BY <1>1, BeginPutKeeps, BeginCaptureKeeps, CommitPutKeeps, DeleteProfileKeeps,
     BeginAdaptersKeeps, SyncAdapterKeeps, ReloadAdapterKeeps, CommitToggleKeeps DEF NextSite

\* The inductive invariant of a site's rows: a row that a request has loaded is
\* still there, unless the request knows that it is gone.
THEOREM SiteInvariant == SiteSpec => []SiteInv
<1>1. QED
  BY SiteInitially, SiteStep, PTL DEF SiteSpec

\* However requests overlap, and whatever columns each of them writes: the rows
\* of a site are rows, or missing.
THEOREM SiteTypes == SiteSpec => []SiteTypeOK
<1>1. SiteInv => SiteTypeOK
  BY DEF SiteInv
<1>2. QED
  BY SiteInvariant, <1>1, PTL

\* An adapter is switched on or off only by the answer to a request that asked
\* for it, whoever synchronises the registry meanwhile.
THEOREM TogglesAreKept == SiteSpec => ToggleIsKept
<1> DEFINE A == adapter # NoAdapter /\ adapter'.enabled # adapter.enabled =>
                    \E t \in SiteThreads :
                        /\ AdapterStep(t, "write")
                        /\ work'[t] = NoRequest
                        /\ work[t].wanted = adapter'.enabled
<1>1. SiteInv /\ [NextSite]_siteVars => A
  <2> SUFFICES ASSUME SiteInv, [NextSite]_siteVars,
                      adapter # NoAdapter, adapter'.enabled # adapter.enabled
               PROVE  \E t \in SiteThreads :
                        /\ AdapterStep(t, "write")
                        /\ work'[t] = NoRequest
                        /\ work[t].wanted = adapter'.enabled
    OBVIOUS
  <2>1. adapter \in Adapter
    BY DEF SiteInv, SiteTypeOK
  <2>2. ASSUME adapter' = adapter PROVE FALSE
    BY <2>2
  <2>3. ASSUME NEW t \in SiteThreads,
               \/ BeginPut(t) \/ BeginCapture(t) \/ CommitPut(t)
               \/ BeginAdapters(t) \/ ReloadAdapter(t)
        PROVE  FALSE
    BY <2>2, <2>3 DEF BeginPut, BeginCapture, Put, CommitPut, BeginAdapters, ReloadAdapter
  <2>4. ASSUME NEW t \in SiteThreads, SyncAdapter(t) PROVE FALSE
    <3>1. adapter' = adapter \/ adapter' = [adapter EXCEPT !.declared = Declared]
      BY <2>4 DEF SyncAdapter
    <3>2. QED
      BY <2>1, <2>2, <3>1 DEF Adapter
  <2>5. ASSUME DeleteProfile \/ UNCHANGED siteVars PROVE FALSE
    BY <2>2, <2>5 DEF DeleteProfile, siteVars
  <2>6. PICK t \in SiteThreads : CommitToggle(t)
    BY <2>3, <2>4, <2>5 DEF NextSite
  <2>7. AdapterStep(t, "write") /\ work'[t] = NoRequest
    BY <2>6 DEF CommitToggle, Reply, SiteInv, SiteTypeOK
  <2>8. adapter'.enabled = work[t].wanted
    BY <2>1, <2>2, <2>6 DEF CommitToggle, Adapter
  <2>9. QED
    BY <2>7, <2>8
<1>2. QED
  BY <1>1, SiteInvariant, PTL DEF SiteSpec, ToggleIsKept

-----------------------------------------------------------------------------
(* The stores side by side                                                 *)

\* A step of the backend is a step of every store, or leaves it as it is.
LEMMA BackendStep ==
    [NextBackend]_backendVars =>
        /\ [Next]_vars /\ [NextUsers]_usersVars /\ [NextKeyFile]_keyFileVars
        /\ [NextLibrary]_libraryVars /\ [NextSite]_siteVars
        /\ UNCHANGED case
<1>1. CASE RunCredentials
  BY <1>1 DEF RunCredentials
<1>2. CASE RunUsers
  BY <1>2 DEF RunUsers
<1>3. CASE RunKeyFile
  BY <1>3 DEF RunKeyFile
<1>4. CASE RunLibrary
  BY <1>4 DEF RunLibrary
<1>5. CASE RunSite
  BY <1>5 DEF RunSite
<1>6. CASE UNCHANGED backendVars
  BY <1>6 DEF backendVars
<1>7. QED
  BY <1>1, <1>2, <1>3, <1>4, <1>5, <1>6 DEF NextBackend

LEMMA BackendInitially ==
    InitBackend =>
        /\ Init /\ InitUsers /\ InitKeyFile /\ InitLibrary /\ InitSite
        /\ case \in VolumeCases \cup HeatCases \cup FeatureCases \cup {NoCase}
  BY DEF InitBackend, InitLibrary, InitSite

\* What is proved of each store holds of the backend that is model-checked.
THEOREM BackendImplementsStores ==
    SpecBackend => Spec /\ UsersSpec /\ KeyFileSpec /\ LibrarySpec /\ SiteSpec
<1>1. QED
  BY BackendInitially, BackendStep, PTL
     DEF SpecBackend, Spec, UsersSpec, KeyFileSpec, LibrarySpec, SiteSpec

\* The type invariant of the backend.
THEOREM BackendTypes == SpecBackend => []TypesOK
<1>1. TypeOK /\ UsersTypeOK /\ KeyFileTypeOK /\ LibraryTypeOK /\ SiteTypeOK => TypesOK
  BY DEF TypesOK
<1>2. KeyFileInv => KeyFileTypeOK
  BY DEF KeyFileInv
<1>3. QED
  BY BackendImplementsStores, CredentialTypes, UsersTypes, KeyFileInvariant, LibraryTypes,
     SiteTypes, <1>1, <1>2, PTL

CaseNames ==
    {"PLA", "PETG", "ABS", "TPU", "PA-CF", "WOOD", "stl", "3mf", "idle", "offline"}

\* A row or a model stays one when a quantity or a name of it changes.
LEMMA CasesTyped ==
    ASSUME NEW v \in VolumeCases \cup HeatCases \cup FeatureCases
    PROVE  v[1] \in PrinterRow(CaseNames) /\ v[2] \in Requirement(CaseNames)
<1>1. Nat \subseteq Quantity /\ Lengths \subseteq Quantity /\ Heats \subseteq Quantity
  BY DEF Lengths, Heats, Quantity
<1>2. Plate \in PrinterRow(CaseNames)
  <2>1. {"PLA"} \in SUBSET CaseNames /\ {} \in SUBSET CaseNames /\ "idle" \in CaseNames
    BY DEF CaseNames
  <2>2. QED
    BY <1>1, <2>1 DEF Plate, PrinterRow
<1>3. Piece \in Requirement(CaseNames)
  BY <1>1 DEF Piece, Requirement, Quantity, CaseNames
<1>4. CASE v \in VolumeCases
  <2>1. PICK u \in Lengths \X Lengths \X Lengths \X Lengths \X Lengths \X Lengths :
            v = <<[Plate EXCEPT !.x = u[1], !.y = u[2], !.z = u[3]],
                  [Piece EXCEPT !.x = u[4], !.y = u[5], !.z = u[6]]>>
    BY <1>4 DEF VolumeCases
  <2>2. /\ u[1] \in Quantity /\ u[2] \in Quantity /\ u[3] \in Quantity
        /\ u[4] \in Quantity /\ u[5] \in Quantity /\ u[6] \in Quantity
    BY <1>1
  <2>3. [Plate EXCEPT !.x = u[1], !.y = u[2], !.z = u[3]] \in PrinterRow(CaseNames)
    BY <1>2, <2>2 DEF PrinterRow
  <2>4. [Piece EXCEPT !.x = u[4], !.y = u[5], !.z = u[6]] \in Requirement(CaseNames)
    BY <1>3, <2>2 DEF Requirement
  <2>5. QED
    BY <2>1, <2>3, <2>4
<1>5. CASE v \in HeatCases
  <2>1. PICK h \in Heats \X Heats \X {Unknown, "PETG", "ABS", "WOOD"} \X Heats \X Heats :
            v = <<[Plate EXCEPT !.nozzleMax = h[1], !.bedMax = h[2]],
                  [Piece EXCEPT !.material = h[3], !.nozzleTemp = h[4], !.bedTemp = h[5]]>>
    BY <1>5 DEF HeatCases
  <2>2. /\ h[1] \in Quantity /\ h[2] \in Quantity /\ h[3] \in CaseNames \cup {Unknown}
        /\ h[4] \in Quantity /\ h[5] \in Quantity
    BY <1>1 DEF CaseNames
  <2>3. [Plate EXCEPT !.nozzleMax = h[1], !.bedMax = h[2]] \in PrinterRow(CaseNames)
    BY <1>2, <2>2 DEF PrinterRow
  <2>4. [Piece EXCEPT !.material = h[3], !.nozzleTemp = h[4], !.bedTemp = h[5]] \in Requirement(CaseNames)
    BY <1>3, <2>2 DEF Requirement
  <2>5. QED
    BY <2>1, <2>3, <2>4
<1>6. CASE v \in FeatureCases
  <2>1. PICK f \in {{}, {"PLA"}, {"TPU", "PA-CF"}} \X {{}, {"3mf"}}
                  \X {"idle", "offline", Unknown} \X BOOLEAN \X {Unknown, 1, 2}
                  \X {Unknown, "PLA", "TPU", "PA-CF"} \X {Unknown, "stl", "3mf"}
                  \X {Unknown, 3, 4} :
            v = <<[Plate EXCEPT !.materials = f[1], !.formats = f[2], !.online = f[3],
                                !.hardened = f[4], !.flexible = f[4], !.enclosed = f[4],
                                !.colors = f[5]],
                  [Piece EXCEPT !.material = f[6], !.format = f[7], !.colors = 2, !.nozzle = f[8]]>>
    BY <1>6 DEF FeatureCases
  <2>2. /\ f[1] \in SUBSET CaseNames /\ f[2] \in SUBSET CaseNames /\ f[3] \in CaseNames \cup {Unknown}
        /\ f[4] \in BOOLEAN /\ f[5] \in Quantity /\ f[6] \in CaseNames \cup {Unknown}
        /\ f[7] \in CaseNames \cup {Unknown} /\ f[8] \in Quantity
    BY DEF Quantity, CaseNames
  <2>3. [Plate EXCEPT !.materials = f[1], !.formats = f[2], !.online = f[3], !.hardened = f[4],
                      !.flexible = f[4], !.enclosed = f[4], !.colors = f[5]] \in PrinterRow(CaseNames)
    BY <1>2, <2>2 DEF PrinterRow
  <2>4. [Piece EXCEPT !.material = f[6], !.format = f[7], !.colors = 2, !.nozzle = f[8]]
            \in Requirement(CaseNames)
    BY <1>3, <2>2 DEF Requirement
  <2>5. QED
    BY <2>1, <2>3, <2>4
<1>7. QED
  BY <1>4, <1>5, <1>6

\* The verdict on every case is sound, because it is on every row and model.
THEOREM BackendVerdicts == SpecBackend => []VerdictSound
<1> DEFINE I == case \in VolumeCases \cup HeatCases \cup FeatureCases \cup {NoCase}
<1>1. InitBackend => I
  BY BackendInitially
<1>2. I /\ [NextBackend]_backendVars => I'
  BY BackendStep
<1>3. I => VerdictSound
  BY CasesTyped, VerdictsAreSound DEF VerdictSound
<1>4. QED
  BY <1>1, <1>2, <1>3, PTL DEF SpecBackend

\* The safety and action properties of the backend that is model-checked, for
\* every value of its constants.
THEOREM BackendIsSafe ==
    SpecBackend => /\ [](CredentialHasSecret /\ OpenWindowCloses /\ OneKey)
                   /\ [](ImportIsPrefix /\ FreshFacts)
                   /\ LoggedOutStaysOut /\ GeometryIsUsed /\ ToggleIsKept
<1>1. QED
  BY BackendImplementsStores, CredentialNeverDangles, WindowCloses, EverythingUsesOneKey,
     ImportsArePrefixes, FactsAreFresh, LogoutIsFinal, StoredGeometryIsUsed, TogglesAreKept, PTL
=============================================================================
