--------------------------- MODULE BambuTelemetry ---------------------------
(***************************************************************************)
(* Reading the status of a Bambu printer over MQTT                         *)
(* (backend/domains/printers/bambu_mqtt_adapter.py, called by              *)
(* fetch_read_only_status of adapters.py).                                 *)
(*                                                                         *)
(* One fetch is one connection: CONNECT, SUBSCRIBE, a PUBLISH that asks    *)
(* for everything, and the first report on the printer's topic among the   *)
(* packets that follow.  Every read has the socket timeout.  The printer   *)
(* and its broker are the environment: they may send a packet whenever     *)
(* they like, whole and in order, and stop at any point.                   *)
(***************************************************************************)
EXTENDS Naturals, Sequences

CONSTANTS
    GcodeStates,   \* values of gcode_state in the printer's reports
    Foreign,       \* a value of gcode_state of another printer
    MaxPackets,    \* range(8) of _read_bambu_mqtt_report
    MaxWire        \* bound: packets sent and not yet read

ASSUME TelemetryAssumption ==
    /\ GcodeStates \subseteq STRING /\ Foreign \in STRING
    /\ MaxPackets \in Nat \ {0} /\ MaxWire \in Nat \ {0}

VARIABLES
    fetch,         \* the fetch: its phase, packets read, and its answer
    wire,          \* packets on the connection, oldest first
    gcodeState,    \* what the printer is doing
    reported       \* what it has been doing since the fetch began (history)

telemetryVars == <<fetch, wire, gcodeState, reported>>

\* _normalize_bambu_state, on a value str().lower() has made of gcode_state;
\* a report without one reads "online".
NormalizeBambuState(state) ==
    CASE state \in {"running", "prepare"} -> "printing"
      [] state \in {"pause", "paused"} -> "paused"
      [] state \in {"finish", "finished"} -> "complete"
      [] state = "failed" -> "error"
      [] OTHER -> state

Missing == "online"

Packet ==
    [kind : {"connack", "suback"}, granted : BOOLEAN]
    \cup [kind : {"report"}, ours : BOOLEAN, state : GcodeStates \cup {Foreign, Missing}]
    \cup [kind : {"other", "array", "garbage"}]

Asking == {"connect", "connack", "suback", "report"}

Answers ==
    {"unknown", "credentials_required", "device_id_required", "telemetry_unavailable"}
    \cup {NormalizeBambuState(s) : s \in GcodeStates \cup {Foreign, Missing}}

TelemetryTypeOK ==
    /\ fetch \in [phase : Asking \cup {"idle", "done"}, packets : 0..(MaxPackets - 1), answer : Answers]
    /\ wire \in UNION {[1..n -> Packet] : n \in 0..MaxWire}
    /\ gcodeState \in GcodeStates
    /\ reported \subseteq GcodeStates

InitTelemetry ==
    /\ fetch = [phase |-> "idle", packets |-> 0, answer |-> "unknown"]
    /\ wire = << >>
    /\ gcodeState \in GcodeStates
    /\ reported = {}

Enter(phase) == fetch' = [fetch EXCEPT !.phase = phase]

\* The connection is closed with the answer.
Done(answer) ==
    /\ fetch' = [phase |-> "done", packets |-> 0, answer |-> answer]
    /\ wire' = << >>

\* BambuMqttTelemetryError, or a ValueError (a topic or a report that is no
\* UTF-8) that fetch_read_only_status catches.
Unavailable == Done("telemetry_unavailable")

-----------------------------------------------------------------------------
(* The client                                                              *)

\* fetch_bambu_mqtt_status: a secret name, a device id and the access code
\* itself are asked for in this order.
BeginFetch ==
    /\ fetch.phase \in {"idle", "done"}
    /\ \E named, device, code \in BOOLEAN :
        \/ ~ named /\ Done("credentials_required")
        \/ named /\ ~ device /\ Done("device_id_required")
        \/ named /\ device /\ ~ code /\ Unavailable
        \/ named /\ device /\ code /\ Enter("connect") /\ UNCHANGED wire
    /\ reported' = {gcodeState}
    /\ UNCHANGED gcodeState

\* create_connection, the TLS handshake and the CONNECT packet.
Connect ==
    /\ fetch.phase = "connect"
    /\ Enter("connack")
    /\ UNCHANGED <<wire, gcodeState, reported>>

\* A connection refused, a read that times out or finds the connection closed.
Fail ==
    /\ fetch.phase \in Asking
    /\ fetch.phase # "connect" => wire = << >>
    /\ Unavailable
    /\ UNCHANGED <<gcodeState, reported>>

\* _require_mqtt_connack and _require_mqtt_suback: the next packet is the
\* acknowledgement or the fetch is over, even when it is a report.
RequireAck ==
    /\ fetch.phase \in {"connack", "suback"}
    /\ wire # << >>
    /\ LET packet == Head(wire) IN
        IF packet.kind = fetch.phase /\ packet.granted
        THEN /\ Enter(IF fetch.phase = "connack" THEN "suback" ELSE "report")
             /\ wire' = Tail(wire)
        ELSE Unavailable
    /\ UNCHANGED <<gcodeState, reported>>

\* One packet too many (a mutant).
PassOverOneMore ==
    IF fetch.packets = MaxPackets THEN Unavailable
    ELSE /\ fetch' = [fetch EXCEPT !.packets = @ + 1]
         /\ wire' = Tail(wire)

\* The packet is passed over; the eighth ends the fetch.
PassOver ==
    IF fetch.packets + 1 = MaxPackets THEN Unavailable
    ELSE /\ fetch' = [fetch EXCEPT !.packets = @ + 1]
         /\ wire' = Tail(wire)

\* Reports of any topic taken for ours (a mutant).
ReadReportOfAnyTopic ==
    /\ fetch.phase = "report"
    /\ wire # << >>
    /\ LET packet == Head(wire) IN
        CASE packet.kind = "report" -> Done(NormalizeBambuState(packet.state))
          [] packet.kind = "garbage" -> Unavailable
          [] OTHER -> PassOver
    /\ UNCHANGED <<gcodeState, reported>>

\* A loop without a limit (a mutant).
ReadReportForever ==
    /\ fetch.phase = "report"
    /\ wire # << >>
    /\ LET packet == Head(wire) IN
        CASE packet.kind = "report" /\ packet.ours -> Done(NormalizeBambuState(packet.state))
          [] packet.kind = "garbage" -> Unavailable
          [] OTHER -> wire' = Tail(wire) /\ UNCHANGED fetch
    /\ UNCHANGED <<gcodeState, reported>>

\* _read_bambu_mqtt_report: garbage is a topic or a payload that cannot be
\* decoded or a length that cannot be read, array a report that is no object.
ReadReport ==
    /\ fetch.phase = "report"
    /\ wire # << >>
    /\ LET packet == Head(wire) IN
        CASE packet.kind = "report" /\ packet.ours -> Done(NormalizeBambuState(packet.state))
          [] packet.kind = "garbage" -> Unavailable
          [] OTHER -> PassOver
    /\ UNCHANGED <<gcodeState, reported>>

ClientStep == Connect \/ Fail \/ RequireAck \/ ReadReport

-----------------------------------------------------------------------------
(* The printer and its broker                                              *)

\* A report tells what the printer is doing, or leaves it out: reports are
\* deltas unless everything was asked for.  Reports on our topic follow the
\* SUBSCRIBE, acknowledged or not.
SendPacket ==
    /\ fetch.phase \in Asking \ {"connect"}
    /\ Len(wire) < MaxWire
    /\ \E packet \in Packet :
        /\ packet.kind = "report" =>
            IF packet.ours THEN fetch.phase # "connack" /\ packet.state \in {gcodeState, Missing}
            ELSE packet.state = Foreign
        /\ wire' = Append(wire, packet)
    /\ UNCHANGED <<fetch, gcodeState, reported>>

ChangeState ==
    /\ gcodeState' \in GcodeStates \ {gcodeState}
    /\ reported' = IF fetch.phase \in Asking THEN reported \cup {gcodeState'} ELSE reported
    /\ UNCHANGED <<fetch, wire>>

NextTelemetry == BeginFetch \/ ClientStep \/ SendPacket \/ ChangeState

TelemetrySpec == InitTelemetry /\ [][NextTelemetry]_telemetryVars /\ WF_telemetryVars(ClientStep)

-----------------------------------------------------------------------------

\* A fetch that ends with a state reports one the printer was in after the
\* fetch began, or "online" for a report that did not say: never the state of
\* another printer, and never one that was over before.
StatusIsTruthful ==
    fetch.phase = "done" =>
        fetch.answer \in {"credentials_required", "device_id_required", "telemetry_unavailable",
                          Missing}
                         \cup {NormalizeBambuState(s) : s \in reported}

\* Every fetch ends, however much the printer sends that is not the report.
FetchEnds == fetch.phase \in Asking ~> fetch.phase = "done"
=============================================================================
