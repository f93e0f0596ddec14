-------------------------- MODULE MCRequestThrottle --------------------------
(***************************************************************************)
(* Requests that leave the machine, and must come back: the throttle of    *)
(* the source sites and the telemetry of a Bambu printer.  They share      *)
(* nothing, so a behaviour runs one of them, chosen at the start, and the  *)
(* other stays as it is.                                                   *)
(*                                                                         *)
(* Throttle: three threads on one host, so that two slots in a row are     *)
(* contended by a third thread; two different intervals.                   *)
(* Telemetry: two states of the printer, a third of another printer, the   *)
(* eight packets of the source with two on the wire at a time.             *)
(***************************************************************************)
EXTENDS RequestThrottle, BambuTelemetry

VARIABLE running

outgoingVars == <<vars, telemetryVars, running>>

InitOutgoing ==
    /\ Init /\ InitTelemetry
    /\ running \in {"throttle", "telemetry"}
    /\ running = "throttle" => gcodeState = "idle"

RunThrottle == running = "throttle" /\ Next /\ UNCHANGED <<telemetryVars, running>>

RunTelemetry == running = "telemetry" /\ NextTelemetry /\ UNCHANGED <<vars, running>>

\* The fairness of the one that runs; the fair steps of telemetry are disabled
\* in its initial states.
FairOutgoing ==
    /\ WF_vars(running = "throttle" /\ Tick)
    /\ \A t \in Threads : WF_vars(running = "throttle" /\ Step(t))
    /\ WF_telemetryVars(ClientStep)

SpecOutgoing ==
    InitOutgoing /\ [][RunThrottle \/ RunTelemetry]_outgoingVars /\ FairOutgoing
=============================================================================
