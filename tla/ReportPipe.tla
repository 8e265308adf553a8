----------------------------- MODULE ReportPipe -----------------------------
(***************************************************************************)
(* What endpoint 1 promises the main loop about report 04: the report set   *)
(* last is packed when the endpoint is free, the packet stays as it is, and *)
(* it reaches the host at most once unless a bus reset takes it away.       *)
(***************************************************************************)
CONSTANT Report

VARIABLES
    report,              \* the report set last
    wanted,              \* a transfer has been asked for
    busy,                \* the endpoint is not free yet
    packet,              \* the packet the host may collect, if there is one
    view                 \* the packet the host collected last

Init ==
    /\ report \in Report
    /\ wanted = FALSE /\ busy = FALSE
    /\ packet = {}
    /\ view \in Report

Set(r) ==
    /\ report' = r
    /\ wanted' = (wanted \/ r # report)
    /\ UNCHANGED <<busy, packet, view>>

Repeat ==
    /\ wanted' = TRUE
    /\ UNCHANGED <<report, busy, packet, view>>

Arm ==
    /\ wanted /\ ~busy
    /\ packet' = {report}
    /\ busy' = TRUE
    /\ wanted' = FALSE
    /\ UNCHANGED <<report, view>>

Collect ==
    /\ \E r \in Report : packet = {r} /\ view' = r
    /\ packet' = {}
    /\ UNCHANGED <<report, wanted, busy>>

\* The handler has seen the packet leave.
Release ==
    /\ busy /\ packet = {}
    /\ busy' = FALSE
    /\ UNCHANGED <<report, wanted, packet, view>>

BusReset ==
    /\ packet' = {}
    /\ busy' = FALSE
    /\ UNCHANGED <<report, wanted, view>>

Next == (\E r \in Report : Set(r)) \/ Repeat \/ Arm \/ Collect \/ Release \/ BusReset

Spec == Init /\ [][Next]_<<report, wanted, busy, packet, view>>
=============================================================================
