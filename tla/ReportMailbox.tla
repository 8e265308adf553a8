---------------------------- MODULE ReportMailbox ----------------------------
(***************************************************************************)
(* What usb.c promises its caller about report 06 (usb.c:231-233): a        *)
(* one-place mailbox.  A complete report is published, possibly withdrawn   *)
(* while it is unread, and handed out whole and at most once.               *)
(***************************************************************************)
CONSTANTS
    Report,              \* possible contents
    Opening              \* those that may be published: they start with the magic

VARIABLES
    slot,                \* the unread report, if there is one
    out                  \* the report handed out last

Init == slot = {} /\ out \in Report

Publish ==
    /\ slot = {}
    /\ \E r \in Opening : slot' = {r}
    /\ UNCHANGED out

Retract ==
    /\ slot # {}
    /\ slot' = {}
    /\ UNCHANGED out

Take ==
    /\ \E r \in Report : slot = {r} /\ out' = r
    /\ slot' = {}

Next == Publish \/ Retract \/ Take

Spec == Init /\ [][Next]_<<slot, out>>
=============================================================================
