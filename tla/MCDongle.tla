------------------------------ MODULE MCDongle ------------------------------
(***************************************************************************)
(* Instances of Dongle: the frames and reports of each run.                 *)
(***************************************************************************)
EXTENDS Dongle

CONSTANTS r1, c1, c2     \* a display content, two channels

TwoChannels == {c1, c2}

Frame(button, jog) == [button |-> button, jog |-> jog]

\* The jog wheel is turned while spindle+ is held.
JogFrames == {Frame("spindle+", 1)}

\* Nothing is pressed or moved.
IdleFrames == {Frame("none", 0)}
NoFrames == {}

OneReport == {r1}
NoReports == {}
=============================================================================
