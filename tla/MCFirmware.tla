----------------------------- MODULE MCFirmware -----------------------------
(***************************************************************************)
(* An instance of Firmware: the frames on the air and the identity.         *)
(***************************************************************************)
EXTENDS Firmware

\* Frames are cut down to three bytes, the length byte included.
OurFrame == {<<3, 1, 2>>}

\* Too long for the buffer, and empty
Foreign == {<<9, 1, 2>>, <<0, 1, 2>>}

ReplyBytes == <<3, 4, 5>>

\* The channels of a programmed dongle and of one that is not
AllChannels == {\h4d, \hff, \h48}

TwoBytes == <<\h4d, \hf1>>
=============================================================================
