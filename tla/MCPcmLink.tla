------------------------------ MODULE MCPcmLink ------------------------------
(* A stream of three frames in two ticks, for TLC.                         *)
EXTENDS PcmLink

\* A device whose lead is a packet.
ShortLead == {2}
Both == {"pcm", "vorbis"}
=============================================================================
