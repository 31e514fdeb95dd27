--------------------------- MODULE MCChannelFanout ---------------------------
(* ChannelFanout on a channel of a few videos. *)
EXTENDS ChannelFanout, TLC

==============================================================================
