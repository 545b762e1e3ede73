------------------------------ MODULE UserState ------------------------------
(***************************************************************************)
(* The channel part of class user_state (chatserver/user_state.h and .cpp): *)
(* __channel_us maps a channel to the set of client types (CT) the user is  *)
(* in it with.  The map never keeps a channel with an empty set of types    *)
(* (both operations that shrink a set erase the channel when it gets        *)
(* empty), so it is represented by the set of its <<channel, type>> pairs.  *)
(***************************************************************************)
CONSTANTS
  Users,      \* DB_id
  Channels    \* CH_id, the channels of __channels$

WWW == "WWW"          \* a browser session, T_WWW
IRC == "IRC"          \* an IRC session, T_IRC

CT == {WWW, IRC}

ChannelUs == SUBSET (Channels \X CT)

(* get_channel: the channels the user is in with client type ct. *)
GetChannel(us, ct) == {c \in Channels : <<c, ct>> \in us}

(* export_channels: the channels the user is in with any client type. *)
ExportChannels(us) == {c \in Channels : \E ct \in CT : <<c, ct>> \in us}

(* channel_add, and the T_IRC branch of a join. *)
ChannelAdd(us, ct, c) == us \cup {<<c, ct>>}

(* www_channel_replace: a browser session is moved, never added. *)
WwwChannelReplace(us, c) ==
  {p \in us : p[2] # WWW} \cup {<<c, WWW>>}

(* part_channels: an empty set of channels stands for all of them. *)
PartChannels(us, chans, ct) ==
  {p \in us : ~(p[2] = ct /\ (chans = {} \/ p[1] \in chans))}

(* The states a user_state can be in: one browser channel at most, because  *)
(* the only operation that adds T_WWW to a shared state is                  *)
(* www_channel_replace.                                                     *)
OneWwwChannel(us) ==
  \A c, d \in GetChannel(us, WWW) : c = d
==============================================================================
