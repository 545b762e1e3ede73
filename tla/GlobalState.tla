----------------------------- MODULE GlobalState -----------------------------
(***************************************************************************)
(* class __global_state (chatserver/global_state.cpp): the copy of every    *)
(* user's state that the network threads read and the chat thread writes,   *)
(* with tmpc__, a cache of each user's channels per client type.  Each      *)
(* method takes Mutex for its whole body, so each is one action.  The cache *)
(* is filled by the queries and dropped by the methods that know they       *)
(* change channels; set_nick, set_status, set_ip leave it alone.            *)
(* The names SharedInit, SharedNext and so on let a module extend this one  *)
(* and ChatThread.                                                          *)
(***************************************************************************)
EXTENDS UserState

CONSTANT
  Unfilled   \* a cache slot that does not exist

ASSUME UnfilledAssumption == \A channels \in SUBSET Channels : Unfilled # channels

VARIABLES
  known,         \* the keys of user_states
  user_states,   \* user_states[u]: __channel_us of u, {} for a missing key
  tmpc__,        \* tmpc__[u][ct]: cached channels, or Unfilled
  answer         \* the last query and what it returned

sharedVars == <<known, user_states, tmpc__, answer>>

NoQuery == [user |-> "none", ct |-> "none", channels |-> {}]

SharedInit ==
  /\ known = {}
  /\ user_states = [u \in Users |-> {}]
  /\ tmpc__ = [u \in Users |-> [ct \in CT |-> Unfilled]]
  /\ answer = NoQuery

(* tmpc__.erase(uid) *)
DropCache(u) == tmpc__' = [tmpc__ EXCEPT ![u] = [ct \in CT |-> Unfilled]]

(* set_user_state: the chat thread and the web login store a whole state. *)
SetUserState(u, us) ==
  /\ known' = known \cup {u}
  /\ user_states' = [user_states EXCEPT ![u] = us]
  /\ DropCache(u)
  /\ UNCHANGED answer

(* Faulty: a leave that forgets the cache. *)
PartKeepsCache(u, chans, ct) ==
  /\ user_states' = [user_states EXCEPT ![u] = PartChannels(@, chans, ct)]
  /\ UNCHANGED <<known, tmpc__, answer>>

(* part_channels: drops the cache first, and does nothing else to a user    *)
(* that has no entry.                                                       *)
PartChannelsOf(u, chans, ct) ==
  /\ DropCache(u)
  /\ IF u \in known
     THEN user_states' = [user_states EXCEPT ![u] = PartChannels(@, chans, ct)]
     ELSE UNCHANGED user_states
  /\ UNCHANGED <<known, answer>>

(* remove and erase. *)
Remove(u) ==
  /\ known' = known \ {u}
  /\ user_states' = [user_states EXCEPT ![u] = {}]
  /\ DropCache(u)
  /\ UNCHANGED answer

(* set_nick, set_status, set_ip, get_user_state, get_status, get_ip,        *)
(* channel_size: user_states[uid] creates a missing entry with no channels. *)
Touch(u) ==
  /\ known' = known \cup {u}
  /\ UNCHANGED <<user_states, tmpc__, answer>>

(* get_user_channel, inchat$www, inchat$irc: a cached answer is returned as *)
(* it is; a missing one is computed, which creates the user's entry.        *)
Query(u, ct) ==
  LET hit == tmpc__[u][ct] # Unfilled
      channels == IF hit THEN tmpc__[u][ct]
                         ELSE GetChannel(user_states[u], ct)
  IN  /\ answer' = [user |-> u, ct |-> ct, channels |-> channels]
      /\ tmpc__' = [tmpc__ EXCEPT ![u][ct] = channels]
      /\ known' = IF hit THEN known ELSE known \cup {u}
      /\ UNCHANGED user_states

SharedNext ==
  \E u \in Users :
    \/ \E us \in ChannelUs : OneWwwChannel(us) /\ SetUserState(u, us)
    \/ \E chans \in SUBSET Channels, ct \in CT : PartChannelsOf(u, chans, ct)
    \/ Remove(u)
    \/ Touch(u)
    \/ \E ct \in CT : Query(u, ct)

SharedSpec == SharedInit /\ [][SharedNext]_sharedVars

-----------------------------------------------------------------------------

Answers ==
  {NoQuery} \cup [user : Users, ct : CT, channels : SUBSET Channels]

(* The types of the four variables; a user without an entry has no channels. *)
SharedTypeOK ==
  /\ known \subseteq Users
  /\ user_states \in [Users -> ChannelUs]
  /\ tmpc__ \in [Users -> [CT -> (SUBSET Channels) \cup {Unfilled}]]
  /\ answer \in Answers
  /\ \A u \in Users \ known : user_states[u] = {}

(* A filled slot of tmpc__ says what user_states says now: whichever order  *)
(* the chat thread's stores, the network threads' leaves and their queries  *)
(* come in, no stale list of channels is ever served (a message would go to *)
(* a room the sender has left).                                             *)
CacheCoherent ==
  \A u \in Users, ct \in CT :
    tmpc__[u][ct] # Unfilled => tmpc__[u][ct] = GetChannel(user_states[u], ct)

(* The component implements the cache-less directory. *)
Directory == INSTANCE ChannelDirectory WITH where <- user_states
ImplementsDirectory == Directory!Spec
==============================================================================
