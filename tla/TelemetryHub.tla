---------------------------- MODULE TelemetryHub ----------------------------
(***************************************************************************)
(* The telemetry of nexus_telemetry: TelemetryBroadcaster                  *)
(* (lock_free_spsc_broadcaster.rs) between the trading engine, which       *)
(* pushes frames, and the WebSocket clients, each served by handle_socket  *)
(* (axum_ws_server.rs).  A frame is the number of its push.                *)
(*                                                                         *)
(* External: the loop that takes frames from receiver() and hands them to  *)
(* broadcast_to_clients, which no file of src/ contains, and the clients,  *)
(* which read or leave when they like.  Which frames fail to be sent, and  *)
(* whether the guillotine cuts the client then, is left open.              *)
(***************************************************************************)
EXTENDS Integers, Sequences

CONSTANTS
  Clients,
  BufferCapacity, InboxCapacity, MaxClients,   \* buffer_capacity, 1024, max_clients
  MaxFrames                                    \* bound on pushes

ASSUME HubAssumption ==
  /\ BufferCapacity \in Nat /\ InboxCapacity \in Nat /\ MaxClients \in Nat
  /\ MaxFrames \in Nat

VARIABLES
  live, pushed, counting, sequence,   \* active; frames pushed; a push that has
                                      \*   sent its frame and not counted it
  frames, hand,                       \* the frame channel; the frame the loop took
  registered,                         \* clients, in the order of the vector
  socket, hubId, sending,             \* per client: its connection, broadcaster_client_id,
                                      \*   is its send_task running?
  inbox, got                          \* per client: its channel; frames sent to it

producerVars == <<live, pushed, counting, sequence>>
socketVars == <<socket, hubId, sending>>
hubVars == <<producerVars, frames, hand, registered, socketVars, inbox, got>>

HubInit ==
  /\ live = TRUE /\ pushed = 0 /\ counting = FALSE /\ sequence = 0
  /\ frames = <<>> /\ hand = <<>> /\ registered = <<>>
  /\ socket = [c \in Clients |-> "none"] /\ hubId = [c \in Clients |-> 0]
  /\ sending = [c \in Clients |-> FALSE]
  /\ inbox = [c \in Clients |-> <<>>] /\ got = [c \in Clients |-> <<>>]

-----------------------------------------------------------------------------
(* The producer.                                                           *)

\* push; with the channel full it is the new frame that is dropped, whatever
\* drop_oldest_on_overflow says.
Push ==
  /\ live /\ ~counting /\ pushed < MaxFrames
  /\ pushed' = pushed + 1
  /\ IF Len(frames) < BufferCapacity
     THEN frames' = Append(frames, pushed') /\ counting' = TRUE
     ELSE UNCHANGED <<frames, counting>>
  /\ UNCHANGED <<live, sequence, hand, registered, socketVars, inbox, got>>

CountFrame ==
  /\ counting /\ counting' = FALSE /\ sequence' = sequence + 1
  /\ UNCHANGED <<live, pushed, frames, hand, registered, socketVars, inbox, got>>

StopHub ==
  /\ live /\ live' = FALSE
  /\ UNCHANGED <<pushed, counting, sequence, frames, hand, registered, socketVars, inbox, got>>

-----------------------------------------------------------------------------
(* The loop.                                                               *)

TakeFrame ==
  /\ hand = <<>> /\ frames # <<>>
  /\ hand' = <<Head(frames)>> /\ frames' = Tail(frames)
  /\ UNCHANGED <<producerVars, registered, socketVars, inbox, got>>

IsRegistered(c) == \E k \in DOMAIN registered : registered[k] = c

\* broadcast_to_clients: a client whose channel is full, or has no receiver any
\* more, misses the frame.
BugBroadcastFrame ==
  /\ hand # <<>>
  /\ hand' = IF \E c \in Clients : IsRegistered(c) /\ Len(inbox[c]) >= InboxCapacity
             THEN hand ELSE <<>>
  /\ inbox' = [c \in Clients |->
       IF IsRegistered(c) /\ sending[c] /\ Len(inbox[c]) < InboxCapacity
       THEN inbox[c] \o hand ELSE inbox[c]]
  /\ UNCHANGED <<producerVars, frames, registered, socketVars, got>>
BroadcastFrame ==
  /\ hand # <<>> /\ hand' = <<>>
  /\ inbox' = [c \in Clients |->
       IF IsRegistered(c) /\ sending[c] /\ Len(inbox[c]) < InboxCapacity
       THEN inbox[c] \o hand ELSE inbox[c]]
  /\ UNCHANGED <<producerVars, frames, registered, socketVars, got>>

-----------------------------------------------------------------------------
(* handle_socket.                                                          *)

\* register_client: what the vector returns as the client's identifier is the
\* sequence number.
Connect(c) ==
  /\ socket[c] = "none"
  /\ IF Len(registered) >= MaxClients
     THEN /\ socket' = [socket EXCEPT ![c] = "rejected"]
          /\ UNCHANGED <<registered, hubId, sending>>
     ELSE /\ socket' = [socket EXCEPT ![c] = "open"]
          /\ registered' = Append(registered, c)
          /\ hubId' = [hubId EXCEPT ![c] = sequence]
          /\ sending' = [sending EXCEPT ![c] = TRUE]
  /\ UNCHANGED <<producerVars, frames, hand, inbox, got>>

\* send_task is not stopped with its connection: it goes on, even past
\* unregister_client, as long as its channel is open or holds a frame.
Forward(c) ==
  /\ sending[c] /\ inbox[c] # <<>>
  /\ got' = [got EXCEPT ![c] = Append(@, Head(inbox[c]))]
  /\ inbox' = [inbox EXCEPT ![c] = Tail(@)]
  /\ UNCHANGED <<producerVars, frames, hand, registered, socketVars>>

\* A frame that cannot be serialised or sent is lost; the task goes on or gives
\* up, and its channel with it.
SendFails(c) ==
  /\ sending[c] /\ inbox[c] # <<>>
  /\ \/ inbox' = [inbox EXCEPT ![c] = Tail(@)] /\ UNCHANGED sending
     \/ inbox' = [inbox EXCEPT ![c] = <<>>] /\ sending' = [sending EXCEPT ![c] = FALSE]
  /\ UNCHANGED <<producerVars, frames, hand, registered, socket, hubId, got>>

\* recv() returns None: the vector held the channel's only sender.
EndForward(c) ==
  /\ sending[c] /\ inbox[c] = <<>> /\ ~IsRegistered(c)
  /\ sending' = [sending EXCEPT ![c] = FALSE]
  /\ UNCHANGED <<producerVars, frames, hand, registered, socket, hubId, inbox, got>>

\* The client closes or its send_task ended.
Close(c) ==
  /\ socket[c] = "open" /\ socket' = [socket EXCEPT ![c] = "closing"]
  /\ UNCHANGED <<producerVars, frames, hand, registered, hubId, sending, inbox, got>>

\* swap_remove(i), i from 0
SwapRemove(s, i) ==
  SubSeq([s EXCEPT ![i + 1] = s[Len(s)]], 1, Len(s) - 1)

\* unregister_client
Unregister(c) ==
  /\ socket[c] = "closing" /\ socket' = [socket EXCEPT ![c] = "closed"]
  /\ registered' = IF hubId[c] < Len(registered)
                   THEN SwapRemove(registered, hubId[c]) ELSE registered
  /\ UNCHANGED <<producerVars, frames, hand, hubId, sending, inbox, got>>

-----------------------------------------------------------------------------
HubNext ==
  \/ Push \/ CountFrame \/ StopHub \/ TakeFrame \/ BroadcastFrame
  \/ \E c \in Clients :
       Connect(c) \/ Forward(c) \/ SendFails(c) \/ EndForward(c) \/ Close(c) \/ Unregister(c)

HubSpec == HubInit /\ [][HubNext]_hubVars

-----------------------------------------------------------------------------
HubTypeOK ==
  /\ live \in BOOLEAN /\ counting \in BOOLEAN
  /\ pushed \in 0..MaxFrames /\ sequence \in 0..MaxFrames
  /\ Len(frames) <= BufferCapacity /\ Len(hand) <= 1 /\ Len(registered) <= MaxClients
  /\ socket \in [Clients -> {"none", "open", "closing", "closed", "rejected"}]
  /\ hubId \in [Clients -> 0..MaxFrames] /\ sending \in [Clients -> BOOLEAN]
  /\ \A c \in Clients : Len(inbox[c]) <= InboxCapacity

Increasing(s) == \A j, k \in DOMAIN s : j < k => s[j] < s[k]

\* Whatever clients come, go and are moved about in the vector, no client gets
\* a frame twice or a frame after a later one; frames are only ever missed.
FramesInOrder ==
  \A c \in Clients : Increasing(got[c] \o inbox[c] \o hand \o frames)

\* "Graceful disconnect handling with client cleanup": who has not closed stays
\* registered, and who is closed is not.
CleanedUp ==
  \A c \in Clients :
    /\ socket[c] = "open" => IsRegistered(c)
    /\ socket[c] = "closed" => ~IsRegistered(c)
=============================================================================
