---------------------------- MODULE SessionSlot ----------------------------
(***************************************************************************)
(* What SessionHolder promises about the one session channel that a remote *)
(* with MaxSessions=1 grants to an SSH connection.                         *)
(*                                                                         *)
(* The slot is free, or holds the SFTP channel, or holds an exec channel.  *)
(* One caller at a time uses it; only that caller opens or closes a        *)
(* channel, it opens one only in a free slot, and it does not leave before *)
(* its exec channel is closed.  The network may drop the connection, and   *)
(* the remote may end a channel, at any moment.                            *)
(***************************************************************************)
CONSTANTS Callers,    \* threads that may call the holder
          NoCaller    \* the slot is not being used

VARIABLES slot,       \* "free", "sftp" or "exec"
          user,       \* the caller being served, or NoCaller
          up          \* the SSH transport is active

slotVars == <<slot, user, up>>

Init == slot = "sftp" /\ user = NoCaller /\ up = TRUE

Enter(c) == user = NoCaller /\ user' = c /\ UNCHANGED <<slot, up>>

Open(c, k) ==
    /\ user = c /\ up /\ slot = "free"
    /\ slot' = k
    /\ UNCHANGED <<user, up>>

Close(c) == user = c /\ slot' = "free" /\ UNCHANGED <<user, up>>

Leave(c) ==
    /\ user = c /\ slot # "exec"
    /\ user' = NoCaller
    /\ UNCHANGED <<slot, up>>

\* The exec channel is closed in the step that lets the caller go.
CloseAndLeave(c) ==
    user = c /\ slot' = "free" /\ user' = NoCaller /\ UNCHANGED up

HangUp(c) == user = c /\ slot' = "free" /\ user' = NoCaller /\ up' = FALSE

Drop == up' = FALSE /\ slot' = "free" /\ UNCHANGED user

ChannelEnds == slot' = "free" /\ UNCHANGED <<user, up>>

Next ==
    \/ \E c \in Callers :
          \/ Enter(c) \/ Close(c) \/ Leave(c) \/ CloseAndLeave(c) \/ HangUp(c)
          \/ \E k \in {"sftp", "exec"} : Open(c, k)
    \/ Drop
    \/ ChannelEnds

Spec == Init /\ [][Next]_slotVars
=============================================================================
