--------------------------- MODULE SessionHolder ---------------------------
(***************************************************************************)
(* src/ssh_broker/session_holder.py: the class that owns the SSH client    *)
(* and arbitrates its single session channel between a long-lived SFTP     *)
(* channel and short-lived exec channels.  Every public method runs under  *)
(* one threading.Lock; each step below is the code between two points at   *)
(* which another thread, the network or the remote can be noticed.         *)
(*                                                                         *)
(* The transport counts open channels and grants any number of them, so    *)
(* that keeping to one is the holder's doing and not the remote's.  A      *)
(* remote may also refuse a channel, end one, or drop the connection, and  *)
(* it may stop answering while the connection stays up: only the reads of  *)
(* an exec channel have a timeout (line 73), every other wait has none.    *)
(***************************************************************************)
EXTENDS Naturals

CONSTANTS Callers,    \* threads calling the public methods
          NoCaller    \* value of the lock when no thread holds it

ASSUME NoCallerAssumption == NoCaller \notin Callers

Ops   == {"with_sftp", "exec_command", "close"}
Kinds == {"sftp", "exec"}

VARIABLES
    pc,        \* where each caller is in the method it called
    op,        \* the method each caller called
    result,    \* how the caller's last call ended: "none", "ok" or "raised"
    lock,      \* the thread that holds self._lock, or NoCaller
    sftp,      \* self._sftp is not None
    chans,     \* open session channels of the transport, by kind
    up,        \* the transport is active
    sftpDied,  \* the remote ended the channel behind self._sftp
    remote     \* "answers"; "silent": never answers again; "pours": the
               \* command in progress never ends its output

vars == <<pc, op, result, lock, sftp, chans, up, sftpDied, remote>>
callerVars == <<pc, op, result>>
wireVars == <<sftp, chans, up, sftpDied, remote>>

PCs == {"idle", "wait", "reopen", "run", "free_slot", "open_exec", "start_exec",
        "read_exec", "exit_status", "close_exec", "close_sftp", "close_client"}
ExecPoints == {"start_exec", "read_exec", "exit_status", "close_exec"}

(* The first step under the lock of each method. *)
Entry == [with_sftp |-> "reopen", exec_command |-> "free_slot",
          close |-> "close_sftp"]

Init ==
    /\ pc = [c \in Callers |-> "idle"]
    /\ op = [c \in Callers |-> "with_sftp"]
    /\ result = [c \in Callers |-> "none"]
    /\ lock = NoCaller
    /\ sftp = TRUE                            \* opened by the constructor
    /\ chans = [k \in Kinds |-> IF k = "sftp" THEN 1 ELSE 0]
    /\ up = TRUE
    /\ sftpDied = FALSE
    /\ remote = "answers"

(* A call that waits for the remote without a timeout, on a connection and *)
(* a channel that are there: open_sftp (55), fn (56), exec_command (74),   *)
(* recv_exit_status (77).  A read (75-76) times out only when nothing      *)
(* arrives; paramiko's open_session (71) has a timeout of its own.         *)
Stuck(c) ==
    /\ up
    /\ \/ remote = "silent"
          /\ \/ pc[c] = "reopen" /\ ~sftp
             \/ pc[c] = "run" /\ chans["sftp"] > 0
             \/ pc[c] \in {"start_exec", "exit_status"} /\ chans["exec"] > 0
       \/ remote = "pours" /\ pc[c] = "read_exec" /\ chans["exec"] > 0

----------------------------------------------------------------------------
Opened(k) == chans' = [chans EXCEPT ![k] = @ + 1]
(* Closing a channel that the remote has already ended counts it twice. *)
ClosedTwice(k) == chans' = [chans EXCEPT ![k] = @ - 1]
Closed(k) == chans' = [chans EXCEPT ![k] = IF @ > 0 THEN @ - 1 ELSE 0]

Goto(c, label) ==
    /\ pc' = [pc EXCEPT ![c] = label]
    /\ UNCHANGED <<op, result, lock>>

(* As Return, but an exception skips the release of the lock. *)
ReturnWithoutRelease(c, r) ==
    /\ pc' = [pc EXCEPT ![c] = "idle"]
    /\ result' = [result EXCEPT ![c] = r]
    /\ lock' = IF r = "raised" THEN lock ELSE NoCaller
    /\ UNCHANGED op

(* Leaving the "with self._lock" block, normally or by an exception. *)
Return(c, r) ==
    /\ pc' = [pc EXCEPT ![c] = "idle"]
    /\ result' = [result EXCEPT ![c] = r]
    /\ lock' = NoCaller
    /\ UNCHANGED op

Call(c, m) ==
    /\ pc[c] = "idle"
    /\ pc' = [pc EXCEPT ![c] = "wait"]
    /\ op' = [op EXCEPT ![c] = m]
    /\ result' = [result EXCEPT ![c] = "none"]
    /\ UNCHANGED <<lock, wireVars>>

(* Acquire without mutual exclusion: no lock around the method. *)
AcquireUnlocked(c) ==
    /\ pc[c] = "wait"
    /\ lock' = c
    /\ pc' = [pc EXCEPT ![c] = Entry[op[c]]]
    /\ UNCHANGED <<op, result, wireVars>>

Acquire(c) ==
    /\ pc[c] = "wait" /\ lock = NoCaller
    /\ lock' = c
    /\ pc' = [pc EXCEPT ![c] = Entry[op[c]]]
    /\ UNCHANGED <<op, result, wireVars>>

(* with_sftp: open an SFTP channel if self._sftp is None, then call fn. *)
ReopenSftp(c) ==
    /\ pc[c] = "reopen" /\ ~Stuck(c)
    /\ \/ /\ sftp
          /\ Goto(c, "run")
          /\ UNCHANGED wireVars
       \/ /\ ~sftp /\ up
          /\ Opened("sftp")
          /\ sftp' = TRUE /\ sftpDied' = FALSE
          /\ Goto(c, "run")
          /\ UNCHANGED <<up, remote>>
       \/ /\ ~sftp                    \* refused, or the transport is gone
          /\ Return(c, "raised")
          /\ UNCHANGED wireVars

RunOnSftp(c) ==
    /\ pc[c] = "run" /\ ~Stuck(c)
    /\ \/ up /\ chans["sftp"] > 0 /\ Return(c, "ok")
       \/ Return(c, "raised")
    /\ UNCHANGED wireVars

(* FreeSlot that forgets the handle and never closes the channel. *)
FreeSlotLeaky(c) ==
    /\ pc[c] = "free_slot"
    /\ sftp' = FALSE /\ sftpDied' = FALSE
    /\ Goto(c, "open_exec")
    /\ UNCHANGED <<up, chans, remote>>

(* FreeSlot that closes the channel and keeps the handle. *)
FreeSlotKeepsHandle(c) ==
    /\ pc[c] = "free_slot"
    /\ IF sftp THEN Closed("sftp") ELSE UNCHANGED chans
    /\ Goto(c, "open_exec")
    /\ UNCHANGED <<up, sftp, sftpDied, remote>>

(* exec_command, lines 65-70: free the slot; a failing close is swallowed. *)
FreeSlot(c) ==
    /\ pc[c] = "free_slot"
    /\ IF sftp THEN Closed("sftp") ELSE UNCHANGED chans
    /\ sftp' = FALSE /\ sftpDied' = FALSE
    /\ Goto(c, "open_exec")
    /\ UNCHANGED <<up, remote>>

(* Line 71 is outside the try: a refused channel raises with no cleanup. *)
OpenExec(c) ==
    /\ pc[c] = "open_exec"
    /\ \/ up /\ remote # "silent" /\ Opened("exec") /\ Goto(c, "start_exec")
       \/ UNCHANGED chans /\ Return(c, "raised")
    /\ UNCHANGED <<sftp, up, sftpDied, remote>>

(* Lines 73-77: each of the calls completes or raises, and a raise leads   *)
(* to the finally.  An ended channel gives the end of the output and an    *)
(* exit status of -1; a lost connection may show as that or as an error.   *)
ExecStep(c, here, next) ==
    /\ pc[c] = here /\ ~Stuck(c)
    /\ \E r \in {"none", "raised"} :
          /\ result' = [result EXCEPT ![c] = r]
          /\ pc' = [pc EXCEPT ![c] = IF r = "raised" THEN "close_exec" ELSE next]
          /\ (r = "none" /\ here = "start_exec") => (up /\ chans["exec"] > 0)
          /\ (r = "none" /\ here = "read_exec" /\ chans["exec"] > 0) => remote = "answers"
    /\ UNCHANGED <<op, lock, wireVars>>

StartExec(c) == ExecStep(c, "start_exec", "read_exec")
ReadExec(c) == ExecStep(c, "read_exec", "exit_status")
ExitStatus(c) == ExecStep(c, "exit_status", "close_exec")

(* The finally, and the return of the result unless a call raised. *)
CloseExec(c) ==
    /\ pc[c] = "close_exec"
    /\ Closed("exec")
    /\ Return(c, IF result[c] = "raised" THEN "raised" ELSE "ok")
    /\ remote' = IF remote = "pours" THEN "answers" ELSE remote
    /\ UNCHANGED <<sftp, up, sftpDied>>

CloseSftp(c) ==
    /\ pc[c] = "close_sftp"
    /\ IF sftp THEN Closed("sftp") ELSE UNCHANGED chans
    /\ sftp' = FALSE /\ sftpDied' = FALSE
    /\ Goto(c, "close_client")
    /\ UNCHANGED <<up, remote>>

CloseClient(c) ==
    /\ pc[c] = "close_client"
    /\ up' = FALSE
    /\ chans' = [k \in Kinds |-> 0]
    /\ Return(c, "ok")
    /\ UNCHANGED <<sftp, sftpDied, remote>>

----------------------------------------------------------------------------
(* The network and the remote. *)
Drop ==
    /\ up
    /\ up' = FALSE
    /\ chans' = [k \in Kinds |-> 0]
    /\ UNCHANGED <<callerVars, lock, sftp, sftpDied, remote>>

ChannelEnds(k) ==
    /\ chans[k] > 0 /\ remote # "silent"
    /\ Closed(k)
    /\ sftpDied' = (sftpDied \/ k = "sftp")
    /\ UNCHANGED <<callerVars, lock, sftp, up, remote>>

(* The remote stops answering for good, and the connection stays up.  A    *)
(* silence that ends is a slow answer, which every step may be.            *)
FallSilent ==
    /\ up /\ remote # "silent"
    /\ remote' = "silent"
    /\ UNCHANGED <<callerVars, lock, sftp, chans, up, sftpDied>>

(* The command in progress writes without end. *)
Pour ==
    /\ remote = "answers" /\ \E c \in Callers : pc[c] = "read_exec"
    /\ remote' = "pours"
    /\ UNCHANGED <<callerVars, lock, sftp, chans, up, sftpDied>>

UnderLock(c) ==
    \/ ReopenSftp(c) \/ RunOnSftp(c)
    \/ FreeSlot(c) \/ OpenExec(c)
    \/ StartExec(c) \/ ReadExec(c) \/ ExitStatus(c) \/ CloseExec(c)
    \/ CloseSftp(c) \/ CloseClient(c)

Next ==
    \/ \E c \in Callers : \E m \in Ops : Call(c, m)
    \/ \E c \in Callers : Acquire(c)
    \/ \E c \in Callers : UnderLock(c)
    \/ Drop
    \/ \E k \in Kinds : ChannelEnds(k)
    \/ FallSilent \/ Pour

Spec == Init /\ [][Next]_vars

(* A thread inside a method keeps running unless it is Stuck: a step that  *)
(* waits for the remote is enabled once the remote has answered, the read  *)
(* has timed out or the channel or connection is gone, and only then.      *)
(* threading.Lock wakes some waiter but promises no order, so acquiring is *)
(* fair as a whole and not for each caller.  Nothing obliges the network   *)
(* to drop a connection to a remote that is silent.                        *)
Fairness ==
    /\ \A c \in Callers : WF_vars(UnderLock(c))
    /\ WF_vars(\E c \in Callers : Acquire(c))

FairSpec == Spec /\ Fairness

----------------------------------------------------------------------------
Holding == PCs \ {"idle", "wait"}

(* The types; channels of a kind are counted, so that none is counted twice *)
(* or below zero.                                                          *)
TypeOK ==
    /\ pc \in [Callers -> PCs]
    /\ op \in [Callers -> Ops]
    /\ result \in [Callers -> {"none", "ok", "raised"}]
    /\ lock \in Callers \union {NoCaller}
    /\ sftp \in BOOLEAN
    /\ chans \in [Kinds -> Nat]
    /\ up \in BOOLEAN
    /\ sftpDied \in BOOLEAN
    /\ remote \in {"answers", "silent", "pours"}

(* "Never two session channels concurrently" (cycle-14 spec, item 3 and    *)
(* guideline 6): whatever the threads, the remote and the network do.      *)
OneChannel == chans["sftp"] + chans["exec"] <= 1

(* A call that has ended, by returning or by raising at any of its steps,  *)
(* holds the lock no more, and a call past the lock is its only holder.    *)
LockMatchesCall == \A c \in Callers : lock = c <=> pc[c] \in Holding

(* No call ends with its exec channel open: a slot leaked on an error path *)
(* would make every later operation of the broker fail.                    *)
ExecChannelOwned ==
    chans["exec"] > 0 => \E c \in Callers :
        lock = c /\ pc[c] \in ExecPoints

(* The holder and the wire agree: an open SFTP channel is always the one   *)
(* behind self._sftp, and a handle whose channel is gone was ended by the  *)
(* remote or by the loss of the connection, never by the holder itself.    *)
HandleMatchesChannel ==
    /\ chans["sftp"] > 0 => sftp
    /\ sftp /\ up /\ ~sftpDied => chans["sftp"] > 0

(* What every call finds when it gets the lock, and leaves: one channel at *)
(* most, nobody else at work, no channel of an earlier call, and a handle  *)
(* that tells the truth, whichever step of the earlier calls raised.       *)
HolderConsistent ==
    OneChannel /\ LockMatchesCall /\ ExecChannelOwned /\ HandleMatchesChannel

(* The function a caller passed to with_sftp never loses its client to     *)
(* another caller: while it runs, only the remote or the network can end   *)
(* the channel it was given.                                               *)
ClientNotTakenAway ==
    [][\A c \in Callers :
          pc[c] = "run" /\ pc'[c] = "run" =>
              /\ sftp'
              /\ chans'["sftp"] < chans["sftp"] => (~up' \/ sftpDied')]_vars

(* No failure of a call keeps the lock: a caller that holds it for ever is *)
(* one whose call waits for ever, without a timeout, for a remote that is  *)
(* silent or writes without end on a connection that stays up.             *)
LockReleased ==
    \A c \in Callers : []<>(lock # c) \/ <>[]Stuck(c)

(* The refinement: the detailed holder implements exclusive use of a slot. *)
SlotOf == CASE chans["sftp"] = 0 /\ chans["exec"] = 0 -> "free"
            [] chans["sftp"] = 1 /\ chans["exec"] = 0 -> "sftp"
            [] chans["sftp"] = 0 /\ chans["exec"] = 1 -> "exec"
            [] OTHER -> "overrun"

Slot == INSTANCE SessionSlot WITH slot <- SlotOf, user <- lock

(* The holder implements exclusive, one-at-a-time use of the slot. *)
ImplementsSlot == Slot!Spec
=============================================================================
