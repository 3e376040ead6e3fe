---------------------------- MODULE BrokerServer ----------------------------
(***************************************************************************)
(* src/ssh_broker/server.py: the single-threaded selectors loop that       *)
(* serves newline-delimited JSON-RPC over a UNIX socket, with the clients  *)
(* of src/mcp/netcdf_reader/paths/ssh_broker.py at the other end.          *)
(*                                                                         *)
(* A line of the wire is two pieces, so that recv and send can stop in the *)
(* middle of one.  A client connects, writes its requests, reads one reply *)
(* line per request and closes; a quitter may close at any earlier moment, *)
(* and a stuck client never reads and may stop writing.  A step of the     *)
(* loop ends wherever it blocks or something outside can change what it    *)
(* reads next.                                                             *)
(***************************************************************************)
EXTENDS Naturals, Sequences

CONSTANTS
    Conns,        \* client connections
    Quitters,     \* those that may close before they have their answers
    Stuck,        \* those that never read and may stop writing
    Scripts,      \* the request sequences each client may have to send
    SockBuf,      \* pieces a socket buffers in one direction
    IdleTimeout   \* idle_timeout, in ticks of poll_interval

Listener == "listener"

(* What a line asks for: methods that use the channel, ping, an unknown    *)
(* method, a line that is not JSON, and JSON that is not an object (a      *)
(* JSON-RPC batch is an array).                                            *)
RequestKinds == {"channel", "ping", "unknown", "garbled", "array"}

ASSUME BrokerServerAssumptions ==
    /\ Listener \notin Conns
    /\ Quitters \subseteq Conns /\ Stuck \subseteq Conns
    /\ \A c \in Conns : \A s \in Scripts[c] :
          s \in Seq(RequestKinds) /\ s # << >>
    /\ SockBuf \in Nat \ {0}
    /\ IdleTimeout \in Nat

VARIABLES
    script,     \* the requests each client has to send
    cl,         \* client end: "new", "open", "done", "quit" or "failed"
    sent,       \* pieces of its requests the client has written
    got,        \* reply pieces the client has read
    c2s, s2c,   \* socket buffers in each direction
    sock,       \* server end: "none", "backlog", "open" or "closed"
    sessions,   \* keys of the sessions dictionary
    rbuf, wbuf, \* BrokerSession.read_buf and write_buf
    answered,   \* requests taken from read_buf, by connection
    pc,         \* where the loop is
    events,     \* events of this select not handled yet
    mask,       \* [read, write]: masks select returned that are still to use
    cur,        \* the connection being handled
    stop,       \* stop_event is set
    up,         \* holder.is_alive()
    idleAge,    \* time since last_activity; Untimed when idle_timeout is None
    deadAge,    \* time since holder_dead_since; NotNoticed when that is None
    why         \* what ended the loop, or "running"

clientVars == <<script, cl, sent, got>>
wire == <<c2s, s2c>>
sessionVars == <<sock, sessions, rbuf, wbuf, answered>>
loopVars == <<pc, events, mask, cur>>
timeVars == <<idleAge, deadAge>>
vars == <<clientVars, wire, sessionVars, loopVars, stop, up, timeVars, why>>

NotNoticed == 2      \* outside 0..DeadLimit
DeadLimit  == 1      \* more than poll_interval has passed
IdleLimit  == IdleTimeout + 1
Untimed    == IdleTimeout + 2

Line(i) == << [req |-> i, end |-> FALSE], [req |-> i, end |-> TRUE] >>
Reply(i, code) == << [req |-> i, code |-> code, end |-> FALSE],
                     [req |-> i, code |-> code, end |-> TRUE] >>

(* The k-th piece a client writes. *)
Piece(k) == Line((k + 1) \div 2)[2 - (k % 2)]

Take(s, n) == SubSeq(s, 1, n)
Rest(s, n) == SubSeq(s, n + 1, Len(s))

ClientClosed(c) == cl[c] \in {"done", "quit", "failed"}

Init ==
    /\ script \in [Conns -> UNION {Scripts[c] : c \in Conns}]
    /\ \A c \in Conns : script[c] \in Scripts[c]
    /\ cl = [c \in Conns |-> "new"]
    /\ sent = [c \in Conns |-> 0]
    /\ got = [c \in Conns |-> <<>>]
    /\ c2s = [c \in Conns |-> <<>>] /\ s2c = [c \in Conns |-> <<>>]
    /\ sock = [c \in Conns |-> "none"]
    /\ sessions = {}
    /\ rbuf = [c \in Conns |-> <<>>] /\ wbuf = [c \in Conns |-> <<>>]
    /\ answered = [c \in Conns |-> 0]
    /\ pc = "select" /\ events = {} /\ cur = Listener
    /\ mask = [read |-> {}, write |-> {}]
    /\ stop = FALSE /\ up = TRUE
    /\ idleAge \in {0, Untimed} /\ deadAge = NotNoticed
    /\ why = "running"

----------------------------------------------------------------------------
(* Clients: BrokerSFTPClient._call *)
Connect(c) ==
    /\ cl[c] = "new"
    /\ IF pc # "down"
       THEN cl' = [cl EXCEPT ![c] = "open"]
            /\ sock' = [sock EXCEPT ![c] = "backlog"]
       ELSE cl' = [cl EXCEPT ![c] = "failed"] /\ UNCHANGED sock
    /\ UNCHANGED <<script, sent, got, wire, sessions, rbuf, wbuf, answered,
                   loopVars, stop, up, timeVars, why>>

SendPiece(c) ==
    /\ cl[c] = "open" /\ sock[c] # "closed"
    /\ sent[c] < 2 * Len(script[c]) /\ Len(c2s[c]) < SockBuf
    /\ sent' = [sent EXCEPT ![c] = @ + 1]
    /\ c2s' = [c2s EXCEPT ![c] = Append(@, Piece(sent[c] + 1))]
    /\ UNCHANGED <<script, cl, got, s2c, sessionVars, loopVars, stop, up,
                   timeVars, why>>

RecvPiece(c) ==
    /\ cl[c] = "open" /\ c \notin Stuck /\ s2c[c] # <<>>
    /\ got' = [got EXCEPT ![c] = Append(@, Head(s2c[c]))]
    /\ s2c' = [s2c EXCEPT ![c] = Tail(@)]
    /\ UNCHANGED <<script, cl, sent, c2s, sessionVars, loopVars, stop, up,
                   timeVars, why>>

(* End of file, reset or broken pipe once the server end is closed. *)
Fail(c) ==
    /\ cl[c] = "open" /\ sock[c] = "closed" /\ s2c[c] = <<>>
    /\ Len(got[c]) < 2 * Len(script[c])
    /\ cl' = [cl EXCEPT ![c] = "failed"]
    /\ UNCHANGED <<script, sent, got, wire, sessionVars, loopVars, stop, up,
                   timeVars, why>>

Finish(c) ==
    /\ cl[c] = "open" /\ Len(got[c]) = 2 * Len(script[c])
    /\ cl' = [cl EXCEPT ![c] = "done"]
    /\ UNCHANGED <<script, sent, got, wire, sessionVars, loopVars, stop, up,
                   timeVars, why>>

HangUp(c) ==
    /\ c \in Quitters /\ cl[c] = "open"
    /\ cl' = [cl EXCEPT ![c] = "quit"]
    /\ UNCHANGED <<script, sent, got, wire, sessionVars, loopVars, stop, up,
                   timeVars, why>>

----------------------------------------------------------------------------
(* The loop of serve_forever, lines 101-159. *)

(* Line 101 tests the stop event, line 102 asks which sockets are ready. *)
Select ==
    /\ pc = "select" /\ ~stop
    /\ LET live  == {c \in Conns : sock[c] = "open"}
           read  == {c \in live : c2s[c] # <<>> \/ ClientClosed(c)}
           write == {c \in live : Len(s2c[c]) < SockBuf \/ ClientClosed(c)}
           new   == {c \in Conns : sock[c] = "backlog"}
       IN /\ mask' = [read |-> read, write |-> write]
          /\ events' = read \union write
                          \union (IF new = {} THEN {} ELSE {Listener})
    /\ pc' = "event"
    /\ UNCHANGED <<clientVars, wire, sessionVars, cur, stop, up, timeVars, why>>

(* Leaving the loop runs the finally clause: every session and the         *)
(* listening socket are closed, connections in the backlog with them.      *)
CloseAll ==
    /\ sock' = [c \in Conns |-> IF sock[c] = "none" THEN "none" ELSE "closed"]
    /\ sessions' = {}
    /\ wbuf' = [c \in Conns |-> <<>>]
    /\ rbuf' = [c \in Conns |-> <<>>]
    /\ pc' = "down"
    /\ events' = {} /\ mask' = [read |-> {}, write |-> {}] /\ cur' = Listener
    /\ UNCHANGED answered

Stopped ==
    /\ pc = "select" /\ stop
    /\ CloseAll
    /\ why' = "stop"
    /\ UNCHANGED <<clientVars, wire, stop, up, timeVars>>

Accept(c) ==
    /\ pc = "event" /\ Listener \in events /\ sock[c] = "backlog"
    /\ sock' = [sock EXCEPT ![c] = "open"]
    /\ sessions' = sessions \union {c}
    /\ events' = events \ {Listener}
    /\ UNCHANGED <<clientVars, wire, rbuf, wbuf, answered, pc, mask, cur,
                   stop, up, timeVars, why>>

Without(c) == [mask EXCEPT !.read = @ \ {c}, !.write = @ \ {c}]

(* The handling of an event begins and ends. *)
Pick(c) ==
    /\ events' = events \ {c} /\ cur' = c
    /\ mask' = [mask EXCEPT !.read = @ \ {c}]
Done(c) ==
    /\ pc' = "event" /\ cur' = Listener /\ mask' = Without(c)
    /\ UNCHANGED events

(* last_activity = time.time() *)
Active == idleAge' = IF idleAge = Untimed THEN Untimed ELSE 0

(* Lines 118-132: recv takes some of what is there. *)
Recv(c) ==
    /\ pc = "event" /\ c \in events \ {Listener} /\ c \in mask.read
    /\ c2s[c] # <<>>
    /\ \E n \in 1..Len(c2s[c]) :
          /\ rbuf' = [rbuf EXCEPT ![c] = @ \o Take(c2s[c], n)]
          /\ c2s' = [c2s EXCEPT ![c] = Rest(@, n)]
    /\ Active
    /\ Pick(c) /\ pc' = "dispatch"
    /\ UNCHANGED <<clientVars, s2c, sock, sessions, wbuf, answered, stop, up,
                   deadAge, why>>

(* EndOfFile that leaves the session in the dictionary. *)
EndOfFileNoPop(c) ==
    /\ pc = "event" /\ c \in events \ {Listener} /\ c \in mask.read
    /\ c2s[c] = <<>> /\ s2c[c] = <<>>
    /\ sock' = [sock EXCEPT ![c] = "closed"]
    /\ events' = events \ {c} /\ mask' = Without(c)
    /\ UNCHANGED <<clientVars, wire, sessions, wbuf, rbuf, answered, pc, cur,
                   stop, up, timeVars, why>>

(* Lines 123-130: an orderly end of file drops the session. *)
EndOfFile(c) ==
    /\ pc = "event" /\ c \in events \ {Listener} /\ c \in mask.read
    /\ c2s[c] = <<>> /\ s2c[c] = <<>>
    /\ sessions' = sessions \ {c}
    /\ sock' = [sock EXCEPT ![c] = "closed"]
    /\ wbuf' = [wbuf EXCEPT ![c] = <<>>]
    /\ events' = events \ {c} /\ mask' = Without(c)
    /\ UNCHANGED <<clientVars, wire, rbuf, answered, pc, cur, stop, up,
                   timeVars, why>>

(* A client that closed with unread reply bytes resets the connection:     *)
(* recv raises, and line 121 catches only the two would-block errors.      *)
RecvReset(c) ==
    /\ pc = "event" /\ c \in events \ {Listener} /\ c \in mask.read
    /\ c2s[c] = <<>> /\ s2c[c] # <<>>
    /\ CloseAll
    /\ why' = "reset"
    /\ UNCHANGED <<clientVars, wire, stop, up, timeVars>>

(* WriteOnly that counts being writable as activity. *)
WriteOnlyActive(c) ==
    /\ pc = "event" /\ c \in events \ {Listener} /\ c \notin mask.read
    /\ Pick(c) /\ pc' = "send" /\ Active
    /\ UNCHANGED <<clientVars, wire, sessionVars, stop, up, deadAge, why>>

WriteOnly(c) ==
    /\ pc = "event" /\ c \in events \ {Listener} /\ c \notin mask.read
    /\ Pick(c) /\ pc' = "send"
    /\ UNCHANGED <<clientVars, wire, sessionVars, stop, up, timeVars, why>>

HasLine(c) == \E i \in DOMAIN rbuf[c] : rbuf[c][i].end

(* The request of the first complete line in read_buf. *)
NextReq(c) == Head(rbuf[c]).req
NextKind(c) == script[c][NextReq(c)]

Answer(c, code) ==
    /\ wbuf' = [wbuf EXCEPT ![c] = @ \o Reply(NextReq(c), code)]
    /\ rbuf' = [rbuf EXCEPT ![c] = Rest(@, 2)]
    /\ answered' = [answered EXCEPT ![c] = @ + 1]
    /\ UNCHANGED <<sock, sessions>>

(* _dispatch_one that looks the method up before it asks is_alive. *)
DispatchLookupFirst(c) ==
    /\ pc = "dispatch" /\ cur = c /\ HasLine(c)
    /\ \/ NextKind(c) = "garbled" /\ Answer(c, "parse_error")
       \/ NextKind(c) = "unknown" /\ Answer(c, "method_not_found")
       \/ NextKind(c) \in {"ping", "channel"} /\ ~up
          /\ Answer(c, "connection_lost")
       \/ NextKind(c) = "ping" /\ up /\ Answer(c, "result")
    /\ UNCHANGED <<clientVars, wire, loopVars, stop, up, timeVars, why>>

(* _dispatch_one up to the method call: the parse error comes before the   *)
(* liveness test, the liveness test before the method lookup.              *)
DispatchHere(c) ==
    /\ pc = "dispatch" /\ cur = c /\ HasLine(c)
    /\ \/ NextKind(c) = "garbled" /\ Answer(c, "parse_error")
       \/ NextKind(c) \notin {"garbled", "array"} /\ ~up
          /\ Answer(c, "connection_lost")
       \/ NextKind(c) = "unknown" /\ up /\ Answer(c, "method_not_found")
       \/ NextKind(c) = "ping" /\ up /\ Answer(c, "result")
    /\ UNCHANGED <<clientVars, wire, loopVars, stop, up, timeVars, why>>

(* A channel method blocks the loop while the holder works. *)
CallHolder(c) ==
    /\ pc = "dispatch" /\ cur = c /\ HasLine(c)
    /\ NextKind(c) = "channel" /\ up
    /\ pc' = "calling"
    /\ UNCHANGED <<clientVars, wire, sessionVars, events, mask, cur, stop, up,
                   timeVars, why>>

(* HolderReturns that answers and leaves the line in read_buf. *)
HolderReturnsKeepsLine(c) ==
    /\ pc = "calling" /\ cur = c
    /\ wbuf' = [wbuf EXCEPT ![c] = @ \o Reply(NextReq(c), "result")]
    /\ rbuf' = rbuf
    /\ answered' = [answered EXCEPT ![c] = @ + 1]
    /\ UNCHANGED <<sock, sessions>>
    /\ pc' = IF answered[c] < 2 THEN "dispatch" ELSE "send"
    /\ UNCHANGED <<clientVars, wire, events, mask, cur, stop, up, timeVars, why>>

(* The remote stops answering: with_sftp waits without a timeout, and the  *)
(* loop with it, for as long as the connection stays up.                   *)
Hang ==
    /\ pc = "calling" /\ up
    /\ pc' = "hung"
    /\ UNCHANGED <<clientVars, wire, sessionVars, events, mask, cur, stop, up,
                   timeVars, why>>

(* It returns a result or raises (BrokerError, KeyError, anything else); a *)
(* result can also come after the loss, as get_full still hashes its file. *)
HolderReturns(c) ==
    /\ pc = "calling" \/ (pc = "hung" /\ ~up)
    /\ cur = c
    /\ \E code \in {"result", "error"} : Answer(c, code)
    /\ pc' = "dispatch"
    /\ UNCHANGED <<clientVars, wire, events, mask, cur, stop, up, timeVars, why>>

(* req.get on a JSON array raises outside the try of _dispatch_one. *)
DispatchRaises(c) ==
    /\ pc = "dispatch" /\ cur = c /\ HasLine(c) /\ NextKind(c) = "array"
    /\ CloseAll
    /\ why' = "bad_request"
    /\ UNCHANGED <<clientVars, wire, stop, up, timeVars>>

NoMoreLines(c) ==
    /\ pc = "dispatch" /\ cur = c /\ ~HasLine(c)
    /\ pc' = "send"
    /\ UNCHANGED <<clientVars, wire, sessionVars, events, mask, cur, stop, up,
                   timeVars, why>>

(* Send that takes it that everything fits. *)
SendWhole(c) ==
    /\ pc = "send" /\ cur = c
    /\ c \in mask.write /\ wbuf[c] # <<>> /\ ~ClientClosed(c)
    /\ s2c' = [s2c EXCEPT ![c] = @ \o wbuf[c]]
    /\ wbuf' = [wbuf EXCEPT ![c] = <<>>]
    /\ Done(c)
    /\ UNCHANGED <<clientVars, c2s, sock, sessions, rbuf, answered, stop, up,
                   timeVars, why>>

(* Send that drops the whole write buffer after a partial send. *)
SendForgetsRest(c) ==
    /\ pc = "send" /\ cur = c
    /\ c \in mask.write /\ wbuf[c] # <<>> /\ ~ClientClosed(c)
    /\ LET room == SockBuf - Len(s2c[c])
           n    == IF room < Len(wbuf[c]) THEN room ELSE Len(wbuf[c])
       IN s2c' = [s2c EXCEPT ![c] = @ \o Take(wbuf[c], n)]
    /\ wbuf' = [wbuf EXCEPT ![c] = <<>>]
    /\ Done(c)
    /\ UNCHANGED <<clientVars, c2s, sock, sessions, rbuf, answered, stop, up,
                   timeVars, why>>

(* Lines 140-145: one send, which takes what fits. *)
Send(c) ==
    /\ pc = "send" /\ cur = c
    /\ c \in mask.write /\ wbuf[c] # <<>> /\ ~ClientClosed(c)
    /\ LET room == SockBuf - Len(s2c[c])
           n    == IF room < Len(wbuf[c]) THEN room ELSE Len(wbuf[c])
       IN /\ s2c' = [s2c EXCEPT ![c] = @ \o Take(wbuf[c], n)]
          /\ wbuf' = [wbuf EXCEPT ![c] = Rest(@, n)]
    /\ Done(c)
    /\ UNCHANGED <<clientVars, c2s, sock, sessions, rbuf, answered, stop, up,
                   timeVars, why>>

(* The peer is gone: send raises BrokenPipeError, which is not caught. *)
SendBroken(c) ==
    /\ pc = "send" /\ cur = c
    /\ c \in mask.write /\ wbuf[c] # <<>> /\ ClientClosed(c)
    /\ CloseAll
    /\ why' = "broken_pipe"
    /\ UNCHANGED <<clientVars, wire, stop, up, timeVars>>

NothingToSend(c) ==
    /\ pc = "send" /\ cur = c
    /\ c \notin mask.write \/ wbuf[c] = <<>>
    /\ Done(c)
    /\ UNCHANGED <<clientVars, wire, sessionVars, stop, up, timeVars, why>>

Pending == \E c \in sessions : wbuf[c] # <<>>

(* Lines 146-159, after the last event of the pass. *)
IdleExit ==
    /\ pc = "event" /\ events = {}
    /\ idleAge = IdleLimit
    /\ CloseAll
    /\ why' = "idle"
    /\ UNCHANGED <<clientVars, wire, stop, up, timeVars>>

(* LossExit that does not wait for the write buffers. *)
LossExitUnflushed ==
    /\ pc = "event" /\ events = {}
    /\ idleAge # IdleLimit
    /\ ~up /\ deadAge = DeadLimit
    /\ CloseAll
    /\ why' = "lost"
    /\ UNCHANGED <<clientVars, wire, stop, up, timeVars>>

LossExit ==
    /\ pc = "event" /\ events = {}
    /\ idleAge # IdleLimit
    /\ ~up /\ deadAge = DeadLimit /\ ~Pending
    /\ CloseAll
    /\ why' = "lost"
    /\ UNCHANGED <<clientVars, wire, stop, up, timeVars>>

NextPass ==
    /\ pc = "event" /\ events = {}
    /\ idleAge # IdleLimit
    /\ \/ up /\ UNCHANGED deadAge
       \/ ~up /\ deadAge = NotNoticed /\ deadAge' = 0
       \/ ~up /\ deadAge # NotNoticed /\ (deadAge < DeadLimit \/ Pending)
          /\ UNCHANGED deadAge
    /\ pc' = "select"
    /\ UNCHANGED <<clientVars, wire, sessionVars, events, mask, cur, stop, up,
                   idleAge, why>>

----------------------------------------------------------------------------
(* Around the loop: time, the signal handler and the network. *)
Tick ==
    /\ pc # "down"
    /\ idleAge' = IF idleAge < IdleLimit THEN idleAge + 1 ELSE idleAge
    /\ deadAge' = IF deadAge < DeadLimit THEN deadAge + 1 ELSE deadAge
    /\ timeVars' # timeVars
    /\ UNCHANGED <<clientVars, wire, sessionVars, loopVars, stop, up, why>>

SetStop ==
    /\ pc # "down" /\ ~stop
    /\ stop' = TRUE
    /\ UNCHANGED <<clientVars, wire, sessionVars, loopVars, up, timeVars, why>>

Drop ==
    /\ pc # "down" /\ up
    /\ up' = FALSE
    /\ UNCHANGED <<clientVars, wire, sessionVars, loopVars, stop, timeVars, why>>

Handle(c) ==
    \/ Accept(c) \/ Recv(c) \/ EndOfFile(c) \/ RecvReset(c) \/ WriteOnly(c)
    \/ DispatchHere(c) \/ CallHolder(c) \/ HolderReturns(c)
    \/ DispatchRaises(c) \/ NoMoreLines(c)
    \/ Send(c) \/ SendBroken(c) \/ NothingToSend(c)

Loop == Select \/ Stopped \/ IdleExit \/ LossExit \/ NextPass
          \/ \E c \in Conns : Handle(c)

Client(c) == SendPiece(c) \/ RecvPiece(c) \/ Fail(c) \/ Finish(c)

Next ==
    \/ Loop
    \/ \E c \in Conns : Connect(c) \/ Client(c) \/ HangUp(c)
    \/ Tick \/ SetStop \/ Drop \/ Hang

Spec == Init /\ [][Next]_vars

(* The loop is one thread that runs unless it is hung: a holder call that  *)
(* hangs ends with the connection, which nothing obliges to end.  Time     *)
(* passes; a client that is not stuck writes its requests and reads its    *)
(* replies.                                                                *)
FairSpec ==
    /\ Spec
    /\ WF_vars(Loop) /\ WF_vars(Tick)
    /\ \A c \in Conns \ Stuck : WF_vars(Client(c))

----------------------------------------------------------------------------
Codes == {"result", "error", "method_not_found", "parse_error",
          "connection_lost"}
LinePieces == [req : Nat, end : BOOLEAN]
ReplyPieces == [req : Nat, code : Codes, end : BOOLEAN]

(* The types; in particular no socket buffer overflows, and the loop is at *)
(* one of its points with an event of a connection or of the listener.     *)
TypeOK ==
    /\ script \in [Conns -> UNION {Scripts[c] : c \in Conns}]
    /\ \A c \in Conns : script[c] \in Scripts[c]
    /\ cl \in [Conns -> {"new", "open", "done", "quit", "failed"}]
    /\ sent \in [Conns -> Nat] /\ answered \in [Conns -> Nat]
    /\ \A c \in Conns :
          /\ sent[c] <= 2 * Len(script[c]) /\ answered[c] <= Len(script[c])
          /\ got[c] \in Seq(ReplyPieces) /\ wbuf[c] \in Seq(ReplyPieces)
          /\ c2s[c] \in Seq(LinePieces) /\ rbuf[c] \in Seq(LinePieces)
          /\ s2c[c] \in Seq(ReplyPieces)
          /\ Len(c2s[c]) <= SockBuf /\ Len(s2c[c]) <= SockBuf
    /\ sock \in [Conns -> {"none", "backlog", "open", "closed"}]
    /\ sessions \subseteq Conns
    /\ pc \in {"select", "event", "dispatch", "calling", "hung", "send", "down"}
    /\ events \subseteq Conns \union {Listener}
    /\ mask \in [read : SUBSET Conns, write : SUBSET Conns]
    /\ cur \in Conns \union {Listener}
    /\ stop \in BOOLEAN /\ up \in BOOLEAN
    /\ idleAge \in 0..Untimed /\ deadAge \in 0..NotNoticed
    /\ why \in {"running", "stop", "idle", "lost", "reset", "broken_pipe",
                "bad_request"}

(* Everything sent towards a client, in order. *)
Stream(c) == got[c] \o s2c[c] \o wbuf[c]

(* A client that pipelines requests reads one whole reply per request, in  *)
(* the order it sent them, however recv and send cut the lines and however *)
(* the loop switches between clients; no reply of an open session is lost. *)
(* The exit for a lost connection gives every answer away first: a client  *)
(* that still waits then has, or can still read, each reply made for it.   *)
RepliesKept ==
    \A c \in Conns :
        /\ \A i \in DOMAIN Stream(c) :
              /\ Stream(c)[i].req = (i + 1) \div 2
              /\ Stream(c)[i].end <=> i % 2 = 0
        /\ sock[c] = "open" => Len(Stream(c)) = 2 * answered[c]
        /\ why = "lost" /\ cl[c] # "quit" =>
              Len(got[c]) + Len(s2c[c]) = 2 * answered[c]

LossTold == \E c \in Conns : \E i \in DOMAIN Stream(c) :
                Stream(c)[i].code = "connection_lost"

(* Connection death is honest: once the loop has noticed the loss, or told *)
(* any client of it, every request it can read is answered connection_lost *)
(* and none reaches the holder (cycle-14 spec, item 6).                    *)
HonestAfterLoss ==
    [][LossTold \/ deadAge # NotNoticed =>
        /\ pc' \in {"calling", "hung"} => pc \in {"calling", "hung"}
        /\ \A c \in Conns : answered'[c] > answered[c] =>
              wbuf'[c][Len(wbuf'[c])].code \in
                  IF pc \in {"calling", "hung"} THEN Codes
                  ELSE {"connection_lost", "parse_error"}]_vars

(* The loop waits in a call for a remote that is silent and connected.     *)
Hung == pc = "hung" /\ up

(* A client that waits is answered or sees its connection closed, unless   *)
(* the loop hangs for ever in a call made for it or for another client.    *)
NobodyWaitsForever ==
    \/ \A c \in Conns \ Stuck : cl[c] = "open" ~> ClientClosed(c)
    \/ <>[]Hung

(* Ctrl-C and SIGTERM end the broker; the loss of the connection ends it   *)
(* unless a reply waits for a client that has stopped reading; and with an *)
(* idle timeout it does not outlive its clients, even one that stays       *)
(* connected and never reads: being writable is no activity.  A loop that  *)
(* hangs for ever in a call tests none of these and ends for none of them. *)
BrokerEnds ==
    \/ /\ stop ~> pc = "down"
       /\ ~up ~> (pc = "down" \/ \E c \in Stuck \cap sessions : wbuf[c] # <<>>)
       /\ idleAge # Untimed ~> pc = "down"
    \/ <>[]Hung

(* serve_forever: "Block until stop_event is set or idle_timeout elapses", *)
(* or the connection is lost (spec item 6).                                *)
EndsForAReason == why \in {"running", "stop", "idle", "lost"}
=============================================================================
