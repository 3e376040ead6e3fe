------------------------ MODULE BrokerServer_proofs ------------------------
(***************************************************************************)
(* For any number of clients, any requests, any size of the sockets and    *)
(* any cut of the lines: every client reads whole replies in the order of  *)
(* its requests, nothing is told of a live connection that only a dead one *)
(* justifies, and the exit for a lost connection leaves no reply behind.   *)
(***************************************************************************)
EXTENDS BrokerServer, SequenceTheorems, TLAPS

(* The length, a definition the provers need not look into.                *)
Size(s) == Len(s)

LEMMA SizeIsNat ==
    ASSUME NEW S, NEW s \in Seq(S) PROVE Size(s) \in Nat /\ (Size(s) = 0 <=> s = << >>)
BY LenProperties, EmptySeq DEF Size

(* s goes on where a stream stands after n pieces: two pieces for every    *)
(* request, the second one ends the line.  Requests and replies alike.     *)
Follows(s, n) ==
    \A i \in 1..Size(s) :
        /\ s[i].req = (n + i + 1) \div 2
        /\ s[i].end <=> (n + i) % 2 = 0

(* The reply pieces there can be: none tells of a loss that has not come.  *)
OwnPieces == {p \in ReplyPieces : up => p.code # "connection_lost"}

Made(c) == Size(got[c]) + Size(s2c[c]) + Size(wbuf[c])

(* The types that change from step to step.                                *)
Types ==
    /\ script \in [Conns -> UNION {Scripts[c] : c \in Conns}]
    /\ \A c \in Conns : script[c] \in Scripts[c]
    /\ cl \in [Conns -> {"new", "open", "done", "quit", "failed"}]
    /\ sent \in [Conns -> Nat] /\ answered \in [Conns -> Nat]
    /\ got \in [Conns -> Seq(OwnPieces)] /\ s2c \in [Conns -> Seq(OwnPieces)]
    /\ wbuf \in [Conns -> Seq(OwnPieces)]
    /\ c2s \in [Conns -> Seq(LinePieces)] /\ rbuf \in [Conns -> Seq(LinePieces)]
    /\ sock \in [Conns -> {"none", "backlog", "open", "closed"}]
    /\ sessions \subseteq Conns
    /\ pc \in {"select", "event", "dispatch", "calling", "hung", "send", "down"}
    /\ events \subseteq Conns \union {Listener}
    /\ mask \in [read : SUBSET Conns, write : SUBSET Conns]
    /\ cur \in Conns \union {Listener}
    /\ stop \in BOOLEAN /\ up \in BOOLEAN
    /\ idleAge \in 0..Untimed /\ deadAge \in 0..NotNoticed
    /\ why \in {"running", "stop", "idle", "lost", "reset", "broken_pipe", "bad_request"}

(* What is on its way to a client, in the order of its requests; as long   *)
(* as the connection is not closed it is two pieces for every answer.      *)
Replies(c) ==
    /\ Follows(got[c], 0)
    /\ Follows(s2c[c], Size(got[c]))
    /\ Follows(wbuf[c], Size(got[c]) + Size(s2c[c]))
    /\ Size(s2c[c]) <= SockBuf
    /\ Made(c) <= 2 * answered[c]
    /\ sock[c] # "closed" => Made(c) = 2 * answered[c]
    /\ sock[c] = "closed" => wbuf[c] = << >>

(* What is on its way to the loop goes on where the last answer stands.    *)
Requests(c) ==
    /\ 2 * answered[c] <= sent[c] /\ sent[c] <= 2 * Size(script[c])
    /\ Size(c2s[c]) <= SockBuf
    /\ sock[c] # "closed" =>
         /\ 2 * answered[c] + Size(rbuf[c]) + Size(c2s[c]) = sent[c]
         /\ Follows(rbuf[c], 2 * answered[c])
         /\ Follows(c2s[c], 2 * answered[c] + Size(rbuf[c]))
    /\ sock[c] \in {"none", "backlog"} => answered[c] = 0 /\ rbuf[c] = << >>
    /\ sock[c] = "none" => sent[c] = 0

(* The two ends of a connection.                                           *)
Ends(c) ==
    /\ cl[c] = "new" => sock[c] = "none"
    /\ sock[c] = "none" => cl[c] \in {"new", "failed"}
    /\ cl[c] = "failed" => sock[c] \in {"none", "closed"}
    /\ cl[c] = "done" => Size(got[c]) = 2 * Size(script[c])
    /\ c \in sessions <=> sock[c] = "open"
    /\ pc = "down" => sock[c] \in {"none", "closed"}

(* A client whose connection the running loop has closed, or the exit for  *)
(* a lost connection, has all its replies, unless it went away.            *)
Flushed(c) ==
    sock[c] = "closed" /\ (pc # "down" \/ why = "lost") /\ cl[c] # "quit" =>
        Size(got[c]) + Size(s2c[c]) = 2 * answered[c]

(* Events and the connection being handled are of open connections; one    *)
(* that select found readable still has bytes or an end of file.           *)
AtLoop ==
    /\ \A c \in Conns : c \in events => sock[c] = "open"
    /\ \A c \in Conns : c \in events /\ c \in mask.read => c2s[c] # << >> \/ ClientClosed(c)
    /\ pc \in {"dispatch", "calling", "hung", "send"} => cur \in Conns /\ sock[cur] = "open"
    /\ pc \in {"calling", "hung"} => HasLine(cur)
    /\ why = "running" <=> pc # "down"
    /\ deadAge # NotNoticed => ~up

ConnInv(c) == Replies(c) /\ Requests(c) /\ Ends(c) /\ Flushed(c)

ServerInv == Types /\ AtLoop /\ \A c \in Conns : ConnInv(c)
-----------------------------------------------------------------------------
(* Sequences that go on a stream: joined, cut and taken from.              *)
LEMMA FollowsConcat ==
    ASSUME NEW S, NEW s \in Seq(S), NEW t \in Seq(S), NEW n \in Nat,
           Follows(s, n), Follows(t, n + Size(s))
    PROVE  /\ s \o t \in Seq(S)
           /\ Size(s \o t) = Size(s) + Size(t)
           /\ Follows(s \o t, n)
<1> USE DEF Size
<1>1. /\ s \o t \in Seq(S) /\ Size(s \o t) = Size(s) + Size(t)
      /\ \A i \in 1..(Size(s) + Size(t)) :
            (s \o t)[i] = IF i <= Size(s) THEN s[i] ELSE t[i - Size(s)]
    BY ConcatProperties
<1>2. Size(s) \in Nat /\ Size(t) \in Nat
    BY LenProperties
<1>3. ASSUME NEW i \in 1..Size(s \o t)
      PROVE  /\ (s \o t)[i].req = (n + i + 1) \div 2
             /\ (s \o t)[i].end <=> (n + i) % 2 = 0
    <2>1. CASE i <= Size(s)
        BY <1>1, <1>2, <2>1 DEF Follows
    <2>2. CASE ~(i <= Size(s))
        <3> DEFINE k == i - Size(s)
        <3>1. k \in 1..Size(t) /\ n + Size(s) + k = n + i
            BY <1>1, <1>2, <2>2
        <3>2. (s \o t)[i] = t[k]
            BY <1>1, <2>2
        <3> HIDE DEF k
        <3> QED
            BY <3>1, <3>2 DEF Follows
    <2> QED
        BY <2>1, <2>2
<1> QED
    BY <1>1, <1>3 DEF Follows

LEMMA FollowsCut ==
    ASSUME NEW S, NEW s \in Seq(S), NEW k \in 0..Size(s)
    PROVE  /\ Take(s, k) \in Seq(S) /\ Size(Take(s, k)) = k
           /\ Rest(s, k) \in Seq(S) /\ Size(Rest(s, k)) = Size(s) - k
           /\ \A n \in Nat : Follows(s, n) =>
                 Follows(Take(s, k), n) /\ Follows(Rest(s, k), n + k)
<1> USE DEF Size
<1>1. Size(s) \in Nat /\ k \in Nat /\ \A i \in 1..Size(s) : s[i] \in S
    BY LenProperties
<1>2. /\ Take(s, k) \in Seq(S) /\ Size(Take(s, k)) = k
      /\ \A i \in 1..k : Take(s, k)[i] = s[i]
    <2>1. \A i \in 1..k : s[i] \in S
        BY <1>1
    <2> QED
        BY <1>1, <2>1, SubSeqProperties DEF Take
<1>3. /\ Rest(s, k) \in Seq(S) /\ Size(Rest(s, k)) = Size(s) - k
      /\ \A i \in 1..(Size(s) - k) : Rest(s, k)[i] = s[k + i]
    <2>1. \A i \in (k + 1)..Size(s) : s[i] \in S
        BY <1>1
    <2>2. /\ SubSeq(s, k + 1, Size(s)) \in Seq(S)
          /\ Size(SubSeq(s, k + 1, Size(s))) =
                IF k + 1 <= Size(s) THEN Size(s) - (k + 1) + 1 ELSE 0
          /\ \A i \in 1..(Size(s) - (k + 1) + 1) :
                SubSeq(s, k + 1, Size(s))[i] = s[(k + 1) + i - 1]
        BY <1>1, <2>1, SubSeqProperties
    <2> QED
        BY <1>1, <2>2 DEF Rest
<1>4. ASSUME NEW n \in Nat, Follows(s, n)
      PROVE  Follows(Take(s, k), n) /\ Follows(Rest(s, k), n + k)
    <2>1. ASSUME NEW i \in 1..Size(Take(s, k))
          PROVE  /\ Take(s, k)[i].req = (n + i + 1) \div 2
                 /\ Take(s, k)[i].end <=> (n + i) % 2 = 0
        <3>1. i \in 1..Size(s) /\ Take(s, k)[i] = s[i]
            BY <1>1, <1>2
        <3> QED
            BY <1>4, <3>1 DEF Follows
    <2>2. ASSUME NEW i \in 1..Size(Rest(s, k))
          PROVE  /\ Rest(s, k)[i].req = (n + k + i + 1) \div 2
                 /\ Rest(s, k)[i].end <=> (n + k + i) % 2 = 0
        <3> DEFINE j == k + i
        <3>1. j \in 1..Size(s) /\ n + k + i = n + j /\ Rest(s, k)[i] = s[j]
            BY <1>1, <1>3
        <3> HIDE DEF j
        <3> QED
            BY <1>4, <3>1 DEF Follows
    <2> QED
        BY <2>1, <2>2 DEF Follows
<1> QED
    BY <1>2, <1>3, <1>4

(* The first piece of s goes to the end of t, which s goes on.             *)
LEMMA FollowsMove ==
    ASSUME NEW S, NEW s \in Seq(S), s # << >>, NEW t \in Seq(S), NEW n \in Nat,
           Follows(t, n), Follows(s, n + Size(t))
    PROVE  /\ Append(t, Head(s)) \in Seq(S) /\ Size(Append(t, Head(s))) = Size(t) + 1
           /\ Tail(s) \in Seq(S) /\ Size(Tail(s)) = Size(s) - 1
           /\ Follows(Append(t, Head(s)), n) /\ Follows(Tail(s), n + Size(t) + 1)
<1> USE DEF Size
<1>1. Size(s) \in Nat /\ Size(t) \in Nat /\ Size(s) > 0
    BY LenProperties, EmptySeq
<1>2. /\ Head(s) \in S /\ Head(s) = s[1] /\ Tail(s) \in Seq(S) /\ Size(Tail(s)) = Size(s) - 1
      /\ \A i \in 1..Size(Tail(s)) : Tail(s)[i] = s[i + 1]
    BY HeadTailProperties
<1>3. /\ Append(t, Head(s)) \in Seq(S) /\ Size(Append(t, Head(s))) = Size(t) + 1
      /\ \A i \in 1..Size(t) : Append(t, Head(s))[i] = t[i]
      /\ Append(t, Head(s))[Size(t) + 1] = Head(s)
    BY <1>2, AppendProperties
<1>4. Follows(Append(t, Head(s)), n)
    <2>1. ASSUME NEW i \in 1..Size(Append(t, Head(s)))
          PROVE  /\ Append(t, Head(s))[i].req = (n + i + 1) \div 2
                 /\ Append(t, Head(s))[i].end <=> (n + i) % 2 = 0
        <3>1. CASE i \in 1..Size(t)
            BY <1>3, <3>1 DEF Follows
        <3>2. CASE i = Size(t) + 1
            <4>1. 1 \in 1..Size(s) /\ n + Size(t) + 1 = n + i
                BY <1>1, <3>2
            <4>2. Append(t, Head(s))[i] = s[1]
                BY <1>2, <1>3, <3>2
            <4> HIDE <3>2
            <4> QED
                BY <4>1, <4>2 DEF Follows
        <3> QED
            BY <1>1, <1>3, <3>1, <3>2
    <2> QED
        BY <2>1 DEF Follows
<1>5. Follows(Tail(s), n + Size(t) + 1)
    <2>1. ASSUME NEW i \in 1..Size(Tail(s))
          PROVE  /\ Tail(s)[i].req = (n + Size(t) + 1 + i + 1) \div 2
                 /\ Tail(s)[i].end <=> (n + Size(t) + 1 + i) % 2 = 0
        <3> DEFINE j == i + 1
        <3>1. j \in 1..Size(s) /\ n + Size(t) + 1 + i = n + Size(t) + j /\ Tail(s)[i] = s[j]
            BY <1>1, <1>2
        <3> HIDE DEF j
        <3> QED
            BY <3>1 DEF Follows
    <2> QED
        BY <2>1 DEF Follows
<1> QED
    BY <1>2, <1>3, <1>4, <1>5

LEMMA PieceIs ==
    ASSUME NEW k \in Nat
    PROVE  /\ Piece(k) \in LinePieces
           /\ Piece(k).req = (k + 1) \div 2
           /\ Piece(k).end <=> k % 2 = 0
<1> DEFINE r == (k + 1) \div 2
           x == [req |-> r, end |-> FALSE]
           y == [req |-> r, end |-> TRUE]
<1>1. Line(r)[1] = x /\ Line(r)[2] = y
    BY DEF Line
<1>2. x \in LinePieces /\ x.req = r /\ ~x.end /\ y \in LinePieces /\ y.req = r /\ y.end
    BY DEF LinePieces
<1>3. Piece(k) = Line(r)[2 - (k % 2)]
    BY DEF Piece
<1> HIDE DEF x, y
<1>4. CASE k % 2 = 0
    <2>1. Piece(k) = y
        BY <1>1, <1>3, <1>4
    <2> QED
        BY <1>2, <1>4, <2>1
<1>5. CASE k % 2 = 1
    <2>1. Piece(k) = x
        BY <1>1, <1>3, <1>5
    <2> QED
        BY <1>2, <1>5, <2>1
<1> QED
    BY <1>4, <1>5

(* What a client writes goes on what it has written.                       *)
LEMMA PieceFollows ==
    ASSUME NEW s \in Seq(LinePieces), NEW n \in Nat, Follows(s, n)
    PROVE  LET p == Piece(n + Size(s) + 1)
           IN  /\ Append(s, p) \in Seq(LinePieces)
               /\ Size(Append(s, p)) = Size(s) + 1
               /\ Follows(Append(s, p), n)
<1> USE DEF Size
<1> DEFINE k == n + Size(s) + 1
           p == Piece(k)
<1>1. Size(s) \in Nat /\ k \in Nat
    BY LenProperties
<1>2. p \in LinePieces /\ p.req = (k + 1) \div 2 /\ (p.end <=> k % 2 = 0)
    BY <1>1, PieceIs
<1> HIDE DEF p
<1>4. /\ Append(s, p) \in Seq(LinePieces) /\ Size(Append(s, p)) = Size(s) + 1
      /\ \A i \in 1..Size(s) : Append(s, p)[i] = s[i]
      /\ Append(s, p)[Size(s) + 1] = p
    BY <1>2, AppendProperties
<1>5. Follows(Append(s, p), n)
    <2>1. ASSUME NEW i \in 1..Size(Append(s, p))
          PROVE  /\ Append(s, p)[i].req = (n + i + 1) \div 2
                 /\ Append(s, p)[i].end <=> (n + i) % 2 = 0
        <3>1. CASE i \in 1..Size(s)
            BY <1>4, <3>1 DEF Follows
        <3>2. CASE i = Size(s) + 1
            BY <1>1, <1>2, <1>4, <3>2
        <3> QED
            BY <1>1, <1>4, <3>1, <3>2
    <2> QED
        BY <2>1 DEF Follows
<1> QED
    BY <1>4, <1>5 DEF p

LEMMA PairIsSeq == ASSUME NEW S, NEW x \in S, NEW y \in S PROVE << x, y >> \in Seq(S)
OBVIOUS

(* A reply to the next request goes on the replies to those before.        *)
LEMMA ReplyFollows ==
    ASSUME NEW a \in Nat, NEW code \in Codes, up => code # "connection_lost"
    PROVE  /\ Reply(a + 1, code) \in Seq(OwnPieces)
           /\ Size(Reply(a + 1, code)) = 2
           /\ Reply(a + 1, code)[2].code = code
           /\ Follows(Reply(a + 1, code), 2 * a)
<1> USE DEF Size
<1> DEFINE x == [req |-> a + 1, code |-> code, end |-> FALSE]
           y == [req |-> a + 1, code |-> code, end |-> TRUE]
<1>1. x \in OwnPieces /\ y \in OwnPieces
    BY DEF OwnPieces, ReplyPieces
<1>2. Reply(a + 1, code) = << x, y >>
    BY DEF Reply
<1>3. x.req = a + 1 /\ ~x.end /\ y.req = a + 1 /\ y.end /\ y.code = code
    OBVIOUS
<1> HIDE DEF x, y
<1>4. Reply(a + 1, code) \in Seq(OwnPieces)
    BY <1>1, <1>2, PairIsSeq
<1>5. Size(Reply(a + 1, code)) = 2 /\ Reply(a + 1, code)[1] = x /\ Reply(a + 1, code)[2] = y
    BY <1>2
<1>6. (2 * a + 1 + 1) \div 2 = a + 1 /\ (2 * a + 1) % 2 = 1
      /\ (2 * a + 2 + 1) \div 2 = a + 1 /\ (2 * a + 2) % 2 = 0
    OBVIOUS
<1>7. Follows(Reply(a + 1, code), 2 * a)
    BY <1>3, <1>5, <1>6 DEF Follows
<1> QED
    BY <1>3, <1>4, <1>5, <1>7

(* The bytes read from a client begin with the line of its next request.   *)
LEMMA LineFollows ==
    ASSUME NEW c \in Conns, Types, Requests(c), sock[c] # "closed", HasLine(c)
    PROVE  NextReq(c) = answered[c] + 1 /\ Size(rbuf[c]) >= 2
<1> USE DEF Size
<1>1. rbuf[c] \in Seq(LinePieces) /\ answered[c] \in Nat /\ Size(rbuf[c]) \in Nat
    BY LenProperties DEF Types
<1>2. PICK i \in 1..Size(rbuf[c]) : rbuf[c][i].end
    BY <1>1, LenProperties DEF HasLine
<1>3. (2 * answered[c] + i) % 2 = 0
    BY <1>2 DEF Requests, Follows
<1>4. Size(rbuf[c]) >= 2
    BY <1>1, <1>2, <1>3
<1>5. Head(rbuf[c]) = rbuf[c][1] /\ 1 \in 1..Size(rbuf[c])
    BY <1>1, <1>4
<1>6. Head(rbuf[c]).req = (2 * answered[c] + 1 + 1) \div 2
    BY <1>5 DEF Requests, Follows
<1> QED
    BY <1>1, <1>4, <1>6 DEF NextReq
-----------------------------------------------------------------------------
LEMMA InitServerInv == Init => ServerInv
<1> SUFFICES ASSUME Init PROVE ServerInv
    OBVIOUS
<1>1. << >> \in Seq(OwnPieces) /\ << >> \in Seq(LinePieces)
    BY EmptySeq
<1>2. Types
    <2>1. /\ got \in [Conns -> Seq(OwnPieces)] /\ s2c \in [Conns -> Seq(OwnPieces)]
          /\ wbuf \in [Conns -> Seq(OwnPieces)]
          /\ c2s \in [Conns -> Seq(LinePieces)] /\ rbuf \in [Conns -> Seq(LinePieces)]
        BY <1>1 DEF Init
    <2>2. idleAge \in 0..Untimed /\ deadAge \in 0..NotNoticed
        BY BrokerServerAssumptions DEF Init, Untimed, NotNoticed
    <2>3. mask \in [read : SUBSET Conns, write : SUBSET Conns]
        BY DEF Init
    <2> QED
        BY <2>1, <2>2, <2>3 DEF Init, Types
<1>3. AtLoop
    BY BrokerServerAssumptions DEF Init, AtLoop, NotNoticed
<1>4. ASSUME NEW c \in Conns PROVE ConnInv(c)
    <2>1. /\ sent[c] = 0 /\ answered[c] = 0 /\ got[c] = << >> /\ s2c[c] = << >>
          /\ wbuf[c] = << >> /\ c2s[c] = << >> /\ rbuf[c] = << >>
          /\ sock[c] = "none" /\ cl[c] = "new" /\ sessions = {} /\ pc = "select"
        BY DEF Init
    <2>2. Size(script[c]) \in Nat
        <3>1. script[c] \in Seq(RequestKinds)
            BY BrokerServerAssumptions DEF Init
        <3> QED
            BY <3>1, SizeIsNat
    <2>4. Size(<< >>) = 0
        BY <1>1, SizeIsNat
    <2>3. \A n \in Nat : Follows(<< >>, n)
        BY <2>4 DEF Follows
    <2>5. Replies(c)
        BY <2>1, <2>3, <2>4, BrokerServerAssumptions DEF Replies, Made
    <2>6. Requests(c)
        BY <2>1, <2>2, <2>3, <2>4, BrokerServerAssumptions DEF Requests
    <2> QED
        BY <2>1, <2>5, <2>6 DEF ConnInv, Ends, Flushed
<1> QED
    BY <1>2, <1>3, <1>4 DEF ServerInv

(* A connection that a step does not concern.                              *)
Untouched(d) ==
    /\ script'[d] = script[d] /\ cl'[d] = cl[d] /\ sent'[d] = sent[d] /\ got'[d] = got[d]
    /\ c2s'[d] = c2s[d] /\ s2c'[d] = s2c[d] /\ sock'[d] = sock[d]
    /\ rbuf'[d] = rbuf[d] /\ wbuf'[d] = wbuf[d] /\ answered'[d] = answered[d]
    /\ d \in sessions' <=> d \in sessions

LEMMA ConnKept ==
    ASSUME NEW d \in Conns, ConnInv(d), Untouched(d), why' = why,
           pc' = "down" <=> pc = "down"
    PROVE  ConnInv(d)'
<1> USE DEF Untouched
<1>1. Replies(d)'
    BY DEF ConnInv, Replies, Made
<1>3. Requests(d)'
    BY DEF ConnInv, Requests
<1>2. Ends(d)' /\ Flushed(d)'
    BY DEF ConnInv, Ends, Flushed
<1> QED
    BY <1>1, <1>2, <1>3 DEF ConnInv

LEMMA OwnSame == up' = up => OwnPieces' = OwnPieces
BY DEF OwnPieces

(* The lengths the arithmetic is about.                                    *)
LEMMA Lengths ==
    ASSUME Types, NEW c \in Conns
    PROVE  /\ Size(got[c]) \in Nat /\ Size(s2c[c]) \in Nat /\ Size(wbuf[c]) \in Nat
           /\ Size(c2s[c]) \in Nat /\ Size(rbuf[c]) \in Nat /\ Size(script[c]) \in Nat
           /\ sent[c] \in Nat /\ answered[c] \in Nat
<1>1. script[c] \in Seq(RequestKinds)
    BY BrokerServerAssumptions DEF Types
<1> QED
    BY <1>1, SizeIsNat DEF Types

LEMMA EmptyFollows == Size(<< >>) = 0 /\ \A n : Follows(<< >>, n)
<1>1. Size(<< >>) = 0
    BY DEF Size
<1> QED
    BY <1>1 DEF Follows

-----------------------------------------------------------------------------
(* What the clients do.                                                    *)
LEMMA ConnectStep == ASSUME ServerInv, NEW c \in Conns, Connect(c) PROVE ServerInv'
<1> USE DEF ServerInv
<1>1. Types'
    BY OwnSame DEF Connect, Types, wire, loopVars, timeVars
<1>2. AtLoop'
    <2>1. /\ UNCHANGED <<c2s, rbuf, pc, events, mask, cur, up, deadAge, why>>
          /\ sock[c] = "none"
          /\ \A d \in Conns : sock[d] = "open" => sock'[d] = "open"
          /\ \A d \in Conns : d # c => cl'[d] = cl[d]
        BY DEF Connect, Types, wire, loopVars, timeVars, Ends, ConnInv
    <2>2. c \notin events
        BY <2>1 DEF AtLoop
    <2> QED
        BY <2>1, <2>2 DEF AtLoop, ClientClosed, HasLine
<1>3. ASSUME NEW d \in Conns, d # c PROVE ConnInv(d)'
    BY <1>3, ConnKept DEF Connect, Types, wire, loopVars, Untouched
<1>4. ConnInv(c)'
    <2>1. sock[c] = "none" /\ cl[c] = "new" /\ ConnInv(c)
        BY DEF Connect, ConnInv, Ends
    <2>2. Replies(c)' /\ Requests(c)'
        BY <2>1 DEF Connect, Types, wire, ConnInv, Replies, Requests, Made
    <2>3. Ends(c)' /\ Flushed(c)'
        BY <2>1 DEF Connect, Types, wire, loopVars, ConnInv, Ends, Flushed
    <2> QED
        BY <2>2, <2>3 DEF ConnInv
<1> QED
    BY <1>1, <1>2, <1>3, <1>4

LEMMA SendPieceStep == ASSUME ServerInv, NEW c \in Conns, SendPiece(c) PROVE ServerInv'
<1> USE DEF ServerInv
<1> DEFINE p == Piece(sent[c] + 1)
<1>1. /\ cl[c] = "open" /\ sock[c] # "closed" /\ sock[c] # "none"
      /\ sent[c] < 2 * Size(script[c]) /\ Size(c2s[c]) < SockBuf
      /\ sent' = [sent EXCEPT ![c] = @ + 1]
      /\ c2s' = [c2s EXCEPT ![c] = Append(@, p)]
      /\ UNCHANGED <<script, cl, got, s2c, sessionVars, loopVars, stop, up, timeVars, why>>
    BY DEF SendPiece, ConnInv, Ends, Size
<1> HIDE DEF p
<1>2. /\ Size(c2s[c]) \in Nat /\ Size(rbuf[c]) \in Nat /\ answered[c] \in Nat
      /\ sent[c] \in Nat /\ Size(script[c]) \in Nat
    BY Lengths
<1>3. /\ 2 * answered[c] + Size(rbuf[c]) + Size(c2s[c]) = sent[c]
      /\ Follows(c2s[c], 2 * answered[c] + Size(rbuf[c]))
    BY <1>1 DEF ConnInv, Requests
<1>4. /\ Append(c2s[c], p) \in Seq(LinePieces)
      /\ Size(Append(c2s[c], p)) = Size(c2s[c]) + 1
      /\ Follows(Append(c2s[c], p), 2 * answered[c] + Size(rbuf[c]))
    <2>1. c2s[c] \in Seq(LinePieces)
        BY DEF Types
    <2>3. 2 * answered[c] + Size(rbuf[c]) \in Nat
        BY <1>2
    <2>2. p = Piece(2 * answered[c] + Size(rbuf[c]) + Size(c2s[c]) + 1)
        BY <1>3 DEF p
    <2> QED
        BY <1>3, <2>1, <2>2, <2>3, PieceFollows
<1>5. /\ c2s' \in [Conns -> Seq(LinePieces)] /\ sent' \in [Conns -> Nat]
      /\ c2s'[c] = Append(c2s[c], p) /\ sent'[c] = sent[c] + 1
    <2>1. c2s \in [Conns -> Seq(LinePieces)] /\ sent \in [Conns -> Nat]
        BY DEF Types
    <2>2. c2s' \in [Conns -> Seq(LinePieces)] /\ c2s'[c] = Append(c2s[c], p)
        BY <1>1, <1>4, <2>1
    <2>3. sent' \in [Conns -> Nat] /\ sent'[c] = sent[c] + 1
        BY <1>1, <1>2, <2>1
    <2> QED
        BY <2>2, <2>3
<1>6. Types'
    BY <1>1, <1>5, OwnSame DEF Types, sessionVars, loopVars, timeVars
<1>7. AtLoop'
    <2>1. \A d \in Conns : c2s[d] # << >> => c2s'[d] # << >>
        <3>1. c2s'[c] # << >>
            BY <1>2, <1>4, <1>5
        <3>2. \A d \in Conns : d # c => c2s'[d] = c2s[d]
            BY <1>1 DEF Types
        <3> QED
            BY <3>1, <3>2
    <2> QED
        BY <1>1, <2>1 DEF AtLoop, sessionVars, loopVars, timeVars, ClientClosed, HasLine
<1>8. ASSUME NEW d \in Conns, d # c PROVE ConnInv(d)'
    BY <1>1, <1>8, ConnKept DEF Types, sessionVars, loopVars, Untouched
<1>9. ConnInv(c)'
    <2>1. Replies(c)'
        BY <1>1 DEF ConnInv, Replies, Made, sessionVars
    <2>2. /\ rbuf'[c] = rbuf[c] /\ answered'[c] = answered[c] /\ script'[c] = script[c]
          /\ sock'[c] = sock[c] /\ sock[c] # "closed" /\ sock[c] # "none"
          /\ Requests(c)
        BY <1>1 DEF Types, ConnInv, sessionVars
    <2>5. /\ Follows(c2s'[c], 2 * answered'[c] + Size(rbuf'[c]))
          /\ Size(c2s'[c]) = Size(c2s[c]) + 1 /\ Size(c2s'[c]) <= SockBuf
          /\ sent'[c] = sent[c] + 1 /\ sent'[c] <= 2 * Size(script'[c])
        BY <1>1, <1>2, <1>4, <1>5, <2>2, BrokerServerAssumptions
    <2>6. 2 * answered'[c] <= sent'[c] /\ 2 * answered'[c] + Size(rbuf'[c]) + Size(c2s'[c]) = sent'[c]
        <3>1. Size(c2s'[c]) = Size(c2s[c]) + 1 /\ sent'[c] = sent[c] + 1
            BY <2>5
        <3>3. 2 * answered[c] + Size(rbuf[c]) + Size(c2s[c]) = sent[c]
            BY <1>3
        <3>2. 2 * answered[c] <= sent[c] /\ answered'[c] = answered[c] /\ Size(rbuf'[c]) = Size(rbuf[c])
            BY <2>2 DEF Requests
        <3> QED
            BY <1>2, <3>1, <3>2, <3>3
    <2>7. sock'[c] \in {"none", "backlog"} => answered'[c] = 0 /\ rbuf'[c] = << >>
        BY <2>2 DEF Requests
    <2>8. Follows(rbuf'[c], 2 * answered'[c])
        BY <1>1, <2>2 DEF Requests
    <2>9. sock'[c] # "none"
        BY <2>2
    <2>3. Requests(c)'
        BY <2>5, <2>6, <2>7, <2>8, <2>9 DEF Requests
    <2>4. Ends(c)' /\ Flushed(c)'
        BY <1>1 DEF ConnInv, Ends, Flushed, sessionVars, loopVars
    <2> QED
        BY <2>1, <2>3, <2>4 DEF ConnInv
<1> QED
    BY <1>6, <1>7, <1>8, <1>9

LEMMA RecvPieceStep == ASSUME ServerInv, NEW c \in Conns, RecvPiece(c) PROVE ServerInv'
<1> USE DEF ServerInv
<1>1. /\ cl[c] = "open" /\ s2c[c] # << >>
      /\ got' = [got EXCEPT ![c] = Append(@, Head(s2c[c]))]
      /\ s2c' = [s2c EXCEPT ![c] = Tail(@)]
      /\ UNCHANGED <<script, cl, sent, c2s, sessionVars, loopVars, stop, up, timeVars, why>>
    BY DEF RecvPiece
<1>2. /\ Size(got[c]) \in Nat /\ Size(s2c[c]) \in Nat /\ Size(wbuf[c]) \in Nat
    BY Lengths
<1>3. Follows(got[c], 0) /\ Follows(s2c[c], 0 + Size(got[c]))
    <2>1. 0 + Size(got[c]) = Size(got[c])
        BY <1>2
    <2> QED
        BY <2>1 DEF ConnInv, Replies
<1>4. /\ got'[c] \in Seq(OwnPieces) /\ Size(got'[c]) = Size(got[c]) + 1
      /\ s2c'[c] \in Seq(OwnPieces) /\ Size(s2c'[c]) = Size(s2c[c]) - 1
      /\ Follows(got'[c], 0) /\ Follows(s2c'[c], Size(got'[c]))
    <2>1. got'[c] = Append(got[c], Head(s2c[c])) /\ s2c'[c] = Tail(s2c[c])
        BY <1>1 DEF Types
    <2>2. got[c] \in Seq(OwnPieces) /\ s2c[c] \in Seq(OwnPieces)
        BY DEF Types
    <2>3. /\ Append(got[c], Head(s2c[c])) \in Seq(OwnPieces)
          /\ Size(Append(got[c], Head(s2c[c]))) = Size(got[c]) + 1
          /\ Tail(s2c[c]) \in Seq(OwnPieces) /\ Size(Tail(s2c[c])) = Size(s2c[c]) - 1
          /\ Follows(Append(got[c], Head(s2c[c])), 0)
          /\ Follows(Tail(s2c[c]), 0 + Size(got[c]) + 1)
        BY <1>1, <1>3, <2>2, FollowsMove
    <2>4. 0 + Size(got[c]) + 1 = Size(got[c]) + 1
        BY <1>2
    <2> QED
        BY <2>1, <2>3, <2>4
<1>5. got' \in [Conns -> Seq(OwnPieces)] /\ s2c' \in [Conns -> Seq(OwnPieces)]
    BY <1>1, <1>4 DEF Types
<1>6. Types'
    BY <1>1, <1>5, OwnSame DEF Types, sessionVars, loopVars, timeVars
<1>7. AtLoop'
    BY <1>1 DEF AtLoop, sessionVars, loopVars, timeVars, ClientClosed, HasLine
<1>8. ASSUME NEW d \in Conns, d # c PROVE ConnInv(d)'
    BY <1>1, <1>8, ConnKept DEF Types, sessionVars, loopVars, Untouched
<1>9. ConnInv(c)'
    <2>1. Size(got'[c]) + Size(s2c'[c]) = Size(got[c]) + Size(s2c[c])
        <3> DEFINE g == Size(got'[c])
                   s == Size(s2c'[c])
        <3>1. g = Size(got[c]) + 1 /\ s = Size(s2c[c]) - 1
            BY <1>4
        <3> HIDE DEF g, s
        <3>2. g + s = Size(got[c]) + Size(s2c[c])
            BY <1>2, <3>1
        <3> QED
            BY <3>2 DEF g, s
    <2>6. /\ wbuf'[c] = wbuf[c] /\ answered'[c] = answered[c] /\ sock'[c] = sock[c]
          /\ Replies(c) /\ answered[c] \in Nat
        BY <1>1 DEF Types, ConnInv, sessionVars
    <2>2. Follows(wbuf'[c], Size(got'[c]) + Size(s2c'[c]))
        BY <2>1, <2>6 DEF Replies
    <2>3. Replies(c)'
        <3>1. Made(c)' = Made(c)
            BY <1>2, <1>4, <2>1, <2>6 DEF Made
        <3>2. Size(s2c'[c]) <= SockBuf
            BY <1>2, <1>4, <2>6, BrokerServerAssumptions DEF Replies
        <3> QED
            BY <1>4, <2>2, <2>6, <3>1, <3>2 DEF Replies
    <2>4. Requests(c)'
        BY <1>1 DEF ConnInv, Requests, sessionVars
    <2>5. Ends(c)' /\ Flushed(c)'
        BY <1>1, <2>1, <2>6 DEF ConnInv, Ends, Flushed, sessionVars, loopVars
    <2> QED
        BY <2>3, <2>4, <2>5 DEF ConnInv
<1> QED
    BY <1>6, <1>7, <1>8, <1>9

LEMMA LeaveStep ==
    ASSUME ServerInv, NEW c \in Conns, Fail(c) \/ Finish(c) \/ HangUp(c) PROVE ServerInv'
<1> USE DEF ServerInv
<1>1. /\ cl[c] = "open"
      /\ \/ cl' = [cl EXCEPT ![c] = "failed"] /\ sock[c] = "closed"
         \/ cl' = [cl EXCEPT ![c] = "done"] /\ Size(got[c]) = 2 * Size(script[c])
         \/ cl' = [cl EXCEPT ![c] = "quit"]
      /\ UNCHANGED <<script, sent, got, wire, sessionVars, loopVars, stop, up, timeVars, why>>
    BY DEF Fail, Finish, HangUp, Size
<1>2. Types'
    BY <1>1, OwnSame DEF Types, wire, sessionVars, loopVars, timeVars
<1>3. AtLoop'
    BY <1>1 DEF Types, AtLoop, wire, sessionVars, loopVars, timeVars, ClientClosed, HasLine
<1>4. ASSUME NEW d \in Conns, d # c PROVE ConnInv(d)'
    BY <1>1, <1>4, ConnKept DEF Types, wire, sessionVars, loopVars, Untouched
<1>5. ConnInv(c)'
    <2>1. Replies(c)' /\ Requests(c)'
        BY <1>1 DEF ConnInv, Replies, Requests, Made, wire, sessionVars
    <2>2. Ends(c)' /\ Flushed(c)'
        BY <1>1 DEF Types, ConnInv, Ends, Flushed, wire, sessionVars, loopVars
    <2> QED
        BY <2>1, <2>2 DEF ConnInv
<1> QED
    BY <1>2, <1>3, <1>4, <1>5

-----------------------------------------------------------------------------
(* Time, the signal and the network; and the loop's own turns.             *)
LEMMA AroundStep == ASSUME ServerInv, Tick \/ SetStop \/ Drop PROVE ServerInv'
<1> USE DEF ServerInv
<1>1. UNCHANGED <<clientVars, wire, sessionVars, loopVars, why>>
    BY DEF Tick, SetStop, Drop
<1>2. OwnPieces \subseteq OwnPieces' /\ up' \in BOOLEAN /\ (~up => ~up')
    <2>1. up' \in BOOLEAN /\ (~up => ~up')
        <3>1. up \in BOOLEAN
            BY DEF Types
        <3>2. CASE Tick \/ SetStop
            BY <3>1, <3>2 DEF Tick, SetStop
        <3>3. CASE Drop
            BY <3>3 DEF Drop
        <3> QED
            BY <3>2, <3>3
    <2> QED
        BY <2>1 DEF OwnPieces
<1>3. ASSUME NEW s \in Seq(OwnPieces) PROVE s \in Seq(OwnPieces')
    <2> DEFINE S == OwnPieces
               T == OwnPieces'
    <2>1. S \subseteq T /\ s \in Seq(S)
        BY <1>2, <1>3
    <2> HIDE DEF S, T
    <2>2. s \in Seq(T)
        BY <2>1, SeqMonotonic
    <2> QED
        BY <2>2 DEF T
<1>4. idleAge' \in 0..Untimed /\ deadAge' \in 0..NotNoticed /\ stop' \in BOOLEAN
    <2>1. IdleTimeout \in Nat /\ idleAge \in 0..Untimed /\ deadAge \in 0..NotNoticed /\ stop \in BOOLEAN
        BY BrokerServerAssumptions DEF Types
    <2>2. CASE Tick
        BY <2>1, <2>2 DEF Tick, Untimed, NotNoticed, IdleLimit, DeadLimit
    <2>3. CASE SetStop \/ Drop
        BY <2>1, <2>3 DEF SetStop, Drop, timeVars
    <2> QED
        BY <2>2, <2>3
<1>5. Types'
    <2>1. /\ got' \in [Conns -> Seq(OwnPieces')] /\ s2c' \in [Conns -> Seq(OwnPieces')]
          /\ wbuf' \in [Conns -> Seq(OwnPieces')]
        BY <1>1, <1>3 DEF Types, clientVars, wire, sessionVars
    <2> QED
        BY <1>1, <1>2, <1>4, <2>1 DEF Types, clientVars, wire, sessionVars, loopVars
<1>6. AtLoop'
    <2>1. deadAge' # NotNoticed => ~up'
        BY <1>2 DEF Tick, SetStop, Drop, AtLoop, timeVars, NotNoticed, DeadLimit, Types
    <2> QED
        BY <1>1, <2>1
        DEF AtLoop, clientVars, wire, sessionVars, loopVars, ClientClosed, HasLine
<1>7. ASSUME NEW d \in Conns PROVE ConnInv(d)'
    BY <1>1, ConnKept DEF clientVars, wire, sessionVars, loopVars, Untouched
<1> QED
    BY <1>5, <1>6, <1>7

LEMMA TurnStep == ASSUME ServerInv, Select \/ NextPass PROVE ServerInv'
<1> USE DEF ServerInv
<1>1. UNCHANGED <<clientVars, wire, sessionVars, stop, up, why>> /\ pc # "down" /\ pc' # "down"
    BY DEF Select, NextPass
<1>2. Types'
    <2>1. /\ idleAge' = idleAge /\ deadAge' \in {deadAge, 0}
          /\ pc' \in {"event", "select"} /\ cur' = cur
        BY DEF Select, NextPass, timeVars
    <2>4. idleAge' \in 0..Untimed /\ deadAge' \in 0..NotNoticed
        BY <2>1 DEF Types, NotNoticed
    <2>2. events' \subseteq Conns \union {Listener}
        BY DEF Select, NextPass, Types
    <2>3. mask' \in [read : SUBSET Conns, write : SUBSET Conns]
        <3>1. CASE Select
            BY <3>1 DEF Select
        <3>2. CASE NextPass
            BY <3>2 DEF NextPass, Types
        <3> QED
            BY <3>1, <3>2
    <2> QED
        BY <1>1, <2>1, <2>2, <2>3, <2>4, OwnSame DEF Types, clientVars, wire, sessionVars
<1>3. AtLoop'
    <2>1. CASE Select
        BY <1>1, <2>1, BrokerServerAssumptions
        DEF Select, AtLoop, clientVars, wire, sessionVars, timeVars, ClientClosed, HasLine
    <2>2. CASE NextPass
        BY <1>1, <2>2
        DEF NextPass, AtLoop, clientVars, wire, sessionVars, ClientClosed, HasLine
    <2> QED
        BY <2>1, <2>2
<1>4. ASSUME NEW d \in Conns PROVE ConnInv(d)'
    BY <1>1, ConnKept DEF clientVars, wire, sessionVars, Untouched
<1> QED
    BY <1>2, <1>3, <1>4
-----------------------------------------------------------------------------
(* What the loop does with a connection.                                   *)
LEMMA AcceptStep == ASSUME ServerInv, NEW c \in Conns, Accept(c) PROVE ServerInv'
<1> USE DEF ServerInv
<1>1. /\ pc = "event" /\ sock[c] = "backlog"
      /\ sock' = [sock EXCEPT ![c] = "open"] /\ sessions' = sessions \union {c}
      /\ events' = events \ {Listener}
      /\ UNCHANGED <<clientVars, wire, rbuf, wbuf, answered, pc, mask, cur, stop, up, timeVars, why>>
    BY DEF Accept
<1>2. Types'
    BY <1>1, OwnSame DEF Types, clientVars, wire, timeVars
<1>3. AtLoop'
    <2>1. \A d \in Conns : sock[d] = "open" => sock'[d] = "open"
        BY <1>1 DEF Types
    <2> QED
        BY <1>1, <2>1 DEF AtLoop, clientVars, wire, timeVars, ClientClosed, HasLine
<1>4. ASSUME NEW d \in Conns, d # c PROVE ConnInv(d)'
    BY <1>1, <1>4, ConnKept DEF Types, clientVars, wire, Untouched
<1>5. ConnInv(c)'
    <2>1. sock'[c] = "open" /\ ConnInv(c)
        BY <1>1 DEF Types
    <2>2. Replies(c)'
        BY <1>1, <2>1 DEF ConnInv, Replies, Made, clientVars, wire
    <2>3. Requests(c)'
        BY <1>1, <2>1 DEF ConnInv, Requests, clientVars, wire
    <2>4. Ends(c)' /\ Flushed(c)'
        BY <1>1, <2>1 DEF ConnInv, Ends, Flushed, clientVars
    <2> QED
        BY <2>2, <2>3, <2>4 DEF ConnInv
<1> QED
    BY <1>1, <1>2, <1>3, <1>4, <1>5

LEMMA RecvStep == ASSUME ServerInv, NEW c \in Conns, Recv(c) PROVE ServerInv'
<1> USE DEF ServerInv
<1>1. PICK n \in 1..Size(c2s[c]) :
          /\ rbuf' = [rbuf EXCEPT ![c] = @ \o Take(c2s[c], n)]
          /\ c2s' = [c2s EXCEPT ![c] = Rest(@, n)]
    BY DEF Recv, Size
<1>2. /\ pc = "event" /\ c \in events /\ sock[c] = "open"
      /\ events' = events \ {c} /\ cur' = c /\ pc' = "dispatch"
      /\ mask' = [mask EXCEPT !.read = @ \ {c}]
      /\ UNCHANGED <<clientVars, s2c, sock, sessions, wbuf, answered, stop, up, deadAge, why>>
    BY DEF Recv, Pick, AtLoop
<1> DEFINE t == Take(c2s[c], n)
           u == Rest(c2s[c], n)
           a == 2 * answered[c]
<1>3. /\ Size(rbuf[c]) \in Nat /\ Size(c2s[c]) \in Nat /\ a \in Nat /\ n \in Nat
      /\ n \in 0..Size(c2s[c]) /\ a + Size(rbuf[c]) \in Nat
    BY Lengths
<1>4. /\ rbuf[c] \in Seq(LinePieces) /\ c2s[c] \in Seq(LinePieces)
    BY DEF Types
<1>5. /\ a + Size(rbuf[c]) + Size(c2s[c]) = sent[c] /\ Size(c2s[c]) <= SockBuf
      /\ Follows(rbuf[c], a) /\ Follows(c2s[c], a + Size(rbuf[c]))
    BY <1>2 DEF ConnInv, Requests
<1>6. /\ t \in Seq(LinePieces) /\ Size(t) = n
      /\ u \in Seq(LinePieces) /\ Size(u) = Size(c2s[c]) - n
      /\ Follows(t, a + Size(rbuf[c])) /\ Follows(u, a + Size(rbuf[c]) + n)
    <2> HIDE DEF a
    <2> QED
        BY <1>3, <1>4, <1>5, FollowsCut
<1> HIDE DEF t, u, a
<1>7. /\ rbuf[c] \o t \in Seq(LinePieces) /\ Size(rbuf[c] \o t) = Size(rbuf[c]) + Size(t)
      /\ Follows(rbuf[c] \o t, a)
    BY <1>3, <1>4, <1>5, <1>6, FollowsConcat
<1>8. rbuf'[c] = rbuf[c] \o t /\ c2s'[c] = u
    BY <1>1 DEF Types, t, u
<1>9. Types'
    <2>1. rbuf' \in [Conns -> Seq(LinePieces)] /\ c2s' \in [Conns -> Seq(LinePieces)]
        BY <1>1, <1>6, <1>7 DEF Types, t, u
    <2>2. idleAge' \in 0..Untimed
        <3>1. idleAge' \in {Untimed, 0} /\ Untimed \in Nat
            BY BrokerServerAssumptions DEF Recv, Active, Untimed
        <3> QED
            BY <3>1
    <2>3. mask' \in [read : SUBSET Conns, write : SUBSET Conns]
        BY <1>2 DEF Types
    <2> QED
        BY <1>2, <2>1, <2>2, <2>3, OwnSame DEF Types, clientVars
<1>10. AtLoop'
    <2>1. \A d \in Conns : d # c => c2s'[d] = c2s[d]
        BY <1>1 DEF Types
    <2>2. mask'.read = mask.read \ {c}
        BY <1>2 DEF Types
    <2> QED
        BY <1>2, <2>1, <2>2 DEF AtLoop, clientVars, ClientClosed
<1>11. ASSUME NEW d \in Conns, d # c PROVE ConnInv(d)'
    BY <1>1, <1>2, <1>11, ConnKept DEF Types, clientVars, Untouched
<1>12. ConnInv(c)'
    <2>1. Replies(c)'
        BY <1>2 DEF ConnInv, Replies, Made, clientVars
    <2>2. Requests(c)'
        <3>1. Size(rbuf'[c]) = Size(rbuf[c]) + n /\ Size(c2s'[c]) = Size(c2s[c]) - n
            BY <1>6, <1>7, <1>8
        <3>2. /\ a + Size(rbuf'[c]) + Size(c2s'[c]) = sent[c] /\ Size(c2s'[c]) <= SockBuf
              /\ a + Size(rbuf'[c]) = a + Size(rbuf[c]) + n
            BY <1>3, <1>5, <3>1, BrokerServerAssumptions
        <3>3. Follows(rbuf'[c], a) /\ Follows(c2s'[c], a + Size(rbuf'[c]))
            BY <1>6, <1>7, <1>8, <3>2
        <3> QED
            BY <1>2, <3>2, <3>3 DEF ConnInv, Requests, clientVars, a
    <2>3. Ends(c)' /\ Flushed(c)'
        BY <1>2 DEF ConnInv, Ends, Flushed, clientVars
    <2> QED
        BY <2>1, <2>2, <2>3 DEF ConnInv
<1> QED
    BY <1>2, <1>9, <1>10, <1>11, <1>12

LEMMA EndOfFileStep == ASSUME ServerInv, NEW c \in Conns, EndOfFile(c) PROVE ServerInv'
<1> USE DEF ServerInv
<1>1. /\ pc = "event" /\ c \in events /\ c \in mask.read /\ sock[c] = "open"
      /\ c2s[c] = << >> /\ s2c[c] = << >>
      /\ sessions' = sessions \ {c} /\ sock' = [sock EXCEPT ![c] = "closed"]
      /\ wbuf' = [wbuf EXCEPT ![c] = << >>]
      /\ events' = events \ {c}
      /\ mask' = [mask EXCEPT !.read = @ \ {c}, !.write = @ \ {c}]
      /\ UNCHANGED <<clientVars, wire, rbuf, answered, pc, cur, stop, up, timeVars, why>>
    BY DEF EndOfFile, Without, AtLoop
<1>2. sock'[c] = "closed" /\ wbuf'[c] = << >>
    BY <1>1 DEF Types
<1>3. Types'
    <2>1. wbuf' \in [Conns -> Seq(OwnPieces)]
        BY <1>1, EmptySeq DEF Types
    <2>2. mask' \in [read : SUBSET Conns, write : SUBSET Conns]
        BY <1>1 DEF Types
    <2> QED
        BY <1>1, <2>1, <2>2, OwnSame DEF Types, clientVars, wire, timeVars
<1>4. AtLoop'
    <2>1. \A d \in Conns : d # c => sock'[d] = sock[d]
        BY <1>1 DEF Types
    <2>2. mask'.read = mask.read \ {c}
        BY <1>1 DEF Types
    <2> QED
        BY <1>1, <2>1, <2>2 DEF AtLoop, clientVars, wire, timeVars, ClientClosed
<1>5. ASSUME NEW d \in Conns, d # c PROVE ConnInv(d)'
    BY <1>1, <1>5, ConnKept DEF Types, clientVars, wire, Untouched
<1>6. ConnInv(c)'
    <2>1. /\ Size(got[c]) \in Nat /\ Size(s2c[c]) \in Nat /\ Size(wbuf[c]) \in Nat
          /\ Size(script[c]) \in Nat /\ sent[c] \in Nat /\ answered[c] \in Nat
        BY Lengths
    <2>2. /\ Size(got[c]) + Size(s2c[c]) + Size(wbuf[c]) = 2 * answered[c]
          /\ 2 * answered[c] <= sent[c] /\ sent[c] <= 2 * Size(script[c])
        BY <1>1 DEF ConnInv, Replies, Requests, Made
    <2>3. Size(s2c[c]) = 0 /\ Size(wbuf'[c]) = 0
        BY <1>1, <1>2, EmptyFollows
    <2>4. Replies(c)'
        <3>1. Made(c)' <= 2 * answered[c]
            BY <1>1, <2>1, <2>2, <2>3 DEF Made, clientVars, wire
        <3> QED
            BY <1>1, <1>2, <3>1, EmptyFollows DEF ConnInv, Replies, clientVars, wire
    <2>5. Requests(c)'
        BY <1>1, <1>2 DEF ConnInv, Requests, clientVars, wire
    <2>6. Ends(c)'
        BY <1>1, <1>2 DEF ConnInv, Ends, clientVars
    <2>7. Flushed(c)'
        <3>1. cl[c] = "done" \/ cl[c] = "quit"
            BY <1>1 DEF AtLoop, ClientClosed, ConnInv, Ends
        <3>2. CASE cl[c] = "done"
            <4>1. Size(got[c]) = 2 * Size(script[c])
                BY <3>2 DEF ConnInv, Ends
            <4>2. Size(got[c]) + Size(s2c[c]) = 2 * answered[c]
                BY <2>1, <2>2, <2>3, <4>1
            <4> QED
                BY <1>1, <4>2 DEF Flushed, clientVars, wire
        <3>3. CASE cl[c] = "quit"
            BY <1>1, <3>3 DEF Flushed, clientVars
        <3> QED
            BY <3>1, <3>2, <3>3
    <2> QED
        BY <2>4, <2>5, <2>6, <2>7 DEF ConnInv
<1> QED
    BY <1>1, <1>3, <1>4, <1>5, <1>6

LEMMA MoveStep ==
    ASSUME ServerInv, NEW c \in Conns,
           WriteOnly(c) \/ CallHolder(c) \/ NoMoreLines(c) \/ NothingToSend(c)
    PROVE  ServerInv'
<1> USE DEF ServerInv
<1>1. UNCHANGED <<clientVars, wire, sessionVars, stop, up, timeVars, why>>
    BY DEF WriteOnly, CallHolder, NoMoreLines, NothingToSend
<1>2. /\ pc # "down" /\ pc' \in {"send", "calling", "event"}
      /\ cur' \in {c, Listener} /\ (pc' \in {"send", "calling"} => cur' = c)
      /\ events' \subseteq events
    BY DEF WriteOnly, CallHolder, NoMoreLines, NothingToSend, Pick, Done
<1>3. /\ mask' \in [read : SUBSET Conns, write : SUBSET Conns]
      /\ mask'.read \subseteq mask.read
    <2>1. mask \in [read : SUBSET Conns, write : SUBSET Conns]
        BY DEF Types
    <2>2. CASE WriteOnly(c)
        BY <2>1, <2>2 DEF WriteOnly, Pick
    <2>3. CASE CallHolder(c) \/ NoMoreLines(c)
        BY <2>1, <2>3 DEF CallHolder, NoMoreLines
    <2>4. CASE NothingToSend(c)
        BY <2>1, <2>4 DEF NothingToSend, Done, Without
    <2> QED
        BY <2>2, <2>3, <2>4
<1>4. sock[c] = "open" /\ (pc' = "calling" => HasLine(c))
    BY DEF WriteOnly, CallHolder, NoMoreLines, NothingToSend, Pick, Done, AtLoop
<1>5. Types'
    BY <1>1, <1>2, <1>3, OwnSame DEF Types, clientVars, wire, sessionVars, timeVars
<1>6. AtLoop'
    BY <1>1, <1>2, <1>3, <1>4
    DEF AtLoop, clientVars, wire, sessionVars, timeVars, ClientClosed, HasLine
<1>7. ASSUME NEW d \in Conns PROVE ConnInv(d)'
    BY <1>1, <1>2, ConnKept DEF clientVars, wire, sessionVars, Untouched
<1> QED
    BY <1>5, <1>6, <1>7

(* An answer to the next request, by the loop itself or by the holder.     *)
LEMMA AnswerStep ==
    ASSUME ServerInv, NEW c \in Conns, NEW code \in Codes, Answer(c, code),
           HasLine(c), sock[c] = "open", cur = c, pc # "down", pc' = "dispatch",
           up => code # "connection_lost",
           UNCHANGED <<clientVars, wire, events, mask, cur, stop, up, timeVars, why>>
    PROVE  /\ ServerInv'
           /\ answered'[c] = answered[c] + 1 /\ \A d \in Conns : d # c => answered'[d] = answered[d]
           /\ Size(wbuf'[c]) # 0 /\ wbuf'[c][Size(wbuf'[c])].code = code
<1> USE DEF ServerInv
<1> DEFINE a == answered[c]
           rep == Reply(a + 1, code)
           rest == Rest(rbuf[c], 2)
           g == Size(got[c]) + Size(s2c[c])
<1>1. /\ Size(got[c]) \in Nat /\ Size(s2c[c]) \in Nat /\ Size(wbuf[c]) \in Nat /\ g \in Nat
      /\ Size(c2s[c]) \in Nat /\ Size(rbuf[c]) \in Nat /\ Size(script[c]) \in Nat
      /\ sent[c] \in Nat /\ a \in Nat
    BY Lengths
<1>2. NextReq(c) = a + 1 /\ Size(rbuf[c]) >= 2
    BY LineFollows DEF ConnInv
<1>3. /\ wbuf' = [wbuf EXCEPT ![c] = @ \o rep] /\ rbuf' = [rbuf EXCEPT ![c] = rest]
      /\ answered' = [answered EXCEPT ![c] = @ + 1] /\ UNCHANGED <<sock, sessions>>
    BY <1>2 DEF Answer
<1>4. /\ rep \in Seq(OwnPieces) /\ Size(rep) = 2 /\ rep[2].code = code /\ Follows(rep, 2 * a)
    BY <1>1, ReplyFollows
<1> HIDE DEF rep
<1>5. /\ g + Size(wbuf[c]) = 2 * a /\ Follows(wbuf[c], g)
      /\ 2 * a + Size(rbuf[c]) + Size(c2s[c]) = sent[c]
      /\ Follows(rbuf[c], 2 * a) /\ Follows(c2s[c], 2 * a + Size(rbuf[c]))
      /\ sent[c] <= 2 * Size(script[c])
    BY DEF ConnInv, Replies, Requests, Made
<1>6. wbuf[c] \in Seq(OwnPieces) /\ rbuf[c] \in Seq(LinePieces)
    BY DEF Types
<1>7. /\ wbuf[c] \o rep \in Seq(OwnPieces) /\ Size(wbuf[c] \o rep) = Size(wbuf[c]) + 2
      /\ Follows(wbuf[c] \o rep, g)
    <2> HIDE DEF g
    <2> QED
        BY <1>1, <1>4, <1>5, <1>6, FollowsConcat
<1>8. /\ rest \in Seq(LinePieces) /\ Size(rest) = Size(rbuf[c]) - 2 /\ Follows(rest, 2 * a + 2)
    <2>1. 2 \in 0..Size(rbuf[c]) /\ 2 * a \in Nat
        BY <1>1, <1>2
    <2> QED
        BY <1>5, <1>6, <2>1, FollowsCut
<1> HIDE DEF rest
<1>9. /\ wbuf'[c] = wbuf[c] \o rep /\ rbuf'[c] = rest /\ answered'[c] = a + 1
      /\ wbuf' \in [Conns -> Seq(OwnPieces)] /\ rbuf' \in [Conns -> Seq(LinePieces)]
      /\ \A d \in Conns : d # c => answered'[d] = answered[d]
    <2>1. /\ wbuf \in [Conns -> Seq(OwnPieces)] /\ rbuf \in [Conns -> Seq(LinePieces)]
          /\ answered \in [Conns -> Nat]
        BY DEF Types
    <2>2. wbuf'[c] = wbuf[c] \o rep /\ wbuf' \in [Conns -> Seq(OwnPieces)]
        BY <1>3, <1>7, <2>1
    <2>3. rbuf'[c] = rest /\ rbuf' \in [Conns -> Seq(LinePieces)]
        BY <1>3, <1>8, <2>1
    <2>4. answered'[c] = a + 1 /\ \A d \in Conns : d # c => answered'[d] = answered[d]
        BY <1>3, <2>1
    <2> QED
        BY <2>2, <2>3, <2>4
<1>10. answered' \in [Conns -> Nat]
    <2>2. a + 1 \in Nat
        BY <1>1
    <2>1. answered \in [Conns -> Nat] /\ a + 1 \in Nat
        BY <2>2 DEF Types
    <2> QED
        BY <1>3, <2>1
<1>11. Types'
    BY <1>3, <1>9, <1>10, OwnSame DEF Types, clientVars, wire, timeVars
<1>12. AtLoop'
    BY <1>3 DEF AtLoop, clientVars, wire, timeVars, ClientClosed
<1>13. ASSUME NEW d \in Conns, d # c PROVE ConnInv(d)'
    BY <1>3, <1>13, ConnKept DEF Types, clientVars, wire, Untouched
<1>14. ConnInv(c)'
    <2>1. Replies(c)'
        <3>1. Made(c)' = 2 * (a + 1)
            <4>1. Made(c)' = g + Size(wbuf'[c])
                BY <1>1 DEF Made, clientVars, wire
            <4>2. Size(wbuf'[c]) = Size(wbuf[c]) + 2
                BY <1>7, <1>9
            <4> HIDE DEF g
            <4> QED
                BY <1>1, <1>5, <4>1, <4>2
        <3>2. Made(c)' <= 2 * answered'[c] /\ Made(c)' = 2 * answered'[c]
            BY <1>1, <1>9, <3>1
        <3>3. Follows(wbuf'[c], g)
            BY <1>7, <1>9
        <3> QED
            BY <1>3, <3>2, <3>3 DEF ConnInv, Replies, clientVars, wire
    <2>2. Requests(c)'
        <3>1. Size(rbuf'[c]) = Size(rbuf[c]) - 2 /\ answered'[c] = a + 1
            BY <1>8, <1>9
        <3>2. /\ 2 * answered'[c] <= sent[c]
              /\ 2 * answered'[c] + Size(rbuf'[c]) + Size(c2s[c]) = sent[c]
              /\ 2 * answered'[c] = 2 * a + 2
              /\ 2 * answered'[c] + Size(rbuf'[c]) = 2 * a + Size(rbuf[c])
            BY <1>1, <1>2, <1>5, <3>1
        <3>3. Follows(rbuf'[c], 2 * answered'[c])
            BY <1>8, <1>9, <3>2
        <3>4. Follows(c2s[c], 2 * answered'[c] + Size(rbuf'[c]))
            BY <1>5, <3>2
        <3> QED
            BY <1>3, <3>2, <3>3, <3>4 DEF ConnInv, Requests, clientVars, wire
    <2>3. Ends(c)' /\ Flushed(c)'
        BY <1>3 DEF ConnInv, Ends, Flushed, clientVars
    <2> QED
        BY <2>1, <2>2, <2>3 DEF ConnInv
<1>15. Size(wbuf'[c]) # 0 /\ wbuf'[c][Size(wbuf'[c])].code = code
    <2> DEFINE w == wbuf[c]
    <2>1. w \in Seq(OwnPieces) /\ wbuf'[c] = w \o rep /\ Size(w) \in Nat /\ Size(w \o rep) = Size(w) + 2
        BY <1>1, <1>6, <1>7, <1>9
    <2> HIDE DEF w
    <2>2. (w \o rep)[Size(w) + 2] = rep[2]
        BY <1>4, <2>1, ConcatProperties DEF Size
    <2>3. Size(w) + 2 # 0
        BY <2>1
    <2> QED
        BY <1>4, <2>1, <2>2, <2>3
<1> QED
    BY <1>9, <1>11, <1>12, <1>13, <1>14, <1>15

(* The last answer and what it says, when the loop answers a request.      *)
LEMMA DispatchStep ==
    ASSUME ServerInv, NEW c \in Conns, DispatchHere(c) \/ HolderReturns(c)
    PROVE  ServerInv'
<1> USE DEF ServerInv
<1>1. CASE DispatchHere(c)
    <2>1. /\ pc = "dispatch" /\ pc' = pc /\ cur = c /\ HasLine(c) /\ sock[c] = "open"
          /\ UNCHANGED <<clientVars, wire, events, mask, cur, stop, up, timeVars, why>>
        BY <1>1 DEF DispatchHere, loopVars, AtLoop
    <2>2. PICK code \in Codes : Answer(c, code) /\ (up => code # "connection_lost")
        BY <1>1 DEF DispatchHere, Codes
    <2> QED
        BY <2>1, <2>2, AnswerStep
<1>2. CASE HolderReturns(c)
    <2>1. /\ pc \in {"calling", "hung"} /\ pc' = "dispatch" /\ cur = c /\ HasLine(c) /\ sock[c] = "open"
          /\ UNCHANGED <<clientVars, wire, events, mask, cur, stop, up, timeVars, why>>
        BY <1>2 DEF HolderReturns, AtLoop
    <2>2. PICK code \in Codes : Answer(c, code) /\ code # "connection_lost"
        BY <1>2 DEF HolderReturns, Codes
    <2> QED
        BY <2>1, <2>2, AnswerStep
<1> QED
    BY <1>1, <1>2

LEMMA SendStep == ASSUME ServerInv, NEW c \in Conns, Send(c) PROVE ServerInv'
<1> USE DEF ServerInv
<1> DEFINE room == SockBuf - Size(s2c[c])
           n == IF room < Size(wbuf[c]) THEN room ELSE Size(wbuf[c])
           t == Take(wbuf[c], n)
           u == Rest(wbuf[c], n)
           g == Size(got[c])
<1>1. /\ s2c' = [s2c EXCEPT ![c] = @ \o t] /\ wbuf' = [wbuf EXCEPT ![c] = u]
      /\ pc = "send" /\ pc' = "event" /\ cur' = Listener /\ sock[c] = "open"
      /\ mask' = [mask EXCEPT !.read = @ \ {c}, !.write = @ \ {c}]
      /\ UNCHANGED <<clientVars, c2s, sock, sessions, rbuf, answered, events, stop, up, timeVars, why>>
    BY DEF Send, Done, Without, AtLoop, Size
<1>2. /\ g \in Nat /\ Size(s2c[c]) \in Nat /\ Size(wbuf[c]) \in Nat /\ answered[c] \in Nat
      /\ g + Size(s2c[c]) \in Nat /\ SockBuf \in Nat
    BY Lengths, BrokerServerAssumptions
<1>3. /\ Follows(s2c[c], g) /\ Follows(wbuf[c], g + Size(s2c[c])) /\ Size(s2c[c]) <= SockBuf
      /\ g + Size(s2c[c]) + Size(wbuf[c]) = 2 * answered[c]
    BY <1>1 DEF ConnInv, Replies, Made
<1>4. n \in 0..Size(wbuf[c]) /\ n <= room /\ n \in Nat
    BY <1>2, <1>3
<1> HIDE DEF n
<1>5. s2c[c] \in Seq(OwnPieces) /\ wbuf[c] \in Seq(OwnPieces)
    BY DEF Types
<1>6. /\ t \in Seq(OwnPieces) /\ Size(t) = n
      /\ u \in Seq(OwnPieces) /\ Size(u) = Size(wbuf[c]) - n
      /\ Follows(t, g + Size(s2c[c])) /\ Follows(u, g + Size(s2c[c]) + n)
    <2> HIDE DEF g
    <2> QED
        BY <1>2, <1>3, <1>4, <1>5, FollowsCut
<1> HIDE DEF t, u
<1>7. /\ s2c[c] \o t \in Seq(OwnPieces) /\ Size(s2c[c] \o t) = Size(s2c[c]) + Size(t)
      /\ Follows(s2c[c] \o t, g)
    <2> HIDE DEF g
    <2> QED
        BY <1>2, <1>3, <1>5, <1>6, FollowsConcat
<1>8. /\ s2c' \in [Conns -> Seq(OwnPieces)] /\ s2c'[c] = s2c[c] \o t
      /\ wbuf' \in [Conns -> Seq(OwnPieces)] /\ wbuf'[c] = u
    <2>1. s2c \in [Conns -> Seq(OwnPieces)] /\ wbuf \in [Conns -> Seq(OwnPieces)]
        BY DEF Types
    <2>2. s2c' \in [Conns -> Seq(OwnPieces)] /\ s2c'[c] = s2c[c] \o t
        BY <1>1, <1>7, <2>1
    <2>3. wbuf' \in [Conns -> Seq(OwnPieces)] /\ wbuf'[c] = u
        BY <1>1, <1>6, <2>1
    <2> QED
        BY <2>2, <2>3
<1>9. Types'
    <2>1. mask' \in [read : SUBSET Conns, write : SUBSET Conns]
        BY <1>1 DEF Types
    <2> QED
        BY <1>1, <1>8, <2>1, OwnSame DEF Types, clientVars, timeVars
<1>10. AtLoop'
    <2>1. mask'.read = mask.read \ {c}
        BY <1>1 DEF Types
    <2> QED
        BY <1>1, <2>1 DEF AtLoop, clientVars, timeVars, ClientClosed
<1>11. ASSUME NEW d \in Conns, d # c PROVE ConnInv(d)'
    BY <1>1, <1>11, ConnKept DEF Types, clientVars, Untouched
<1>12. ConnInv(c)'
    <2>1. Replies(c)'
        <3>1. Size(s2c'[c]) = Size(s2c[c]) + n /\ Size(wbuf'[c]) = Size(wbuf[c]) - n
            BY <1>6, <1>7, <1>8
        <3>2. Size(s2c'[c]) <= SockBuf
            BY <1>2, <1>4, <3>1
        <3>3. /\ g + Size(s2c'[c]) + Size(wbuf'[c]) = 2 * answered[c]
              /\ g + Size(s2c'[c]) = g + Size(s2c[c]) + n
            <4> HIDE DEF g
            <4> QED
                BY <1>2, <1>3, <1>4, <3>1
        <3>4. Made(c)' = 2 * answered'[c] /\ Made(c)' <= 2 * answered'[c]
            BY <1>1, <1>2, <3>3 DEF Made, clientVars
        <3>5. Follows(s2c'[c], g) /\ Follows(wbuf'[c], g + Size(s2c'[c]))
            BY <1>6, <1>7, <1>8, <3>3
        <3> QED
            BY <1>1, <3>2, <3>4, <3>5 DEF ConnInv, Replies, clientVars
    <2>2. Requests(c)'
        BY <1>1 DEF ConnInv, Requests, clientVars
    <2>3. Ends(c)' /\ Flushed(c)'
        BY <1>1 DEF ConnInv, Ends, Flushed, clientVars
    <2> QED
        BY <2>1, <2>2, <2>3 DEF ConnInv
<1> QED
    BY <1>1, <1>9, <1>10, <1>11, <1>12

-----------------------------------------------------------------------------
(* The ways out of the loop.  The one for a lost connection is taken only  *)
(* when no session has anything left to write.                             *)
LEMMA CloseStep ==
    ASSUME ServerInv, pc # "down", CloseAll,
           UNCHANGED <<clientVars, wire, stop, up, timeVars>>,
           why' \in {"stop", "idle", "lost", "reset", "broken_pipe", "bad_request"},
           why' = "lost" => ~Pending
    PROVE  ServerInv'
<1> USE DEF ServerInv
<1>1. /\ sock' = [c \in Conns |-> IF sock[c] = "none" THEN "none" ELSE "closed"]
      /\ sessions' = {} /\ wbuf' = [c \in Conns |-> << >>] /\ rbuf' = [c \in Conns |-> << >>]
      /\ pc' = "down" /\ events' = {} /\ mask' = [read |-> {}, write |-> {}]
      /\ cur' = Listener /\ answered' = answered
    BY DEF CloseAll
<1>2. Types'
    <2>1. /\ wbuf' \in [Conns -> Seq(OwnPieces)] /\ rbuf' \in [Conns -> Seq(LinePieces)]
        BY <1>1, EmptySeq
    <2>2. sock' \in [Conns -> {"none", "backlog", "open", "closed"}]
        BY <1>1
    <2>3. mask' \in [read : SUBSET Conns, write : SUBSET Conns]
        BY <1>1
    <2> QED
        BY <1>1, <2>1, <2>2, <2>3, OwnSame DEF Types, clientVars, wire, timeVars
<1>3. AtLoop'
    BY <1>1 DEF AtLoop, timeVars
<1>4. ASSUME NEW c \in Conns PROVE ConnInv(c)'
    <2>1. /\ Size(got[c]) \in Nat /\ Size(s2c[c]) \in Nat /\ Size(wbuf[c]) \in Nat
          /\ answered[c] \in Nat
        BY Lengths
    <2>2. /\ sock'[c] = IF sock[c] = "none" THEN "none" ELSE "closed"
          /\ wbuf'[c] = << >> /\ rbuf'[c] = << >> /\ Size(wbuf'[c]) = 0
        BY <1>1, EmptyFollows
    <2>3. Replies(c) /\ Requests(c) /\ Ends(c) /\ Flushed(c)
        BY DEF ConnInv
    <2>4. Size(got[c]) + Size(s2c[c]) + Size(wbuf[c]) <= 2 * answered[c]
        BY <2>3 DEF Replies, Made
    <2>5. sock[c] \in {"none", "backlog"} =>
              answered[c] = 0 /\ Size(got[c]) + Size(s2c[c]) + Size(wbuf[c]) = 0
        BY <2>1, <2>3, <2>4 DEF Requests
    <2>6. Made(c)' = Size(got[c]) + Size(s2c[c])
        BY <2>1, <2>2 DEF Made, clientVars, wire
    <2>7. Replies(c)'
        <3>1. Made(c)' <= 2 * answered[c]
            BY <2>1, <2>4, <2>6
        <3>2. ASSUME sock[c] = "none" PROVE Made(c)' = 2 * answered[c]
            <4>1. answered[c] = 0 /\ Size(got[c]) + Size(s2c[c]) = 0
                BY <2>1, <2>5, <3>2
            <4> QED
                BY <2>6, <4>1
        <3> QED
            BY <1>1, <2>2, <2>3, <3>1, <3>2, EmptyFollows DEF Replies, clientVars, wire
    <2>8. Requests(c)'
        BY <1>1, <2>2, <2>3 DEF Requests, clientVars, wire
    <2>9. Ends(c)'
        BY <1>1, <2>2, <2>3 DEF Ends, clientVars
    <2>10. Flushed(c)'
        <3>1. SUFFICES ASSUME sock'[c] = "closed", why' = "lost", cl[c] # "quit"
                       PROVE  Size(got[c]) + Size(s2c[c]) = 2 * answered[c]
            BY <1>1 DEF Flushed, clientVars, wire
        <3>2. CASE sock[c] = "open"
            <4>1. wbuf[c] = << >>
                BY <2>3, <3>1, <3>2 DEF Ends, Pending
            <4>2. Size(wbuf[c]) = 0 /\ Made(c) = 2 * answered[c]
                BY <2>3, <3>2, <4>1, EmptyFollows DEF Replies
            <4> QED
                BY <2>1, <4>2 DEF Made
        <3>3. CASE sock[c] = "closed"
            BY <2>3, <3>1, <3>3 DEF Flushed
        <3>4. CASE sock[c] = "none" \/ sock[c] = "backlog"
            <4>1. answered[c] = 0 /\ Size(got[c]) + Size(s2c[c]) + Size(wbuf[c]) = 0
                BY <2>5, <3>4
            <4> QED
                BY <2>1, <4>1
        <3> QED
            BY <3>2, <3>3, <3>4 DEF Types
    <2> QED
        BY <2>7, <2>8, <2>9, <2>10 DEF ConnInv
<1> QED
    BY <1>2, <1>3, <1>4

(* The remote falls silent in a call.                                      *)
LEMMA HangStep == ASSUME ServerInv, Hang PROVE ServerInv'
<1> USE DEF ServerInv
<1>1. /\ pc = "calling" /\ pc' = "hung"
      /\ UNCHANGED <<clientVars, wire, sessionVars, events, mask, cur, stop, up, timeVars, why>>
    BY DEF Hang
<1>2. Types'
    BY <1>1, OwnSame DEF Types, clientVars, wire, sessionVars, timeVars
<1>3. AtLoop'
    BY <1>1 DEF AtLoop, clientVars, wire, sessionVars, timeVars, ClientClosed, HasLine
<1>4. ASSUME NEW d \in Conns PROVE ConnInv(d)'
    <2>1. pc # "down" /\ pc' # "down"
        BY <1>1
    <2> QED
        BY <1>1, <2>1, ConnKept DEF clientVars, wire, sessionVars, Untouched
<1> QED
    BY <1>2, <1>3, <1>4

(* Every step keeps the invariant.                                         *)
LEMMA ServerInvStep == ServerInv /\ [Next]_vars => ServerInv'
<1> SUFFICES ASSUME ServerInv, [Next]_vars PROVE ServerInv'
    OBVIOUS
<1>1. CASE UNCHANGED vars
    <2>1. /\ UNCHANGED <<clientVars, wire, sessionVars, loopVars, stop, up, timeVars, why>>
        BY <1>1 DEF vars
    <2>2. Types'
        BY <2>1, OwnSame DEF ServerInv, Types, clientVars, wire, sessionVars, loopVars, timeVars
    <2>3. AtLoop'
        BY <2>1 DEF ServerInv, AtLoop, clientVars, wire, sessionVars, loopVars, timeVars,
                    ClientClosed, HasLine
    <2>4. ASSUME NEW d \in Conns PROVE ConnInv(d)'
        BY <2>1, ConnKept DEF ServerInv, clientVars, wire, sessionVars, loopVars, Untouched
    <2> QED
        BY <2>2, <2>3, <2>4 DEF ServerInv
<1>2. CASE Stopped \/ IdleExit \/ LossExit
    BY <1>2, CloseStep DEF Stopped, IdleExit, LossExit
<1>3. ASSUME NEW c \in Conns, RecvReset(c) \/ DispatchRaises(c) \/ SendBroken(c) PROVE ServerInv'
    BY <1>3, CloseStep DEF RecvReset, DispatchRaises, SendBroken
<1>4. ASSUME NEW c \in Conns, Handle(c) PROVE ServerInv'
    <2>1. CASE Accept(c) \/ Recv(c) \/ EndOfFile(c)
        BY <2>1, AcceptStep, RecvStep, EndOfFileStep
    <2>2. CASE WriteOnly(c) \/ CallHolder(c) \/ NoMoreLines(c) \/ NothingToSend(c)
        BY <2>2, MoveStep
    <2>3. CASE DispatchHere(c) \/ HolderReturns(c)
        BY <2>3, DispatchStep
    <2>4. CASE Send(c)
        BY <2>4, SendStep
    <2> QED
        BY <1>3, <1>4, <2>1, <2>2, <2>3, <2>4 DEF Handle
<1>5. ASSUME NEW c \in Conns, Connect(c) \/ Client(c) \/ HangUp(c) PROVE ServerInv'
    BY <1>5, ConnectStep, SendPieceStep, RecvPieceStep, LeaveStep DEF Client
<1> QED
    BY <1>1, <1>2, <1>4, <1>5, AroundStep, HangStep, TurnStep DEF Next, Loop

(* The inductive invariant holds of the server and its clients: streams in *)
(* both directions are counted and ordered, whatever cuts them.            *)
THEOREM ServerInvHolds == Spec => []ServerInv
BY InitServerInv, ServerInvStep, PTL DEF Spec

LEMMA ServerTypeOK == ServerInv => TypeOK
<1> SUFFICES ASSUME ServerInv PROVE TypeOK
    OBVIOUS
<1> USE DEF ServerInv
<1>1. OwnPieces \subseteq ReplyPieces
    BY DEF OwnPieces
<1>2. ASSUME NEW s \in Seq(OwnPieces) PROVE s \in Seq(ReplyPieces)
    <2> DEFINE S == OwnPieces
               T == ReplyPieces
    <2>1. S \subseteq T /\ s \in Seq(S)
        BY <1>1, <1>2
    <2> HIDE DEF S, T
    <2>2. s \in Seq(T)
        BY <2>1, SeqMonotonic
    <2> QED
        BY <2>2 DEF T
<1>3. ASSUME NEW c \in Conns
      PROVE  /\ sent[c] <= 2 * Len(script[c]) /\ answered[c] <= Len(script[c])
             /\ got[c] \in Seq(ReplyPieces) /\ wbuf[c] \in Seq(ReplyPieces)
             /\ c2s[c] \in Seq(LinePieces) /\ rbuf[c] \in Seq(LinePieces)
             /\ s2c[c] \in Seq(ReplyPieces)
             /\ Len(c2s[c]) <= SockBuf /\ Len(s2c[c]) <= SockBuf
    <2>1. sent[c] \in Nat /\ answered[c] \in Nat /\ Size(script[c]) \in Nat
        BY Lengths
    <2>2. /\ 2 * answered[c] <= sent[c] /\ sent[c] <= 2 * Size(script[c])
          /\ Size(c2s[c]) <= SockBuf /\ Size(s2c[c]) <= SockBuf
        BY DEF ConnInv, Requests, Replies
    <2>3. answered[c] <= Size(script[c])
        BY <2>1, <2>2
    <2>4. /\ sent[c] <= 2 * Len(script[c]) /\ answered[c] <= Len(script[c])
          /\ Len(c2s[c]) <= SockBuf /\ Len(s2c[c]) <= SockBuf
        BY <2>2, <2>3 DEF Size
    <2>5. /\ got[c] \in Seq(OwnPieces) /\ wbuf[c] \in Seq(OwnPieces) /\ s2c[c] \in Seq(OwnPieces)
          /\ c2s[c] \in Seq(LinePieces) /\ rbuf[c] \in Seq(LinePieces)
        BY DEF Types
    <2> QED
        BY <1>2, <2>4, <2>5
<1> QED
    BY <1>3 DEF Types, TypeOK

(* Everything on its way to a client is one stream.                        *)
LEMMA StreamFollows ==
    ASSUME ServerInv, NEW c \in Conns
    PROVE  /\ Stream(c) \in Seq(OwnPieces) /\ Size(Stream(c)) = Made(c)
           /\ Follows(Stream(c), 0)
<1> USE DEF ServerInv
<1> DEFINE g == got[c]
           s == s2c[c]
           w == wbuf[c]
<1>1. g \in Seq(OwnPieces) /\ s \in Seq(OwnPieces) /\ w \in Seq(OwnPieces)
    BY DEF Types
<1>2. Size(g) \in Nat /\ Size(s) \in Nat /\ Size(w) \in Nat
    BY Lengths
<1>3. Follows(g, 0) /\ Follows(s, Size(g)) /\ Follows(w, Size(g) + Size(s))
    BY DEF ConnInv, Replies
<1>4. Stream(c) = (g \o s) \o w /\ Made(c) = Size(g) + Size(s) + Size(w)
    BY DEF Stream, Made
<1> HIDE DEF g, s, w
<1>5. 0 + Size(g) = Size(g)
    BY <1>2
<1>6. g \o s \in Seq(OwnPieces) /\ Size(g \o s) = Size(g) + Size(s) /\ Follows(g \o s, 0)
    BY <1>1, <1>3, <1>5, FollowsConcat
<1>7. 0 + Size(g \o s) = Size(g) + Size(s)
    BY <1>2, <1>6
<1>8. /\ (g \o s) \o w \in Seq(OwnPieces) /\ Size((g \o s) \o w) = Size(g \o s) + Size(w)
      /\ Follows((g \o s) \o w, 0)
    BY <1>1, <1>3, <1>6, <1>7, FollowsConcat
<1> QED
    BY <1>4, <1>6, <1>8

LEMMA ServerRepliesKept == ServerInv => RepliesKept
<1> SUFFICES ASSUME ServerInv, NEW c \in Conns
             PROVE  /\ \A i \in DOMAIN Stream(c) :
                          /\ Stream(c)[i].req = (i + 1) \div 2
                          /\ Stream(c)[i].end <=> i % 2 = 0
                    /\ sock[c] = "open" => Len(Stream(c)) = 2 * answered[c]
                    /\ why = "lost" /\ cl[c] # "quit" =>
                          Len(got[c]) + Len(s2c[c]) = 2 * answered[c]
    BY DEF RepliesKept
<1> USE DEF ServerInv
<1>1. ASSUME NEW i \in DOMAIN Stream(c)
      PROVE  /\ Stream(c)[i].req = (i + 1) \div 2
             /\ Stream(c)[i].end <=> i % 2 = 0
    <2> DEFINE s == Stream(c)
    <2>1. s \in Seq(OwnPieces) /\ Follows(s, 0) /\ i \in DOMAIN s
        BY <1>1, StreamFollows
    <2> HIDE DEF s
    <2>2. i \in 1..Size(s) /\ i \in Nat
        BY <2>1, LenProperties DEF Size
    <2>3. 0 + i + 1 = i + 1 /\ 0 + i = i
        BY <2>2
    <2>4. s[i].req = (i + 1) \div 2 /\ (s[i].end <=> i % 2 = 0)
        BY <2>1, <2>2, <2>3 DEF Follows
    <2> QED
        BY <2>4 DEF s
<1>2. sock[c] = "open" => Len(Stream(c)) = 2 * answered[c]
    BY StreamFollows DEF Size, ConnInv, Replies
<1>3. ASSUME why = "lost", cl[c] # "quit"
      PROVE  Len(got[c]) + Len(s2c[c]) = 2 * answered[c]
    <2>1. pc = "down" /\ sock[c] \in {"none", "closed"}
        BY <1>3 DEF AtLoop, ConnInv, Ends
    <2>2. Size(got[c]) + Size(s2c[c]) = 2 * answered[c]
        <3>1. CASE sock[c] = "closed"
            BY <1>3, <3>1 DEF ConnInv, Flushed
        <3>2. CASE sock[c] = "none"
            <4>1. /\ answered[c] = 0
                  /\ Size(got[c]) + Size(s2c[c]) + Size(wbuf[c]) = 2 * answered[c]
                BY <3>2 DEF ConnInv, Requests, Replies, Made
            <4>2. Size(got[c]) \in Nat /\ Size(s2c[c]) \in Nat /\ Size(wbuf[c]) \in Nat
                BY Lengths
            <4> QED
                BY <4>1, <4>2
        <3> QED
            BY <2>1, <3>1, <3>2
    <2> QED
        BY <2>2 DEF Size
<1> QED
    BY <1>1, <1>2, <1>3

(* Nobody is told of a loss that has not come.                             *)
LEMMA LossIsReal == ServerInv /\ (LossTold \/ deadAge # NotNoticed) => ~up
<1> SUFFICES ASSUME ServerInv, LossTold \/ deadAge # NotNoticed PROVE ~up
    OBVIOUS
<1>1. CASE deadAge # NotNoticed
    BY <1>1 DEF ServerInv, AtLoop
<1>2. CASE LossTold
    <2>1. PICK c \in Conns : \E i \in DOMAIN Stream(c) : Stream(c)[i].code = "connection_lost"
        BY <1>2 DEF LossTold
    <2> DEFINE s == Stream(c)
    <2>2. PICK i \in DOMAIN s : s[i].code = "connection_lost"
        BY <2>1
    <2>3. s \in Seq(OwnPieces)
        BY StreamFollows
    <2> HIDE DEF s
    <2>4. i \in 1..Len(s)
        BY <2>3, LenProperties
    <2>5. s[i] \in OwnPieces
        BY <2>3, <2>4, ElementOfSeq
    <2> QED
        BY <2>2, <2>5 DEF OwnPieces
<1> QED
    BY <1>1, <1>2

LEMMA HonestStep ==
    ASSUME ServerInv, [Next]_vars, LossTold \/ deadAge # NotNoticed
    PROVE  /\ pc' \in {"calling", "hung"} => pc \in {"calling", "hung"}
           /\ \A c \in Conns : answered'[c] > answered[c] =>
                 wbuf'[c][Len(wbuf'[c])].code \in
                     IF pc \in {"calling", "hung"} THEN Codes
                     ELSE {"connection_lost", "parse_error"}
<1>1. ~up
    BY LossIsReal
<1>2. pc' \in {"calling", "hung"} => pc \in {"calling", "hung"}
    BY <1>1
    DEF Next, Loop, Handle, Client, vars, loopVars, Select, Stopped, IdleExit, LossExit, NextPass,
        CloseAll, Accept, Recv, EndOfFile, RecvReset, WriteOnly, Pick, DispatchHere, CallHolder,
        HolderReturns, DispatchRaises, NoMoreLines, Send, SendBroken, NothingToSend, Done,
        Connect, SendPiece, RecvPiece, Fail, Finish, HangUp, Tick, SetStop, Drop, Hang
<1>3. \/ answered' = answered
      \/ \E c \in Conns : DispatchHere(c) \/ HolderReturns(c)
    BY DEF Next, Loop, Handle, Client, vars, sessionVars, Select, Stopped, IdleExit, LossExit,
        NextPass, CloseAll, Accept, Recv, EndOfFile, RecvReset, WriteOnly, CallHolder,
        DispatchRaises, NoMoreLines, Send, SendBroken, NothingToSend, Connect, SendPiece,
        RecvPiece, Fail, Finish, HangUp, Tick, SetStop, Drop, Hang
<1>4. ASSUME NEW c \in Conns, answered'[c] > answered[c]
      PROVE  wbuf'[c][Len(wbuf'[c])].code \in
                 IF pc \in {"calling", "hung"} THEN Codes ELSE {"connection_lost", "parse_error"}
    <2>1. \A d \in Conns : answered[d] \in Nat
        BY DEF ServerInv, Types
    <2>2. PICK d \in Conns : DispatchHere(d) \/ HolderReturns(d)
        BY <1>3, <1>4, <2>1
    <2>3. CASE DispatchHere(d)
        <3>1. /\ pc = "dispatch" /\ pc' = pc /\ cur = d /\ HasLine(d) /\ sock[d] = "open"
              /\ UNCHANGED <<clientVars, wire, events, mask, cur, stop, up, timeVars, why>>
            BY <2>3 DEF DispatchHere, loopVars, ServerInv, AtLoop
        <3>2. PICK code \in {"connection_lost", "parse_error"} : Answer(d, code)
            BY <1>1, <2>3 DEF DispatchHere
        <3>3. code \in Codes
            BY DEF Codes
        <3>4. /\ \A e \in Conns : e # d => answered'[e] = answered[e]
              /\ wbuf'[d][Size(wbuf'[d])].code = code
            BY <1>1, <3>1, <3>2, <3>3, AnswerStep
        <3>5. c = d
            BY <1>4, <2>1, <3>4
        <3> QED
            BY <3>1, <3>4, <3>5 DEF Size
    <2>4. CASE HolderReturns(d)
        <3>1. /\ pc \in {"calling", "hung"} /\ pc' = "dispatch" /\ cur = d /\ HasLine(d) /\ sock[d] = "open"
              /\ UNCHANGED <<clientVars, wire, events, mask, cur, stop, up, timeVars, why>>
            BY <2>4 DEF HolderReturns, ServerInv, AtLoop
        <3>2. PICK code \in Codes : Answer(d, code)
            BY <2>4 DEF HolderReturns, Codes
        <3>4. /\ \A e \in Conns : e # d => answered'[e] = answered[e]
              /\ wbuf'[d][Size(wbuf'[d])].code = code
            BY <1>1, <3>1, <3>2, AnswerStep
        <3>5. c = d
            BY <1>4, <2>1, <3>4
        <3> QED
            BY <3>1, <3>4, <3>5 DEF Size
    <2> QED
        BY <2>2, <2>3, <2>4
<1> QED
    BY <1>2, <1>4

(* serve_forever: the types; no socket buffer overflows, and no client has *)
(* more answers than it had requests to send.                              *)
THEOREM TypeCorrect == Spec => []TypeOK
BY ServerInvHolds, ServerTypeOK, PTL

(* _drain_one and the send of lines 140-145: each client reads whole       *)
(* replies, one for each of its requests and in their order, and the exit  *)
(* for a lost connection leaves none of them behind.                       *)
THEOREM RepliesAreKept == Spec => []RepliesKept
BY ServerInvHolds, ServerRepliesKept, PTL

(* _dispatch_one after the loss of the connection: no request reaches the  *)
(* holder and none is answered as if the channel were alive.               *)
THEOREM HonestAboutLoss == Spec => HonestAfterLoss
<1>1. ServerInv /\ [Next]_vars =>
          [LossTold \/ deadAge # NotNoticed =>
              /\ pc' \in {"calling", "hung"} => pc \in {"calling", "hung"}
              /\ \A c \in Conns : answered'[c] > answered[c] =>
                    wbuf'[c][Len(wbuf'[c])].code \in
                        IF pc \in {"calling", "hung"} THEN Codes
                        ELSE {"connection_lost", "parse_error"}]_vars
    BY HonestStep
<1> QED
    BY <1>1, ServerInvHolds, PTL DEF Spec, HonestAfterLoss
=============================================================================
