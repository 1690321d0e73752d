---------------------------- MODULE RedisClient ----------------------------
(***************************************************************************)
(* RedisClient (src/sandbox/src/redis_client.cpp): one client object, the  *)
(* TCP connection and the server at its other end.  send() writes a        *)
(* request in as many pieces as ::send takes, then reads a header and a    *)
(* body in as many pieces as ::recv returns.  The peer may close or reset  *)
(* the connection at any point; the caller may go on calling, reconnect or *)
(* close.  The server is external: it answers each request once, with any  *)
(* body, well formed or not.                                               *)
(***************************************************************************)
EXTENDS RedisResponse

CONSTANTS
    Requests,     \* argument vectors the caller may send
    Bodies,       \* reply bodies the server may send
    MaxFrame,     \* MAX_FRAME, in cells
    MaxSends,     \* bound: calls of send()
    MaxConnects   \* bound: calls of connect()

\* How many arguments each wrapper passes to send(), the command included.
Wrappers == [set |-> 3, get |-> 2, del |-> 2, lpush |-> 3, rpop |-> 2,
             lrange |-> 4, llen |-> 2, job_next |-> 1, job_status |-> 2,
             job_result |-> 4, job_log |-> 3, sandbox_register |-> 4,
             sandbox_claim |-> 3, sandbox_release |-> 2]

ASSUME ClientAssumption ==
    /\ Requests \subseteq Seq(Seq(Nat))
    /\ \A r \in Requests : Len(r) \in {Wrappers[w] : w \in DOMAIN Wrappers}
    /\ Bodies \subseteq Seq(Nat)
    /\ \A b \in Bodies : Len(b) <= MaxFrame
    /\ MaxFrame \in Nat \ {0}
    /\ {MaxSends, MaxConnects} \subseteq Nat

VARIABLES
    fd,         \* fd_: "none" (-1), "unconnected" or "connected"
    opened,     \* history: descriptors socket() gave out and nobody closed
    pc,         \* "idle", the loop send() is in ("write", "header", "body"),
                \* or "killed": the process died inside ::send
    out,        \* cells of the request still to be written
    want,       \* read_exact: cells asked for
    got,        \* read_exact: cells read
    peer,       \* "none", "open", "closed"
    up, down,   \* cells in flight to the server, to the client
    asked,      \* history: numbers of the requests up stands for
    sent,       \* history: argument vectors, one per send()
    heard,      \* history: heard[i]: the arguments and the reply of request i
    results,    \* history: what each finished send() returned
    connects,
    refused     \* has a frame been refused on this connection?

wireVars == <<peer, up, down, asked>>
vars == <<fd, opened, pc, out, want, got, wireVars, sent, heard, results,
          connects, refused>>

Init ==
    /\ fd = "none"
    /\ opened = 0
    /\ pc = "idle"
    /\ out = <<>>
    /\ want = 0
    /\ got = <<>>
    /\ peer = "none"
    /\ up = <<>>
    /\ down = <<>>
    /\ asked = <<>>
    /\ sent = <<>>
    /\ heard = <<>>
    /\ results = <<>>
    /\ connects = 0
    /\ refused = FALSE

\* Faulty variant: connect() drops the descriptor it already had.
KeepOld == opened

\* close() before a new socket(), or on its own.
CloseOld == IF fd = "none" THEN opened ELSE opened - 1

\* connect(): a bad host closes the new socket, a refused connection does
\* not.
connect ==
    /\ pc = "idle"
    /\ connects < MaxConnects
    /\ connects' = connects + 1
    /\ refused' = FALSE
    /\ up' = <<>> /\ down' = <<>> /\ asked' = <<>>
    /\ \/ fd' = "connected" /\ peer' = "open" /\ opened' = CloseOld + 1
       \/ fd' = "unconnected" /\ peer' = "none" /\ opened' = CloseOld + 1
       \/ fd' = "none" /\ peer' = "none" /\ opened' = CloseOld
    /\ UNCHANGED <<pc, out, want, got, sent, heard, results>>

close ==
    /\ pc = "idle"
    /\ fd # "none"
    /\ fd' = "none"
    /\ opened' = CloseOld
    /\ peer' = "none" /\ up' = <<>> /\ down' = <<>> /\ asked' = <<>>
    /\ refused' = FALSE
    /\ UNCHANGED <<pc, out, want, got, sent, heard, results, connects>>

Return(r) == pc' = "idle" /\ results' = Append(results, r)

\* send(): "not connected", or the request is laid out and written.
send ==
    /\ pc = "idle"
    /\ Len(sent) < MaxSends
    /\ \E args \in Requests :
          /\ sent' = Append(sent, args)
          /\ out' = Request(args)
    /\ heard' = Append(heard, [args |-> <<>>, reply |-> Failed("system"),
                               shifted |-> refused])
    /\ IF fd = "none"
       THEN Return(Failed("state"))
       ELSE pc' = "write" /\ UNCHANGED results
    /\ asked' = IF peer = "open" THEN Append(asked, Len(sent) + 1) ELSE asked
    /\ UNCHANGED <<fd, opened, want, got, peer, up, down, connects, refused>>

\* Is write_all done when rest is left?
Written(rest) == rest = <<>>

\* One ::send: the kernel takes some of the cells, which are lost once the
\* peer has closed; or, on a connection that is not open, ::send fails, or
\* SIGPIPE ends the process inside it: MSG_NOSIGNAL is not passed and the
\* signal is not ignored.
WriteSome ==
    /\ pc = "write"
    /\ \/ /\ peer # "none"
          /\ \E n \in 1..Len(out) :
                LET rest == SubSeq(out, n + 1, Len(out))
                IN /\ up' = IF peer = "open" THEN up \o SubSeq(out, 1, n) ELSE up
                   /\ out' = rest
                   /\ pc' = IF Written(rest) THEN "header" ELSE "write"
          /\ want' = 1 /\ got' = <<>>
          /\ UNCHANGED results
       \/ /\ peer # "open"
          /\ \/ Return(Failed("system"))
             \/ pc' = "killed" /\ UNCHANGED results
          /\ UNCHANGED <<up, out, want, got>>
    /\ UNCHANGED <<fd, opened, peer, down, asked, sent, heard, connects,
                   refused>>

\* Faulty variant: whatever one ::recv returns is taken for all of it.
ReadAtOnce(cells) == TRUE

\* Has read_exact all it was asked for?
ReadAll(cells) == Len(cells) = want

\* A complete header: refuse the frame and leave its body in the stream, or
\* go on to the body.  An empty one needs no ::recv.
TakeHeader(len) ==
    IF len > MaxFrame
    THEN /\ Return(Failed("protocol"))
         /\ refused' = TRUE
         /\ UNCHANGED <<want, got>>
    ELSE /\ want' = len
         /\ got' = <<>>
         /\ IF len = 0 THEN Return(parse_value(<<>>, 0))
            ELSE pc' = "body" /\ UNCHANGED results
         /\ UNCHANGED refused

\* One ::recv that returned n > 0 cells.
ReadSome ==
    /\ pc \in {"header", "body"}
    /\ \E n \in 1..(want - Len(got)) :
          /\ n <= Len(down)
          /\ down' = SubSeq(down, n + 1, Len(down))
          /\ LET cells == got \o SubSeq(down, 1, n)
             IN IF ~ReadAll(cells)
                THEN got' = cells /\ UNCHANGED <<pc, want, results, refused>>
                ELSE IF pc = "header" THEN TakeHeader(cells[1])
                ELSE /\ Return(parse_value(cells, 0))
                     /\ UNCHANGED <<want, got, refused>>
    /\ UNCHANGED <<fd, opened, out, peer, up, asked, sent, heard, connects>>

\* Faulty variant: the end of the stream is not taken for an error.
EndIsQuiet == UNCHANGED <<pc, results>>

\* recv() <= 0 ends read_exact, read_frame and send with an Err.
EndIsError == Return(Failed("system"))

\* One ::recv on a connection the peer has closed.
ReadEnd ==
    /\ pc \in {"header", "body"}
    /\ down = <<>>
    /\ peer # "open"
    /\ EndIsError
    /\ UNCHANGED <<fd, opened, out, want, got, wireVars, sent, heard, connects,
                   refused>>

\* The server has a whole request and answers it.
Serve ==
    /\ peer = "open"
    /\ up # <<>>
    /\ Len(up) > up[1]
    /\ \E b \in Bodies, big \in BOOLEAN :
          /\ down' = down \o <<IF big THEN MaxFrame + 1 ELSE Len(b)>> \o b
          /\ heard' = [heard EXCEPT
                ![asked[1]].args = ReadArgs(SubSeq(up, 3, up[1] + 1), up[2]),
                ![asked[1]].reply = IF big THEN Failed("protocol")
                                    ELSE parse_value(b, 0)]
    /\ up' = SubSeq(up, up[1] + 2, Len(up))
    /\ asked' = Tail(asked)
    /\ UNCHANGED <<fd, opened, pc, out, want, got, peer, sent, results,
                   connects, refused>>

\* FIN or RST: what is in flight to the client may arrive or be lost.
PeerCloses ==
    /\ peer = "open"
    /\ peer' = "closed"
    /\ up' = <<>>
    /\ asked' = <<>>
    /\ \E n \in 0..Len(down) : down' = SubSeq(down, 1, n)
    /\ UNCHANGED <<fd, opened, pc, out, want, got, sent, heard, results,
                   connects, refused>>

Transfer == WriteSome \/ ReadSome \/ ReadEnd

Next == connect \/ close \/ send \/ Transfer \/ Serve \/ PeerCloses

Spec == Init /\ [][Next]_vars

\* The caller's thread runs, and a server that keeps the connection open
\* answers (there is no receive timeout: the code would wait for ever).
FairSpec == Spec /\ WF_vars(Transfer) /\ WF_vars(Serve)

-----------------------------------------------------------------------------
(* Properties.                                                             *)

\* Every variable keeps its type; a finished send() has one result.
TypeOK ==
    /\ fd \in {"none", "unconnected", "connected"}
    /\ opened \in Nat
    /\ pc \in {"idle", "write", "header", "body", "killed"}
    /\ {out, got, up, down} \subseteq Seq(Nat)
    /\ want \in 0..MaxFrame
    /\ Len(got) <= want
    /\ sent \in Seq(Requests)
    /\ asked \in Seq(1..Len(sent))
    /\ Len(heard) = Len(sent)
    /\ peer \in {"none", "open", "closed"}
    /\ Len(results) = Len(sent) - (IF pc = "idle" THEN 0 ELSE 1)
    /\ connects \in 0..MaxConnects
    /\ refused \in BOOLEAN

\* A value or a protocol error that send() returns is the server's answer
\* to this very request, never a late or a shifted one, although frames
\* arrive in pieces and connections break inside them; only the calls after
\* a refused frame on the same connection are exempt
\* (redis_client.cpp:102-145).
OwnReply ==
    \A i \in 1..Len(results) :
        heard[i].shifted \/ results[i] \in {Failed("state"), Failed("system"),
                                           heard[i].reply}

\* The server reads from the wire exactly the arguments send() was given,
\* whatever pieces ::send accepted (redis_client.cpp:78-122).
RequestIntact ==
    \A i \in 1..Len(heard) : heard[i].args # <<>> => heard[i].args = sent[i]

\* The object owns one descriptor or none, over any sequence of connect,
\* failed connect and close (redis_client.cpp:42-74).
NoDescriptorLeak == opened = (IF fd = "none" THEN 0 ELSE 1)

\* Types, RequestIntact and NoDescriptorLeak: what the wire and the object are
\* like between any two pieces of a transfer (redis_client.cpp:42-145).
ClientInv == TypeOK /\ RequestIntact /\ NoDescriptorLeak

\* send() returns if the server answers or closes, at whatever byte the
\* connection breaks, as long as no frame was refused on the connection
\* (redis_client.cpp:90-100).  The one other end is named: a ::send on a
\* connection that is no longer open may kill the process by SIGPIPE
\* (redis_client.cpp:81), and then nothing returns; reading never does that.
SendReturns ==
    /\ (pc \in {"header", "body"} /\ ~refused) ~> (pc = "idle")
    /\ (pc = "write" /\ ~refused) ~> (pc \in {"idle", "killed"})
=============================================================================
