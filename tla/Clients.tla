------------------------------ MODULE Clients -------------------------------
(***************************************************************************)
(* The life of a client: the event loop (ae.c), accepting, reading a       *)
(* request, queueing and writing the reply, and freeing (networking.c),    *)
(* with the HTTP handler of blogd.c as the only read handler.              *)
(*                                                                         *)
(* One action is one handler call or one round of a handler's loop; the    *)
(* peers act between any two of them.  A connection keeps its name c for   *)
(* ever, while descriptors and events-table entries are reused.  A request *)
(* is a number and arrives whole; the reply to request n is the Units      *)
(* pieces <<n, 1>> .. <<n, Units>>, the headers first.                     *)
(***************************************************************************)
EXTENDS Integers, Sequences, FiniteSets

CONSTANTS
  Conns,        \* connections peers may make
  Fds,          \* descriptors for clients
  MaxClients,   \* server.maxclients
  MaxAccepts,   \* MAX_ACCEPTS_PER_CALL
  Units,        \* pieces of a reply
  Cap,          \* pieces a socket send buffer holds
  Window,       \* requests a peer sends before it waits for a reply
  MaxReq,       \* bound: requests per connection
  MaxFailures,  \* bound: failed registrations with epoll
  CronMin       \* CLIENTS_CRON_MIN_ITERATIONS

ASSUME ClientsAssumption ==
  /\ Fds \subseteq Nat /\ IsFiniteSet(Conns)
  /\ MaxClients \in Nat /\ MaxAccepts \in Nat \ {0} /\ Units \in Nat \ {0} /\ Cap \in Nat \ {0}
  /\ Window \in Nat /\ MaxReq \in Nat /\ MaxFailures \in Nat /\ CronMin \in Nat

VARIABLES
  phase,     \* "new", "backlog", "live" (a client struct exists) or "gone"
  peer,      \* "open" until the other end closes
  sent,      \* requests the peer has sent
  inq,       \* requests in the socket's receive buffer
  wire,      \* reply pieces in the socket's send buffer
  got,       \* reply pieces the peer has received
  fd,        \* c->fd, NoFd if there is none
  ev,        \* eventLoop->events: [mask, owner]; owner (clientData) may be stale
  pendFlag,  \* clients flagged CLIENT_PENDING_WRITE
  pendList,  \* server.clients_pending_write
  closeFlag, \* clients flagged CLIENT_CLOSE_ASAP
  closeList, \* server.clients_to_close
  out,       \* c->buf and c->reply: pieces not yet written
  old,       \* clients with now - lastinteraction > maxidletime
  pc,        \* where the event loop is
  fired,     \* eventLoop->fired, not yet processed: [fd, mask, who]
  cur,       \* the fired event being processed, or the client just accepted
  left,      \* max in acceptTcpHandler: accepts left in this call
  failures   \* counter for the bound

net     == <<peer, sent, inq, wire, got>>
lists   == <<pendFlag, pendList, closeFlag, closeList>>
clients == <<phase, fd, ev, lists, out, old>>
loop    == <<pc, fired, cur, left>>
vars    == <<clients, net, loop, failures>>

NoFd   == -1
Listen == -2          \* the listening socket
Nobody == "nobody"
NoEvent == [fd |-> Listen, mask |-> {}, who |-> Nobody]

Live    == {c \in Conns : phase[c] = "live"}
FreeFds == {f \in Fds : \A c \in Conns : fd[c] # f}
Reply(n) == [u \in 1 .. Units |-> <<n, u>>]

-----------------------------------------------------------------------------
(* Peers and time.                                                         *)

Connect(c) ==
  /\ phase[c] = "new"
  /\ phase' = [phase EXCEPT ![c] = "backlog"]
  /\ UNCHANGED <<fd, ev, lists, out, old, net, loop, failures>>

Send(c) ==
  /\ phase[c] \in {"backlog", "live"} /\ peer[c] = "open"
  /\ sent[c] < MaxReq /\ sent[c] - Len(got[c]) \div Units < Window
  /\ sent' = [sent EXCEPT ![c] = @ + 1]
  /\ inq' = [inq EXCEPT ![c] = Append(@, sent[c] + 1)]
  /\ UNCHANGED <<clients, peer, wire, got, loop, failures>>

PeerRead(c) ==
  /\ peer[c] = "open" /\ wire[c] # <<>>
  /\ got' = [got EXCEPT ![c] = Append(@, Head(wire[c]))]
  /\ wire' = [wire EXCEPT ![c] = Tail(@)]
  /\ UNCHANGED <<clients, peer, sent, inq, loop, failures>>

PeerClose(c) ==
  /\ phase[c] \in {"backlog", "live"} /\ peer[c] = "open"
  /\ peer' = [peer EXCEPT ![c] = "closed"]
  /\ UNCHANGED <<clients, sent, inq, wire, got, loop, failures>>

\* c has been idle for longer than the timeout.
GrowsOld(c) ==
  /\ c \in Live \ old
  /\ old' = old \cup {c}
  /\ UNCHANGED <<phase, fd, ev, lists, out, net, loop, failures>>

-----------------------------------------------------------------------------
(* freeClient and writeToClient.                                           *)

\* Variant that does not close the descriptor.
UnlinkEvents(S) ==
  /\ ev' = [f \in Fds |-> IF \E c \in S : fd[c] = f
                          THEN [mask |-> {}, owner |-> ev[f].owner] ELSE ev[f]]
  /\ fd' = fd

\* unlinkClient: drop the events, then close the descriptor.
Unlink(S) ==
  /\ ev' = [f \in Fds |-> IF \E c \in S : fd[c] = f
                          THEN [mask |-> {}, owner |-> ev[f].owner] ELSE ev[f]]
  /\ fd' = [c \in Conns |-> IF c \in S THEN NoFd ELSE fd[c]]

\* Variant that forgets the list of pending writes.
LeaveCloseList(S) ==
  /\ pendFlag' = pendFlag \ S /\ pendList' = pendList
  /\ closeFlag' = closeFlag \ S /\ closeList' = closeList \ (S \cap closeFlag)

\* unlinkClient and freeClient: leave the lists that the flags name.
LeaveLists(S) ==
  /\ pendFlag' = pendFlag \ S /\ pendList' = pendList \ (S \cap pendFlag)
  /\ closeFlag' = closeFlag \ S /\ closeList' = closeList \ (S \cap closeFlag)

FreeClients(S) ==
  /\ Unlink(S) /\ LeaveLists(S)
  /\ phase' = [c \in Conns |-> IF c \in S THEN "gone" ELSE phase[c]]
  /\ out' = [c \in Conns |-> IF c \in S THEN <<>> ELSE out[c]]
  /\ inq' = [c \in Conns |-> IF c \in S THEN <<>> ELSE inq[c]]
  /\ old' = old \ S
  /\ UNCHANGED <<peer, sent, wire, got>>

\* Variant that puts the client on the list without flagging it.
FreeClientUnflagged(c) ==
  closeList' = closeList \cup {c} /\ UNCHANGED closeFlag

FreeClientAsync(c) ==
  closeFlag' = closeFlag \cup {c} /\ closeList' = closeList \cup {c}

\* How many pieces one writeToClient may write: at least one if there is room, and
\* not always all that fit (NET_MAX_WRITES_PER_EVENT).  The kernel takes what is
\* written to a connection that the peer has closed, until it reports the error.
WriteSizes(c) ==
  LET room == IF peer[c] = "closed" THEN Len(out[c]) ELSE Cap - Len(wire[c])
      most == IF room < Len(out[c]) THEN room ELSE Len(out[c])
  IN  IF most = 0 THEN {0} ELSE 1 .. most

\* Variant that starts again from the beginning after a partial write.
ResendPieces(c, k) ==
  /\ out' = [out EXCEPT ![c] = IF k = Len(@) THEN <<>> ELSE @]
  /\ wire' = IF peer[c] = "closed" THEN wire
             ELSE [wire EXCEPT ![c] = @ \o SubSeq(out[c], 1, k)]
  /\ old' = IF k > 0 THEN old \ {c} ELSE old
  /\ UNCHANGED <<phase, fd, peer, sent, inq, got>>

WritePieces(c, k) ==
  /\ out' = [out EXCEPT ![c] = SubSeq(@, k + 1, Len(@))]
  /\ wire' = IF peer[c] = "closed" THEN wire
             ELSE [wire EXCEPT ![c] = @ \o SubSeq(out[c], 1, k)]
  /\ old' = IF k > 0 THEN old \ {c} ELSE old
  /\ UNCHANGED <<phase, fd, peer, sent, inq, got>>

-----------------------------------------------------------------------------
(* beforeSleep: handleClientsWithPendingWrites, one client per step.       *)

\* aeCreateFileEvent(AE_WRITABLE) with sendReplyToClient.
InstallWriter(c) ==
  ev' = [ev EXCEPT ![fd[c]] = [mask |-> @.mask \cup {"W"}, owner |-> c]]

\* Variant that does not look at what is left after the first write.
HandlePendingOnce(c) ==
  /\ pc = "before" /\ c \in pendList
  /\ pendFlag' = pendFlag \ {c} /\ pendList' = pendList \ {c}
  /\ \E k \in WriteSizes(c) : WritePieces(c, k)
  /\ UNCHANGED <<ev, closeFlag, closeList, loop, failures>>

HandlePending(c) ==
  /\ pc = "before" /\ c \in pendList
  /\ \/ peer[c] = "closed" /\ FreeClients({c}) /\ UNCHANGED failures
     \/ /\ pendFlag' = pendFlag \ {c} /\ pendList' = pendList \ {c}
        /\ \E k \in WriteSizes(c) :
             /\ WritePieces(c, k)
             /\ \/ k = Len(out[c]) /\ UNCHANGED <<ev, closeFlag, closeList, failures>>
                \/ /\ k < Len(out[c]) /\ InstallWriter(c)
                   /\ UNCHANGED <<closeFlag, closeList, failures>>
                \/ /\ k < Len(out[c]) /\ failures < MaxFailures
                   /\ failures' = failures + 1
                   /\ FreeClientAsync(c)
                   /\ UNCHANGED ev
  /\ UNCHANGED loop

EnterPoll ==
  /\ pc = "before" /\ pendList = {}
  /\ pc' = "poll"
  /\ UNCHANGED <<clients, net, fired, cur, left, failures>>

-----------------------------------------------------------------------------
(* aeProcessEvents.                                                        *)

Readable(c) == inq[c] # <<>> \/ peer[c] = "closed"
Writable(c) == Len(wire[c]) < Cap \/ peer[c] = "closed"

\* Variant that passes EPOLLHUP on as it is.
ReadyMaskRaw(f) ==
  {m \in ev[f].mask : \/ m = "R" /\ Readable(ev[f].owner)
                      \/ m = "W" /\ Writable(ev[f].owner)}
    \cup {m \in {"HUP"} : ev[f].mask # {} /\ peer[ev[f].owner] = "closed"}

\* EPOLLERR and EPOLLHUP are passed on as AE_WRITABLE, asked for or not.
ReadyMask(f) ==
  {m \in ev[f].mask : \/ m = "R" /\ Readable(ev[f].owner)
                      \/ m = "W" /\ Writable(ev[f].owner)}
    \cup {m \in {"W"} : ev[f].mask # {} /\ peer[ev[f].owner] = "closed"}

ReadyFds == {f \in Fds : ReadyMask(f) # {}}

\* aeApiPoll reports every ready descriptor, or times out for the next time event.
Poll ==
  /\ pc = "poll"
  /\ fired' = {[fd |-> f, mask |-> ReadyMask(f), who |-> ev[f].owner] : f \in ReadyFds}
              \cup (IF \E c \in Conns : phase[c] = "backlog"
                    THEN {[fd |-> Listen, mask |-> {"R"}, who |-> Nobody]} ELSE {})
  /\ pc' = "fire"
  /\ UNCHANGED <<clients, net, cur, left, failures>>

\* prepareClientToWrite and the addReplyString calls of a response.
QueueReply(c, n) ==
  /\ IF out[c] = <<>> /\ c \notin pendFlag
     THEN pendFlag' = pendFlag \cup {c} /\ pendList' = pendList \cup {c}
     ELSE UNCHANGED <<pendFlag, pendList>>
  /\ out' = [out EXCEPT ![c] = @ \o Reply(n)]

\* processHttpRequestFromClient: one read takes all that has arrived, and the first
\* request in it is the one that is answered.
ReadRequest(c) ==
  \/ inq[c] = <<>> /\ peer[c] = "open" /\ UNCHANGED <<clients, net>>
  \/ peer[c] = "closed" /\ FreeClients({c})
  \/ /\ inq[c] # <<>>
     /\ QueueReply(c, Head(inq[c]))
     /\ inq' = [inq EXCEPT ![c] = <<>>]
     /\ old' = old \ {c}
     /\ UNCHANGED <<phase, fd, ev, closeFlag, closeList, peer, sent, wire, got>>

\* The readable half of a fired event.
FireRead(e) ==
  /\ pc = "fire" /\ e \in fired /\ e.fd # Listen
  /\ fired' = fired \ {e} /\ cur' = e /\ pc' = "write"
  /\ IF "R" \in e.mask \cap ev[e.fd].mask
     THEN ReadRequest(ev[e.fd].owner)
     ELSE UNCHANGED <<clients, net>>
  /\ UNCHANGED <<left, failures>>

\* Variant that leaves the handler installed.
WriterKept(c, k) == ev

\* The handler goes when everything is written.
WriterAfter(c, k) ==
  IF k < Len(out[c]) THEN ev
  ELSE [ev EXCEPT ![fd[c]] = [mask |-> @.mask \ {"W"}, owner |-> @.owner]]

\* sendReplyToClient.
SendReply(c) ==
  \/ peer[c] = "closed" /\ FreeClients({c})
  \/ /\ \E k \in WriteSizes(c) :
          WritePieces(c, k) /\ ev' = WriterAfter(c, k)
     /\ UNCHANGED lists

\* The writable half, if the first half left it valid.
FireWrite ==
  /\ pc = "write"
  /\ cur' = NoEvent /\ pc' = "fire"
  /\ IF "W" \in cur.mask \cap ev[cur.fd].mask
     THEN SendReply(ev[cur.fd].owner)
     ELSE UNCHANGED <<clients, net>>
  /\ UNCHANGED <<fired, left, failures>>

-----------------------------------------------------------------------------
(* acceptTcpHandler and acceptCommonHandler.                               *)

FireAccept ==
  /\ pc = "fire"
  /\ \E e \in fired : e.fd = Listen /\ fired' = fired \ {e}
  /\ pc' = "accept" /\ left' = MaxAccepts
  /\ UNCHANGED <<clients, net, cur, failures>>

\* createClient, which registers the HTTP handler for reading.
CreateClient(c, f) ==
  /\ phase' = [phase EXCEPT ![c] = "live"]
  /\ fd' = [fd EXCEPT ![c] = f]
  /\ ev' = [ev EXCEPT ![f] = [mask |-> @.mask \cup {"R"}, owner |-> c]]

\* accept returns the lowest free descriptor, and a client is made for it.  If its
\* read event cannot be registered the connection is closed.
Accept(c) ==
  /\ pc = "accept" /\ left > 0 /\ phase[c] = "backlog"
  /\ left' = left - 1
  /\ \E f \in FreeFds :
       /\ \A g \in FreeFds : f <= g
       /\ \/ /\ CreateClient(c, f)
             /\ cur' = [fd |-> Listen, mask |-> {}, who |-> c] /\ pc' = "limit"
             /\ UNCHANGED <<inq, failures>>
          \/ /\ failures < MaxFailures
             /\ failures' = failures + 1
             /\ phase' = [phase EXCEPT ![c] = "gone"]
             /\ inq' = [inq EXCEPT ![c] = <<>>]
             /\ UNCHANGED <<fd, ev, cur, pc>>
  /\ UNCHANGED <<lists, out, old, peer, sent, wire, got, fired>>

\* Variant that leaves the client it refuses to serverCron.
AdmitAsync ==
  /\ pc = "limit" /\ pc' = "accept" /\ cur' = NoEvent
  /\ IF Cardinality(Live) > MaxClients THEN FreeClientAsync(cur.who)
     ELSE UNCHANGED <<closeFlag, closeList>>
  /\ UNCHANGED <<phase, fd, ev, pendFlag, pendList, out, old, net, fired, left, failures>>

\* The limit is looked at when the client exists; one too many is freed again, its
\* error message written to the socket directly.
Admit ==
  /\ pc = "limit" /\ pc' = "accept" /\ cur' = NoEvent
  /\ IF Cardinality(Live) > MaxClients THEN FreeClients({cur.who})
     ELSE UNCHANGED <<clients, net>>
  /\ UNCHANGED <<fired, left, failures>>

\* The call has accepted as many as it may; or accept fails: nobody is waiting, or
\* the process has no descriptor left.
AcceptEnds ==
  /\ pc = "accept"
  /\ left = 0 \/ FreeFds = {} \/ \A c \in Conns : phase[c] # "backlog"
  /\ pc' = "fire" /\ left' = 0
  /\ UNCHANGED <<clients, net, fired, cur, failures>>

FireEnds ==
  /\ pc = "fire" /\ fired = {}
  /\ pc' = "timers"
  /\ UNCHANGED <<clients, net, fired, cur, left, failures>>

-----------------------------------------------------------------------------
(* serverCron, as far as clients are concerned.                            *)

\* Variants: idle clients are freed in the middle of a batch of events, too; the
\* asynchronous queue is not emptied.
CronInBatch ==
  /\ pc \in {"timers", "fire"} /\ pc' = IF pc = "fire" THEN pc ELSE "before"
  /\ FreeClients((old \cap Live) \cup closeList)
  /\ UNCHANGED <<fired, cur, left, failures>>

CronNoQueue ==
  /\ pc = "timers" /\ pc' = "before"
  /\ FreeClients(old \cap Live)
  /\ UNCHANGED <<fired, cur, left, failures>>

\* clientsCron frees idle clients, all of them unless there are too many clients to
\* look at in one call; then freeClientsInAsyncFreeQueue empties its queue.
Cron ==
  /\ pc = "timers" /\ pc' = "before"
  /\ \E idle \in SUBSET (old \cap Live) :
       /\ Cardinality(Live) <= CronMin => idle = old \cap Live
       /\ FreeClients(idle \cup closeList)
  /\ UNCHANGED <<fired, cur, left, failures>>

NoTimeEvent ==
  /\ pc = "timers" /\ pc' = "before"
  /\ UNCHANGED <<clients, net, fired, cur, left, failures>>

-----------------------------------------------------------------------------
Init ==
  /\ phase = [c \in Conns |-> "new"] /\ peer = [c \in Conns |-> "open"]
  /\ sent = [c \in Conns |-> 0]
  /\ inq = [c \in Conns |-> <<>>] /\ wire = [c \in Conns |-> <<>>]
  /\ got = [c \in Conns |-> <<>>] /\ out = [c \in Conns |-> <<>>]
  /\ fd = [c \in Conns |-> NoFd]
  /\ ev = [f \in Fds |-> [mask |-> {}, owner |-> Nobody]]
  /\ pendFlag = {} /\ pendList = {} /\ closeFlag = {} /\ closeList = {}
  /\ old = {}
  /\ pc = "before" /\ fired = {} /\ cur = NoEvent /\ left = 0
  /\ failures = 0

Peers == \E c \in Conns : Connect(c) \/ Send(c) \/ PeerRead(c) \/ PeerClose(c) \/ GrowsOld(c)

\* The event loop between two time events.
Loop ==
  \/ \E c \in Conns : HandlePending(c) \/ Accept(c)
  \/ \E e \in fired : FireRead(e)
  \/ EnterPoll \/ Poll \/ FireWrite \/ FireAccept \/ Admit \/ AcceptEnds \/ FireEnds

Next == Peers \/ Loop \/ Cron \/ NoTimeEvent

Spec == Init /\ [][Next]_vars

\* The thread runs, serverCron is due again and again, and a peer that stays reads
\* what it is sent.
Fairness ==
  /\ WF_vars(Loop \/ Cron \/ NoTimeEvent)
  /\ SF_vars(Cron)
  /\ \A c \in Conns : WF_vars(PeerRead(c))

FairSpec == Spec /\ Fairness

-----------------------------------------------------------------------------
(* Properties.                                                             *)

Event == [mask : SUBSET {"R", "W"}, owner : Conns \cup {Nobody}]
FiredEvent == [fd : Fds \cup {Listen}, mask : SUBSET {"R", "W"}, who : Conns \cup {Nobody}]
Pieces == Seq(Nat \X Nat)

\* Every variable keeps its type: masks hold AE_READABLE and AE_WRITABLE only, and a
\* client's descriptor is one of the process or none.
TypeOK ==
  /\ phase \in [Conns -> {"new", "backlog", "live", "gone"}]
  /\ peer \in [Conns -> {"open", "closed"}]
  /\ sent \in [Conns -> Nat]
  /\ inq \in [Conns -> Seq(Nat)]
  /\ wire \in [Conns -> Pieces] /\ got \in [Conns -> Pieces] /\ out \in [Conns -> Pieces]
  /\ fd \in [Conns -> Fds \cup {NoFd}]
  /\ ev \in [Fds -> Event]
  /\ pendFlag \subseteq Conns /\ pendList \subseteq Conns
  /\ closeFlag \subseteq Conns /\ closeList \subseteq Conns
  /\ old \subseteq Conns
  /\ pc \in {"before", "poll", "fire", "write", "accept", "limit", "timers"}
  /\ fired \subseteq FiredEvent /\ cur \in FiredEvent
  /\ left \in 0 .. MaxAccepts /\ failures \in Nat

\* No use after free: the events table and the two lists name existing clients only,
\* every client has its own descriptor, and it keeps its read handler to the end.
NoDanglingReference ==
  /\ \A f \in Fds : ev[f].mask # {} => ev[f].owner \in Live /\ fd[ev[f].owner] = f
  /\ \A c \in Live : fd[c] \in Fds /\ "R" \in ev[fd[c]].mask
  /\ pendList \subseteq Live /\ closeList \subseteq Live

\* The flags a client carries and the lists it is on agree, which is what the
\* assertions of unlinkClient and freeClient rely on.
FlagsMatchLists == pendFlag = pendList /\ closeFlag = closeList

\* An event fired for one connection is never delivered to another one that got the
\* same descriptor while the batch was being processed.
EventReachesItsClient ==
  \A e \in fired \cup {cur} :
    e.fd \in Fds /\ e.mask \cap ev[e.fd].mask # {} => ev[e.fd].owner = e.who

\* No reply is forgotten: whoever has output queued is on the pending list, has the
\* write handler installed or is about to be freed.
NoStrandedReply ==
  \A c \in Live :
    out[c] # <<>> => c \in pendFlag \cup closeFlag \/ "W" \in ev[fd[c]].mask

\* No busy loop: a write handler is installed only while there is something to write.
NoIdleWriter == \A f \in Fds : "W" \in ev[f].mask => out[ev[f].owner] # <<>>

\* What a connection receives is a sequence of whole replies, each to a request it
\* sent, in the order it sent them and each once, wherever the writes were cut.
StreamIntegrity ==
  \A c \in Conns :
    LET s == got[c] \o wire[c] \o (IF peer[c] = "open" THEN out[c] ELSE <<>>)
    IN  \A i \in 1 .. Len(s) :
          /\ s[i][1] \in 1 .. sent[c]
          /\ s[i][2] = 1 + ((i - 1) % Units)
          /\ i < Len(s) => IF s[i][2] < Units THEN s[i + 1][1] = s[i][1]
                                              ELSE s[i + 1][1] > s[i][1]

\* A connection beyond maxclients is a client only until the accept handler has
\* counted it, there is never more than one, and meanwhile nothing is read from it
\* or queued for it and no list names it, although its read event is registered.
OverLimitIsRefused ==
  Cardinality(Live) > MaxClients =>
    /\ pc = "limit" /\ Cardinality(Live) = MaxClients + 1
    /\ cur.who \in Live \ (pendList \cup closeList)
    /\ out[cur.who] = <<>> /\ wire[cur.who] = <<>> /\ got[cur.who] = <<>>

\* The request at the head of a client's socket is answered in full, whatever was
\* sent behind it and however little room the send buffer has, unless the connection
\* is closed by either side.  (What arrives with it in one read is not answered.)
AnsweredOrClosed ==
  \A c \in Conns : \A n \in 1 .. MaxReq :
    (phase[c] = "live" /\ inq[c] # <<>> /\ inq[c][1] = n)
      ~> (phase[c] = "gone" \/ peer[c] = "closed"
            \/ \E i \in 1 .. Len(got[c]) : got[c][i] = <<n, Units>>)

\* A client that lost its chance to write is freed by serverCron.
CloseAsapIsFreed == \A c \in Conns : c \in closeFlag ~> c \notin Live

\* The process recovers from running out of descriptors: if again and again there
\* are fewer clients than descriptors, a connection is accepted or refused, never left
\* waiting, however few one call of the handler accepts.
ConnectionDecided ==
  []<>(Cardinality(Live) < Cardinality(Fds))
    => \A c \in Conns : phase[c] = "backlog" ~> phase[c] # "backlog"

=============================================================================
