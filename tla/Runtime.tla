------------------------------ MODULE Runtime ------------------------------
(***************************************************************************)
(* The messaging engine of core/pkg/runtime with the live path of          *)
(* core/pkg/node and the connection object of core/pkg/transport/pion.go:  *)
(* every node runs a send worker, an accept loop, on demand a connectivity *)
(* check (Diagnose), and one reader goroutine for every adopted link.      *)
(* All of them share the link table, the event queue and Stop.             *)
(*                                                                         *)
(* A connection is an element of Conns.  It has two ends, named by the     *)
(* nodes ini[c] (the dialler) and rsp[c] (the listener).  Closing is per   *)
(* end: done[c][n] is the closed channel pionConn.done at n's end.  The    *)
(* frames travelling to n over c are the sequence wire[c][n].  A reader    *)
(* whose end is done may stop at any frame: what the data channel had not  *)
(* yet put into pionConn.in is lost.                                       *)
(*                                                                         *)
(* Events are kept as what the user interface makes of them: said[m] is    *)
(* the sequence of verdicts and receipts about the outgoing message m,     *)
(* got[n] the sequence of messages and files surfaced at n, shown[n][p]    *)
(* the presence of p that n's last presence event announced.               *)
(***************************************************************************)
EXTENDS Naturals, Sequences, FiniteSets

CONSTANTS
  Nodes,        \* runtimes (one account each)
  Conns,        \* connections that may ever be created (bound)
  Msgs,         \* message ids chosen by the user interfaces
  Files,        \* the messages that are files
  Owner,        \* Owner[m]: the node that sends m
  Dest,         \* Dest[m]: the node m's contact URI names, or NoNode
  NoNode,       \* an unparsable contact URI
  NoConn,       \* no link
  NoMsg,        \* no message id
  Attempts,     \* connectAttempts (12 in the code)
  OutboxCap,    \* capacity of the outbox channel (64 in the code)
  MaxFails,     \* number of network failures (bound)
  Stoppers,     \* the nodes that may call Stop
  Diagnosers,   \* the nodes that may call Diagnose (once each: bound)
  Markers,      \* the nodes that may call MarkRead (once per message: bound)
  Typists       \* the nodes that may call SendTyping (one in flight: bound)

ASSUME RuntimeAssumption ==
  /\ NoNode \notin Nodes
  /\ NoConn \notin Conns
  /\ Files \subseteq Msgs
  /\ Msgs \cap ({"offer"} \X Msgs) = {}
  /\ Owner \in [Msgs -> Nodes]
  /\ Dest \in [Msgs -> Nodes \cup {NoNode}]
  /\ \A m \in Msgs : Dest[m] # Owner[m]
  /\ Attempts \in Nat \ {0}
  /\ OutboxCap \in Nat \ {0}
  /\ MaxFails \in Nat

-----------------------------------------------------------------------------
(* Vocabulary *)

\* The worker of Send, the background check, the accept loop.
Diallers == {"snd", "diag"}
Procs == Diallers \cup {"lst"}

\* A text carries the caller's id; a file's offer gets an id of its own.
Ids == Msgs \cup ({"offer"} \X Msgs)
MsgId(m) == IF m \in Files THEN <<"offer", m>> ELSE m

\* A file is its offer and, as one frame, the run of chunks that follows it.
Frames ==
  [kind : {"bundle", "handshake", "typing", "chunks"}]
    \cup [kind : {"text", "offer"}, id : Ids]
    \cup [kind : {"receipt"}, id : Ids, state : {"DELIVERED", "READ"}]

Bundle == [kind |-> "bundle"]
Handshake == [kind |-> "handshake"]
Typing == [kind |-> "typing"]
Chunks == [kind |-> "chunks"]
Envelope(m) == [kind |-> IF m \in Files THEN "offer" ELSE "text", id |-> MsgId(m)]
Receipt(i, s) == [kind |-> "receipt", id |-> i, state |-> s]

PCs == {"idle", "find", "backoff", "answer", "open", "bundle",  \* dialling
        "head", "offer", "hs",                                  \* accepting
        "adopt", "announce",                                    \* both
        "write", "chunks", "drop", "sent", "exit"}
RDs == {"off", "recv", "body", "ack", "drop", "offline", "over"}

VARIABLES
  phase,    \* phase[m]: has Send(m) been called, has it returned?
  outbox,   \* outbox[n]: the bounded channel to the send worker
  req,      \* req[n]: the request deliver works on, or NoMsg
  att,      \* att[n]: failed connection attempts of that request
  pc,       \* pc[n][x]: where goroutine x of node n is
  target,   \* target[n]: the node Diagnose checks
  conn,     \* conn[n][x]: the connection x works on
  ini, rsp, \* the two ends of a connection
  sdp,      \* sdp[c]: progress of c's offer and answer
  up,       \* up[c]: the data channel of c can open
  done,     \* done[c][n]: n's end of c is closed
  wire,     \* wire[c][n]: frames for n that n has not read
  rd,       \* rd[c][n]: n's reader goroutine for c
  cur,      \* cur[c][n]: the inbound message that reader is handling
  links,    \* links[n][p]: the link table
  advert,   \* advert[n]: n's discovery key is published
  life,     \* life[n]: running, in Stop, or stopped
  closing,  \* closing[n]: links Stop has taken out and not yet closed
  fails,    \* network failures so far
  said, got, shown, lastIn, marked

apiVars == <<phase, outbox>>
procVars == <<req, att, pc, target, conn>>
connVars == <<ini, rsp, sdp, up>>
eventVars == <<said, got, shown>>
vars == <<apiVars, procVars, connVars, done, wire, rd, cur, links, advert, life,
          closing, fails, eventVars, lastIn, marked>>

TypeOK ==
  /\ phase \in [Msgs -> {"new", "calling", "returned"}]
  /\ outbox \in [Nodes -> Seq(Msgs)]
  /\ req \in [Nodes -> Msgs \cup {NoMsg}]
  /\ att \in [Nodes -> 0 .. Attempts]
  /\ pc \in [Nodes -> [Procs -> PCs]]
  /\ target \in [Nodes -> Nodes \cup {NoNode}]
  /\ conn \in [Nodes -> [Procs -> Conns \cup {NoConn}]]
  /\ ini \in [Conns -> Nodes \cup {NoNode}]
  /\ rsp \in [Conns -> Nodes \cup {NoNode}]
  /\ sdp \in [Conns -> {"none", "offer", "answer", "used"}]
  /\ up \in [Conns -> BOOLEAN]
  /\ done \in [Conns -> [Nodes -> BOOLEAN]]
  /\ wire \in [Conns -> [Nodes -> Seq(Frames)]]
  /\ rd \in [Conns -> [Nodes -> RDs]]
  /\ cur \in [Conns -> [Nodes -> Ids \cup {NoMsg}]]
  /\ links \in [Nodes -> [Nodes -> Conns \cup {NoConn}]]
  /\ advert \in [Nodes -> BOOLEAN]
  /\ life \in [Nodes -> {"running", "stopping", "stopped"}]
  /\ closing \in [Nodes -> SUBSET Conns]
  /\ fails \in 0 .. MaxFails
  /\ said \in [Msgs -> Seq({"sent", "sendFailed", "DELIVERED", "READ"})]
  /\ got \in [Nodes -> Seq(Ids)]
  /\ shown \in [Nodes -> [Nodes -> BOOLEAN]]
  /\ lastIn \in [Nodes -> [Nodes -> Ids \cup {NoMsg}]]
  /\ marked \in [Nodes -> SUBSET Ids]

Init ==
  /\ phase = [m \in Msgs |-> "new"]
  /\ outbox = [n \in Nodes |-> <<>>]
  /\ req = [n \in Nodes |-> NoMsg]
  /\ att = [n \in Nodes |-> 0]
  /\ pc = [n \in Nodes |-> [x \in Procs |-> IF x = "lst" THEN "head" ELSE "idle"]]
  /\ target = [n \in Nodes |-> NoNode]
  /\ conn = [n \in Nodes |-> [x \in Procs |-> NoConn]]
  /\ ini = [c \in Conns |-> NoNode]
  /\ rsp = [c \in Conns |-> NoNode]
  /\ sdp = [c \in Conns |-> "none"]
  /\ up = [c \in Conns |-> FALSE]
  /\ done = [c \in Conns |-> [n \in Nodes |-> FALSE]]
  /\ wire = [c \in Conns |-> [n \in Nodes |-> <<>>]]
  /\ rd = [c \in Conns |-> [n \in Nodes |-> "off"]]
  /\ cur = [c \in Conns |-> [n \in Nodes |-> NoMsg]]
  /\ links = [n \in Nodes |-> [p \in Nodes |-> NoConn]]
  /\ advert = [n \in Nodes |-> FALSE]
  /\ life = [n \in Nodes |-> "running"]
  /\ closing = [n \in Nodes |-> {}]
  /\ fails = 0
  /\ said = [m \in Msgs |-> <<>>]
  /\ got = [n \in Nodes |-> <<>>]
  /\ shown = [n \in Nodes |-> [p \in Nodes |-> FALSE]]
  /\ lastIn = [n \in Nodes |-> [p \in Nodes |-> NoMsg]]
  /\ marked = [n \in Nodes |-> {}]

-----------------------------------------------------------------------------
(* Helpers *)

IsClosed(n) == life[n] # "running"
Other(c, n) == IF ini[c] = n THEN rsp[c] ELSE ini[c]

\* The goroutine x of n moves to l.
Goto(n, x, l) == pc' = [pc EXCEPT ![n][x] = l]

\* encryptSendLocked succeeds at an open end: the frame is on the wire, or lost
\* when the other end is closed.
SendOK(c, n, f) ==
  /\ ~done[c][n]
  /\ wire' = IF done[c][Other(c, n)] THEN wire
               ELSE [wire EXCEPT ![c][Other(c, n)] = Append(@, f)]

\* It fails: the end is closed, or Encrypt or the data channel returns an error,
\* which they may do at any time.  Nothing is on the wire then.
SendErr == UNCHANGED wire

\* conn.Close at n's end.
Close(c, n) == done' = [done EXCEPT ![c][n] = TRUE]

\* push of an event about the outgoing message m.
Say(m, e) == said' = [said EXCEPT ![m] = Append(@, e)]

\* dropLink: forget the link only while it is the registered one, close it.
DropLink(n, c) ==
  /\ links' = IF links[n][Other(c, n)] = c
                THEN [links EXCEPT ![n][Other(c, n)] = NoConn]
                ELSE links
  /\ Close(c, n)

\* Variant: the multi-frame send does not hold the mutex.
SendMuNeverHeld(n, c) == FALSE

\* SendFile holds the link's sendMu from the offer to the last chunk.
SendMuHeld(n, c) == pc[n]["snd"] = "chunks" /\ conn[n]["snd"] = c

-----------------------------------------------------------------------------
(* The calls of the user interface: Send and SendFile *)

SendCall(m) ==
  /\ phase[m] = "new"
  /\ phase' = [phase EXCEPT ![m] = "calling"]
  /\ UNCHANGED <<outbox, procVars, connVars, done, wire, rd, cur, links, advert,
                 life, closing, fails, eventVars, lastIn, marked>>

\* Variant: only room in the outbox lets the caller go.
SendReturnRoom(m) ==
  /\ phase[m] = "calling"
  /\ phase' = [phase EXCEPT ![m] = "returned"]
  /\ Len(outbox[Owner[m]]) < OutboxCap
  /\ outbox' = [outbox EXCEPT ![Owner[m]] = Append(@, m)]
  /\ UNCHANGED <<procVars, connVars, done, wire, rd, cur, links, advert,
                 life, closing, fails, eventVars, lastIn, marked>>

\* The select of Send: the outbox has room, or the runtime is closed.
SendReturn(m) ==
  /\ phase[m] = "calling"
  /\ phase' = [phase EXCEPT ![m] = "returned"]
  /\ \/ /\ Len(outbox[Owner[m]]) < OutboxCap
        /\ outbox' = [outbox EXCEPT ![Owner[m]] = Append(@, m)]
     \/ /\ IsClosed(Owner[m])
        /\ UNCHANGED outbox
  /\ UNCHANGED <<procVars, connVars, done, wire, rd, cur, links, advert,
                 life, closing, fails, eventVars, lastIn, marked>>

\* MarkRead: a read receipt for the last inbound message, over the live link.
MarkRead(n, p) ==
  LET c == links[n][p]  i == lastIn[n][p] IN
  /\ n \in Markers
  /\ c # NoConn
  /\ i # NoMsg /\ i \notin marked[n]
  /\ ~SendMuHeld(n, c)
  /\ SendOK(c, n, Receipt(i, "READ")) \/ SendErr
  /\ marked' = [marked EXCEPT ![n] = @ \cup {i}]
  /\ UNCHANGED <<apiVars, procVars, connVars, done, rd, cur, links, advert,
                 life, closing, fails, eventVars, lastIn>>

\* SendTyping: best effort, over an existing link only.
SendTyping(n, p) ==
  LET c == links[n][p] IN
  /\ n \in Typists
  /\ c # NoConn
  /\ ~SendMuHeld(n, c)
  /\ \A i \in 1 .. Len(wire[c][p]) : wire[c][p][i] # Typing
  /\ SendOK(c, n, Typing) \/ SendErr
  /\ UNCHANGED <<apiVars, procVars, connVars, done, rd, cur, links, advert,
                 life, closing, fails, eventVars, lastIn, marked>>

-----------------------------------------------------------------------------
(* The dialling half of Connect, run by the send worker and by Diagnose *)

Peer(n, x) == IF x = "snd" THEN Dest[req[n]] ELSE target[n]

\* Where a failed Connect leaves its caller.
AfterFailure(x) == IF x = "snd" THEN "backoff" ELSE "exit"

\* Find succeeds and the offer for a new peer connection reaches the peer.
DialOffer(n, x) ==
  LET p == Peer(n, x)
      c == CHOOSE c \in Conns : ini[c] = NoNode IN
  /\ pc[n][x] = "find"
  /\ life[n] # "stopped"
  /\ advert[p] /\ life[p] # "stopped"
  /\ \E d \in Conns : ini[d] = NoNode
  /\ ini' = [ini EXCEPT ![c] = n]
  /\ rsp' = [rsp EXCEPT ![c] = p]
  /\ sdp' = [sdp EXCEPT ![c] = "offer"]
  /\ conn' = [conn EXCEPT ![n][x] = c]
  /\ Goto(n, x, "answer")
  /\ UNCHANGED <<apiVars, req, att, target, up, done, wire, rd, cur, links,
                 advert, life, closing, fails, eventVars, lastIn, marked>>

\* RecvSDP(peer) takes any answer of that peer, whichever offer it answers and
\* whoever made that offer; it waits without a timeout.
DialAnswer(n, x) ==
  \E c \in Conns :
    /\ pc[n][x] = "answer"
    /\ rsp[c] = rsp[conn[n][x]]
    /\ sdp[c] = "answer"
    /\ sdp' = [sdp EXCEPT ![c] = "used"]
    /\ up' = IF c = conn[n][x] THEN [up EXCEPT ![c] = TRUE] ELSE up
    /\ Goto(n, x, "open")
    /\ UNCHANGED <<apiVars, req, att, target, conn, ini, rsp, done, wire, rd,
                   cur, links, advert, life, closing, fails, eventVars,
                   lastIn, marked>>

\* waitOpen returns because the data channel opened.
DialOpen(n, x) ==
  /\ pc[n][x] = "open"
  /\ up[conn[n][x]] /\ ~done[conn[n][x]][n]
  /\ Goto(n, x, "bundle")
  /\ UNCHANGED <<apiVars, req, att, target, conn, connVars, done, wire, rd, cur,
                 links, advert, life, closing, fails, eventVars, lastIn, marked>>

\* handshakeInitiator: the peer's bundle arrives, the handshake goes out.
DialHandshake(n, x) ==
  LET c == conn[n][x] IN
  /\ pc[n][x] = "bundle"
  /\ ~done[c][n]
  /\ wire[c][n] # <<>> /\ Head(wire[c][n]) = Bundle
  /\ wire' = [wire EXCEPT ![c] = [p \in Nodes |->
                 IF p = n THEN Tail(@[p])
                 ELSE IF p = Other(c, n) /\ ~done[c][p] THEN Append(@[p], Handshake)
                 ELSE @[p]]]
  /\ Goto(n, x, "adopt")
  /\ UNCHANGED <<apiVars, req, att, target, conn, connVars, done, rd, cur, links,
                 advert, life, closing, fails, eventVars, lastIn, marked>>

\* Connect fails before a peer connection exists (Find, the offer's stream).
DialNotFound(n, x) ==
  /\ pc[n][x] = "find"
  /\ Goto(n, x, AfterFailure(x))
  /\ UNCHANGED <<apiVars, req, att, target, conn, connVars, done, wire, rd, cur,
                 links, advert, life, closing, fails, eventVars, lastIn, marked>>

\* Connect fails later: the signaler was shut down, the channel did not open
\* within connectTimeout or was closed before the bundle came, or the handshake
\* could not be sent.
DialFail(n, x) ==
  LET c == conn[n][x] IN
  /\ \/ pc[n][x] = "answer" /\ life[n] = "stopped"
     \/ pc[n][x] = "open"
     \/ pc[n][x] = "bundle" /\ (done[c][n] \/ wire[c][n] # <<>>)
  /\ Close(c, n)
  /\ Goto(n, x, AfterFailure(x))
  /\ UNCHANGED <<apiVars, req, att, target, conn, connVars, wire, rd, cur, links,
                 advert, life, closing, fails, eventVars, lastIn, marked>>

-----------------------------------------------------------------------------
(* adopt, called by all three goroutines *)

\* Variant: the replaced link is left open.
AdoptKeepsOld(n, x) ==
  LET c == conn[n][x] IN
  /\ pc[n][x] = "adopt"
  /\ links' = [links EXCEPT ![n][Other(c, n)] = c]
  /\ Goto(n, x, "announce")
  /\ UNCHANGED <<apiVars, req, att, target, conn, connVars, done, wire, rd, cur,
                 advert, life, closing, fails, eventVars, lastIn, marked>>

\* The section under r.mu: close the link this one replaces, register it.
Adopt(n, x) ==
  LET c == conn[n][x]  p == Other(c, n)  old == links[n][p] IN
  /\ pc[n][x] = "adopt"
  /\ done' = IF old \in Conns \ {c} THEN [done EXCEPT ![old][n] = TRUE] ELSE done
  /\ links' = [links EXCEPT ![n][p] = c]
  /\ Goto(n, x, "announce")
  /\ UNCHANGED <<apiVars, req, att, target, conn, connVars, wire, rd, cur, advert,
                 life, closing, fails, eventVars, lastIn, marked>>

\* The rest: the presence event, then the reader goroutine.
Announce(n, x) ==
  LET c == conn[n][x] IN
  /\ pc[n][x] = "announce"
  /\ shown' = [shown EXCEPT ![n][Other(c, n)] = TRUE]
  /\ rd' = [rd EXCEPT ![c][n] = "recv"]
  /\ Goto(n, x, CASE x = "snd" -> "write" [] x = "diag" -> "exit" [] x = "lst" -> "head")
  /\ UNCHANGED <<apiVars, req, att, target, conn, connVars, done, wire, cur, links,
                 advert, life, closing, fails, said, got, lastIn, marked>>

-----------------------------------------------------------------------------
(* sendWorker and deliver *)

\* Variant: the request stays in the outbox.
SndTakePeeks(n) ==
  LET m == Head(outbox[n]) IN
  /\ pc[n]["snd"] = "idle"
  /\ outbox[n] # <<>>
  /\ Dest[m] # NoNode
  /\ req' = [req EXCEPT ![n] = m]
  /\ att' = [att EXCEPT ![n] = 0]
  /\ conn' = [conn EXCEPT ![n]["snd"] = links[n][Dest[m]]]
  /\ Goto(n, "snd", IF links[n][Dest[m]] = NoConn THEN "find" ELSE "write")
  /\ UNCHANGED <<apiVars, target, connVars, done, wire, rd, cur, links, advert,
                 life, closing, fails, eventVars, lastIn, marked>>

SndTake(n) ==
  LET m == Head(outbox[n]) IN
  /\ pc[n]["snd"] = "idle"
  /\ outbox[n] # <<>> /\ Dest[m] # NoNode
  /\ outbox' = [outbox EXCEPT ![n] = Tail(@)]
  /\ req' = [req EXCEPT ![n] = m]
  /\ att' = [att EXCEPT ![n] = 0]
  /\ conn' = [conn EXCEPT ![n]["snd"] = links[n][Dest[m]]]
  /\ Goto(n, "snd", IF links[n][Dest[m]] = NoConn THEN "find" ELSE "write")
  /\ UNCHANGED <<phase, target, connVars, done, wire, rd, cur, links, advert, life,
                 closing, fails, eventVars, lastIn, marked>>

\* The contact URI does not parse.
SndBadURI(n) ==
  LET m == Head(outbox[n]) IN
  /\ pc[n]["snd"] = "idle"
  /\ outbox[n] # <<>> /\ Dest[m] = NoNode
  /\ outbox' = [outbox EXCEPT ![n] = Tail(@)]
  /\ Say(m, "sendFailed")
  /\ UNCHANGED <<phase, procVars, connVars, done, wire, rd, cur, links, advert, life,
                 closing, fails, got, shown, lastIn, marked>>

\* The worker leaves: deliver's closed checks return without an event.
SndClosed(n) ==
  /\ IsClosed(n)
  /\ \/ pc[n]["snd"] \in {"find", "backoff"} /\ Goto(n, "snd", "idle")
     \/ pc[n]["snd"] = "idle" /\ Goto(n, "snd", "exit")
  /\ req' = [req EXCEPT ![n] = NoMsg]
  /\ UNCHANGED <<apiVars, att, target, conn, connVars, done, wire, rd, cur, links,
                 advert, life, closing, fails, eventVars, lastIn, marked>>

\* The worker is finished with its request and reports e.
Report(n, e) ==
  /\ Say(req[n], e)
  /\ req' = [req EXCEPT ![n] = NoMsg]
  /\ Goto(n, "snd", "idle")

\* Variants: one attempt too many; attempts are never used up.
SndBackoffOneMore(n) ==
  /\ pc[n]["snd"] = "backoff"
  /\ att' = [att EXCEPT ![n] = @ + 1]
  /\ IF att[n] < Attempts
       THEN Goto(n, "snd", "find") /\ UNCHANGED <<req, said>>
       ELSE Report(n, "sendFailed")
  /\ UNCHANGED <<apiVars, target, conn, connVars, done, wire, rd, cur, links,
                 advert, life, closing, fails, got, shown, lastIn, marked>>
SndBackoffForever(n) ==
  /\ pc[n]["snd"] = "backoff"
  /\ Goto(n, "snd", "find")
  /\ UNCHANGED <<apiVars, req, att, target, conn, connVars, done, wire, rd, cur,
                 links, advert, life, closing, fails, eventVars, lastIn, marked>>

\* connectBackoff has passed: another attempt, or give the request up.
SndBackoff(n) ==
  /\ pc[n]["snd"] = "backoff"
  /\ att' = [att EXCEPT ![n] = @ + 1]
  /\ IF att[n] + 1 < Attempts
       THEN Goto(n, "snd", "find") /\ UNCHANGED <<req, said>>
       ELSE Report(n, "sendFailed")
  /\ UNCHANGED <<apiVars, target, conn, connVars, done, wire, rd, cur, links,
                 advert, life, closing, fails, got, shown, lastIn, marked>>

\* The envelope of a text, or the offer of a file, is encrypted and sent.
SndWrite(n) ==
  LET c == conn[n]["snd"]  m == req[n] IN
  /\ pc[n]["snd"] = "write"
  /\ \/ /\ SendOK(c, n, Envelope(m))
        /\ Goto(n, "snd", IF m \in Files THEN "chunks" ELSE "sent")
     \/ /\ SendErr
        /\ Goto(n, "snd", "drop")
  /\ UNCHANGED <<apiVars, req, att, target, conn, connVars, done, rd, cur, links,
                 advert, life, closing, fails, eventVars, lastIn, marked>>

\* os.ReadFile fails: the request fails, the link stays.
SndNoFile(n) ==
  /\ pc[n]["snd"] = "write"
  /\ req[n] \in Files
  /\ Report(n, "sendFailed")
  /\ UNCHANGED <<apiVars, att, target, conn, connVars, done, wire, rd, cur, links,
                 advert, life, closing, fails, got, shown, lastIn, marked>>

SndChunks(n) ==
  LET c == conn[n]["snd"] IN
  /\ pc[n]["snd"] = "chunks"
  /\ \/ SendOK(c, n, Chunks) /\ Goto(n, "snd", "sent")
     \/ SendErr /\ Goto(n, "snd", "drop")
  /\ UNCHANGED <<apiVars, req, att, target, conn, connVars, done, rd, cur, links,
                 advert, life, closing, fails, eventVars, lastIn, marked>>

\* Variant: a link that closed since the write counts as a failed send.
SndSentIfOpen(n) ==
  /\ pc[n]["snd"] = "sent"
  /\ Report(n, IF done[conn[n]["snd"]][n] THEN "sendFailed" ELSE "sent")
  /\ UNCHANGED <<apiVars, att, target, conn, connVars, done, wire, rd, cur, links,
                 advert, life, closing, fails, got, shown, lastIn, marked>>

SndSent(n) ==
  /\ pc[n]["snd"] = "sent"
  /\ Report(n, "sent")
  /\ UNCHANGED <<apiVars, att, target, conn, connVars, done, wire, rd, cur, links,
                 advert, life, closing, fails, got, shown, lastIn, marked>>

SndDrop(n) ==
  /\ pc[n]["snd"] = "drop"
  /\ DropLink(n, conn[n]["snd"])
  /\ Report(n, "sendFailed")
  /\ UNCHANGED <<apiVars, att, target, conn, connVars, wire, rd, cur,
                 advert, life, closing, fails, got, shown, lastIn, marked>>

-----------------------------------------------------------------------------
(* Diagnose *)

Diagnose(n, p) ==
  /\ n \in Diagnosers /\ p # n
  /\ pc[n]["diag"] = "idle"
  /\ target' = [target EXCEPT ![n] = p]
  /\ Goto(n, "diag", IF links[n][p] = NoConn THEN "find" ELSE "exit")
  /\ UNCHANGED <<apiVars, req, att, conn, connVars, done, wire, rd, cur, links,
                 advert, life, closing, fails, eventVars, lastIn, marked>>

-----------------------------------------------------------------------------
(* listenLoop and Listen *)

LstHead(n) ==
  /\ pc[n]["lst"] = "head"
  /\ IF IsClosed(n)
       THEN Goto(n, "lst", "exit") /\ UNCHANGED advert
       ELSE Goto(n, "lst", "offer") /\ advert' = [advert EXCEPT ![n] = TRUE]
  /\ UNCHANGED <<apiVars, req, att, target, conn, connVars, done, wire, rd, cur,
                 links, life, closing, fails, eventVars, lastIn, marked>>

\* Accept takes an offer and sends the answer, which arrives in the queue of a
\* dialler, or is lost on its way; or Accept fails before the answer has left.
LstOffer(n) ==
  \E c \in Conns :
    /\ pc[n]["lst"] = "offer"
    /\ rsp[c] = n /\ sdp[c] = "offer"
    /\ conn' = [conn EXCEPT ![n]["lst"] = c]
    /\ \/ /\ life[ini[c]] # "stopped" /\ life[n] # "stopped"
          /\ sdp' = [sdp EXCEPT ![c] = "answer"]
          /\ Goto(n, "lst", "open")
       \/ /\ sdp' = [sdp EXCEPT ![c] = "used"]
          /\ Goto(n, "lst", "open") \/ Goto(n, "lst", "head")
    /\ UNCHANGED <<apiVars, req, att, target, ini, rsp, up, done, wire, rd, cur,
                   links, advert, life, closing, fails, eventVars, lastIn, marked>>

\* RecvSDP returns because Stop cancelled the signaler.
LstStopped(n) ==
  /\ pc[n]["lst"] = "offer"
  /\ life[n] = "stopped"
  /\ Goto(n, "lst", "exit")
  /\ UNCHANGED <<apiVars, req, att, target, conn, connVars, done, wire, rd, cur,
                 links, advert, life, closing, fails, eventVars, lastIn, marked>>

\* The data channel opens; handshakeResponder sends the prekey bundle.
LstOpen(n) ==
  LET c == conn[n]["lst"] IN
  /\ pc[n]["lst"] = "open"
  /\ up[c]
  /\ SendOK(c, n, Bundle)
  /\ Goto(n, "lst", "hs")
  /\ UNCHANGED <<apiVars, req, att, target, conn, connVars, done, rd, cur,
                 links, advert, life, closing, fails, eventVars, lastIn, marked>>

\* The initiator's handshake arrives: the session exists.
LstHandshake(n) ==
  LET c == conn[n]["lst"] IN
  /\ pc[n]["lst"] = "hs"
  /\ wire[c][n] # <<>> /\ Head(wire[c][n]) = Handshake
  /\ wire' = [wire EXCEPT ![c][n] = Tail(@)]
  /\ Goto(n, "lst", "adopt")
  /\ UNCHANGED <<apiVars, req, att, target, conn, connVars, done, rd, cur,
                 links, advert, life, closing, fails, eventVars, lastIn, marked>>

\* Listen fails (no data channel in time, or closed during the handshake); the
\* loop reports an error event, pauses and goes on.
LstFail(n) ==
  LET c == conn[n]["lst"] IN
  /\ \/ pc[n]["lst"] = "open"
     \/ pc[n]["lst"] = "hs" /\ done[c][n]
  /\ Close(c, n)
  /\ Goto(n, "lst", "head")
  /\ UNCHANGED <<apiVars, req, att, target, conn, connVars, wire, rd, cur,
                 links, advert, life, closing, fails, eventVars, lastIn, marked>>

-----------------------------------------------------------------------------
(* recvLoop *)

\* Receive returns the next envelope f of connection c to n's reader.
Receive(c, n, kinds) ==
  /\ wire[c][n] # <<>>
  /\ Head(wire[c][n]).kind \in kinds
  /\ wire' = [wire EXCEPT ![c][n] = Tail(@)]

\* The envelope with id i is surfaced: setLastInbound, then the event.
Surface(c, n, i) ==
  /\ lastIn' = [lastIn EXCEPT ![n][Other(c, n)] = i]
  /\ got' = [got EXCEPT ![n] = Append(@, i)]
  /\ cur' = [cur EXCEPT ![c][n] = i]
  /\ rd' = [rd EXCEPT ![c][n] = "ack"]

\* The cases of recvLoop's switch: a text ...
RdText(c, n) ==
  /\ rd[c][n] = "recv"
  /\ Receive(c, n, {"text"})
  /\ Surface(c, n, Head(wire[c][n]).id)
  /\ UNCHANGED <<apiVars, procVars, connVars, done, links, advert, life, closing,
                 fails, said, shown, marked>>

\* Variant: the file is surfaced with its offer, too.
RdOfferSurfaces(c, n) ==
  /\ rd[c][n] = "recv"
  /\ Receive(c, n, {"offer"})
  /\ cur' = [cur EXCEPT ![c][n] = Head(wire[c][n]).id]
  /\ got' = [got EXCEPT ![n] = Append(@, Head(wire[c][n]).id)]
  /\ rd' = [rd EXCEPT ![c][n] = "body"]
  /\ UNCHANGED <<apiVars, procVars, connVars, done, links, advert, life, closing,
                 fails, said, shown, lastIn, marked>>

\* ... the offer of a file ...
RdOffer(c, n) ==
  /\ rd[c][n] = "recv"
  /\ Receive(c, n, {"offer"})
  /\ cur' = [cur EXCEPT ![c][n] = Head(wire[c][n]).id]
  /\ rd' = [rd EXCEPT ![c][n] = "body"]
  /\ UNCHANGED <<apiVars, procVars, connVars, done, links, advert, life, closing,
                 fails, eventVars, lastIn, marked>>

\* ... a receipt, which the user interface can use if it knows the id ...
RdReceipt(c, n) ==
  LET f == Head(wire[c][n]) IN
  /\ rd[c][n] = "recv"
  /\ Receive(c, n, {"receipt"})
  /\ IF f.id \in Msgs THEN Say(f.id, f.state) ELSE UNCHANGED said
  /\ UNCHANGED <<apiVars, procVars, connVars, done, rd, cur, links, advert, life,
                 closing, fails, got, shown, lastIn, marked>>

\* ... a typing indicator, or a chunk nobody waits for.
RdOther(c, n) ==
  /\ rd[c][n] = "recv"
  /\ Receive(c, n, {"typing", "chunks"})
  /\ UNCHANGED <<apiVars, procVars, connVars, done, rd, cur, links, advert, life,
                 closing, fails, eventVars, lastIn, marked>>

\* ReceiveFileBody has the chunks and saveFile stored them.
RdFile(c, n) ==
  /\ rd[c][n] = "body"
  /\ Receive(c, n, {"chunks"})
  /\ Surface(c, n, cur[c][n])
  /\ UNCHANGED <<apiVars, procVars, connVars, done, links, advert, life, closing,
                 fails, said, shown, marked>>

\* ReceiveFileBody took a frame that is no body of this file, or saveFile
\* failed: an error event, and the loop goes on.
RdFileLost(c, n) ==
  /\ rd[c][n] = "body"
  /\ wire[c][n] # <<>>
  /\ wire' = [wire EXCEPT ![c][n] = Tail(@)]
  /\ rd' = [rd EXCEPT ![c][n] = "recv"]
  /\ UNCHANGED <<apiVars, procVars, connVars, done, cur, links, advert, life,
                 closing, fails, eventVars, lastIn, marked>>

\* The DELIVERED receipt, whose error is ignored.
RdAck(c, n) ==
  /\ rd[c][n] = "ack"
  /\ ~SendMuHeld(n, c)
  /\ SendOK(c, n, Receipt(cur[c][n], "DELIVERED")) \/ SendErr
  /\ rd' = [rd EXCEPT ![c][n] = "recv"]
  /\ UNCHANGED <<apiVars, procVars, connVars, done, cur, links, advert, life,
                 closing, fails, eventVars, lastIn, marked>>

\* conn.Recv reports ErrClosed: inside a file body that is an error event and
\* the loop goes on; outside it ends the loop.
RdErr(c, n) ==
  /\ rd[c][n] \in {"recv", "body"}
  /\ done[c][n]
  /\ rd' = [rd EXCEPT ![c][n] = IF @ = "body" THEN "recv" ELSE "drop"]
  /\ UNCHANGED <<apiVars, procVars, connVars, done, wire, cur, links, advert, life,
                 closing, fails, eventVars, lastIn, marked>>

\* Variant: the loop closes its link and leaves it in the table.
RdDropOnlyCloses(c, n) ==
  /\ rd[c][n] = "drop"
  /\ Close(c, n)
  /\ rd' = [rd EXCEPT ![c][n] = "offline"]
  /\ UNCHANGED <<apiVars, procVars, connVars, wire, cur, links, advert, life,
                 closing, fails, eventVars, lastIn, marked>>

RdDrop(c, n) ==
  /\ rd[c][n] = "drop"
  /\ DropLink(n, c)
  /\ rd' = [rd EXCEPT ![c][n] = "offline"]
  /\ UNCHANGED <<apiVars, procVars, connVars, wire, cur, advert, life,
                 closing, fails, eventVars, lastIn, marked>>

\* Variant: the loop ends without a presence event.
RdOfflineSilent(c, n) ==
  /\ rd[c][n] = "offline"
  /\ rd' = [rd EXCEPT ![c][n] = "over"]
  /\ UNCHANGED <<apiVars, procVars, connVars, done, wire, cur, links, advert, life,
                 closing, fails, eventVars, lastIn, marked>>

RdOffline(c, n) ==
  /\ rd[c][n] = "offline"
  /\ shown' = [shown EXCEPT ![n][Other(c, n)] = FALSE]
  /\ rd' = [rd EXCEPT ![c][n] = "over"]
  /\ UNCHANGED <<apiVars, procVars, connVars, done, wire, cur, links, advert, life,
                 closing, fails, said, got, lastIn, marked>>

-----------------------------------------------------------------------------
(* Stop: the section under r.mu, then the closing of what it took out *)

StopSwap(n) ==
  /\ n \in Stoppers
  /\ life[n] = "running"
  /\ life' = [life EXCEPT ![n] = "stopping"]
  /\ closing' = [closing EXCEPT ![n] = {links[n][p] : p \in Nodes} \ {NoConn}]
  /\ links' = [links EXCEPT ![n] = [p \in Nodes |-> NoConn]]
  /\ UNCHANGED <<apiVars, procVars, connVars, done, wire, rd, cur, advert,
                 fails, eventVars, lastIn, marked>>

StopFinish(n) ==
  /\ life[n] = "stopping"
  /\ life' = [life EXCEPT ![n] = "stopped"]
  /\ done' = [c \in Conns |->
                [done[c] EXCEPT ![n] = @ \/ c \in closing[n]]]
  /\ closing' = [closing EXCEPT ![n] = {}]
  /\ UNCHANGED <<apiVars, procVars, connVars, wire, rd, cur, links, advert,
                 fails, eventVars, lastIn, marked>>

-----------------------------------------------------------------------------
(* The network *)

\* OnClose, or a failed connection state, after the other end was closed.
ConnDown(c, n) ==
  /\ up[c] /\ n \in {ini[c], rsp[c]}
  /\ ~done[c][n] /\ done[c][Other(c, n)]
  /\ Close(c, n)
  /\ UNCHANGED <<apiVars, procVars, connVars, wire, rd, cur, links, advert, life,
                 closing, fails, eventVars, lastIn, marked>>

\* The connection breaks under an end.
ConnFail(c, n) ==
  /\ fails < MaxFails
  /\ up[c] /\ n \in {ini[c], rsp[c]}
  /\ ~done[c][n]
  /\ fails' = fails + 1
  /\ Close(c, n)
  /\ UNCHANGED <<apiVars, procVars, connVars, wire, rd, cur, links, advert, life,
                 closing, eventVars, lastIn, marked>>

-----------------------------------------------------------------------------
DialStep(n, x) ==
  \/ DialOffer(n, x) \/ DialAnswer(n, x) \/ DialOpen(n, x)
  \/ DialHandshake(n, x) \/ DialNotFound(n, x) \/ DialFail(n, x)

SndStep(n) ==
  \/ SndTake(n) \/ SndBadURI(n) \/ SndClosed(n) \/ SndBackoff(n) \/ SndWrite(n)
  \/ SndNoFile(n) \/ SndChunks(n) \/ SndSent(n) \/ SndDrop(n)

LstStep(n) ==
  \/ LstHead(n) \/ LstOffer(n) \/ LstStopped(n) \/ LstOpen(n)
  \/ LstHandshake(n) \/ LstFail(n)

AdoptStep(n, x) == Adopt(n, x) \/ Announce(n, x)

RdStep(c, n) ==
  \/ RdText(c, n) \/ RdOffer(c, n) \/ RdReceipt(c, n) \/ RdOther(c, n)
  \/ RdFile(c, n) \/ RdFileLost(c, n) \/ RdAck(c, n)
  \/ RdErr(c, n) \/ RdDrop(c, n) \/ RdOffline(c, n)

Next ==
  \/ \E m \in Msgs : SendCall(m) \/ SendReturn(m)
  \/ \E n \in Nodes :
       \/ \E p \in Nodes : MarkRead(n, p) \/ SendTyping(n, p) \/ Diagnose(n, p)
       \/ \E x \in Diallers : DialStep(n, x)
       \/ \E x \in Procs : AdoptStep(n, x)
       \/ SndStep(n) \/ LstStep(n)
       \/ StopSwap(n) \/ StopFinish(n)
  \/ \E c \in Conns, n \in Nodes :
       RdStep(c, n) \/ ConnDown(c, n) \/ ConnFail(c, n)

Spec == Init /\ [][Next]_vars

\* Goroutines are scheduled, timers fire, a call whose channel has room
\* returns, and an end learns of the other end's closing.
Fairness ==
  /\ \A m \in Msgs : WF_vars(SendReturn(m))
  /\ \A n \in Nodes :
       /\ WF_vars(SndStep(n) \/ DialStep(n, "snd") \/ AdoptStep(n, "snd"))
       /\ WF_vars(DialStep(n, "diag") \/ AdoptStep(n, "diag"))
       /\ WF_vars(LstStep(n) \/ AdoptStep(n, "lst"))
       /\ WF_vars(StopFinish(n))
  /\ \A c \in Conns, n \in Nodes : WF_vars(RdStep(c, n)) /\ WF_vars(ConnDown(c, n))

FairSpec == Spec /\ Fairness
-----------------------------------------------------------------------------
(* Properties *)

Reading(c, n) == rd[c][n] \in {"recv", "body", "ack", "drop"}

Announcing(c, n) == \E x \in Procs : pc[n][x] = "announce" /\ conn[n][x] = c

Adopted(c, n) == Reading(c, n) \/ Announcing(c, n)

Occurrences(s, e) == Cardinality({i \in DOMAIN s : s[i] = e})

InSeq(e, s) == \E i \in DOMAIN s : s[i] = e

\* A link a node still reads from and has not closed is the one in its table
\* (or Stop has it in hand): adopt closes the link it replaces and dropLink
\* never removes a newer link, so no open link is forgotten.  Whether somebody
\* closes it is another matter: one adopted after Stop has taken the table is
\* registered in a table nobody looks at again, and stays open.
NoOrphanLink ==
  \A n \in Nodes, c \in Conns :
    Adopted(c, n) /\ ~done[c][n] =>
      links[n][Other(c, n)] = c \/ c \in closing[n]

\* Every link in the table has its recvLoop, or the goroutine that is about to
\* start it: a send over it can be answered, and its end will be noticed.
RegisteredLinkIsRead ==
  \A n \in Nodes, p \in Nodes :
    links[n][p] # NoConn =>
      Adopted(links[n][p], n) /\ Other(links[n][p], n) = p

\* No message or file is surfaced twice, whatever links it could have taken.
SurfacedOnce ==
  \A n \in Nodes : \A i, j \in DOMAIN got[n] : got[n][i] = got[n][j] => i = j

\* A text reported as failed never arrives: it is neither surfaced nor on its
\* way, so the user may send it again.
FailedTextNeverArrives ==
  \A m \in Msgs \ Files :
    InSeq("sendFailed", said[m]) =>
      \A n \in Nodes :
        /\ ~InSeq(m, got[n])
        /\ \A c \in Conns : ~InSeq(Envelope(m), wire[c][n])

\* A peer is shown online only while some reader for it is alive: the last
\* reader to end corrects the presence.
OnlineHasReader ==
  \A n \in Nodes, p \in Nodes :
    shown[n][p] => \E c \in Conns :
                      Other(c, n) = p /\ (Reading(c, n) \/ rd[c][n] = "offline")

\* Nothing is to be expected of c at n's end: an end is closed, or the send
\* worker at the other end failed to write and is about to drop the link.
GivenUp(c, n) ==
  LET p == Other(c, n) IN
  \/ done[c][n] \/ done[c][p]
  \/ p \in Nodes /\ pc[p]["snd"] = "drop" /\ conn[p]["snd"] = c

\* ReceiveFileBody takes frames on trust; what it takes is the body of the offer
\* it follows, because SendFile keeps sendMu over the transfer.  Only a transfer
\* that SendFile broke off, on a link that is being given up, is followed by
\* other frames.
FileBodyFollowsOffer ==
  \A c \in Conns, n \in Nodes :
    rd[c][n] = "body" /\ wire[c][n] # <<>> =>
      Head(wire[c][n]) = Chunks \/ GivenUp(c, n)

\* A link in the table whose end is closed is forgotten: the next send dials.
DeadLinkForgotten ==
  \A n \in Nodes : \A p \in Nodes \ {n} : \A c \in Conns :
    links[n][p] = c /\ done[c][n] ~> links[n][p] # c

Answered(m) == InSeq("sent", said[m]) \/ InSeq("sendFailed", said[m])

\* The send worker waits in RecvSDP for an answer to its offer that nobody is
\* going to send: Accept failed or the answer was lost or taken by another
\* dialler, or the peer stopped before it took the offer.
Unanswered(n) ==
  LET c == conn[n]["snd"] IN
  /\ pc[n]["snd"] = "answer"
  /\ sdp[c] = "used" \/ (sdp[c] = "offer" /\ IsClosed(rsp[c]))

\* Every request gets its "sent" or "sendFailed" event while its own runtime
\* runs, through retries, broken links and Stop of either side; only the one wait
\* without a timeout, RecvSDP's for an answer that never comes, can prevent it.
EveryRequestAnswered ==
  \A m \in Msgs :
    \/ phase[m] = "calling" ~> Answered(m) \/ IsClosed(Owner[m])
    \/ <>[]Unanswered(Owner[m])

\* Send blocks its caller, the thread of the user interface, while the outbox is
\* full.  The wait ends, because the worker makes room or Stop lets the caller go,
\* unless the worker waits for ever in RecvSDP.
SendReturns ==
  \A m \in Msgs :
    \/ phase[m] = "calling" ~> phase[m] = "returned"
    \/ <>[]Unanswered(Owner[m])

\* Send "returns immediately": it returns.
SendReturnsAlways ==
  \A m \in Msgs : phase[m] = "calling" ~> phase[m] = "returned"

\* Once presence events have been pushed, a peer with a live link is shown
\* online.
PresenceShowsLink ==
  \A n \in Nodes, p \in Nodes :
    LET c == links[n][p] IN
    /\ c # NoConn
    /\ rd[c][n] = "recv" /\ ~done[c][n]
    /\ \A d \in Conns : Other(d, n) = p => rd[d][n] # "offline" /\ ~Announcing(d, n)
    => shown[n][p]

\* What the user interfaces see of a message, in the terms of Delivery.
VerdictOn(m) ==
  IF InSeq("sent", said[m]) THEN "sent"
  ELSE IF InSeq("sendFailed", said[m]) THEN "sendFailed" ELSE "none"
TimesSurfaced(m) == IF Dest[m] = NoNode THEN 0 ELSE Occurrences(got[Dest[m]], MsgId(m))
ReceiptsFor(m) == {r \in {"DELIVERED", "READ"} : InSeq(r, said[m])}

Promise == INSTANCE Delivery WITH
  asked <- {m \in Msgs : phase[m] # "new"},
  verdict <- [m \in Msgs |-> VerdictOn(m)],
  arrived <- [m \in Msgs |-> TimesSurfaced(m)],
  receipts <- [m \in Msgs |-> ReceiptsFor(m)]

\* The engine implements Delivery: through retries, replaced and broken links,
\* files cut short and receipts that overtake verdicts, the events its users
\* see are those Delivery allows.
ImplementsDelivery == Promise!Spec

-----------------------------------------------------------------------------
(* The inductive invariant behind NoOrphanLink and RegisteredLinkIsRead.    *)
(* Every end of a connection passes through one goroutine that builds the  *)
(* link and then through one reader; while it is being built nobody else   *)
(* knows it.                                                               *)

\* A goroutine x of n that is building the link over its connection ...
Building(n, x) ==
  pc[n][x] \in {"answer", "open", "bundle", "hs", "adopt"}
\* ... or has registered it and not yet started its reader.
Holding(n, x) == Building(n, x) \/ pc[n][x] = "announce"

\* n's end of c has been claimed: by the dialler, or by taking the offer.
Claimed(c, n) ==
  ini[c] = n \/ (rsp[c] = n /\ sdp[c] \in {"answer", "used"})

\* Both ends are set together, differ, and come with an offer.
EndsOK ==
  \A c \in Conns :
    /\ ini[c] = NoNode <=> rsp[c] = NoNode
    /\ ini[c] = NoNode <=> sdp[c] = "none"
    /\ ini[c] # NoNode => ini[c] # rsp[c]

\* Requests stay with their owner and their peers are other nodes.
RequestsOK ==
  /\ \A n \in Nodes : \A i \in DOMAIN outbox[n] : Owner[outbox[n][i]] = n
  /\ \A n \in Nodes :
       pc[n]["snd"] \notin {"idle", "exit"} =>
         req[n] \in Msgs /\ Dest[req[n]] \in Nodes \ {n}
  /\ \A n \in Nodes :
       pc[n]["diag"] \notin {"idle", "exit"} => target[n] \in Nodes \ {n}

\* A worker that may try again has attempts left.
AttemptsLeft ==
  \A n \in Nodes : pc[n]["snd"] \notin {"idle", "exit"} => att[n] < Attempts

\* What deliver writes to is an end of its own node.
WriterOK ==
  \A n \in Nodes :
    pc[n]["snd"] \in {"write", "chunks", "drop", "sent"} => conn[n]["snd"] \in Conns

\* A reader inside a file or before a receipt knows which message it handles.
HandlingOK ==
  \A c \in Conns, n \in Nodes : rd[c][n] \in {"body", "ack"} => cur[c][n] \in Ids

\* The sets of program points of the three goroutines.
PointsOK ==
  \A n \in Nodes :
    /\ pc[n]["snd"] \notin {"head", "offer", "hs"}
    /\ pc[n]["diag"] \in {"idle", "find", "answer", "open", "bundle",
                          "adopt", "announce", "exit"}
    /\ pc[n]["lst"] \in {"head", "offer", "open", "hs", "adopt", "announce", "exit"}

\* What a goroutine holds is an end of its own node that it has claimed.
HoldingOK ==
  \A n \in Nodes :
    /\ \A x \in Diallers :
         Holding(n, x) => conn[n][x] \in Conns /\ ini[conn[n][x]] = n
    /\ Holding(n, "lst") =>
         /\ conn[n]["lst"] \in Conns
         /\ rsp[conn[n]["lst"]] = n
         /\ sdp[conn[n]["lst"]] \in {"answer", "used"}
    /\ Holding(n, "snd") /\ Holding(n, "diag") => conn[n]["snd"] # conn[n]["diag"]

\* Only claimed ends have readers or are in the table or in Stop's hands.
ClaimedOK ==
  \A n \in Nodes, c \in Conns :
    \/ rd[c][n] # "off"
    \/ \E p \in Nodes : links[n][p] = c
    \/ c \in closing[n]
    => Claimed(c, n)

\* A link being built has no reader, is not registered and not in Stop's hands.
BuildingOK ==
  \A n \in Nodes, x \in Procs :
    /\ Holding(n, x) => rd[conn[n][x]][n] = "off"
    /\ Building(n, x) =>
         /\ \A p \in Nodes : links[n][p] # conn[n][x]
         /\ conn[n][x] \notin closing[n]

\* Only a Stop in progress holds links.
StopOK == \A n \in Nodes : life[n] # "stopping" => closing[n] = {}

\* Who works on what: the part about requests and program points ...
BookInv == RequestsOK /\ AttemptsLeft /\ WriterOK /\ HandlingOK /\ PointsOK

\* ... and the part about connections and links.
LinkInv ==
  /\ EndsOK /\ HoldingOK /\ ClaimedOK /\ BuildingOK
  /\ NoOrphanLink /\ RegisteredLinkIsRead

IInv == TypeOK /\ BookInv /\ StopOK /\ LinkInv

=============================================================================
