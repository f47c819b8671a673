--------------------------- MODULE DeliveryProofs ---------------------------
(***************************************************************************)
(* Proofs about Runtime: what becomes of a message.                        *)
(*                                                                         *)
(* The invariant MsgInv follows every message from the call of Send to the *)
(* recipient's event.  It has four parts, each with a lemma for its step:  *)
(* the link the send worker writes to (WriterInv), the run of an offer and *)
(* its chunks on a connection (FlowInv), the one place where a message is  *)
(* (PlaceInv) and how far its sender is with it (StageInv).                *)
(***************************************************************************)
EXTENDS RuntimeProofs, FiniteSetTheorems

-----------------------------------------------------------------------------
(* The invariant *)

\* The send worker of n is at work on a request; it has a link for it.
Working(n) == pc[n]["snd"] \notin {"idle", "exit"}
Writing(n) == pc[n]["snd"] \in {"write", "chunks", "drop", "sent"}
Worked(m) == Working(Owner[m]) /\ req[Owner[m]] = m

\* The request is the worker's own, and its link leads to the recipient ...
RequestOK(n) ==
  /\ Working(n) => Owner[req[n]] = n
  /\ Holding(n, "snd") \/ Writing(n) => Other(conn[n]["snd"], n) = Dest[req[n]]
  /\ pc[n]["snd"] = "chunks" => req[n] \in Files
\* ... and is not one that a goroutine is still building.
LinkFree(n) ==
  Writing(n) =>
    /\ Claimed(conn[n]["snd"], n)
    /\ \A x \in Procs : Building(n, x) => conn[n][x] # conn[n]["snd"]
\* Frames travel between the ends of a connection only.
WireEnds ==
  \A c \in Conns, n \in Nodes :
    wire[c][n] # <<>> => ini[c] # NoNode /\ n \in {ini[c], rsp[c]}

WriterInv == WireEnds /\ \A n \in Nodes : RequestOK(n) /\ LinkFree(n)

\* The types WriterStep needs.
WriterTypes ==
  /\ outbox \in [Nodes -> Seq(Msgs)]
  /\ req \in [Nodes -> Msgs \cup {NoMsg}]
  /\ pc \in [Nodes -> [Procs -> PCs]]
  /\ conn \in [Nodes -> [Procs -> Conns \cup {NoConn}]]
  /\ ini \in [Conns -> Nodes \cup {NoNode}]
  /\ rsp \in [Conns -> Nodes \cup {NoNode}]
  /\ sdp \in [Conns -> {"none", "offer", "answer", "used"}]
  /\ links \in [Nodes -> [Nodes -> Conns \cup {NoConn}]]
  /\ rd \in [Conns -> [Nodes -> RDs]]

\* deliver's link stays the way WriterInv says: getLink and adopt hand it a link
\* to the recipient, and nobody builds on a connection that another goroutine has.
WriterLinks == \A n \in Nodes : RequestOK(n) /\ LinkFree(n)

\* Every step keeps this.
LEMMA WriterStep ==
  IInv /\ WriterLinks /\ [Next]_vars => WriterLinks'
<1> SUFFICES ASSUME IInv, WriterLinks, [Next]_vars PROVE WriterLinks'
  OBVIOUS
<1>t. /\ WriterTypes
      /\ RequestsOK /\ PointsOK /\ WriterOK /\ EndsOK /\ HoldingOK /\ ClaimedOK /\ BuildingOK
      /\ RegisteredLinkIsRead
  BY DEF IInv, TypeOK, BookInv, LinkInv, WriterTypes
<1> USE <1>t, RuntimeAssumption DEF WriterTypes, RequestsOK, PointsOK, WriterOK, EndsOK, HoldingOK, 
   ClaimedOK, WriterLinks, RequestOK, LinkFree, Working, Writing, Holding, Building, Other, Claimed, Goto,
   Procs, Diallers, apiVars, procVars, connVars, eventVars
<1>1. ASSUME NEW m \in Msgs, SendCall(m) PROVE WriterLinks'
  BY <1>1 DEF SendCall
<1>2. ASSUME NEW m \in Msgs, SendReturn(m) PROVE WriterLinks'
  BY <1>2 DEF SendReturn
<1>3. ASSUME NEW n \in Nodes, NEW p \in Nodes, MarkRead(n, p) PROVE WriterLinks'
  BY <1>3 DEF MarkRead
<1>4. ASSUME NEW n \in Nodes, NEW p \in Nodes, SendTyping(n, p) PROVE WriterLinks'
  BY <1>4 DEF SendTyping
<1>5. ASSUME NEW n \in Nodes, NEW p \in Nodes, Diagnose(n, p) PROVE WriterLinks'
  BY <1>5 DEF Diagnose
<1>6. ASSUME NEW n \in Nodes, NEW x \in Diallers, DialOffer(n, x) PROVE WriterLinks'
  <2> DEFINE d == CHOOSE c \in Conns : ini[c] = NoNode
  <2>1. /\ d \in Conns /\ ini[d] = NoNode /\ rsp[d] = NoNode /\ Peer(n, x) \in Nodes
        /\ ini' = [ini EXCEPT ![d] = n] /\ rsp' = [rsp EXCEPT ![d] = Peer(n, x)]
        /\ conn' = [conn EXCEPT ![n][x] = d] /\ pc' = [pc EXCEPT ![n][x] = "answer"]
        /\ sdp' = [sdp EXCEPT ![d] = "offer"] /\ pc[n][x] = "find" /\ UNCHANGED req
    BY <1>6 DEF DialOffer, Peer
  <2> HIDE DEF d
  <2> SUFFICES ASSUME NEW n2 \in Nodes PROVE RequestOK(n2)' /\ LinkFree(n2)'
    OBVIOUS
  <2>2. RequestOK(n2)'
    BY <2>1 DEF Peer
  <2>3. LinkFree(n2)'
    BY <2>1
  <2>4. QED  BY <2>2, <2>3
<1>7. ASSUME NEW n \in Nodes, NEW x \in Diallers, DialAnswer(n, x) PROVE WriterLinks'
  <2>1. PICK d \in Conns : /\ sdp[d] = "answer" /\ sdp' = [sdp EXCEPT ![d] = "used"]
                           /\ pc[n][x] = "answer" /\ pc' = [pc EXCEPT ![n][x] = "open"]
                           /\ UNCHANGED <<req, conn, ini, rsp>>
    BY <1>7 DEF DialAnswer
  <2> SUFFICES ASSUME NEW n2 \in Nodes PROVE RequestOK(n2)' /\ LinkFree(n2)'
    OBVIOUS
  <2>2. RequestOK(n2)'
    BY <2>1
  <2>3. LinkFree(n2)'
    BY <2>1
  <2>4. QED  BY <2>2, <2>3
<1>8. ASSUME NEW n \in Nodes, NEW x \in Diallers, DialOpen(n, x) PROVE WriterLinks'
  BY <1>8 DEF DialOpen
<1>9. ASSUME NEW n \in Nodes, NEW x \in Diallers, DialHandshake(n, x) PROVE WriterLinks'
  BY <1>9 DEF DialHandshake
<1>10. ASSUME NEW n \in Nodes, NEW x \in Diallers, DialNotFound(n, x) PROVE WriterLinks'
  BY <1>10 DEF DialNotFound, AfterFailure
<1>11. ASSUME NEW n \in Nodes, NEW x \in Diallers, DialFail(n, x) PROVE WriterLinks'
  <2>1. PICK l \in {"exit", "backoff"} : pc' = [pc EXCEPT ![n][x] = l] /\ pc[n][x] \notin {"idle", "exit"}
    BY <1>11 DEF DialFail, AfterFailure
  <2>2. UNCHANGED <<req, conn, ini, rsp, sdp>>
    BY <1>11 DEF DialFail, AfterFailure
  <2>3. QED  BY <2>1, <2>2
<1>12. ASSUME NEW n \in Nodes, NEW x \in Procs, Adopt(n, x) PROVE WriterLinks'
  <2>1. /\ pc[n][x] = "adopt" /\ pc' = [pc EXCEPT ![n][x] = "announce"]
        /\ UNCHANGED <<req, conn, ini, rsp, sdp>>
    BY <1>12 DEF Adopt
  <2> SUFFICES ASSUME NEW n2 \in Nodes PROVE RequestOK(n2)' /\ LinkFree(n2)'
    OBVIOUS
  <2>2. RequestOK(n2)'
    BY <2>1
  <2>3. LinkFree(n2)'
    BY <2>1
  <2>4. QED  BY <2>2, <2>3
<1>13. ASSUME NEW n \in Nodes, NEW x \in Procs, Announce(n, x) PROVE WriterLinks'
  BY <1>13 DEF Announce
<1>14. ASSUME NEW n \in Nodes, SndTake(n) PROVE WriterLinks'
  <2> DEFINE m == Head(outbox[n])
             d == links[n][Dest[m]]
  <2>1. /\ m \in Msgs /\ Owner[m] = n /\ Dest[m] \in Nodes \ {n}
        /\ pc' = [pc EXCEPT ![n]["snd"] = IF d = NoConn THEN "find" ELSE "write"]
        /\ conn' = [conn EXCEPT ![n]["snd"] = d] /\ req' = [req EXCEPT ![n] = m]
        /\ UNCHANGED <<ini, rsp, sdp>>
    BY <1>14 DEF SndTake
  <2>2. d # NoConn => d \in Conns /\ Other(d, n) = Dest[m] /\ Claimed(d, n)
                      /\ \A x \in Procs : Building(n, x) => conn[n][x] # d
    <3>1. d # NoConn => d \in Conns /\ Other(d, n) = Dest[m]
      BY <2>1 DEF RegisteredLinkIsRead
    <3>2. d # NoConn => Claimed(d, n)
      BY <2>1, <3>1
    <3>3. d # NoConn => \A x \in Procs : Building(n, x) => conn[n][x] # d
      BY <2>1, <3>1 DEF BuildingOK
    <3>4. QED  BY <3>1, <3>2, <3>3
  <2> HIDE DEF m, d
  <2> SUFFICES ASSUME NEW n2 \in Nodes PROVE RequestOK(n2)' /\ LinkFree(n2)'
    OBVIOUS
  <2>3. RequestOK(n2)'
    BY <2>1, <2>2
  <2>4. LinkFree(n2)'
    BY <2>1, <2>2
  <2>5. QED  BY <2>3, <2>4
<1>15. ASSUME NEW n \in Nodes, SndBadURI(n) PROVE WriterLinks'
  BY <1>15 DEF SndBadURI
<1>16. ASSUME NEW n \in Nodes, SndClosed(n) PROVE WriterLinks'
  BY <1>16 DEF SndClosed
<1>17. ASSUME NEW n \in Nodes, SndBackoff(n) PROVE WriterLinks'
  <2>1. PICK l \in {"find", "idle"} : pc' = [pc EXCEPT ![n]["snd"] = l]
    BY <1>17 DEF SndBackoff, Report
  <2>2. /\ UNCHANGED <<conn, ini, rsp, sdp>> /\ pc[n]["snd"] = "backoff"
        /\ \A k \in Nodes \ {n} : req'[k] = req[k]
        /\ pc'[n]["snd"] = "find" => req'[n] = req[n]
    BY <1>17 DEF SndBackoff, Report
  <2>3. QED  BY <2>1, <2>2
<1>18. ASSUME NEW n \in Nodes, SndWrite(n) PROVE WriterLinks'
  <2>1. PICK l \in {"chunks", "sent", "drop"} :
          pc' = [pc EXCEPT ![n]["snd"] = l] /\ (l = "chunks" => req[n] \in Files)
    BY <1>18 DEF SndWrite
  <2>2. UNCHANGED <<conn, ini, rsp, sdp, req>> /\ pc[n]["snd"] = "write"
    BY <1>18 DEF SndWrite
  <2>3. QED  BY <2>1, <2>2
<1>19. ASSUME NEW n \in Nodes, SndNoFile(n) PROVE WriterLinks'
  BY <1>19 DEF SndNoFile, Report
<1>20. ASSUME NEW n \in Nodes, SndChunks(n) PROVE WriterLinks'
  <2>1. PICK l \in {"sent", "drop"} : pc' = [pc EXCEPT ![n]["snd"] = l]
    BY <1>20 DEF SndChunks
  <2>2. UNCHANGED <<conn, ini, rsp, sdp, req>> /\ pc[n]["snd"] = "chunks"
    BY <1>20 DEF SndChunks
  <2>3. QED  BY <2>1, <2>2
<1>21. ASSUME NEW n \in Nodes, SndSent(n) PROVE WriterLinks'
  BY <1>21 DEF SndSent, Report
<1>22. ASSUME NEW n \in Nodes, SndDrop(n) PROVE WriterLinks'
  BY <1>22 DEF SndDrop, Report
<1>23. ASSUME NEW n \in Nodes, LstHead(n) PROVE WriterLinks'
  <2>1. PICK l \in {"exit", "offer"} : pc' = [pc EXCEPT ![n]["lst"] = l]
    BY <1>23 DEF LstHead
  <2>2. UNCHANGED <<conn, ini, rsp, sdp, req>>
    BY <1>23 DEF LstHead
  <2>3. QED  BY <2>1, <2>2
<1>24. ASSUME NEW n \in Nodes, LstOffer(n) PROVE WriterLinks'
  <2>1. PICK d \in Conns, l \in {"open", "head"}, a \in {"answer", "used"} :
          /\ rsp[d] = n /\ sdp[d] = "offer" /\ sdp' = [sdp EXCEPT ![d] = a]
          /\ conn' = [conn EXCEPT ![n]["lst"] = d] /\ pc' = [pc EXCEPT ![n]["lst"] = l]
          /\ UNCHANGED <<req, ini, rsp>>
    BY <1>24 DEF LstOffer
  <2> SUFFICES ASSUME NEW n2 \in Nodes PROVE RequestOK(n2)' /\ LinkFree(n2)'
    OBVIOUS
  <2>2. RequestOK(n2)'
    BY <2>1
  <2>3. LinkFree(n2)'
    BY <2>1
  <2>4. QED  BY <2>2, <2>3
<1>25. ASSUME NEW n \in Nodes, LstStopped(n) PROVE WriterLinks'
  BY <1>25 DEF LstStopped
<1>26. ASSUME NEW n \in Nodes, LstOpen(n) PROVE WriterLinks'
  BY <1>26 DEF LstOpen
<1>27. ASSUME NEW n \in Nodes, LstHandshake(n) PROVE WriterLinks'
  BY <1>27 DEF LstHandshake
<1>28. ASSUME NEW n \in Nodes, LstFail(n) PROVE WriterLinks'
  BY <1>28 DEF LstFail
<1>29. ASSUME NEW n \in Nodes, StopSwap(n) PROVE WriterLinks'
  BY <1>29 DEF StopSwap
<1>30. ASSUME NEW n \in Nodes, StopFinish(n) PROVE WriterLinks'
  BY <1>30 DEF StopFinish
<1>31. ASSUME NEW c \in Conns, NEW n \in Nodes, RdText(c, n) PROVE WriterLinks'
  BY <1>31 DEF RdText, Surface
<1>32. ASSUME NEW c \in Conns, NEW n \in Nodes, RdOffer(c, n) PROVE WriterLinks'
  BY <1>32 DEF RdOffer
<1>33. ASSUME NEW c \in Conns, NEW n \in Nodes, RdReceipt(c, n) PROVE WriterLinks'
  BY <1>33 DEF RdReceipt
<1>34. ASSUME NEW c \in Conns, NEW n \in Nodes, RdOther(c, n) PROVE WriterLinks'
  BY <1>34 DEF RdOther
<1>35. ASSUME NEW c \in Conns, NEW n \in Nodes, RdFile(c, n) PROVE WriterLinks'
  BY <1>35 DEF RdFile, Surface
<1>36. ASSUME NEW c \in Conns, NEW n \in Nodes, RdFileLost(c, n) PROVE WriterLinks'
  BY <1>36 DEF RdFileLost
<1>37. ASSUME NEW c \in Conns, NEW n \in Nodes, RdAck(c, n) PROVE WriterLinks'
  BY <1>37 DEF RdAck
<1>38. ASSUME NEW c \in Conns, NEW n \in Nodes, RdErr(c, n) PROVE WriterLinks'
  BY <1>38 DEF RdErr
<1>39. ASSUME NEW c \in Conns, NEW n \in Nodes, RdDrop(c, n) PROVE WriterLinks'
  BY <1>39 DEF RdDrop
<1>40. ASSUME NEW c \in Conns, NEW n \in Nodes, RdOffline(c, n) PROVE WriterLinks'
  BY <1>40 DEF RdOffline
<1>41. ASSUME NEW c \in Conns, NEW n \in Nodes, ConnDown(c, n) PROVE WriterLinks'
  BY <1>41 DEF ConnDown
<1>42. ASSUME NEW c \in Conns, NEW n \in Nodes, ConnFail(c, n) PROVE WriterLinks'
  BY <1>42 DEF ConnFail
<1>43. CASE UNCHANGED vars
  BY <1>43 DEF vars
<1>44. QED
  <2> HIDE DEF WriterLinks
  <2>1. ASSUME NEW n \in Nodes, NEW x \in Diallers, DialStep(n, x) PROVE WriterLinks'
    BY <2>1, <1>6, <1>7, <1>8, <1>9, <1>10, <1>11 DEF DialStep
  <2>2. ASSUME NEW n \in Nodes, NEW x \in Procs, AdoptStep(n, x) PROVE WriterLinks'
    BY <2>2, <1>12, <1>13 DEF AdoptStep
  <2>3. ASSUME NEW n \in Nodes, SndStep(n) PROVE WriterLinks'
    BY <2>3, <1>14, <1>15, <1>16, <1>17, <1>18, <1>19, <1>20, <1>21, <1>22 DEF SndStep
  <2>4. ASSUME NEW n \in Nodes, LstStep(n) PROVE WriterLinks'
    BY <2>4, <1>23, <1>24, <1>25, <1>26, <1>27, <1>28 DEF LstStep
  <2>5. ASSUME NEW c \in Conns, NEW n \in Nodes, RdStep(c, n) PROVE WriterLinks'
    BY <2>5, <1>31, <1>32, <1>33, <1>34, <1>35, <1>36, <1>37, <1>38, <1>39, <1>40 DEF RdStep
  <2>6. QED
    BY <2>1, <2>2, <2>3, <2>4, <2>5, <1>1, <1>2, <1>3, <1>4, <1>5,
       <1>29, <1>30, <1>41, <1>42, <1>43 DEF Next

\* Nothing more reaches n over c: an end is closed.
Dead(c, n) == done[c][n] \/ done[c][Other(c, n)]
\* The sender at the other end of c is between the offer of a file and its chunks.
Between(c, n) ==
  n \in {ini[c], rsp[c]} /\ Other(c, n) \in Nodes /\ SendMuHeld(Other(c, n), c)
\* A reader of n has the offer with id i and waits for the chunks.
InBody(i, c, n) == rd[c][n] = "body" /\ cur[c][n] = i

\* Frames that carry a message, and frames that have no part in one.
Carrier(f) == f.kind \in {"text", "offer"}
Loose(f) == f.kind \notin {"text", "offer", "chunks"}

\* On the wire the chunks come right after their offer, unless the sender has
\* yet to send them or never will; a transfer that was broken off may be
\* followed by receipts and typing marks ...
Follows(c, n, f) == f = Chunks \/ (GivenUp(c, n) /\ ~Carrier(f))
OfferRun(c, n) ==
  \A k \in DOMAIN wire[c][n] :
    wire[c][n][k].kind = "offer" =>
      IF k < Len(wire[c][n]) THEN Follows(c, n, wire[c][n][k + 1])
                             ELSE Between(c, n) \/ GivenUp(c, n)
\* ... the same holds once the reader has taken the offer ...
BodyRun(c, n) ==
  rd[c][n] = "body" =>
    IF wire[c][n] # <<>> THEN Follows(c, n, Head(wire[c][n]))
                         ELSE Between(c, n) \/ GivenUp(c, n)
\* ... and the last thing a sender of chunks has sent is the offer.
BetweenRun(c, n) ==
  Between(c, n) /\ ~Dead(c, n) =>
    LET m == req[Other(c, n)]  w == wire[c][n] IN
    \/ w # <<>> /\ w[Len(w)] = Envelope(m)
    \/ w = <<>> /\ InBody(MsgId(m), c, n)

FlowInv ==
  \A c \in Conns, n \in Nodes : OfferRun(c, n) /\ BodyRun(c, n) /\ BetweenRun(c, n)

\* Where a message is on a wire.
Carries(c, n, k, i) == Carrier(wire[c][n][k]) /\ wire[c][n][k].id = i
Surfaced(i) == \E n \in Nodes : InSeq(i, got[n])

\* A message is on one wire, at one place of it ...
OneFrame ==
  \A i \in Ids : \A c, d \in Conns : \A n, p \in Nodes :
    \A k \in DOMAIN wire[c][n], l \in DOMAIN wire[d][p] :
      Carries(c, n, k, i) /\ Carries(d, p, l, i) => c = d /\ n = p /\ k = l
\* ... or in the hands of one reader, or surfaced.
OnePlace ==
  \A i \in Ids : \A c \in Conns : \A n \in Nodes :
    /\ \A k \in DOMAIN wire[c][n] : Carries(c, n, k, i) =>
         ~Surfaced(i) /\ \A d \in Conns, p \in Nodes : ~InBody(i, d, p)
    /\ InBody(i, c, n) =>
         ~Surfaced(i) /\ \A d \in Conns, p \in Nodes : InBody(i, d, p) => c = d /\ n = p
\* It goes to its recipient and to nobody else.
Routed ==
  \A n \in Nodes :
    /\ \A k \in DOMAIN got[n] : \E m \in Msgs : got[n][k] = MsgId(m) /\ Dest[m] = n
    /\ \A c \in Conns :
         /\ rd[c][n] = "body" => \E m \in Files : cur[c][n] = MsgId(m) /\ Dest[m] = n
         /\ \A k \in DOMAIN wire[c][n] : Carrier(wire[c][n][k]) =>
              \E m \in Msgs : wire[c][n][k] = Envelope(m) /\ Dest[m] = n
\* Receipts are written for what has been surfaced.
ReceiptsTrue ==
  \A n \in Nodes :
    /\ \A p \in Nodes : lastIn[n][p] # NoMsg => Surfaced(lastIn[n][p])
    /\ \A c \in Conns :
         /\ rd[c][n] = "ack" => Surfaced(cur[c][n])
         /\ \A k \in DOMAIN wire[c][n] :
              wire[c][n][k].kind = "receipt" => Surfaced(wire[c][n][k].id)

PlaceInv == OneFrame /\ OnePlace /\ Routed /\ ReceiptsTrue /\ SurfacedOnce

\* A message that was handed to the worker, failed, or left its sender.
Queued(m) == InSeq(m, outbox[Owner[m]])
Failed(m) == InSeq("sendFailed", said[m])
Out(m) ==
  \/ Surfaced(MsgId(m))
  \/ \E c \in Conns, n \in Nodes :
       InBody(MsgId(m), c, n) \/ \E k \in DOMAIN wire[c][n] : Carries(c, n, k, MsgId(m))
\* Of a file, no more than the offer left.
Stub(m) ==
  /\ ~Surfaced(MsgId(m))
  /\ \A c \in Conns, n \in Nodes :
       /\ InBody(MsgId(m), c, n) => wire[c][n] = <<>> \/ Head(wire[c][n]) # Chunks
       /\ \A k \in DOMAIN wire[c][n] :
            Carries(c, n, k, MsgId(m)) => k = Len(wire[c][n]) \/ wire[c][n][k + 1] # Chunks

\* A request is in the outbox or worked on, then answered, each once.
QueueOK ==
  /\ \A n \in Nodes : \A k, l \in DOMAIN outbox[n] : outbox[n][k] = outbox[n][l] => k = l
  /\ \A m \in Msgs :
       /\ Queued(m) \/ Worked(m) \/ Answered(m) \/ Out(m) => phase[m] = "returned"
       /\ Queued(m) => ~Worked(m)
       /\ Queued(m) \/ Worked(m) => ~Answered(m)
\* Before the worker has written it, and when it failed to, it is nowhere.
Unsent(m) ==
  \/ Queued(m)
  \/ Worked(m) /\ pc[Owner[m]]["snd"] \notin {"chunks", "drop", "sent"}
  \/ m \notin Files /\ (Failed(m) \/ (Worked(m) /\ pc[Owner[m]]["snd"] = "drop"))
UnsentOK == \A m \in Msgs : Unsent(m) => ~Out(m)
\* A file that failed, or whose chunks are not sent yet, cannot be complete.
Cut(m) == Failed(m) \/ (Worked(m) /\ pc[Owner[m]]["snd"] \in {"chunks", "drop"})
CutOK == \A m \in Files : Cut(m) => Stub(m)

StageInv == QueueOK /\ UnsentOK /\ CutOK

MsgInv == WriterInv /\ FlowInv /\ PlaceInv /\ StageInv

-----------------------------------------------------------------------------
(* Moves on the wire *)

Kept(c, n) == wire'[c][n] = wire[c][n]
Popped(c, n) == wire[c][n] # <<>> /\ wire'[c][n] = Tail(wire[c][n])
Pushed(c, n, f) ==
  /\ wire'[c][n] = Append(wire[c][n], f)
  /\ ~Dead(c, n)
  /\ ini[c] # NoNode /\ n \in {ini[c], rsp[c]}

\* What conn.Send does to the wires: at most the one to the other end grows.
LEMMA SendMoves ==
  ASSUME TypeOK, EndsOK, NEW c \in Conns, NEW n \in Nodes, NEW f \in Frames,
         Claimed(c, n), SendOK(c, n, f) \/ SendErr
  PROVE  /\ Other(c, n) \in Nodes \ {n} /\ Other(c, Other(c, n)) = n
         /\ \A d \in Conns, p \in Nodes :
              Kept(d, p) \/ (d = c /\ p = Other(c, n) /\ Pushed(c, p, f))
<1>1. Other(c, n) \in Nodes \ {n} /\ Other(c, Other(c, n)) = n
      /\ ini[c] # NoNode /\ Other(c, n) \in {ini[c], rsp[c]}
  BY RuntimeAssumption DEF TypeOK, EndsOK, Claimed, Other
<1>2. ASSUME NEW d \in Conns, NEW p \in Nodes
      PROVE  Kept(d, p) \/ (d = c /\ p = Other(c, n) /\ Pushed(c, p, f))
  <2> DEFINE o == Other(c, n)
  <2>1. wire \in [Conns -> [Nodes -> Seq(Frames)]]
    BY DEF TypeOK
  <2>2. CASE wire' = wire
    BY <2>2 DEF Kept
  <2>3. CASE /\ wire' = [wire EXCEPT ![c][o] = Append(@, f)]
             /\ ~done[c][n] /\ ~done[c][o]
    <3>1. CASE d = c /\ p = o
      <4>1. wire'[c][o] = Append(wire[c][o], f)
        BY <1>1, <2>1, <2>3
      <4>2. ~Dead(c, o)
        BY <1>1, <2>3 DEF Dead
      <4>3. QED  BY <1>1, <3>1, <4>1, <4>2 DEF Pushed
    <3>2. CASE ~(d = c /\ p = o)
      BY <1>1, <2>1, <2>3, <3>2 DEF Kept
    <3>3. QED  BY <3>1, <3>2
  <2>4. QED  BY <2>2, <2>3 DEF SendOK, SendErr
<1>3. QED  BY <1>1, <1>2

\* ... and it does not when Send fails or an end is closed.
LEMMA SendCases ==
  ASSUME TypeOK, EndsOK, NEW c \in Conns, NEW n \in Nodes, NEW f, NEW o, o = Other(c, n),
         Claimed(c, n)
  PROVE  /\ SendErr => UNCHANGED wire
         /\ SendOK(c, n, f) =>
              \/ UNCHANGED wire /\ Dead(c, o)
              \/ ~Dead(c, o) /\ wire' = [wire EXCEPT ![c][o] = Append(@, f)]
<1>1. o \in Nodes \ {n} /\ Other(c, o) = n
  BY RuntimeAssumption DEF TypeOK, EndsOK, Claimed, Other
<1>2. Dead(c, o) <=> done[c][n] \/ done[c][o]
  BY <1>1 DEF Dead
<1>3. QED  BY <1>2 DEF SendOK, SendErr

\* A step that moves no message: no frame of one is sent or taken, no reader
\* takes an offer or surfaces anything, and file transfers stay as they are.
PlainMove(c, n) ==
  \/ Kept(c, n)
  \/ Popped(c, n) /\ ~Carrier(Head(wire[c][n])) /\ rd'[c][n] # "body"
  \/ \E f \in Frames :
       /\ Pushed(c, n, f) /\ ~Between(c, n)
       /\ Loose(f) /\ (f.kind = "receipt" => Surfaced(f.id))
Plain ==
  /\ UNCHANGED <<got, lastIn>>
  /\ \A c \in Conns : (ini'[c] = ini[c] /\ rsp'[c] = rsp[c]) \/ ini[c] = NoNode
  /\ \A n \in Nodes :
       /\ pc'[n]["snd"] = "chunks" <=> pc[n]["snd"] = "chunks"
       /\ pc[n]["snd"] = "chunks" => conn'[n]["snd"] = conn[n]["snd"] /\ req'[n] = req[n]
       /\ pc[n]["snd"] = "drop" =>
            \/ pc'[n]["snd"] = "drop" /\ conn'[n]["snd"] = conn[n]["snd"]
            \/ done'[conn[n]["snd"]][n]
  /\ \A c \in Conns, n \in Nodes :
       /\ PlainMove(c, n)
       /\ done[c][n] => done'[c][n]
       /\ rd'[c][n] \in {"body", "ack"} => rd'[c][n] = rd[c][n] /\ cur'[c][n] = cur[c][n]
       /\ rd[c][n] = "body" => rd'[c][n] = "body" \/ done'[c][n] \/ wire[c][n] # <<>>

\* Five steps move a message; every other step is plain.
LEMMA PlainSteps ==
  ASSUME IInv, WriterInv, FlowInv, PlaceInv, [Next]_vars
  PROVE  \/ Plain
         \/ \E n \in Nodes : SndWrite(n) \/ SndChunks(n)
         \/ \E c \in Conns, n \in Nodes : RdText(c, n) \/ RdOffer(c, n) \/ RdFile(c, n)
<1> DEFINE Goal ==
      \/ Plain
      \/ \E n \in Nodes : SndWrite(n) \/ SndChunks(n)
      \/ \E c \in Conns, n \in Nodes : RdText(c, n) \/ RdOffer(c, n) \/ RdFile(c, n)
<1> SUFFICES Goal
  OBVIOUS
<1>t. /\ TypeOK /\ PointsOK /\ HoldingOK /\ BuildingOK /\ EndsOK /\ ClaimedOK
      /\ RegisteredLinkIsRead /\ LinkTypes
  BY DEF IInv, BookInv, LinkInv, TypeOK, LinkTypes
<1>k. ASSUME UNCHANGED wire PROVE \A c \in Conns, n \in Nodes : PlainMove(c, n)
  BY <1>k DEF PlainMove, Kept
<1>r. /\ cur \in [Conns -> [Nodes -> Ids \cup {NoMsg}]] /\ req \in [Nodes -> Msgs \cup {NoMsg}]
      /\ wire \in [Conns -> [Nodes -> Seq(Frames)]]
  BY <1>t DEF TypeOK
<1>p. ASSUME NEW c \in Conns, NEW n \in Nodes, NEW f \in Frames, Claimed(c, n),
             SendOK(c, n, f) \/ SendErr, ~SendMuHeld(n, c),
             Loose(f), f.kind = "receipt" => Surfaced(f.id)
      PROVE  \A d \in Conns, p \in Nodes : PlainMove(d, p)
  BY <1>p, <1>t, SendMoves DEF PlainMove, Between
<1>h. ASSUME NEW c \in Conns, NEW n \in Nodes, wire[c][n] # <<>>,
             ~Carrier(Head(wire[c][n])), rd'[c][n] # "body",
             wire' = [wire EXCEPT ![c][n] = Tail(@)]
      PROVE  \A d \in Conns, p \in Nodes : PlainMove(d, p)
  BY <1>h, <1>r DEF PlainMove, Kept, Popped
<1> USE <1>t, <1>r DEF LinkTypes, Plain, Goto, PointsOK, Procs, Diallers, apiVars, procVars, connVars, eventVars
<1>1. ASSUME NEW m \in Msgs, SendCall(m) PROVE Goal
  BY <1>1, <1>k DEF SendCall
<1>2. ASSUME NEW m \in Msgs, SendReturn(m) PROVE Goal
  BY <1>2, <1>k DEF SendReturn
<1>3. ASSUME NEW n \in Nodes, NEW p \in Nodes, MarkRead(n, p) PROVE Goal
  <2>1. /\ links[n][p] \in Conns /\ Claimed(links[n][p], n)
        /\ lastIn[n][p] \in Ids /\ Surfaced(lastIn[n][p])
    BY <1>3 DEF MarkRead, ClaimedOK, PlaceInv, ReceiptsTrue, TypeOK
  <2>2. Receipt(lastIn[n][p], "READ") \in Frames
    BY <2>1, FrameMembers
  <2>3. \A d \in Conns, q \in Nodes : PlainMove(d, q)
    BY <2>1, <2>2, <1>p, <1>3 DEF MarkRead, Receipt, Loose
  <2>4. QED  BY <2>3, <1>3 DEF MarkRead
<1>4. ASSUME NEW n \in Nodes, NEW p \in Nodes, SendTyping(n, p) PROVE Goal
  <2>1. links[n][p] \in Conns /\ Claimed(links[n][p], n)
    BY <1>4 DEF SendTyping, ClaimedOK
  <2>2. \A d \in Conns, q \in Nodes : PlainMove(d, q)
    BY <2>1, FrameMembers, <1>p, <1>4 DEF SendTyping, Typing, Loose
  <2>3. QED  BY <2>2, <1>4 DEF SendTyping
<1>5. ASSUME NEW n \in Nodes, NEW p \in Nodes, Diagnose(n, p) PROVE Goal
  BY <1>5, <1>k DEF Diagnose
<1>6. ASSUME NEW n \in Nodes, NEW x \in Diallers, DialOffer(n, x) PROVE Goal
  <2>1. ini[CHOOSE c \in Conns : ini[c] = NoNode] = NoNode
    BY <1>6 DEF DialOffer
  <2>2. QED  BY <2>1, <1>6, <1>k DEF DialOffer
<1>7. ASSUME NEW n \in Nodes, NEW x \in Diallers, DialAnswer(n, x) PROVE Goal
  BY <1>7, <1>k DEF DialAnswer
<1>8. ASSUME NEW n \in Nodes, NEW x \in Diallers, DialOpen(n, x) PROVE Goal
  BY <1>8, <1>k DEF DialOpen
<1>9. ASSUME NEW n \in Nodes, NEW x \in Diallers, DialHandshake(n, x) PROVE Goal
  <2> DEFINE c == conn[n][x]
             o == Other(c, n)
  <2>1. /\ c \in Conns /\ Claimed(c, n) /\ ~SendMuHeld(n, c) /\ rd[c][n] = "off"
    BY <1>9 DEF DialHandshake, HoldingOK, BuildingOK, Holding, Building, Claimed, WriterInv,
       LinkFree, Writing, SendMuHeld
  <2>2. o \in Nodes \ {n} /\ Other(c, o) = n /\ ini[c] # NoNode /\ o \in {ini[c], rsp[c]}
    BY <2>1, RuntimeAssumption DEF EndsOK, Claimed, Other
  <2>3. /\ wire'[c][n] = Tail(wire[c][n]) /\ wire[c][n] # <<>> /\ Head(wire[c][n]) = Bundle
        /\ rd'[c][n] # "body"
        /\ \A d \in Conns, q \in Nodes :
             d # c \/ q \notin {n, o} => wire'[d][q] = wire[d][q]
        /\ IF done[c][o] THEN wire'[c][o] = wire[c][o]
           ELSE wire'[c][o] = Append(wire[c][o], Handshake) /\ ~done[c][n]
    BY <2>1, <2>2, <1>9 DEF DialHandshake
  <2> HIDE DEF c, o
  <2>4. PlainMove(c, n)
    BY <2>3 DEF PlainMove, Popped, Carrier, Bundle
  <2>5. PlainMove(c, o)
    BY <2>1, <2>2, <2>3, FrameMembers DEF PlainMove, Kept, Pushed, Dead, Between, Loose, Handshake
  <2>6. \A d \in Conns, q \in Nodes : PlainMove(d, q)
    <3>1. ASSUME NEW d \in Conns, NEW q \in Nodes, wire'[d][q] = wire[d][q] PROVE PlainMove(d, q)
      BY <3>1 DEF PlainMove, Kept
    <3>2. QED  BY <2>3, <2>4, <2>5, <3>1
  <2>7. QED  BY <2>6, <1>9 DEF DialHandshake
<1>10. ASSUME NEW n \in Nodes, NEW x \in Diallers, DialNotFound(n, x) PROVE Goal
  BY <1>10, <1>k DEF DialNotFound, AfterFailure
<1>11. ASSUME NEW n \in Nodes, NEW x \in Diallers, DialFail(n, x) PROVE Goal
  BY <1>11, <1>k DEF DialFail, AfterFailure, Close
<1>12. ASSUME NEW n \in Nodes, NEW x \in Procs, Adopt(n, x) PROVE Goal
  BY <1>12, <1>k DEF Adopt
<1>13. ASSUME NEW n \in Nodes, NEW x \in Procs, Announce(n, x) PROVE Goal
  <2>1. PICK l \in {"write", "exit", "head"} : pc' = [pc EXCEPT ![n][x] = l]
    BY <1>13 DEF Announce
  <2>2. pc[n][x] = "announce"
    BY <1>13 DEF Announce
  <2>3. rd[conn[n][x]][n] = "off"
    BY <2>2 DEF BuildingOK, Holding
  <2>4. QED  BY <2>1, <2>2, <2>3, <1>13, <1>k DEF Announce
<1>14. ASSUME NEW n \in Nodes, SndTake(n) PROVE Goal
  BY <1>14, <1>k DEF SndTake
<1>15. ASSUME NEW n \in Nodes, SndBadURI(n) PROVE Goal
  BY <1>15, <1>k DEF SndBadURI
<1>16. ASSUME NEW n \in Nodes, SndClosed(n) PROVE Goal
  <2>1. PICK l \in {"idle", "exit"} : pc' = [pc EXCEPT ![n]["snd"] = l]
    BY <1>16 DEF SndClosed
  <2>2. pc[n]["snd"] \in {"find", "backoff", "idle"}
    BY <1>16 DEF SndClosed
  <2>3. QED  BY <2>1, <2>2, <1>16, <1>k DEF SndClosed
<1>17. ASSUME NEW n \in Nodes, SndBackoff(n) PROVE Goal
  <2>1. PICK l \in {"find", "idle"} : pc' = [pc EXCEPT ![n]["snd"] = l]
    BY <1>17 DEF SndBackoff, Report
  <2>2. pc[n]["snd"] = "backoff" /\ \A k \in Nodes \ {n} : req'[k] = req[k]
    BY <1>17 DEF SndBackoff, Report
  <2>3. QED  BY <2>1, <2>2, <1>17, <1>k DEF SndBackoff
<1>18. ASSUME NEW n \in Nodes, SndWrite(n) PROVE Goal
  BY <1>18
<1>19. ASSUME NEW n \in Nodes, SndNoFile(n) PROVE Goal
  BY <1>19, <1>k DEF SndNoFile, Report, DropLink, Close
<1>20. ASSUME NEW n \in Nodes, SndChunks(n) PROVE Goal
  BY <1>20
<1>21. ASSUME NEW n \in Nodes, SndSent(n) PROVE Goal
  BY <1>21, <1>k DEF SndSent, Report, DropLink, Close
<1>22. ASSUME NEW n \in Nodes, SndDrop(n) PROVE Goal
  <2>1. conn[n]["snd"] \in Conns
    BY <1>22 DEF SndDrop, IInv, BookInv, WriterOK
  <2>2. QED  BY <2>1, <1>22, <1>k DEF SndDrop, Report, DropLink, Close
<1>23. ASSUME NEW n \in Nodes, LstHead(n) PROVE Goal
  <2>1. PICK l \in {"exit", "offer"} : pc' = [pc EXCEPT ![n]["lst"] = l]
    BY <1>23 DEF LstHead
  <2>2. QED  BY <2>1, <1>23, <1>k DEF LstHead
<1>24. ASSUME NEW n \in Nodes, LstOffer(n) PROVE Goal
  BY <1>24, <1>k DEF LstOffer
<1>25. ASSUME NEW n \in Nodes, LstStopped(n) PROVE Goal
  BY <1>25, <1>k DEF LstStopped
<1>26. ASSUME NEW n \in Nodes, LstOpen(n) PROVE Goal
  <2> DEFINE c == conn[n]["lst"]
  <2>1. c \in Conns /\ Claimed(c, n) /\ ~SendMuHeld(n, c)
    BY <1>26 DEF LstOpen, HoldingOK, Holding, Building, Claimed, WriterInv, LinkFree,
       Writing, SendMuHeld
  <2>2. \A d \in Conns, q \in Nodes : PlainMove(d, q)
    BY <2>1, FrameMembers, <1>p, <1>26 DEF LstOpen, Bundle, Loose
  <2>3. QED  BY <2>2, <1>26 DEF LstOpen
<1>27. ASSUME NEW n \in Nodes, LstHandshake(n) PROVE Goal
  <2> DEFINE c == conn[n]["lst"]
  <2>1. c \in Conns /\ rd[c][n] = "off"
    BY <1>27 DEF LstHandshake, HoldingOK, BuildingOK, Holding, Building
  <2>2. \A d \in Conns, q \in Nodes : PlainMove(d, q)
    <3>1. ~Carrier(Head(wire[c][n])) /\ rd'[c][n] # "body"
      BY <2>1, <1>27 DEF LstHandshake, Handshake, Carrier
    <3>2. wire[c][n] # <<>> /\ wire' = [wire EXCEPT ![c][n] = Tail(@)]
      BY <1>27 DEF LstHandshake
    <3>3. QED  BY <2>1, <3>1, <3>2, <1>h
  <2>3. QED  BY <2>2, <1>27 DEF LstHandshake
<1>28. ASSUME NEW n \in Nodes, LstFail(n) PROVE Goal
  BY <1>28, <1>k DEF LstFail, DropLink, Close
<1>29. ASSUME NEW n \in Nodes, StopSwap(n) PROVE Goal
  BY <1>29, <1>k DEF StopSwap
<1>30. ASSUME NEW n \in Nodes, StopFinish(n) PROVE Goal
  BY <1>30, <1>k DEF StopFinish
<1>31. ASSUME NEW c \in Conns, NEW n \in Nodes, RdText(c, n) PROVE Goal
  BY <1>31
<1>32. ASSUME NEW c \in Conns, NEW n \in Nodes, RdOffer(c, n) PROVE Goal
  BY <1>32
<1>33. ASSUME NEW c \in Conns, NEW n \in Nodes, RdReceipt(c, n) PROVE Goal
  <2>1. \A d \in Conns, q \in Nodes : PlainMove(d, q)
    BY <1>h, <1>33 DEF RdReceipt, Receive, Carrier
  <2>2. QED  BY <2>1, <1>33 DEF RdReceipt
<1>34. ASSUME NEW c \in Conns, NEW n \in Nodes, RdOther(c, n) PROVE Goal
  <2>1. \A d \in Conns, q \in Nodes : PlainMove(d, q)
    BY <1>h, <1>34 DEF RdOther, Receive, Carrier
  <2>2. QED  BY <2>1, <1>34 DEF RdOther
<1>35. ASSUME NEW c \in Conns, NEW n \in Nodes, RdFile(c, n) PROVE Goal
  BY <1>35
<1>36. ASSUME NEW c \in Conns, NEW n \in Nodes, RdFileLost(c, n) PROVE Goal
  <2>1. ~Carrier(Head(wire[c][n]))
    BY <1>36 DEF RdFileLost, FlowInv, BodyRun, Follows, Chunks, Carrier
  <2>2. \A d \in Conns, q \in Nodes : PlainMove(d, q)
    BY <2>1, <1>h, <1>36 DEF RdFileLost
  <2>3. QED  BY <2>2, <1>36 DEF RdFileLost
<1>37. ASSUME NEW c \in Conns, NEW n \in Nodes, RdAck(c, n) PROVE Goal
  <2>1. Claimed(c, n) /\ cur[c][n] \in Ids /\ Surfaced(cur[c][n])
    BY <1>37 DEF RdAck, ClaimedOK, PlaceInv, ReceiptsTrue, IInv, BookInv, HandlingOK
  <2>2. Receipt(cur[c][n], "DELIVERED") \in Frames
    BY <2>1, FrameMembers
  <2>3. \A d \in Conns, q \in Nodes : PlainMove(d, q)
    BY <2>1, <2>2, <1>p, <1>37 DEF RdAck, Receipt, Loose
  <2>4. QED  BY <2>3, <1>37 DEF RdAck
<1>38. ASSUME NEW c \in Conns, NEW n \in Nodes, RdErr(c, n) PROVE Goal
  BY <1>38, <1>k DEF RdErr
<1>39. ASSUME NEW c \in Conns, NEW n \in Nodes, RdDrop(c, n) PROVE Goal
  BY <1>39, <1>k DEF RdDrop, DropLink, Close
<1>40. ASSUME NEW c \in Conns, NEW n \in Nodes, RdOffline(c, n) PROVE Goal
  BY <1>40, <1>k DEF RdOffline
<1>41. ASSUME NEW c \in Conns, NEW n \in Nodes, ConnDown(c, n) PROVE Goal
  BY <1>41, <1>k DEF ConnDown, DropLink, Close
<1>42. ASSUME NEW c \in Conns, NEW n \in Nodes, ConnFail(c, n) PROVE Goal
  BY <1>42, <1>k DEF ConnFail, DropLink, Close
<1>43. ASSUME UNCHANGED vars PROVE Goal
  BY <1>43, <1>k DEF vars
<1>44. QED
  <2> HIDE DEF Goal, Plain, LinkTypes, PointsOK, Procs, Diallers, Goto, apiVars, procVars, connVars, eventVars
  <2>1. ASSUME NEW n \in Nodes, NEW x \in Diallers, DialStep(n, x) PROVE Goal
    BY <2>1, <1>6, <1>7, <1>8, <1>9, <1>10, <1>11 DEF DialStep
  <2>2. ASSUME NEW n \in Nodes, NEW x \in Procs, AdoptStep(n, x) PROVE Goal
    BY <2>2, <1>12, <1>13 DEF AdoptStep
  <2>3. ASSUME NEW n \in Nodes, SndStep(n) PROVE Goal
    BY <2>3, <1>14, <1>15, <1>16, <1>17, <1>18, <1>19, <1>20, <1>21, <1>22 DEF SndStep
  <2>4. ASSUME NEW n \in Nodes, LstStep(n) PROVE Goal
    BY <2>4, <1>23, <1>24, <1>25, <1>26, <1>27, <1>28 DEF LstStep
  <2>5. ASSUME NEW c \in Conns, NEW n \in Nodes, RdStep(c, n) PROVE Goal
    BY <2>5, <1>31, <1>32, <1>33, <1>34, <1>35, <1>36, <1>37, <1>38, <1>39, <1>40 DEF RdStep
  <2>6. QED
    BY <2>1, <2>2, <2>3, <2>4, <2>5, <1>1, <1>2, <1>3, <1>4, <1>5,
       <1>29, <1>30, <1>41, <1>42, <1>43 DEF Next

-----------------------------------------------------------------------------
(* Sequences *)

\* What conn.Recv leaves of a wire.
LEMMA TailFacts ==
  ASSUME NEW S, NEW s \in Seq(S), s # <<>>
  PROVE  /\ Tail(s) \in Seq(S) /\ Head(s) \in S /\ Head(s) = s[1] /\ 1 \in DOMAIN s
         /\ Len(s) \in Nat \ {0} /\ DOMAIN s = 1 .. Len(s)
         /\ Len(Tail(s)) = Len(s) - 1 /\ DOMAIN Tail(s) = 1 .. Len(s) - 1
         /\ \A k \in 1 .. Len(s) - 1 : Tail(s)[k] = s[k + 1] /\ k + 1 \in DOMAIN s
OBVIOUS

\* What conn.Send makes of a wire.
LEMMA AppendFacts ==
  ASSUME NEW S, NEW s \in Seq(S), NEW e \in S
  PROVE  /\ Append(s, e) \in Seq(S) /\ Append(s, e) # <<>>
         /\ Len(s) \in Nat /\ DOMAIN s = 1 .. Len(s)
         /\ Len(Append(s, e)) = Len(s) + 1 /\ DOMAIN Append(s, e) = 1 .. Len(s) + 1
         /\ \A k \in 1 .. Len(s) : Append(s, e)[k] = s[k]
         /\ Append(s, e)[Len(s) + 1] = e
         /\ s # <<>> => Head(Append(s, e)) = Head(s) /\ Len(s) > 0
         /\ s = <<>> => Head(Append(s, e)) = e
OBVIOUS

\* An event that is pushed is in the sequence with those before it.
LEMMA InAppend ==
  ASSUME NEW S, NEW s \in Seq(S), NEW e \in S, NEW i
  PROVE  InSeq(i, Append(s, e)) <=> InSeq(i, s) \/ i = e
<1>1. ASSUME InSeq(i, s) PROVE InSeq(i, Append(s, e))
  BY <1>1, AppendFacts DEF InSeq
<1>2. ASSUME i = e PROVE InSeq(i, Append(s, e))
  BY <1>2, AppendFacts DEF InSeq
<1>3. ASSUME InSeq(i, Append(s, e)), i # e PROVE InSeq(i, s)
  <2>1. PICK k \in 1 .. Len(s) + 1 : Append(s, e)[k] = i
    BY <1>3, AppendFacts DEF InSeq
  <2>2. k \in 1 .. Len(s) /\ s[k] = i
    BY <2>1, <1>3, AppendFacts
  <2>3. QED  BY <2>2, AppendFacts DEF InSeq
<1>4. QED  BY <1>1, <1>2, <1>3

\* A request that is taken from the outbox leaves the others there.
LEMMA InTail ==
  ASSUME NEW S, NEW s \in Seq(S), s # <<>>, NEW i
  PROVE  InSeq(i, s) <=> InSeq(i, Tail(s)) \/ i = Head(s)
<1>1. ASSUME InSeq(i, Tail(s)) PROVE InSeq(i, s)
  BY <1>1, TailFacts DEF InSeq
<1>2. ASSUME i = Head(s) PROVE InSeq(i, s)
  BY <1>2, TailFacts DEF InSeq
<1>3. ASSUME InSeq(i, s), i # Head(s) PROVE InSeq(i, Tail(s))
  <2>1. PICK k \in 1 .. Len(s) : s[k] = i
    BY <1>3, TailFacts DEF InSeq
  <2>2. k - 1 \in 1 .. Len(s) - 1 /\ (k - 1) + 1 = k
    BY <2>1, <1>3, TailFacts
  <2>3. Tail(s)[k - 1] = i
    BY <2>1, <2>2, TailFacts
  <2>4. QED  BY <2>2, <2>3, TailFacts DEF InSeq
<1>4. QED  BY <1>1, <1>2, <1>3

-----------------------------------------------------------------------------
(* Plain steps *)

\* Frames stay between the ends of a connection.
LEMMA PlainEnds ==
  ASSUME TypeOK, WireEnds, Plain
  PROVE  WireEnds'
<1> SUFFICES ASSUME NEW c \in Conns, NEW n \in Nodes, wire'[c][n] # <<>>
             PROVE  ini'[c] # NoNode /\ n \in {ini'[c], rsp'[c]}
  BY DEF WireEnds
<1>1. wire[c][n] # <<>> \/ (ini[c] # NoNode /\ n \in {ini[c], rsp[c]})
  BY DEF Plain, PlainMove, Kept, Popped, Pushed
<1>2. ini[c] # NoNode /\ n \in {ini[c], rsp[c]}
  BY <1>1 DEF WireEnds
<1>3. QED  BY <1>2 DEF Plain

\* Chunks keep following their offers.
LEMMA PlainFlow ==
  ASSUME IInv, TypeOK', WriterInv, FlowInv, Plain
  PROVE  FlowInv'
<1> SUFFICES ASSUME NEW c \in Conns, NEW n \in Nodes
             PROVE  OfferRun(c, n)' /\ BodyRun(c, n)' /\ BetweenRun(c, n)'
  BY DEF FlowInv
<1> DEFINE o == Other(c, n)
           w == wire[c][n]
           v == wire'[c][n]
<1>t. /\ w \in Seq(Frames) /\ v \in Seq(Frames) /\ NoNode \notin Nodes
      /\ ini \in [Conns -> Nodes \cup {NoNode}] /\ rsp \in [Conns -> Nodes \cup {NoNode}]
      /\ EndsOK /\ ClaimedOK /\ \A p \in Nodes : LinkFree(p) /\ RequestOK(p)
  BY RuntimeAssumption DEF IInv, TypeOK, LinkInv, WriterInv
<1>f. OfferRun(c, n) /\ BodyRun(c, n) /\ BetweenRun(c, n)
  BY DEF FlowInv
<1>1. CASE ini[c] = NoNode
  <2>1. w = <<>> /\ v = <<>>
    BY <1>1 DEF WriterInv, WireEnds, Plain, PlainMove, Kept, Popped, Pushed
  <2>2. rd[c][n] = "off"
    BY <1>1, <1>t DEF ClaimedOK, Claimed, EndsOK
  <2>3. rd'[c][n] # "body"
    BY <2>2 DEF Plain
  <2>4. ASSUME NEW p \in Nodes, SendMuHeld(p, c)' PROVE FALSE
    <3>1. SendMuHeld(p, c)
      BY <2>4 DEF Plain, SendMuHeld
    <3>2. Claimed(c, p)
      BY <3>1, <1>t DEF SendMuHeld, LinkFree, Writing
    <3>3. QED  BY <3>2, <1>1, <1>t DEF Claimed, EndsOK
  <2>5. ~Between(c, n)'
    BY <2>4 DEF Between
  <2>6. QED  BY <2>1, <2>3, <2>5 DEF OfferRun, BodyRun, BetweenRun
<1>2. CASE ini[c] # NoNode
  <2>1. o \in Nodes /\ Other(c, n)' = o /\ ini'[c] = ini[c] /\ rsp'[c] = rsp[c]
    BY <1>2, <1>t DEF Plain, Other, EndsOK
  <2>2. /\ Between(c, n)' <=> Between(c, n)
        /\ Between(c, n) => req'[o] = req[o] /\ req[o] \in Files
        /\ Dead(c, n) => Dead(c, n)'
        /\ GivenUp(c, n) => GivenUp(c, n)'
    <3>1. Dead(c, n) => Dead(c, n)'
      BY <2>1 DEF Plain, Dead
    <3>2. GivenUp(c, n) => GivenUp(c, n)'
      BY <2>1 DEF Plain, GivenUp
    <3>3. QED  BY <2>1, <3>1, <3>2, <1>t DEF Plain, Between, SendMuHeld, RequestOK
  <2>3. PlainMove(c, n) /\ (rd'[c][n] = "body" => rd[c][n] = "body" /\ cur'[c][n] = cur[c][n])
        /\ (rd[c][n] = "body" => rd'[c][n] = "body" \/ done'[c][n] \/ w # <<>>)
    BY DEF Plain
  <2> HIDE DEF o
  <2>4. CASE Kept(c, n)
    <3>0. v = w
      BY <2>4 DEF Kept
    <3> HIDE DEF v, w
    <3>1. OfferRun(c, n)'
      BY <3>0, <2>2, <1>f DEF OfferRun, Follows, Carrier, Chunks, v, w
    <3>2. BodyRun(c, n)'
      BY <3>0, <2>2, <2>3, <1>f DEF BodyRun, Follows, Carrier, Chunks, v, w
    <3>3. BetweenRun(c, n)'
      BY <3>0, <2>1, <2>2, <2>3, <1>f DEF BetweenRun, InBody, Dead, v, w, o
    <3>4. QED  BY <3>1, <3>2, <3>3
  <2>5. CASE Popped(c, n) /\ ~Carrier(Head(w)) /\ rd'[c][n] # "body"
    <3>0. w # <<>> /\ v = Tail(w)
      BY <2>5 DEF Popped
    <3>t. /\ Head(w) = w[1] /\ Len(w) \in Nat \ {0} /\ DOMAIN w = 1 .. Len(w)
          /\ Len(v) = Len(w) - 1 /\ DOMAIN v = 1 .. Len(w) - 1
          /\ \A k \in 1 .. Len(w) - 1 : v[k] = w[k + 1] /\ k + 1 \in DOMAIN w
      BY <3>0, <1>t, TailFacts
    <3> HIDE DEF v, w
    <3>1. OfferRun(c, n)'
      <4> SUFFICES ASSUME NEW k \in DOMAIN v, v[k].kind = "offer"
                   PROVE  IF k < Len(v) THEN v[k + 1] = Chunks \/ (GivenUp(c, n)' /\ ~Carrier(v[k + 1]))
                          ELSE Between(c, n)' \/ GivenUp(c, n)'
        BY DEF OfferRun, Follows, Carrier, Chunks, v
      <4>1. k \in Nat /\ k + 1 \in DOMAIN w /\ w[k + 1].kind = "offer"
        BY <3>t
      <4>2. CASE k < Len(v)
        <5>1. Follows(c, n, w[(k + 1) + 1])
          BY <4>1, <4>2, <3>t, <1>f DEF OfferRun, w
        <5>2. QED  BY <4>1, <4>2, <5>1, <3>t, <2>2 DEF Follows
      <4>3. CASE ~(k < Len(v))
        BY <4>1, <4>3, <3>t, <2>2, <1>f DEF OfferRun, w
      <4>4. QED  BY <4>2, <4>3
    <3>2. BodyRun(c, n)'
      BY <2>5 DEF BodyRun
    <3>3. BetweenRun(c, n)'
      <4> SUFFICES ASSUME Between(c, n)', ~Dead(c, n)'
                   PROVE  v # <<>> /\ v[Len(v)] = Envelope(req'[o])
        BY <2>1 DEF BetweenRun, v
      <4>1. w[Len(w)] = Envelope(req[o]) /\ req[o] \in Files
        BY <2>2, <3>0, <1>f DEF BetweenRun, w, o
      <4>2. w[Len(w)].kind = "offer"
        BY <4>1 DEF Envelope
      <4>3. Len(w) # 1
        BY <4>2, <3>t, <2>5 DEF Carrier
      <4>4. Len(v) \in 1 .. Len(w) - 1 /\ Len(v) + 1 = Len(w)
        BY <4>3, <3>t
      <4>5. v[Len(v)] = w[Len(w)]
        BY <4>4, <3>t
      <4>6. v # <<>>
        BY <4>4, <3>t
      <4>7. QED  BY <4>1, <4>5, <4>6, <2>2
    <3>4. QED  BY <3>1, <3>2, <3>3
  <2>6. ASSUME NEW f \in Frames, Pushed(c, n, f), ~Between(c, n), Loose(f)
        PROVE  OfferRun(c, n)' /\ BodyRun(c, n)' /\ BetweenRun(c, n)'
    <3>0. v = Append(w, f) /\ ~Dead(c, n)
      BY <2>6 DEF Pushed
    <3>t. /\ Len(w) \in Nat /\ DOMAIN w = 1 .. Len(w)
          /\ Len(v) = Len(w) + 1 /\ DOMAIN v = 1 .. Len(w) + 1
          /\ \A k \in 1 .. Len(w) : v[k] = w[k]
          /\ v[Len(w) + 1] = f
          /\ w # <<>> => Head(v) = Head(w)
          /\ w = <<>> => Head(v) = f
          /\ v # <<>> /\ ~Carrier(f)
      BY <3>0, <1>t, <2>6, AppendFacts DEF Loose, Carrier
    <3> HIDE DEF v, w
    <3>1. OfferRun(c, n)'
      <4> SUFFICES ASSUME NEW k \in DOMAIN v, v[k].kind = "offer"
                   PROVE  k < Len(v) /\ (v[k + 1] = Chunks \/ (GivenUp(c, n)' /\ ~Carrier(v[k + 1])))
        BY DEF OfferRun, Follows, Carrier, Chunks, v
      <4>1. k \in 1 .. Len(w) /\ w[k].kind = "offer"
        BY <3>t DEF Carrier
      <4>2. IF k < Len(w) THEN Follows(c, n, w[k + 1]) ELSE GivenUp(c, n)
        BY <4>1, <3>t, <2>6, <1>f DEF OfferRun, w
      <4>3. CASE k < Len(w)
        <5>1. k + 1 \in 1 .. Len(w) /\ k < Len(v)
          BY <4>1, <4>3, <3>t
        <5>2. QED  BY <5>1, <4>2, <4>3, <3>t, <2>2 DEF Follows
      <4>4. CASE k = Len(w)
        BY <4>2, <4>4, <3>t, <2>2
      <4>5. QED  BY <4>1, <4>3, <4>4, <3>t
    <3>2. BodyRun(c, n)'
      <4> SUFFICES ASSUME rd'[c][n] = "body"
                   PROVE  Head(v) = Chunks \/ (GivenUp(c, n)' /\ ~Carrier(Head(v)))
        BY <3>t DEF BodyRun, Follows, Carrier, Chunks, v
      <4>1. IF w # <<>> THEN Follows(c, n, Head(w)) ELSE GivenUp(c, n)
        BY <2>3, <2>6, <1>f DEF BodyRun, w
      <4>2. QED  BY <4>1, <3>t, <2>2 DEF Follows
    <3>3. BetweenRun(c, n)'
      BY <2>2, <2>6 DEF BetweenRun
    <3>4. QED  BY <3>1, <3>2, <3>3
  <2>7. QED  BY <2>3, <2>4, <2>5, <2>6 DEF PlainMove
<1>3. QED  BY <1>1, <1>2


\* How many frames at the front of a wire a step takes.
Shift(c, n) == IF Len(wire'[c][n]) < Len(wire[c][n]) THEN 1 ELSE 0
\* No frame of a message is new.
Shifted(c, n) ==
  \A k \in DOMAIN wire'[c][n] :
    Carrier(wire'[c][n][k]) =>
      k + Shift(c, n) \in DOMAIN wire[c][n] /\ wire'[c][n][k] = wire[c][n][k + Shift(c, n)]

\* A plain step sends no message, and receipts of what was surfaced only.
LEMMA PlainShift ==
  ASSUME TypeOK, TypeOK', NEW c \in Conns, NEW n \in Nodes, PlainMove(c, n)
  PROVE  /\ Shifted(c, n)
         /\ \A k \in DOMAIN wire'[c][n] :
              wire'[c][n][k].kind = "receipt" =>
                \/ Surfaced(wire'[c][n][k].id)
                \/ \E l \in DOMAIN wire[c][n] : wire'[c][n][k] = wire[c][n][l]
<1> DEFINE w == wire[c][n]
           v == wire'[c][n]
<1>t. w \in Seq(Frames) /\ v \in Seq(Frames)
  BY DEF TypeOK
<1>1. CASE Kept(c, n)
  <2>1. v = w
    BY <1>1 DEF Kept
  <2>2. Shift(c, n) = 0
    BY <2>1, <1>t DEF Shift
  <2>3. QED  BY <2>1, <2>2, <1>t DEF Shifted
<1>2. CASE Popped(c, n)
  <2>1. w # <<>> /\ v = Tail(w)
    BY <1>2 DEF Popped
  <2>2. /\ Len(w) \in Nat \ {0} /\ Len(v) = Len(w) - 1 /\ DOMAIN v = 1 .. Len(w) - 1
        /\ \A k \in 1 .. Len(w) - 1 : v[k] = w[k + 1] /\ k + 1 \in DOMAIN w
    BY <2>1, <1>t, TailFacts
  <2>3. Shift(c, n) = 1
    BY <2>2 DEF Shift
  <2>4. QED  BY <2>2, <2>3 DEF Shifted
<1>3. ASSUME NEW f \in Frames, Pushed(c, n, f), Loose(f),
             f.kind = "receipt" => Surfaced(f.id)
      PROVE  /\ Shifted(c, n)
             /\ \A k \in DOMAIN v : v[k].kind = "receipt" =>
                  Surfaced(v[k].id) \/ \E l \in DOMAIN w : v[k] = w[l]
  <2>1. v = Append(w, f)
    BY <1>3 DEF Pushed
  <2>2. /\ Len(w) \in Nat /\ DOMAIN w = 1 .. Len(w)
        /\ Len(v) = Len(w) + 1 /\ DOMAIN v = 1 .. Len(w) + 1
        /\ \A k \in 1 .. Len(w) : v[k] = w[k]
        /\ v[Len(w) + 1] = f
    BY <2>1, <1>t, AppendFacts
  <2>3. Shift(c, n) = 0
    BY <2>2 DEF Shift
  <2> HIDE DEF v, w
  <2>4. \A k \in DOMAIN v : v[k] = f \/ (k + 0 \in DOMAIN w /\ v[k] = w[k + 0])
    BY <2>2
  <2>5. QED  BY <2>3, <2>4, <1>3 DEF Shifted, Loose, Carrier, v, w
<1>4. QED  BY <1>1, <1>2, <1>3 DEF PlainMove

\* When no frame of a message is new, a message stays at one place of one wire.
LEMMA FramesStay ==
  ASSUME TypeOK, TypeOK', OneFrame, \A c \in Conns, n \in Nodes : Shifted(c, n)
  PROVE  /\ OneFrame'
         /\ \A i : \A c \in Conns, n \in Nodes : \A k \in DOMAIN wire'[c][n] :
              Carries(c, n, k, i)' =>
                k + Shift(c, n) \in DOMAIN wire[c][n] /\ Carries(c, n, k + Shift(c, n), i)
<1>1. ASSUME NEW i, NEW c \in Conns, NEW n \in Nodes, NEW k \in DOMAIN wire'[c][n],
             Carries(c, n, k, i)'
      PROVE  k + Shift(c, n) \in DOMAIN wire[c][n] /\ Carries(c, n, k + Shift(c, n), i)
  BY <1>1 DEF Shifted, Carries, Carrier
<1>2. ASSUME NEW i \in Ids, NEW c \in Conns, NEW d \in Conns, NEW n \in Nodes, NEW p \in Nodes,
             NEW k \in DOMAIN wire'[c][n], NEW l \in DOMAIN wire'[d][p],
             Carries(c, n, k, i)', Carries(d, p, l, i)'
      PROVE  c = d /\ n = p /\ k = l
  <2>1. c = d /\ n = p /\ k + Shift(c, n) = l + Shift(d, p)
    BY <1>1, <1>2 DEF OneFrame
  <2>2. k \in Nat /\ l \in Nat /\ Shift(c, n) \in Nat
    <3>1. wire'[c][n] \in Seq(Frames) /\ wire'[d][p] \in Seq(Frames)
      BY DEF TypeOK
    <3>2. QED  BY <3>1 DEF Shift
  <2>3. QED  BY <2>1, <2>2
<1>3. QED  BY <1>1, <1>2 DEF OneFrame

\* Messages stay where they are when no frame of one is new, readers take no offer
\* and surface nothing.
LEMMA StillPlace ==
  ASSUME TypeOK, TypeOK', PlaceInv, UNCHANGED <<got, lastIn>>,
         \A c \in Conns, n \in Nodes : Shifted(c, n),
         \A c \in Conns, n \in Nodes : rd'[c][n] \in {"body", "ack"} =>
           rd'[c][n] = rd[c][n] /\ cur'[c][n] = cur[c][n],
         \A c \in Conns, n \in Nodes : \A k \in DOMAIN wire'[c][n] :
           wire'[c][n][k].kind = "receipt" =>
             \/ Surfaced(wire'[c][n][k].id)
             \/ \E l \in DOMAIN wire[c][n] : wire'[c][n][k] = wire[c][n][l]
  PROVE  PlaceInv'
<1>2. OneFrame' /\ \A i : \A c \in Conns, n \in Nodes : \A k \in DOMAIN wire'[c][n] :
        Carries(c, n, k, i)' =>
          k + Shift(c, n) \in DOMAIN wire[c][n] /\ Carries(c, n, k + Shift(c, n), i)
  BY FramesStay DEF PlaceInv
<1>3. \A i : Surfaced(i)' <=> Surfaced(i)
  BY DEF Surfaced
<1>4. \A i : \A c \in Conns, n \in Nodes : InBody(i, c, n)' => InBody(i, c, n)
  BY DEF InBody
<1>5. OnePlace'
  BY <1>2, <1>3, <1>4 DEF OnePlace, PlaceInv
<1>6. Routed'
  <2>1. \A n \in Nodes : \A k \in DOMAIN got'[n] : \E m \in Msgs : got'[n][k] = MsgId(m) /\ Dest[m] = n
    BY DEF PlaceInv, Routed
  <2>2. ASSUME NEW n \in Nodes, NEW c \in Conns, rd'[c][n] = "body"
        PROVE  \E m \in Files : cur'[c][n] = MsgId(m) /\ Dest[m] = n
    BY <2>2 DEF PlaceInv, Routed
  <2>3. ASSUME NEW n \in Nodes, NEW c \in Conns, NEW k \in DOMAIN wire'[c][n], Carrier(wire'[c][n][k])
        PROVE  \E m \in Msgs : wire'[c][n][k] = Envelope(m) /\ Dest[m] = n
    BY <2>3 DEF Shifted, PlaceInv, Routed
  <2>4. QED  BY <2>1, <2>2, <2>3 DEF Routed, Carrier
<1>7. ReceiptsTrue'
  <2>1. \A n \in Nodes, p \in Nodes : lastIn'[n][p] # NoMsg => Surfaced(lastIn[n][p])'
    BY DEF PlaceInv, ReceiptsTrue, Surfaced
  <2>2. \A n \in Nodes, c \in Conns : rd'[c][n] = "ack" => Surfaced(cur[c][n])'
    BY DEF PlaceInv, ReceiptsTrue, Surfaced
  <2>3. ASSUME NEW n \in Nodes, NEW c \in Conns, NEW k \in DOMAIN wire'[c][n],
               wire'[c][n][k].kind = "receipt"
        PROVE  Surfaced(wire[c][n][k].id)'
    BY <2>3 DEF PlaceInv, ReceiptsTrue, Surfaced
  <2>4. QED  BY <2>1, <2>2, <2>3 DEF ReceiptsTrue
<1>8. SurfacedOnce'
  BY DEF PlaceInv, SurfacedOnce
<1>9. QED  BY <1>2, <1>5, <1>6, <1>7, <1>8 DEF PlaceInv

\* A plain step is of this kind.
LEMMA PlainPlace ==
  ASSUME TypeOK, TypeOK', PlaceInv, Plain
  PROVE  PlaceInv'
<1>1. \A c \in Conns, n \in Nodes : PlainMove(c, n)
  BY DEF Plain
<1>2. /\ \A c \in Conns, n \in Nodes : Shifted(c, n)
      /\ \A c \in Conns, n \in Nodes : \A k \in DOMAIN wire'[c][n] :
           wire'[c][n][k].kind = "receipt" =>
             \/ Surfaced(wire'[c][n][k].id)
             \/ \E l \in DOMAIN wire[c][n] : wire'[c][n][k] = wire[c][n][l]
  BY <1>1, PlainShift
<1>3. /\ UNCHANGED <<got, lastIn>>
      /\ \A c \in Conns, n \in Nodes : rd'[c][n] \in {"body", "ack"} =>
           rd'[c][n] = rd[c][n] /\ cur'[c][n] = cur[c][n]
  BY DEF Plain
<1>4. QED  BY <1>2, <1>3, StillPlace


-----------------------------------------------------------------------------
(* Steps that move a message *)

\* Message ids and envelopes tell messages apart.
LEMMA MsgIds ==
  /\ \A m \in Msgs : MsgId(m) \in Ids /\ Envelope(m) \in Frames /\ Carrier(Envelope(m))
                     /\ Envelope(m).id = MsgId(m)
                     /\ (Envelope(m).kind = "offer" <=> m \in Files)
  /\ \A m, k \in Msgs : MsgId(m) = MsgId(k) => m = k
  /\ \A m \in Msgs : MsgId(m) \in Msgs => m \notin Files /\ MsgId(m) = m
<1>1. \A m \in Msgs : <<"offer", m>> \notin Msgs
  BY RuntimeAssumption
<1>2. \A m \in Msgs : MsgId(m) \in Ids /\ Envelope(m) \in Frames /\ Carrier(Envelope(m))
                      /\ Envelope(m).id = MsgId(m)
                      /\ (Envelope(m).kind = "offer" <=> m \in Files)
  BY FrameMembers DEF MsgId, Ids, Envelope, Carrier
<1>3. \A m, k \in Msgs : MsgId(m) = MsgId(k) => m = k
  BY <1>1 DEF MsgId
<1>4. \A m \in Msgs : MsgId(m) \in Msgs => m \notin Files /\ MsgId(m) = m
  BY <1>1 DEF MsgId
<1>5. QED  BY <1>2, <1>3, <1>4

\* A wire that a step leaves alone, while its file transfer goes on or is given up.
LEMMA KeptFlow ==
  ASSUME NEW c \in Conns, NEW n \in Nodes, TypeOK,
         OfferRun(c, n), BodyRun(c, n), BetweenRun(c, n),
         Kept(c, n), UNCHANGED <<ini, rsp, done>>,
         rd'[c][n] = rd[c][n], cur'[c][n] = cur[c][n],
         GivenUp(c, n) => GivenUp(c, n)',
         \/ GivenUp(c, n)' /\ (Dead(c, n) \/ ~Between(c, n)')
         \/ /\ Between(c, n)' <=> Between(c, n)
            /\ Between(c, n) => req'[Other(c, n)] = req[Other(c, n)]
  PROVE  OfferRun(c, n)' /\ BodyRun(c, n)' /\ BetweenRun(c, n)'
<1>1. (Dead(c, n)' <=> Dead(c, n)) /\ Other(c, n)' = Other(c, n)
  BY DEF Dead, Other
<1>2. OfferRun(c, n)'
  BY <1>1 DEF OfferRun, Follows, Carrier, Chunks, Kept
<1>3. BodyRun(c, n)'
  BY <1>1 DEF BodyRun, Follows, Carrier, Chunks, Kept
<1>4. BetweenRun(c, n)'
  BY <1>1 DEF BetweenRun, Kept, InBody
<1>5. QED  BY <1>2, <1>3, <1>4

\* A wire whose first frame a reader takes.
LEMMA PopFlow ==
  ASSUME NEW c \in Conns, NEW n \in Nodes, TypeOK, TypeOK',
         OfferRun(c, n), BodyRun(c, n), BetweenRun(c, n), \A p \in Nodes : RequestOK(p),
         Popped(c, n), UNCHANGED <<ini, rsp, done, pc, conn, req>>,
         Head(wire[c][n]).kind = "offer" <=> rd'[c][n] = "body",
         rd'[c][n] = "body" => cur'[c][n] = Head(wire[c][n]).id
  PROVE  OfferRun(c, n)' /\ BodyRun(c, n)' /\ BetweenRun(c, n)'
<1> DEFINE w == wire[c][n]
           v == wire'[c][n]
           o == Other(c, n)
<1>t. w \in Seq(Frames) /\ v \in Seq(Frames) /\ w # <<>> /\ v = Tail(w)
  BY DEF TypeOK, Popped
<1>1. /\ Head(w) = w[1] /\ Len(w) \in Nat \ {0} /\ DOMAIN w = 1 .. Len(w) /\ 1 \in DOMAIN w
      /\ Len(v) = Len(w) - 1 /\ DOMAIN v = 1 .. Len(w) - 1
      /\ \A k \in 1 .. Len(w) - 1 : v[k] = w[k + 1] /\ k + 1 \in DOMAIN w
  BY <1>t, TailFacts
<1>2. v # <<>> => Len(w) > 1 /\ Head(v) = v[1] /\ v[1] = w[2]
  <2>1. v # <<>> => Len(v) > 0 /\ Head(v) = v[1]
    BY <1>t
  <2>2. QED  BY <2>1, <1>1
<1>3. v = <<>> => Len(w) = 1
  <2>1. v = <<>> => Len(v) = 0
    OBVIOUS
  <2>2. QED  BY <2>1, <1>1
<1>4. /\ Dead(c, n)' <=> Dead(c, n)
      /\ Other(c, n)' = o /\ req' = req
      /\ Between(c, n)' <=> Between(c, n)
      /\ Between(c, n) => req[o] \in Files
      /\ GivenUp(c, n)' <=> GivenUp(c, n)
  BY DEF Dead, GivenUp, Other, Between, SendMuHeld, RequestOK
<1> HIDE DEF v, w, o
<1>5. OfferRun(c, n)'
  <2> SUFFICES ASSUME NEW k \in DOMAIN v, v[k].kind = "offer"
               PROVE  IF k < Len(v) THEN v[k + 1] = Chunks \/ (GivenUp(c, n)' /\ ~Carrier(v[k + 1]))
                      ELSE Between(c, n)' \/ GivenUp(c, n)'
    BY DEF OfferRun, Follows, Carrier, Chunks, v
  <2>1. k \in Nat /\ k + 1 \in DOMAIN w /\ w[k + 1].kind = "offer"
    BY <1>1
  <2>2. CASE k < Len(v)
    <3>1. Follows(c, n, w[(k + 1) + 1])
      BY <2>1, <2>2, <1>1 DEF OfferRun, w
    <3>2. QED  BY <2>1, <2>2, <3>1, <1>1, <1>4 DEF Follows
  <2>3. CASE ~(k < Len(v))
    BY <2>1, <2>3, <1>1, <1>4 DEF OfferRun, w
  <2>4. QED  BY <2>2, <2>3
<1>6. BodyRun(c, n)'
  <2> SUFFICES ASSUME rd'[c][n] = "body"
               PROVE  IF v # <<>> THEN Head(v) = Chunks \/ (GivenUp(c, n)' /\ ~Carrier(Head(v)))
                      ELSE Between(c, n)' \/ GivenUp(c, n)'
    BY DEF BodyRun, Follows, Carrier, Chunks, v
  <2>1. w[1].kind = "offer"
    BY <1>1 DEF w
  <2>2. CASE v # <<>>
    <3>1. Follows(c, n, w[1 + 1])
      BY <2>1, <2>2, <1>1, <1>2 DEF OfferRun, w
    <3>2. QED  BY <3>1, <2>2, <1>2, <1>4 DEF Follows
  <2>3. CASE v = <<>>
    BY <2>1, <2>3, <1>1, <1>3, <1>4 DEF OfferRun, w
  <2>4. QED  BY <2>2, <2>3
<1>7. BetweenRun(c, n)'
  <2> SUFFICES ASSUME Between(c, n)', ~Dead(c, n)'
               PROVE  \/ v # <<>> /\ v[Len(v)] = Envelope(req[o])
                      \/ v = <<>> /\ rd'[c][n] = "body" /\ cur'[c][n] = MsgId(req[o])
    BY <1>4 DEF BetweenRun, InBody, v
  <2>1. w[Len(w)] = Envelope(req[o]) /\ req[o] \in Files
    BY <1>4, <1>t DEF BetweenRun, w, o
  <2>2. CASE v # <<>>
    <3>1. Len(v) \in 1 .. Len(w) - 1 /\ Len(v) + 1 = Len(w)
      BY <2>2, <1>1, <1>2
    <3>2. QED  BY <2>1, <2>2, <3>1, <1>1
  <2>3. CASE v = <<>>
    <3>1. Head(w) = Envelope(req[o])
      BY <2>1, <2>3, <1>1, <1>3
    <3>2. Head(w).kind = "offer" /\ Head(w).id = MsgId(req[o])
      BY <3>1, <2>1, MsgIds, RuntimeAssumption
    <3>3. QED  BY <3>2, <2>3 DEF w
  <2>4. QED  BY <2>2, <2>3
<1>8. QED  BY <1>5, <1>6, <1>7

\* What a reader's conn.Recv does to the wires and to the messages on them.
LEMMA ReadMoves ==
  ASSUME TypeOK, TypeOK', OneFrame, NEW c \in Conns, NEW n \in Nodes, wire[c][n] # <<>>,
         wire' = [wire EXCEPT ![c][n] = Tail(@)]
  PROVE  /\ Popped(c, n)
         /\ \A d \in Conns, p \in Nodes : Kept(d, p) \/ (d = c /\ p = n)
         /\ \A d \in Conns, p \in Nodes : Shifted(d, p)
         /\ Head(wire[c][n]) = wire[c][n][1] /\ 1 \in DOMAIN wire[c][n]
         /\ Carrier(Head(wire[c][n])) =>
              \A i : i = Head(wire[c][n]).id =>
                \A d \in Conns, p \in Nodes : \A k \in DOMAIN wire'[d][p] :
                  ~Carries(d, p, k, i)'
<1>t. wire \in [Conns -> [Nodes -> Seq(Frames)]] /\ wire' \in [Conns -> [Nodes -> Seq(Frames)]]
  BY DEF TypeOK
<1>1. Popped(c, n) /\ \A d \in Conns, p \in Nodes : Kept(d, p) \/ (d = c /\ p = n)
  BY <1>t DEF Popped, Kept
<1>2. ASSUME NEW d \in Conns, NEW p \in Nodes PROVE Shifted(d, p)
  <2>1. CASE Kept(d, p)
    <3> DEFINE w == wire[d][p]
               v == wire'[d][p]
    <3>1. v = w /\ Len(w) \in Nat /\ DOMAIN w = 1 .. Len(w)
      BY <2>1, <1>t DEF Kept
    <3> HIDE DEF v, w
    <3>2. Shift(d, p) = 0
      <4>1. Len(v) = Len(w) /\ ~(Len(w) < Len(w))
        BY <3>1
      <4>2. Shift(d, p) = IF Len(v) < Len(w) THEN 1 ELSE 0
        BY DEF Shift, v, w
      <4>3. QED  BY <4>1, <4>2
    <3>3. \A k \in DOMAIN v : k + 0 \in DOMAIN w /\ v[k] = w[k + 0]
      BY <3>1
    <3>4. QED  BY <3>2, <3>3 DEF Shifted, v, w
  <2>2. CASE d = c /\ p = n
    <3> DEFINE w == wire[c][n]
               v == wire'[c][n]
    <3>1. v = Tail(w) /\ w \in Seq(Frames)
      BY <1>1, <1>t DEF Popped
    <3>2. /\ Len(w) \in Nat \ {0} /\ Len(v) = Len(w) - 1 /\ DOMAIN v = 1 .. Len(w) - 1
          /\ \A k \in 1 .. Len(w) - 1 : v[k] = w[k + 1] /\ k + 1 \in DOMAIN w
      BY <3>1, TailFacts
    <3>3. Shift(c, n) = 1
      BY <3>2 DEF Shift
    <3>4. QED  BY <2>2, <3>2, <3>3 DEF Shifted
  <2>3. QED  BY <1>1, <2>1, <2>2
<1>3. Head(wire[c][n]) = wire[c][n][1] /\ 1 \in DOMAIN wire[c][n] /\ Head(wire[c][n]) \in Frames
  BY <1>t, TailFacts
<1>4. ASSUME Carrier(Head(wire[c][n])), NEW i, i = Head(wire[c][n]).id,
             NEW d \in Conns, NEW p \in Nodes,
             NEW k \in DOMAIN wire'[d][p], Carries(d, p, k, i)'
      PROVE  FALSE
  <2>1. i \in Ids
    BY <1>3, <1>4, FrameFields DEF Carrier
  <2>2. Carries(c, n, 1, i)
    BY <1>3, <1>4 DEF Carries
  <2>3. k + Shift(d, p) \in DOMAIN wire[d][p] /\ Carries(d, p, k + Shift(d, p), i)
    BY <1>2, <1>4 DEF Shifted, Carries, Carrier
  <2>4. d = c /\ p = n /\ k + Shift(d, p) = 1
    BY <2>1, <2>2, <2>3, <1>3 DEF OneFrame
  <2>5. Shift(c, n) = 1
    <3>1. Len(wire'[c][n]) = Len(wire[c][n]) - 1 /\ Len(wire[c][n]) \in Nat
      BY <1>1, <1>t, TailFacts DEF Popped
    <3>2. QED  BY <3>1 DEF Shift
  <2>6. k \in Nat \ {0}
    BY <1>t
  <2>7. QED  BY <2>4, <2>5, <2>6
<1>5. QED  BY <1>1, <1>2, <1>3, <1>4


\* The readers that take a message: what they change.
Reads(c, n) == RdText(c, n) \/ RdOffer(c, n) \/ RdFile(c, n)

\* A reader takes the first message of its wire and touches no other side.
LEMMA ReadsFrame ==
  ASSUME TypeOK, NEW c \in Conns, NEW n \in Nodes, Reads(c, n)
  PROVE  /\ wire[c][n] # <<>> /\ wire' = [wire EXCEPT ![c][n] = Tail(@)]
         /\ UNCHANGED <<apiVars, procVars, connVars, done, said>>
         /\ \A d \in Conns, p \in Nodes :
              d # c \/ p # n => rd'[d][p] = rd[d][p] /\ cur'[d][p] = cur[d][p]
         /\ RdText(c, n) => rd'[c][n] = "ack" /\ cur'[c][n] = Head(wire[c][n]).id
         /\ RdOffer(c, n) => rd'[c][n] = "body" /\ cur'[c][n] = Head(wire[c][n]).id
         /\ RdFile(c, n) => rd'[c][n] = "ack" /\ cur'[c][n] = cur[c][n]
<1> USE DEF Receive, Surface, connVars, eventVars
<1>t. rd \in [Conns -> [Nodes -> RDs]] /\ cur \in [Conns -> [Nodes -> Ids \cup {NoMsg}]]
  BY DEF TypeOK
<1>1. CASE RdText(c, n)
  <2>1. /\ rd' = [rd EXCEPT ![c][n] = "ack"] /\ cur' = [cur EXCEPT ![c][n] = Head(wire[c][n]).id]
        /\ wire[c][n] # <<>> /\ wire' = [wire EXCEPT ![c][n] = Tail(@)]
        /\ UNCHANGED <<apiVars, procVars, connVars, done, said>>
        /\ ~RdOffer(c, n) /\ ~RdFile(c, n)
    BY <1>1 DEF RdText, RdOffer, RdFile
  <2>2. QED  BY <2>1, <1>t
<1>2. CASE RdOffer(c, n)
  <2>1. /\ rd' = [rd EXCEPT ![c][n] = "body"] /\ cur' = [cur EXCEPT ![c][n] = Head(wire[c][n]).id]
        /\ wire[c][n] # <<>> /\ wire' = [wire EXCEPT ![c][n] = Tail(@)]
        /\ UNCHANGED <<apiVars, procVars, connVars, done, said>>
        /\ ~RdText(c, n) /\ ~RdFile(c, n)
    BY <1>2 DEF RdText, RdOffer, RdFile
  <2>2. QED  BY <2>1, <1>t
<1>3. CASE RdFile(c, n)
  <2>1. /\ rd' = [rd EXCEPT ![c][n] = "ack"] /\ cur' = [cur EXCEPT ![c][n] = cur[c][n]]
        /\ wire[c][n] # <<>> /\ wire' = [wire EXCEPT ![c][n] = Tail(@)]
        /\ UNCHANGED <<apiVars, procVars, connVars, done, said>>
        /\ ~RdText(c, n) /\ ~RdOffer(c, n)
    BY <1>3 DEF RdText, RdOffer, RdFile
  <2>2. QED  BY <2>1, <1>t
<1>4. QED  BY <1>1, <1>2, <1>3 DEF Reads

\* Taking a message keeps chunks behind their offers.
LEMMA ReadFlow ==
  ASSUME IInv, TypeOK', WriterInv, FlowInv, PlaceInv,
         NEW c \in Conns, NEW n \in Nodes, Reads(c, n)
  PROVE  WireEnds' /\ FlowInv'
<1>t. TypeOK /\ OneFrame
  BY DEF IInv, PlaceInv
<1>1. /\ Popped(c, n) /\ \A d \in Conns, p \in Nodes : Kept(d, p) \/ (d = c /\ p = n)
  BY <1>t, ReadsFrame, ReadMoves
<1>2. /\ UNCHANGED <<ini, rsp, done, pc, conn, req>>
      /\ \A d \in Conns, p \in Nodes :
           d # c \/ p # n => rd'[d][p] = rd[d][p] /\ cur'[d][p] = cur[d][p]
  BY <1>t, ReadsFrame DEF procVars, connVars
<1>3. /\ Head(wire[c][n]).kind = "offer" <=> rd'[c][n] = "body"
      /\ rd'[c][n] = "body" => cur'[c][n] = Head(wire[c][n]).id
  BY <1>t, ReadsFrame DEF Reads, RdText, RdOffer, RdFile, Receive
<1>4. WireEnds'
  BY <1>1, <1>2 DEF WriterInv, WireEnds, Kept, Popped
<1>5. ASSUME NEW d \in Conns, NEW p \in Nodes
      PROVE  OfferRun(d, p)' /\ BodyRun(d, p)' /\ BetweenRun(d, p)'
  <2>1. OfferRun(d, p) /\ BodyRun(d, p) /\ BetweenRun(d, p) /\ \A q \in Nodes : RequestOK(q)
    BY DEF FlowInv, WriterInv
  <2>2. CASE d = c /\ p = n
    BY <2>1, <2>2, <1>t, <1>1, <1>2, <1>3, PopFlow
  <2>3. CASE ~(d = c /\ p = n)
    <3>1. /\ Between(d, p)' <=> Between(d, p)
          /\ GivenUp(d, p)' <=> GivenUp(d, p)
          /\ req' = req
      BY <1>2 DEF Between, GivenUp, Other, SendMuHeld
    <3>2. QED  BY <2>1, <2>3, <3>1, <1>t, <1>1, <1>2, KeptFlow
  <2>4. QED  BY <2>2, <2>3
<1>6. QED  BY <1>4, <1>5 DEF FlowInv

\* A message that is taken goes from its wire to the reader's hands, or to the
\* user.
LEMMA ReadPlace ==
  ASSUME IInv, TypeOK', WriterInv, FlowInv, PlaceInv,
         NEW c \in Conns, NEW n \in Nodes, Reads(c, n)
  PROVE  PlaceInv'
<1> DEFINE h == Head(wire[c][n])
<1>t. TypeOK /\ OneFrame /\ got \in [Nodes -> Seq(Ids)]
      /\ lastIn \in [Nodes -> [Nodes -> Ids \cup {NoMsg}]]
      /\ wire[c][n] \in Seq(Frames)
  BY DEF IInv, PlaceInv, TypeOK
<1>r. /\ wire[c][n] # <<>> /\ wire' = [wire EXCEPT ![c][n] = Tail(@)]
      /\ \A d \in Conns, p \in Nodes :
           d # c \/ p # n => rd'[d][p] = rd[d][p] /\ cur'[d][p] = cur[d][p]
  BY <1>t, ReadsFrame
<1>m. /\ h = wire[c][n][1] /\ 1 \in DOMAIN wire[c][n] /\ h \in Frames
      /\ \A d \in Conns, p \in Nodes : Shifted(d, p)
      /\ Carrier(h) =>
           \A i : i = h.id =>
             \A d \in Conns, p \in Nodes : \A k \in DOMAIN wire'[d][p] : ~Carries(d, p, k, i)'
  <2>1. h \in Frames
    BY <1>t, <1>r, TailFacts
  <2>2. QED  BY <2>1, <1>t, <1>r, ReadMoves
<1>1. OneFrame' /\ \A i : \A d \in Conns, p \in Nodes : \A k \in DOMAIN wire'[d][p] :
        Carries(d, p, k, i)' =>
          k + Shift(d, p) \in DOMAIN wire[d][p] /\ Carries(d, p, k + Shift(d, p), i)
  BY <1>m, <1>t, FramesStay
<1>w. \A p \in Nodes, d \in Conns : \A k \in DOMAIN wire'[d][p] : Carrier(wire'[d][p][k]) =>
        \E m \in Msgs : wire'[d][p][k] = Envelope(m) /\ Dest[m] = p
  BY <1>m DEF Shifted, PlaceInv, Routed
<1>f. \A p \in Nodes, d \in Conns : \A k \in DOMAIN wire'[d][p] :
        \E l \in DOMAIN wire[d][p] : wire'[d][p][k] = wire[d][p][l]
  <2>1. ASSUME NEW p \in Nodes, NEW d \in Conns, NEW k \in DOMAIN wire'[d][p]
        PROVE  \E l \in DOMAIN wire[d][p] : wire'[d][p][k] = wire[d][p][l]
    <3>w. wire \in [Conns -> [Nodes -> Seq(Frames)]]
      BY <1>t DEF TypeOK
    <3>1. CASE d = c /\ p = n
      <4>1. wire'[c][n] = Tail(wire[c][n])
        BY <1>r, <3>w
      <4>2. k \in 1 .. Len(wire[c][n]) - 1
        BY <3>1, <4>1, <1>r, <1>t, TailFacts
      <4>3. QED  BY <3>1, <4>1, <4>2, <1>r, <1>t, TailFacts
    <3>2. CASE ~(d = c /\ p = n)
      BY <3>2, <1>r, <3>w
    <3>3. QED  BY <3>1, <3>2
  <2>2. QED  BY <2>1
<1>2. CASE RdOffer(c, n)
  <2>1. /\ h.kind = "offer" /\ rd'[c][n] = "body" /\ cur'[c][n] = h.id
        /\ UNCHANGED <<got, lastIn>>
    BY <1>2, <1>t, ReadsFrame DEF RdOffer, Receive, Reads, eventVars
  <2>2. PICK m0 \in Msgs : h = Envelope(m0) /\ Dest[m0] = n
    BY <2>1, <1>m DEF PlaceInv, Routed, Carrier
  <2>3. m0 \in Files /\ h.id = MsgId(m0) /\ h.id \in Ids
    BY <2>1, <2>2, MsgIds
  <2>4. Carries(c, n, 1, h.id)
    BY <2>1, <1>m DEF Carries, Carrier
  <2> HIDE DEF h
  <2>5. ~Surfaced(h.id) /\ \A d \in Conns, p \in Nodes : ~InBody(h.id, d, p)
    BY <2>3, <2>4, <1>m DEF PlaceInv, OnePlace
  <2>s. \A i : Surfaced(i)' <=> Surfaced(i)
    BY <2>1 DEF Surfaced
  <2>b. \A i : \A d \in Conns, p \in Nodes :
          InBody(i, d, p)' => InBody(i, d, p) \/ (d = c /\ p = n /\ i = h.id)
    BY <2>1, <1>r DEF InBody
  <2>w. \A i : i = h.id => \A d \in Conns, p \in Nodes : \A k \in DOMAIN wire'[d][p] :
          ~Carries(d, p, k, i)'
    BY <2>1, <1>m DEF Carrier
  <2>6. OnePlace'
    <3> SUFFICES ASSUME NEW i \in Ids, NEW d \in Conns, NEW p \in Nodes
                 PROVE  /\ \A k \in DOMAIN wire'[d][p] : Carries(d, p, k, i)' =>
                             ~Surfaced(i)' /\ \A e \in Conns, q \in Nodes : ~InBody(i, e, q)'
                        /\ InBody(i, d, p)' =>
                             /\ ~Surfaced(i)'
                             /\ \A e \in Conns, q \in Nodes : InBody(i, e, q)' => d = e /\ p = q
      BY DEF OnePlace
    <3>1. ASSUME NEW k \in DOMAIN wire'[d][p], Carries(d, p, k, i)'
          PROVE  ~Surfaced(i)' /\ \A e \in Conns, q \in Nodes : ~InBody(i, e, q)'
      <4>1. i # h.id
        BY <3>1, <2>w
      <4>2. ~Surfaced(i) /\ \A e \in Conns, q \in Nodes : ~InBody(i, e, q)
        BY <3>1, <1>1 DEF PlaceInv, OnePlace
      <4>3. QED  BY <4>1, <4>2, <2>s, <2>b
    <3>2. ASSUME InBody(i, d, p)'
          PROVE  /\ ~Surfaced(i)'
                 /\ \A e \in Conns, q \in Nodes : InBody(i, e, q)' => d = e /\ p = q
      <4>1. CASE i = h.id
        BY <4>1, <3>2, <2>5, <2>s, <2>b
      <4>2. CASE i # h.id
        BY <4>2, <3>2, <2>s, <2>b DEF PlaceInv, OnePlace
      <4>3. QED  BY <4>1, <4>2
    <3>3. QED  BY <3>1, <3>2
  <2>7. Routed'
    <3>1. \A p \in Nodes : \A k \in DOMAIN got'[p] : \E m \in Msgs : got'[p][k] = MsgId(m) /\ Dest[m] = p
      BY <2>1 DEF PlaceInv, Routed
    <3>2. \A p \in Nodes, d \in Conns : rd'[d][p] = "body" =>
            \E m \in Files : cur'[d][p] = MsgId(m) /\ Dest[m] = p
      BY <2>1, <2>2, <2>3, <1>r DEF PlaceInv, Routed
    <3>3. QED  BY <3>1, <3>2, <1>w DEF Routed, Carrier
  <2>8. ReceiptsTrue'
    <3>1. \A p, q \in Nodes : lastIn'[p][q] # NoMsg => Surfaced(lastIn[p][q])'
      BY <2>1 DEF PlaceInv, ReceiptsTrue, Surfaced
    <3>2. \A p \in Nodes, d \in Conns : rd'[d][p] = "ack" => Surfaced(cur[d][p])'
      BY <2>1, <1>r DEF PlaceInv, ReceiptsTrue, Surfaced
    <3>3. \A p \in Nodes, d \in Conns : \A k \in DOMAIN wire'[d][p] :
            wire'[d][p][k].kind = "receipt" => Surfaced(wire[d][p][k].id)'
      BY <2>1, <1>f DEF PlaceInv, ReceiptsTrue, Surfaced
    <3>4. QED  BY <3>1, <3>2, <3>3 DEF ReceiptsTrue
  <2>9. SurfacedOnce'
    BY <2>1 DEF PlaceInv, SurfacedOnce
  <2>10. QED  BY <1>1, <2>6, <2>7, <2>8, <2>9 DEF PlaceInv
<1>3. CASE RdText(c, n) \/ RdFile(c, n)
  <2> DEFINE j == IF RdText(c, n) THEN h.id ELSE cur[c][n]
  <2>1. /\ rd'[c][n] = "ack" /\ cur'[c][n] = j
        /\ got' = [got EXCEPT ![n] = Append(@, j)]
        /\ lastIn' = [lastIn EXCEPT ![n][Other(c, n)] = j]
        /\ RdText(c, n) => h.kind = "text"
        /\ ~RdText(c, n) => rd[c][n] = "body"
    BY <1>3, <1>t, ReadsFrame DEF RdText, RdFile, Receive, Reads, Surface
  <2>2. \E m \in Msgs : j = MsgId(m) /\ Dest[m] = n
    <3>1. CASE RdText(c, n)
      <4>1. PICK m0 \in Msgs : h = Envelope(m0) /\ Dest[m0] = n
        BY <3>1, <2>1, <1>m DEF PlaceInv, Routed, Carrier
      <4>2. QED  BY <3>1, <4>1, MsgIds
    <3>2. CASE ~RdText(c, n)
      BY <3>2, <2>1, RuntimeAssumption DEF PlaceInv, Routed
    <3>3. QED  BY <3>1, <3>2
  <2>3. j \in Ids
    BY <2>2, MsgIds
  <2>4. /\ ~Surfaced(j)
        /\ \A d \in Conns, p \in Nodes : d # c \/ p # n => ~InBody(j, d, p)
        /\ \A d \in Conns, p \in Nodes : \A k \in DOMAIN wire'[d][p] : \A i : i = j => ~Carries(d, p, k, i)'
    <3>1. CASE RdText(c, n)
      <4>1. Carries(c, n, 1, j)
        BY <3>1, <2>1, <1>m DEF Carries, Carrier
      <4>2. ~Surfaced(j) /\ \A d \in Conns, p \in Nodes : ~InBody(j, d, p)
        BY <2>3, <4>1, <1>m DEF PlaceInv, OnePlace
      <4>3. QED  BY <3>1, <4>2, <2>1, <1>m DEF Carrier
    <3>2. CASE ~RdText(c, n)
      <4>1. InBody(j, c, n)
        BY <3>2, <2>1 DEF InBody
      <4>2. ~Surfaced(j) /\ \A d \in Conns, p \in Nodes : InBody(j, d, p) => c = d /\ n = p
        BY <2>3, <4>1 DEF PlaceInv, OnePlace
      <4>3. \A d \in Conns, p \in Nodes : \A k \in DOMAIN wire[d][p] : ~Carries(d, p, k, j)
        BY <2>3, <4>1 DEF PlaceInv, OnePlace
      <4>4. \A d \in Conns, p \in Nodes : \A k \in DOMAIN wire'[d][p] : \A i : i = j => ~Carries(d, p, k, i)'
        BY <4>3, <1>1
      <4>5. QED  BY <4>2, <4>4
    <3>3. QED  BY <3>1, <3>2
  <2> HIDE DEF j, h
  <2>g. \A p \in Nodes : \A i : InSeq(i, got'[p]) <=> InSeq(i, got[p]) \/ (p = n /\ i = j)
    <3>1. got'[n] = Append(got[n], j) /\ got[n] \in Seq(Ids)
      BY <2>1, <1>t
    <3>2. \A i : InSeq(i, got'[n]) <=> InSeq(i, got[n]) \/ i = j
      BY <3>1, <2>3, InAppend
    <3>3. \A p \in Nodes \ {n} : got'[p] = got[p]
      BY <2>1, <1>t
    <3>4. QED  BY <3>2, <3>3
  <2>s. \A i : Surfaced(i)' <=> Surfaced(i) \/ i = j
    BY <2>g DEF Surfaced, InSeq
  <2>b. \A i : \A d \in Conns, p \in Nodes :
          InBody(i, d, p)' => InBody(i, d, p) /\ (d # c \/ p # n)
    BY <2>1, <1>r DEF InBody
  <2>6. OnePlace'
    <3> SUFFICES ASSUME NEW i \in Ids, NEW d \in Conns, NEW p \in Nodes
                 PROVE  /\ \A k \in DOMAIN wire'[d][p] : Carries(d, p, k, i)' =>
                             ~Surfaced(i)' /\ \A e \in Conns, q \in Nodes : ~InBody(i, e, q)'
                        /\ InBody(i, d, p)' =>
                             /\ ~Surfaced(i)'
                             /\ \A e \in Conns, q \in Nodes : InBody(i, e, q)' => d = e /\ p = q
      BY DEF OnePlace
    <3>1. ASSUME NEW k \in DOMAIN wire'[d][p], Carries(d, p, k, i)'
          PROVE  ~Surfaced(i)' /\ \A e \in Conns, q \in Nodes : ~InBody(i, e, q)'
      <4>1. i # j
        BY <3>1, <2>4
      <4>2. ~Surfaced(i) /\ \A e \in Conns, q \in Nodes : ~InBody(i, e, q)
        BY <3>1, <1>1 DEF PlaceInv, OnePlace
      <4>3. QED  BY <4>1, <4>2, <2>s, <2>b
    <3>2. ASSUME InBody(i, d, p)'
          PROVE  /\ ~Surfaced(i)'
                 /\ \A e \in Conns, q \in Nodes : InBody(i, e, q)' => d = e /\ p = q
      <4>1. InBody(i, d, p) /\ i # j
        BY <3>2, <2>4, <2>b
      <4>2. QED  BY <4>1, <2>s, <2>b DEF PlaceInv, OnePlace
    <3>3. QED  BY <3>1, <3>2
  <2>7. Routed'
    <3>1. \A p \in Nodes : \A k \in DOMAIN got'[p] : \E m \in Msgs : got'[p][k] = MsgId(m) /\ Dest[m] = p
      <4>1. \A p \in Nodes : \A k \in DOMAIN got'[p] : InSeq(got'[p][k], got'[p])
        BY DEF InSeq
      <4>2. \A p \in Nodes : \A k \in DOMAIN got'[p] :
              InSeq(got'[p][k], got[p]) \/ (p = n /\ got'[p][k] = j)
        BY <4>1, <2>g
      <4>3. QED  BY <4>2, <2>2 DEF PlaceInv, Routed, InSeq
    <3>2. \A p \in Nodes, d \in Conns : rd'[d][p] = "body" =>
            \E m \in Files : cur'[d][p] = MsgId(m) /\ Dest[m] = p
      BY <2>1, <1>r DEF PlaceInv, Routed
    <3>3. QED  BY <3>1, <3>2, <1>w DEF Routed, Carrier
  <2>8. ReceiptsTrue'
    <3>0. ASSUME NEW i PROVE /\ Surfaced(i) => \E q \in Nodes : InSeq(i, got'[q])
                             /\ i = j => \E q \in Nodes : InSeq(i, got'[q])
      BY <2>g DEF Surfaced
    <3>1. \A p, q \in Nodes : lastIn'[p][q] # NoMsg => Surfaced(lastIn[p][q])'
      <4>1. \A p, q \in Nodes : lastIn'[p][q] = lastIn[p][q] \/ lastIn'[p][q] = j
        BY <2>1, <1>t
      <4>2. QED  BY <4>1, <3>0 DEF PlaceInv, ReceiptsTrue, Surfaced
    <3>2. \A p \in Nodes, d \in Conns : rd'[d][p] = "ack" => Surfaced(cur[d][p])'
      <4>1. \A p \in Nodes, d \in Conns : rd'[d][p] = "ack" =>
              Surfaced(cur'[d][p]) \/ cur'[d][p] = j
        BY <2>1, <1>r DEF PlaceInv, ReceiptsTrue
      <4>2. QED  BY <4>1, <2>g DEF Surfaced
    <3>3. \A p \in Nodes, d \in Conns : \A k \in DOMAIN wire'[d][p] :
            wire'[d][p][k].kind = "receipt" => Surfaced(wire[d][p][k].id)'
      <4>1. \A p \in Nodes, d \in Conns : \A k \in DOMAIN wire'[d][p] :
              wire'[d][p][k].kind = "receipt" => Surfaced(wire'[d][p][k].id)
        BY <1>f DEF PlaceInv, ReceiptsTrue
      <4>2. QED  BY <4>1, <2>g DEF Surfaced
    <3>4. QED  BY <3>1, <3>2, <3>3 DEF ReceiptsTrue
  <2>9. SurfacedOnce'
    <3> SUFFICES ASSUME NEW p \in Nodes, NEW k \in DOMAIN got'[p], NEW l \in DOMAIN got'[p],
                        got'[p][k] = got'[p][l]
                 PROVE  k = l
      BY DEF SurfacedOnce
    <3>1. CASE p # n
      BY <3>1, <2>1, <1>t DEF PlaceInv, SurfacedOnce
    <3>2. CASE p = n
      <4> DEFINE g == got[n]
                 gg == got'[n]
      <4>1. gg = Append(g, j) /\ g \in Seq(Ids)
        BY <2>1, <1>t
      <4>2. /\ Len(g) \in Nat /\ DOMAIN g = 1 .. Len(g) /\ DOMAIN gg = 1 .. Len(g) + 1
            /\ \A x \in 1 .. Len(g) : gg[x] = g[x] /\ gg[x] # j
            /\ gg[Len(g) + 1] = j
        <5>1. \A x \in DOMAIN g : g[x] # j
          BY <2>4 DEF Surfaced, InSeq
        <5>2. QED  BY <4>1, <5>1, <2>3, AppendFacts
      <4>3. \A x, y \in DOMAIN g : g[x] = g[y] => x = y
        BY DEF PlaceInv, SurfacedOnce
      <4> HIDE DEF g, gg
      <4>4. k \in DOMAIN gg /\ l \in DOMAIN gg /\ gg[k] = gg[l]
        BY <3>2 DEF gg
      <4>5. QED  BY <4>2, <4>3, <4>4
    <3>3. QED  BY <3>1, <3>2
  <2>10. QED  BY <1>1, <2>6, <2>7, <2>8, <2>9 DEF PlaceInv
<1>4. QED  BY <1>2, <1>3 DEF Reads


\* A wire that grows: chunks after an offer, or anything else outside a transfer.
LEMMA PushFlow ==
  ASSUME NEW c \in Conns, NEW n \in Nodes, NEW f \in Frames, TypeOK,
         OfferRun(c, n), BodyRun(c, n), ~GivenUp(c, n),
         wire'[c][n] = Append(wire[c][n], f),
         rd'[c][n] = rd[c][n], Between(c, n) => f = Chunks,
         Between(c, n)' => f = Envelope(req'[Other(c, n)]), UNCHANGED <<ini, rsp>>,
         f.kind = "offer" => Between(c, n)'
  PROVE  OfferRun(c, n)' /\ BodyRun(c, n)' /\ BetweenRun(c, n)'
<1> DEFINE w == wire[c][n]
           v == wire'[c][n]
<1>1. /\ Len(w) \in Nat /\ DOMAIN w = 1 .. Len(w)
      /\ Len(v) = Len(w) + 1 /\ DOMAIN v = 1 .. Len(w) + 1
      /\ \A k \in 1 .. Len(w) : v[k] = w[k]
      /\ v[Len(w) + 1] = f /\ v # <<>>
      /\ w # <<>> => Head(v) = Head(w)
      /\ w = <<>> => Head(v) = f
  <2>1. w \in Seq(Frames) /\ v = Append(w, f)
    BY DEF TypeOK
  <2>2. QED  BY <2>1, AppendFacts
<1> HIDE DEF v, w
<1>2. OfferRun(c, n)'
  <2> SUFFICES ASSUME NEW k \in DOMAIN v, v[k].kind = "offer"
               PROVE  IF k < Len(v) THEN v[k + 1] = Chunks ELSE Between(c, n)'
    BY DEF OfferRun, Follows, Carrier, Chunks, v
  <2>1. CASE k \in 1 .. Len(w)
    <3>1. w[k].kind = "offer"
      BY <2>1, <1>1
    <3>2. IF k < Len(w) THEN w[k + 1] = Chunks ELSE Between(c, n)
      BY <2>1, <3>1, <1>1 DEF OfferRun, Follows, w
    <3>3. CASE k < Len(w)
      BY <2>1, <3>2, <3>3, <1>1
    <3>4. CASE k = Len(w)
      BY <2>1, <3>2, <3>4, <1>1
    <3>5. QED  BY <2>1, <3>3, <3>4, <1>1
  <2>2. CASE k = Len(w) + 1
    BY <2>2, <1>1
  <2>3. QED  BY <2>1, <2>2, <1>1
<1>3. BodyRun(c, n)'
  BY <1>1 DEF BodyRun, Follows, Carrier, Chunks, v, w
<1>4. BetweenRun(c, n)'
  <2>1. Other(c, n)' = Other(c, n)
    BY DEF Other
  <2>2. v[Len(v)] = f
    BY <1>1
  <2>3. QED  BY <2>1, <2>2, <1>1 DEF BetweenRun, v
<1>5. QED  BY <1>2, <1>3, <1>4

\* What the worker writes to: an end of its own whose other end is the recipient.
LEMMA WriterEnd ==
  ASSUME IInv, WriterInv, NEW n \in Nodes, Writing(n),
         NEW c, c = conn[n]["snd"], NEW o, o = Other(c, n)
  PROVE  /\ c \in Conns /\ o \in Nodes \ {n} /\ Claimed(c, n)
         /\ Other(c, o) = n /\ o \in {ini[c], rsp[c]} /\ ini[c] # NoNode
         /\ req[n] \in Msgs /\ Owner[req[n]] = n /\ o = Dest[req[n]]
         /\ \A p \in Nodes : p \in {ini[c], rsp[c]} /\ Other(c, p) = n => p = o
<1>1. c \in Conns /\ Claimed(c, n) /\ o = Dest[req[n]] /\ req[n] \in Msgs /\ Owner[req[n]] = n
  BY DEF IInv, BookInv, WriterOK, RequestsOK, WriterInv, LinkFree, RequestOK, Writing, Working
<1>2. /\ ini \in [Conns -> Nodes \cup {NoNode}] /\ rsp \in [Conns -> Nodes \cup {NoNode}]
      /\ EndsOK
  BY DEF IInv, TypeOK, LinkInv
<1>3. QED  BY <1>1, <1>2, RuntimeAssumption DEF EndsOK, Claimed, Other

\* The two writing steps of deliver: what they leave alone.
Writes(n) == SndWrite(n) \/ SndChunks(n)

\* deliver's writes go to the end of a wire and touch no inbound side.
LEMMA WritesFrame ==
  ASSUME TypeOK, NEW n \in Nodes, Writes(n)
  PROVE  /\ UNCHANGED <<apiVars, req, conn, connVars, done, rd, cur, eventVars, lastIn>>
         /\ Writing(n) /\ pc[n]["snd"] # "drop"
         /\ \E l \in {"chunks", "sent", "drop"} : pc' = [pc EXCEPT ![n]["snd"] = l]
         /\ \A p \in Nodes \ {n} : pc'[p]["snd"] = pc[p]["snd"]
<1>1. /\ UNCHANGED <<apiVars, req, conn, connVars, done, rd, cur, eventVars, lastIn>>
      /\ Writing(n) /\ pc[n]["snd"] # "drop"
      /\ \E l \in {"chunks", "sent", "drop"} : pc' = [pc EXCEPT ![n]["snd"] = l]
  BY DEF Writes, SndWrite, SndChunks, Goto, Writing
<1>2. QED  BY <1>1 DEF TypeOK

\* Writing a message keeps chunks behind their offers.
LEMMA WriteFlow ==
  ASSUME IInv, WriterInv, FlowInv, NEW n \in Nodes, Writes(n)
  PROVE  WireEnds' /\ FlowInv'
<1>c. PICK c : c = conn[n]["snd"]
  OBVIOUS
<1>o. PICK o : o = Other(c, n)
  OBVIOUS
<1>m. PICK m : m = req[n]
  OBVIOUS
<1>t. TypeOK /\ EndsOK /\ pc \in [Nodes -> [Procs -> PCs]] /\ "snd" \in Procs
  BY DEF IInv, LinkInv, TypeOK, Procs, Diallers
<1>1. /\ UNCHANGED <<ini, rsp, req, conn, done, rd, cur>> /\ Writing(n) /\ pc[n]["snd"] # "drop"
      /\ \A p \in Nodes \ {n} : pc'[p]["snd"] = pc[p]["snd"]
  BY <1>t, WritesFrame DEF connVars
<1>2. /\ c \in Conns /\ o \in Nodes \ {n} /\ Claimed(c, n)
      /\ Other(c, o) = n /\ o \in {ini[c], rsp[c]} /\ ini[c] # NoNode
      /\ m \in Msgs /\ Owner[m] = n /\ o = Dest[m]
      /\ \A p \in Nodes : p \in {ini[c], rsp[c]} /\ Other(c, p) = n => p = o
  BY <1>c, <1>o, <1>m, <1>1, WriterEnd
<1>3. ASSUME NEW d \in Conns, NEW p \in Nodes, d # c \/ p # o
      PROVE  Between(d, p)' <=> Between(d, p)
  BY <1>c, <1>1, <1>2, <1>3 DEF Between, SendMuHeld, Other
<1>4. \A d \in Conns, p \in Nodes : OfferRun(d, p) /\ BodyRun(d, p) /\ BetweenRun(d, p)
  BY DEF FlowInv
<1>g. \A d \in Conns, p \in Nodes : GivenUp(d, p) => GivenUp(d, p)'
  BY <1>1 DEF GivenUp, Other
<1>5. CASE UNCHANGED wire /\ (Dead(c, o) \/ pc'[n]["snd"] = "drop")
  <2>0. GivenUp(c, o)' /\ (Dead(c, o) \/ ~Between(c, o)')
    <3>1. CASE Dead(c, o)
      BY <3>1, <1>2, <1>g DEF Dead, GivenUp
    <3>2. CASE pc'[n]["snd"] = "drop"
      <4>1. Other(c, o)' = n /\ conn'[n]["snd"] = c
        BY <1>c, <1>1, <1>2 DEF Other
      <4>2. QED  BY <4>1, <3>2 DEF GivenUp, Between, SendMuHeld
    <3>3. QED  BY <1>5, <3>1, <3>2
  <2>1. WireEnds'
    BY <1>5, <1>1 DEF WireEnds, WriterInv
  <2>2. \A d \in Conns, p \in Nodes : Kept(d, p)
    BY <1>5 DEF Kept
  <2>3. ASSUME NEW d \in Conns, NEW p \in Nodes
        PROVE  OfferRun(d, p)' /\ BodyRun(d, p)' /\ BetweenRun(d, p)'
    <3>1. CASE d = c /\ p = o
      BY <3>1, <2>0, <1>g, <1>t, <1>1, <1>4, <2>2, KeptFlow
    <3>2. CASE d # c \/ p # o
      BY <3>2, <1>3, <1>g, <1>t, <1>1, <1>4, <2>2, KeptFlow
    <3>3. QED  BY <3>1, <3>2
  <2>4. QED  BY <2>1, <2>3 DEF FlowInv
<1>6. ASSUME NEW f \in Frames, ~Dead(c, o), wire' = [wire EXCEPT ![c][o] = Append(@, f)],
             Between(c, o) => f = Chunks,
             Between(c, o)' => f = Envelope(m),
             f.kind = "offer" => Between(c, o)'
      PROVE  WireEnds' /\ FlowInv'
  <2>1. /\ wire'[c][o] = Append(wire[c][o], f)
        /\ \A d \in Conns, p \in Nodes : d # c \/ p # o => Kept(d, p)
    BY <1>2, <1>6, <1>t DEF TypeOK, Kept
  <2>2. WireEnds'
    BY <2>1, <1>1, <1>2 DEF WireEnds, WriterInv, Kept
  <2>3. ASSUME NEW d \in Conns, NEW p \in Nodes
        PROVE  OfferRun(d, p)' /\ BodyRun(d, p)' /\ BetweenRun(d, p)'
    <3>1. CASE d = c /\ p = o
      <4>1. Between(c, o)' => f = Envelope(req'[Other(c, o)])
        BY <1>m, <1>1, <1>2, <1>6
      <4>2. OfferRun(c, o)' /\ BodyRun(c, o)' /\ BetweenRun(c, o)'
        <5>1. ~GivenUp(c, o)
          BY <1>1, <1>2, <1>6 DEF GivenUp, Dead
        <5>2. QED  BY <5>1, <4>1, <1>6, <1>t, <1>1, <1>2, <1>4, <2>1, PushFlow
      <4>3. QED  BY <3>1, <4>2
    <3>2. CASE d # c \/ p # o
      BY <3>2, <1>3, <1>g, <1>t, <1>1, <1>4, <2>1, KeptFlow
    <3>3. QED  BY <3>1, <3>2
  <2>4. QED  BY <2>2, <2>3 DEF FlowInv
<1>7. CASE SndWrite(n)
  <2>1. pc[n]["snd"] = "write" /\ ~Between(c, o)
    BY <1>c, <1>7, <1>2 DEF SndWrite, Between, SendMuHeld
  <2>2. CASE SendErr /\ Goto(n, "snd", "drop")
    BY <2>2, <1>5, <1>t DEF SendErr, Goto
  <2>3. CASE SendOK(c, n, Envelope(m)) /\ Goto(n, "snd", IF m \in Files THEN "chunks" ELSE "sent")
    <3>1. pc'[n]["snd"] = IF m \in Files THEN "chunks" ELSE "sent"
      BY <2>3, <1>t DEF Goto
    <3>2. Between(c, o)' <=> m \in Files
      BY <1>c, <3>1, <1>1, <1>2 DEF Between, SendMuHeld, Other
    <3>3. Envelope(m) \in Frames /\ (Envelope(m).kind = "offer" <=> m \in Files)
      BY <1>2, MsgIds
    <3>4. \/ UNCHANGED wire /\ Dead(c, o)
          \/ ~Dead(c, o) /\ wire' = [wire EXCEPT ![c][o] = Append(@, Envelope(m))]
      BY <2>3, <1>t, <1>2, <1>o, SendCases
    <3>5. QED  BY <3>2, <3>3, <3>4, <2>1, <1>5, <1>6
  <2>4. QED  BY <1>c, <1>m, <1>7, <2>2, <2>3 DEF SndWrite
<1>8. CASE SndChunks(n)
  <2>2. CASE SendErr /\ Goto(n, "snd", "drop")
    BY <2>2, <1>5, <1>t DEF SendErr, Goto
  <2>3. CASE SendOK(c, n, Chunks) /\ Goto(n, "snd", "sent")
    <3>1. pc'[n]["snd"] = "sent"
      BY <2>3, <1>t DEF Goto
    <3>2. ~Between(c, o)'
      BY <1>c, <3>1, <1>1, <1>2 DEF Between, SendMuHeld, Other
    <3>3. Chunks \in Frames /\ Chunks.kind # "offer"
      BY FrameMembers DEF Chunks
    <3>4. \/ UNCHANGED wire /\ Dead(c, o)
          \/ ~Dead(c, o) /\ wire' = [wire EXCEPT ![c][o] = Append(@, Chunks)]
      BY <2>3, <1>t, <1>2, <1>o, SendCases
    <3>5. QED  BY <3>2, <3>3, <3>4, <1>5, <1>6
  <2>4. QED  BY <1>c, <1>8, <2>2, <2>3 DEF SndChunks
<1>9. QED  BY <1>7, <1>8 DEF Writes

\* Writing puts a message that was nowhere on one wire.
LEMMA WritePlace ==
  ASSUME IInv, TypeOK', WriterInv, FlowInv, PlaceInv, StageInv, NEW n \in Nodes, Writes(n)
  PROVE  PlaceInv'
<1>c. PICK c : c = conn[n]["snd"]
  OBVIOUS
<1>o. PICK o : o = Other(c, n)
  OBVIOUS
<1>m. PICK m : m = req[n]
  OBVIOUS
<1>t. /\ TypeOK /\ EndsOK /\ wire \in [Conns -> [Nodes -> Seq(Frames)]]
      /\ wire' \in [Conns -> [Nodes -> Seq(Frames)]]
  BY DEF IInv, LinkInv, TypeOK
<1>1. UNCHANGED <<got, lastIn, rd, cur>> /\ Writing(n)
  BY <1>t, WritesFrame DEF eventVars
<1>2. /\ c \in Conns /\ o \in Nodes \ {n} /\ Claimed(c, n)
      /\ m \in Msgs /\ Owner[m] = n /\ o = Dest[m]
  BY <1>c, <1>o, <1>m, <1>1, WriterEnd
<1>3. CASE UNCHANGED wire
  <2>1. \A d \in Conns, p \in Nodes : PlainMove(d, p)
    BY <1>3 DEF PlainMove, Kept
  <2>2. QED  BY <2>1, <1>1, <1>t, PlainShift, StillPlace
<1>4. ASSUME NEW f \in Frames, wire' = [wire EXCEPT ![c][o] = Append(@, f)]
      PROVE  /\ \A d \in Conns, p \in Nodes : d # c \/ p # o => wire'[d][p] = wire[d][p]
             /\ Len(wire[c][o]) \in Nat /\ DOMAIN wire[c][o] = 1 .. Len(wire[c][o])
             /\ DOMAIN wire'[c][o] = 1 .. Len(wire[c][o]) + 1
             /\ Len(wire'[c][o]) = Len(wire[c][o]) + 1
             /\ \A k \in 1 .. Len(wire[c][o]) : wire'[c][o][k] = wire[c][o][k]
             /\ wire'[c][o][Len(wire[c][o]) + 1] = f
  BY <1>4, <1>2, <1>t, AppendFacts
<1>5. CASE SndChunks(n) /\ wire' = [wire EXCEPT ![c][o] = Append(@, Chunks)]
  <2>1. Chunks \in Frames /\ ~Carrier(Chunks) /\ Chunks.kind # "receipt"
    BY FrameMembers DEF Chunks, Carrier
  <2>2. /\ \A d \in Conns, p \in Nodes : d # c \/ p # o => wire'[d][p] = wire[d][p]
        /\ Len(wire[c][o]) \in Nat /\ DOMAIN wire[c][o] = 1 .. Len(wire[c][o])
        /\ DOMAIN wire'[c][o] = 1 .. Len(wire[c][o]) + 1
        /\ Len(wire'[c][o]) = Len(wire[c][o]) + 1
        /\ \A k \in 1 .. Len(wire[c][o]) : wire'[c][o][k] = wire[c][o][k]
        /\ wire'[c][o][Len(wire[c][o]) + 1] = Chunks
    BY <1>5, <2>1, <1>4
  <2>3. ASSUME NEW d \in Conns, NEW p \in Nodes
        PROVE  /\ Shift(d, p) = 0
               /\ \A k \in DOMAIN wire'[d][p] :
                    wire'[d][p][k] = Chunks \/ (k + 0 \in DOMAIN wire[d][p] /\ wire'[d][p][k] = wire[d][p][k + 0])
    <3>1. CASE d = c /\ p = o
      <4>1. Shift(c, o) = 0
        BY <2>2 DEF Shift
      <4>2. \A k \in DOMAIN wire'[c][o] :
              wire'[c][o][k] = Chunks \/ (k + 0 \in DOMAIN wire[c][o] /\ wire'[c][o][k] = wire[c][o][k + 0])
        BY <2>2
      <4>3. QED  BY <3>1, <4>1, <4>2
    <3>2. CASE ~(d = c /\ p = o)
      <4>1. wire'[d][p] = wire[d][p] /\ Len(wire[d][p]) \in Nat /\ DOMAIN wire[d][p] = 1 .. Len(wire[d][p])
        BY <2>2, <3>2, <1>t
      <4>2. Shift(d, p) = 0
        BY <4>1 DEF Shift
      <4>3. QED  BY <4>1, <4>2
    <3>3. QED  BY <3>1, <3>2
  <2>4. \A d \in Conns, p \in Nodes : Shifted(d, p)
    BY <2>1, <2>3 DEF Shifted
  <2>5. \A d \in Conns, p \in Nodes : \A k \in DOMAIN wire'[d][p] :
           wire'[d][p][k].kind = "receipt" =>
             \E l \in DOMAIN wire[d][p] : wire'[d][p][k] = wire[d][p][l]
    BY <2>1, <2>3
  <2>6. QED  BY <2>4, <2>5, <1>1, <1>t, StillPlace
<1>6. CASE SndWrite(n) /\ wire' = [wire EXCEPT ![c][o] = Append(@, Envelope(m))]
  <2>1. Envelope(m) \in Frames /\ Carrier(Envelope(m)) /\ Envelope(m).id = MsgId(m) /\ MsgId(m) \in Ids
    BY <1>2, MsgIds
  <2>2. /\ \A d \in Conns, p \in Nodes : d # c \/ p # o => wire'[d][p] = wire[d][p]
        /\ Len(wire[c][o]) \in Nat /\ DOMAIN wire[c][o] = 1 .. Len(wire[c][o])
        /\ DOMAIN wire'[c][o] = 1 .. Len(wire[c][o]) + 1
        /\ \A k \in 1 .. Len(wire[c][o]) : wire'[c][o][k] = wire[c][o][k]
        /\ wire'[c][o][Len(wire[c][o]) + 1] = Envelope(m)
    BY <1>6, <2>1, <1>4
  <2>3. ~Out(m)
    <3>1. Worked(m) /\ pc[Owner[m]]["snd"] = "write"
      BY <1>m, <1>6, <1>2 DEF SndWrite, Worked, Working
    <3>2. QED  BY <3>1, <1>2 DEF StageInv, UnsentOK, Unsent
  <2>4. \A d \in Conns, p \in Nodes : \A k \in DOMAIN wire'[d][p] :
          \/ d = c /\ p = o /\ k = Len(wire[c][o]) + 1 /\ wire'[d][p][k] = Envelope(m)
          \/ k \in DOMAIN wire[d][p] /\ wire'[d][p][k] = wire[d][p][k]
    <3>1. \A k \in DOMAIN wire'[c][o] :
            \/ k = Len(wire[c][o]) + 1 /\ wire'[c][o][k] = Envelope(m)
            \/ k \in DOMAIN wire[c][o] /\ wire'[c][o][k] = wire[c][o][k]
      <4> DEFINE w == wire[c][o]
                 v == wire'[c][o]
      <4>1. /\ Len(w) \in Nat /\ DOMAIN w = 1 .. Len(w) /\ DOMAIN v = 1 .. Len(w) + 1
            /\ \A k \in 1 .. Len(w) : v[k] = w[k]
            /\ v[Len(w) + 1] = Envelope(m)
        BY <2>2
      <4> HIDE DEF v, w
      <4>2. \A k \in DOMAIN v : (k = Len(w) + 1 /\ v[k] = Envelope(m)) \/ (k \in DOMAIN w /\ v[k] = w[k])
        BY <4>1
      <4>3. QED  BY <4>2 DEF v, w
    <3>2. \A d \in Conns, p \in Nodes : d # c \/ p # o => wire'[d][p] = wire[d][p]
      BY <2>2
    <3>3. QED  BY <3>1, <3>2
  <2>5. ASSUME NEW i, NEW d \in Conns, NEW p \in Nodes, NEW k \in DOMAIN wire'[d][p],
               Carries(d, p, k, i)'
        PROVE  \/ d = c /\ p = o /\ k = Len(wire[c][o]) + 1 /\ i = MsgId(m)
               \/ k \in DOMAIN wire[d][p] /\ Carries(d, p, k, i)
    BY <2>5, <2>4, <2>1 DEF Carries, Carrier
  <2>6. \A i : Surfaced(i)' <=> Surfaced(i)
    BY <1>1 DEF Surfaced
  <2>7. \A i : \A d \in Conns, p \in Nodes : InBody(i, d, p)' <=> InBody(i, d, p)
    BY <1>1 DEF InBody
  <2>8. /\ ~Surfaced(MsgId(m))
        /\ \A d \in Conns, p \in Nodes : ~InBody(MsgId(m), d, p)
        /\ \A d \in Conns, p \in Nodes : \A k \in DOMAIN wire[d][p] : ~Carries(d, p, k, MsgId(m))
    BY <2>3 DEF Out
  <2>9. OneFrame'
    BY <2>5, <2>8 DEF OneFrame, PlaceInv
  <2>10. OnePlace'
    <3> SUFFICES ASSUME NEW i \in Ids, NEW d \in Conns, NEW p \in Nodes
                 PROVE  /\ \A k \in DOMAIN wire'[d][p] : Carries(d, p, k, i)' =>
                             ~Surfaced(i)' /\ \A e \in Conns, q \in Nodes : ~InBody(i, e, q)'
                        /\ InBody(i, d, p)' =>
                             /\ ~Surfaced(i)'
                             /\ \A e \in Conns, q \in Nodes : InBody(i, e, q)' => d = e /\ p = q
      BY DEF OnePlace
    <3>1. ASSUME NEW k \in DOMAIN wire'[d][p], Carries(d, p, k, i)'
          PROVE  ~Surfaced(i)' /\ \A e \in Conns, q \in Nodes : ~InBody(i, e, q)'
      <4>1. ~Surfaced(i) /\ \A e \in Conns, q \in Nodes : ~InBody(i, e, q)
        BY <3>1, <2>5, <2>8 DEF PlaceInv, OnePlace
      <4>2. QED  BY <4>1, <2>6, <2>7
    <3>2. ASSUME InBody(i, d, p)'
          PROVE  /\ ~Surfaced(i)'
                 /\ \A e \in Conns, q \in Nodes : InBody(i, e, q)' => d = e /\ p = q
      BY <3>2, <2>6, <2>7 DEF PlaceInv, OnePlace
    <3>3. QED  BY <3>1, <3>2
  <2>11. Routed'
    <3>1. \A p \in Nodes : \A k \in DOMAIN got'[p] : \E j \in Msgs : got'[p][k] = MsgId(j) /\ Dest[j] = p
      BY <1>1 DEF PlaceInv, Routed
    <3>2. \A p \in Nodes, d \in Conns : rd'[d][p] = "body" =>
            \E j \in Files : cur'[d][p] = MsgId(j) /\ Dest[j] = p
      BY <1>1 DEF PlaceInv, Routed
    <3>3. \A p \in Nodes, d \in Conns : \A k \in DOMAIN wire'[d][p] : Carrier(wire'[d][p][k]) =>
            \E j \in Msgs : wire'[d][p][k] = Envelope(j) /\ Dest[j] = p
      BY <2>4, <1>2 DEF PlaceInv, Routed
    <3>4. QED  BY <3>1, <3>2, <3>3 DEF Routed, Carrier
  <2>12. ReceiptsTrue'
    <3>1. \A p, q \in Nodes : lastIn'[p][q] # NoMsg => Surfaced(lastIn[p][q])'
      BY <1>1 DEF PlaceInv, ReceiptsTrue, Surfaced
    <3>2. \A p \in Nodes, d \in Conns : rd'[d][p] = "ack" => Surfaced(cur[d][p])'
      BY <1>1 DEF PlaceInv, ReceiptsTrue, Surfaced
    <3>3. \A p \in Nodes, d \in Conns : \A k \in DOMAIN wire'[d][p] :
            wire'[d][p][k].kind = "receipt" => Surfaced(wire[d][p][k].id)'
      BY <2>4, <2>1, <1>1 DEF PlaceInv, ReceiptsTrue, Surfaced, Carrier
    <3>4. QED  BY <3>1, <3>2, <3>3 DEF ReceiptsTrue
  <2>13. SurfacedOnce'
    BY <1>1 DEF PlaceInv, SurfacedOnce
  <2>14. QED  BY <2>9, <2>10, <2>11, <2>12, <2>13 DEF PlaceInv
<1>7. CASE SndWrite(n)
  <2>1. SendErr \/ SendOK(c, n, Envelope(m))
    BY <1>c, <1>m, <1>7 DEF SndWrite
  <2>2. UNCHANGED wire \/ wire' = [wire EXCEPT ![c][o] = Append(@, Envelope(m))]
    BY <2>1, <1>o DEF SendOK, SendErr
  <2>3. QED  BY <2>2, <1>7, <1>3, <1>6
<1>8. CASE SndChunks(n)
  <2>1. SendErr \/ SendOK(c, n, Chunks)
    BY <1>c, <1>8 DEF SndChunks
  <2>2. UNCHANGED wire \/ wire' = [wire EXCEPT ![c][o] = Append(@, Chunks)]
    BY <2>1, <1>o DEF SendOK, SendErr
  <2>3. QED  BY <2>2, <1>8, <1>3, <1>5
<1>9. QED  BY <1>7, <1>8 DEF Writes


-----------------------------------------------------------------------------
(* Where a message is, and how much of it *)

\* A text or an offer on a wire is the envelope of its message.
LEMMA FrameOf ==
  ASSUME PlaceInv, NEW m \in Msgs, NEW c \in Conns, NEW n \in Nodes,
         NEW k \in DOMAIN wire[c][n], Carries(c, n, k, MsgId(m))
  PROVE  wire[c][n][k] = Envelope(m) /\ Dest[m] = n
<1>1. PICK j \in Msgs : wire[c][n][k] = Envelope(j) /\ Dest[j] = n
  BY DEF PlaceInv, Routed, Carries
<1>2. MsgId(j) = MsgId(m)
  BY <1>1, MsgIds DEF Carries
<1>3. QED  BY <1>1, <1>2, MsgIds

\* A message that does not move is nowhere it was not.
LEMMA StillOut ==
  ASSUME TypeOK, TypeOK', PlaceInv, UNCHANGED got, NEW m \in Msgs,
         \A c \in Conns, n \in Nodes : Shifted(c, n),
         \A c \in Conns, n \in Nodes : InBody(MsgId(m), c, n)' => InBody(MsgId(m), c, n)
  PROVE  Out(m)' => Out(m)
<1>1. PICK i : i = MsgId(m)
  OBVIOUS
<1>2. \A c \in Conns, n \in Nodes : \A k \in DOMAIN wire'[c][n] :
        Carries(c, n, k, i)' =>
          k + Shift(c, n) \in DOMAIN wire[c][n] /\ Carries(c, n, k + Shift(c, n), i)
  BY FramesStay DEF PlaceInv
<1>3. Surfaced(i)' <=> Surfaced(i)
  BY DEF Surfaced
<1>4. QED  BY <1>1, <1>2, <1>3 DEF Out, MsgId

\* A plain step brings no message anywhere and completes no file.
LEMMA PlainOut ==
  ASSUME TypeOK, TypeOK', FlowInv, PlaceInv, Plain, NEW m \in Msgs
  PROVE  (Out(m)' => Out(m)) /\ (m \in Files /\ Stub(m) => Stub(m)')
<1>1. \A c \in Conns, n \in Nodes : PlainMove(c, n) /\ Shifted(c, n)
  BY PlainShift DEF Plain
<1>2. /\ UNCHANGED got
      /\ \A c \in Conns, n \in Nodes : InBody(MsgId(m), c, n)' => InBody(MsgId(m), c, n)
  BY DEF Plain, InBody, MsgId
<1>3. Out(m)' => Out(m)
  BY <1>1, <1>2, StillOut
<1>4. ASSUME m \in Files, Stub(m) PROVE Stub(m)'
  <2>i. PICK i : i = MsgId(m) /\ i = MsgId(m)'
    BY DEF MsgId
  <2>1. ~Surfaced(i)'
    BY <1>2, <1>4, <2>i DEF Stub, Surfaced
  <2>c. \A f \in Frames : Loose(f) => f # Chunks
    BY DEF Loose, Chunks
  <2>2. ASSUME NEW c \in Conns, NEW n \in Nodes, InBody(i, c, n)'
        PROVE  wire'[c][n] = <<>> \/ Head(wire'[c][n]) # Chunks
    <3> DEFINE w == wire[c][n]
               v == wire'[c][n]
    <3>1. InBody(i, c, n) /\ (w = <<>> \/ Head(w) # Chunks)
      BY <1>2, <1>4, <2>2, <2>i DEF Stub, InBody
    <3>2. CASE Kept(c, n)
      BY <3>1, <3>2 DEF Kept
    <3>3. ASSUME NEW f \in Frames, Pushed(c, n, f), Loose(f) PROVE Head(v) # Chunks
      <4>1. v = Append(w, f) /\ w \in Seq(Frames)
        BY <3>3 DEF Pushed, TypeOK
      <4>2. /\ w = <<>> => Head(v) = f
            /\ w # <<>> => Head(v) = Head(w)
        BY <4>1, AppendFacts
      <4>3. QED  BY <4>2, <3>1, <3>3, <2>c
    <3>4. rd'[c][n] = "body"
      BY <2>2 DEF InBody
    <3>5. QED  BY <1>1, <3>2, <3>3, <3>4 DEF PlainMove
  <2>3. ASSUME NEW c \in Conns, NEW n \in Nodes, NEW k \in DOMAIN wire'[c][n], Carries(c, n, k, i)'
        PROVE  k = Len(wire'[c][n]) \/ wire'[c][n][k + 1] # Chunks
    <3> DEFINE w == wire[c][n]
               v == wire'[c][n]
               j == k + Shift(c, n)
    <3>1. j \in DOMAIN w /\ Carries(c, n, j, i)
      BY <1>1, <2>3, FramesStay DEF PlaceInv
    <3>s. \A l \in DOMAIN wire[c][n] :
            Carries(c, n, l, i) => l = Len(wire[c][n]) \/ wire[c][n][l + 1] # Chunks
      BY <1>4, <2>i DEF Stub
    <3>2. j = Len(w) \/ w[j + 1] # Chunks
      <4> HIDE DEF j
      <4>1. QED  BY <3>1, <3>s
    <3>v. w \in Seq(Frames) /\ v \in Seq(Frames)
      BY DEF TypeOK
    <3>t. w \in Seq(Frames) /\ v \in Seq(Frames) /\ k \in 1 .. Len(v)
      BY <3>v, <2>3
    <3>3. CASE Kept(c, n)
      <4>1. v = w
        BY <3>3 DEF Kept
      <4>2. Shift(c, n) = 0
        BY <4>1, <3>t DEF Shift
      <4>3. QED  BY <4>1, <4>2, <3>2, <3>t
    <3>4. CASE Popped(c, n)
      <4>1. v = Tail(w) /\ w # <<>>
        BY <3>4 DEF Popped
      <4>2. /\ Len(w) \in Nat \ {0} /\ Len(v) = Len(w) - 1
            /\ \A l \in 1 .. Len(v) : v[l] = w[l + 1]
        BY <4>1, <3>t, TailFacts
      <4>3. Shift(c, n) = 1 /\ k \in Nat
        BY <4>2, <3>t DEF Shift
      <4>4. k # Len(v) => k + 1 \in 1 .. Len(v)
        BY <4>2, <3>t
      <4>5. QED  BY <4>2, <4>3, <4>4, <3>2
    <3>5. ASSUME NEW f \in Frames, Pushed(c, n, f), Loose(f) PROVE v[k + 1] # Chunks
      <4>1. v = Append(w, f)
        BY <3>5 DEF Pushed
      <4>2. /\ Len(w) \in Nat /\ Len(v) = Len(w) + 1
            /\ \A l \in 1 .. Len(w) : v[l] = w[l]
            /\ v[Len(w) + 1] = f
        BY <4>1, <3>t, AppendFacts
      <4>3. Shift(c, n) = 0
        BY <4>2, <3>t DEF Shift
      <4>4. k \in 1 .. Len(w)
        BY <4>3, <3>1, <3>t
      <4>5. k # Len(w) => k + 1 \in 1 .. Len(w)
        BY <4>2, <4>4
      <4>6. k = Len(w) \/ w[k + 1] # Chunks
        BY <4>3, <4>4, <3>2
      <4>7. f # Chunks
        BY <3>5, <2>c
      <4>8. QED  BY <4>2, <4>5, <4>6, <4>7
    <3>6. QED  BY <1>1, <3>3, <3>4, <3>5 DEF PlainMove
  <2>4. QED  BY <2>1, <2>2, <2>3, <2>i DEF Stub
<1>5. QED  BY <1>3, <1>4

\* A frame of kind "chunks" is Chunks.
LEMMA ChunksFrame ==
  ASSUME NEW f \in Frames, f.kind = "chunks"
  PROVE  f = Chunks
<1>1. f \in [kind : {"bundle", "handshake", "typing", "chunks"}]
  BY DEF Frames
<1>2. QED  BY <1>1 DEF Chunks

\* A reader that takes a message takes it from a wire or from its own hands, and a
\* file whose chunks have not been sent is not surfaced.
LEMMA ReadOut ==
  ASSUME TypeOK, TypeOK', FlowInv, PlaceInv, NEW m \in Msgs,
         NEW c \in Conns, NEW n \in Nodes, Reads(c, n)
  PROVE  (Out(m)' => Out(m)) /\ (m \in Files /\ Stub(m) => Stub(m)')
<1> DEFINE w == wire[c][n]
           v == wire'[c][n]
<1>i. PICK i : i = MsgId(m) /\ i = MsgId(m)'
  BY DEF MsgId
<1>t. /\ got \in [Nodes -> Seq(Ids)] /\ w \in Seq(Frames) /\ OneFrame
      /\ cur \in [Conns -> [Nodes -> Ids \cup {NoMsg}]]
  BY DEF TypeOK, PlaceInv
<1>1. /\ w # <<>> /\ wire' = [wire EXCEPT ![c][n] = Tail(@)]
      /\ \A d \in Conns, p \in Nodes :
           d # c \/ p # n => rd'[d][p] = rd[d][p] /\ cur'[d][p] = cur[d][p]
      /\ RdText(c, n) => rd'[c][n] = "ack" /\ cur'[c][n] = Head(w).id
      /\ RdOffer(c, n) => rd'[c][n] = "body" /\ cur'[c][n] = Head(w).id
      /\ RdFile(c, n) => rd'[c][n] = "ack" /\ cur'[c][n] = cur[c][n]
  BY ReadsFrame
<1>2. /\ Popped(c, n)
      /\ \A d \in Conns, p \in Nodes : Kept(d, p) \/ (d = c /\ p = n)
      /\ \A d \in Conns, p \in Nodes : Shifted(d, p)
      /\ Head(w) = w[1] /\ 1 \in DOMAIN w
  BY <1>1, <1>t, ReadMoves
<1>3. /\ Len(w) \in Nat \ {0} /\ Len(v) = Len(w) - 1 /\ v = Tail(w)
      /\ Head(w) \in Frames /\ DOMAIN w = 1 .. Len(w)
  BY <1>1, <1>2, <1>t, TailFacts DEF Popped
<1>4. \A d \in Conns, p \in Nodes : \A k \in DOMAIN wire'[d][p] :
        Carries(d, p, k, i)' =>
          k + Shift(d, p) \in DOMAIN wire[d][p] /\ Carries(d, p, k + Shift(d, p), i)
  BY <1>2, <1>t, FramesStay
<1>5. Carrier(Head(w)) /\ Head(w).id = i => Carries(c, n, 1, i)
  BY <1>2 DEF Carries
\* What is surfaced, or taken in hand, comes from here.
<1>6. Surfaced(i)' => \/ Surfaced(i)
                      \/ RdText(c, n) /\ Carries(c, n, 1, i)
                      \/ RdFile(c, n) /\ InBody(i, c, n)
  <2>1. CASE RdOffer(c, n)
    BY <2>1 DEF RdOffer, eventVars, Surfaced
  <2>2. ASSUME NEW j \in Ids, got' = [got EXCEPT ![n] = Append(@, j)]
        PROVE  Surfaced(i)' => Surfaced(i) \/ i = j
    <3> SUFFICES ASSUME NEW p \in Nodes, InSeq(i, got'[p]) PROVE InSeq(i, got[p]) \/ i = j
      BY DEF Surfaced
    <3>1. CASE p # n
      BY <3>1, <2>2, <1>t
    <3>2. CASE p = n
      <4>1. got'[n] = Append(got[n], j) /\ got[n] \in Seq(Ids)
        BY <2>2, <1>t
      <4>2. QED  BY <4>1, <3>2, InAppend
    <3>3. QED  BY <3>1, <3>2
  <2>3. CASE RdText(c, n)
    <3>1. Carrier(Head(w)) /\ got' = [got EXCEPT ![n] = Append(@, Head(w).id)]
      BY <2>3 DEF RdText, Receive, Surface, Carrier
    <3>2. Head(w).id \in Ids
      BY <3>1, <1>3, FrameFields DEF Carrier
    <3>3. QED  BY <3>1, <3>2, <2>2, <2>3, <1>5
  <2>4. CASE RdFile(c, n)
    <3>1. rd[c][n] = "body" /\ got' = [got EXCEPT ![n] = Append(@, cur[c][n])]
      BY <2>4 DEF RdFile, Surface
    <3>2. cur[c][n] \in Ids
      <4>1. \E j \in Files : cur[c][n] = MsgId(j)
        BY <3>1 DEF PlaceInv, Routed
      <4>2. QED  BY <4>1, MsgIds, RuntimeAssumption
    <3>3. QED  BY <3>1, <3>2, <2>2, <2>4 DEF InBody
  <2>5. QED  BY <2>1, <2>3, <2>4 DEF Reads
<1>7. ASSUME NEW d \in Conns, NEW p \in Nodes, InBody(i, d, p)'
      PROVE  \/ (d # c \/ p # n) /\ InBody(i, d, p)
             \/ d = c /\ p = n /\ Carries(c, n, 1, i)
  <2>1. CASE d # c \/ p # n
    BY <2>1, <1>1, <1>7 DEF InBody
  <2>2. CASE d = c /\ p = n
    <3>1. RdOffer(c, n)
      BY <2>2, <1>7, <1>1 DEF Reads, InBody
    <3>2. Carrier(Head(w)) /\ Head(w).id = i
      BY <3>1, <2>2, <1>7, <1>1 DEF RdOffer, Receive, InBody, Carrier
    <3>3. QED  BY <2>2, <3>2, <1>5
  <2>3. QED  BY <2>1, <2>2
<1>8. Out(m)' => Out(m)
  BY <1>i, <1>2, <1>4, <1>6, <1>7 DEF Out
<1>9. ASSUME m \in Files, Stub(m) PROVE Stub(m)'
  <2>0. /\ ~Surfaced(i)
        /\ \A d \in Conns, p \in Nodes :
             /\ InBody(i, d, p) => wire[d][p] = <<>> \/ Head(wire[d][p]) # Chunks
             /\ \A k \in DOMAIN wire[d][p] :
                  Carries(d, p, k, i) => k = Len(wire[d][p]) \/ wire[d][p][k + 1] # Chunks
    BY <1>9, <1>i DEF Stub
  <2>1. ~Surfaced(i)'
    <3>1. ~(RdText(c, n) /\ Carries(c, n, 1, i))
      <4>1. Carries(c, n, 1, i) => Head(w).kind = "offer"
        BY <1>2, <1>9, <1>i, FrameOf, MsgIds
      <4>2. QED  BY <4>1 DEF RdText, Receive
    <3>2. ~(RdFile(c, n) /\ InBody(i, c, n))
      <4>1. RdFile(c, n) => Head(w) = Chunks
        BY <1>3, ChunksFrame DEF RdFile, Receive
      <4>2. QED  BY <4>1, <2>0, <1>1
    <3>3. QED  BY <3>1, <3>2, <2>0, <1>6
  <2>2. ASSUME NEW d \in Conns, NEW p \in Nodes, InBody(i, d, p)'
        PROVE  wire'[d][p] = <<>> \/ Head(wire'[d][p]) # Chunks
    <3>1. CASE d # c \/ p # n
      BY <3>1, <2>0, <2>2, <1>2, <1>7 DEF Kept
    <3>2. CASE d = c /\ p = n
      <4>c. 1 \in DOMAIN wire[c][n] /\ Carries(c, n, 1, i)
        BY <3>2, <2>2, <1>2, <1>7
      <4>1. Len(w) = 1 \/ w[2] # Chunks
        <5>1. Len(w) = 1 \/ w[1 + 1] # Chunks
          BY <4>c, <2>0
        <5>2. QED  BY <5>1
      <4>v. v \in Seq(Frames)
        BY DEF TypeOK
      <4>2. v # <<>> => Head(v) = v[1] /\ Len(v) \in Nat \ {0}
        BY <4>v, TailFacts
      <4>p. \A k \in 1 .. Len(w) - 1 : v[k] = w[k + 1]
        BY <1>1, <1>3, <1>t, TailFacts
      <4>3. v # <<>> => Len(w) # 1 /\ v[1] = w[2]
        <5>1. v # <<>> => 1 \in 1 .. Len(w) - 1
          BY <4>2, <1>3
        <5>2. QED  BY <5>1, <4>p, <1>3
      <4>4. QED  BY <3>2, <4>1, <4>2, <4>3
    <3>3. QED  BY <3>1, <3>2
  <2>3. ASSUME NEW d \in Conns, NEW p \in Nodes, NEW k \in DOMAIN wire'[d][p], Carries(d, p, k, i)'
        PROVE  k = Len(wire'[d][p]) \/ wire'[d][p][k + 1] # Chunks
    <3> DEFINE j == k + Shift(d, p)
    <3>1. j = Len(wire[d][p]) \/ wire[d][p][j + 1] # Chunks
      BY <2>0, <2>3, <1>4
    <3>2. wire[d][p] \in Seq(Frames) /\ wire'[d][p] \in Seq(Frames)
      BY DEF TypeOK
    <3>3. k \in Nat /\ Len(wire[d][p]) \in Nat
      BY <3>2
    <3>4. CASE Kept(d, p)
      <4>1. wire'[d][p] = wire[d][p]
        BY <3>4 DEF Kept
      <4>2. Shift(d, p) = 0
        BY <4>1, <3>3 DEF Shift
      <4>3. QED  BY <4>1, <4>2, <3>1, <3>3
    <3>5. CASE d = c /\ p = n
      <4>1. Shift(c, n) = 1
        BY <1>3 DEF Shift
      <4>2. k # Len(v) => k + 1 \in 1 .. Len(v)
        BY <3>5, <3>2, <1>3
      <4>3. \A l \in 1 .. Len(v) : v[l] = w[l + 1]
        BY <1>1, <1>3, <1>t, TailFacts
      <4>4. QED  BY <4>1, <4>2, <4>3, <3>1, <3>3, <3>5, <1>3
    <3>6. QED  BY <1>2, <3>4, <3>5
  <2>4. QED  BY <2>1, <2>2, <2>3, <1>i DEF Stub
<1>10. QED  BY <1>8, <1>9

\* The worker writes its own request and nothing else, and completes the file
\* whose chunks it sends and no other.
LEMMA WriteOut ==
  ASSUME IInv, TypeOK', WriterInv, FlowInv, PlaceInv, StageInv,
         NEW n \in Nodes, Writes(n), NEW m \in Msgs
  PROVE  /\ Out(m)' => \/ Out(m)
                       \/ /\ n = Owner[m] /\ Worked(m) /\ pc[n]["snd"] = "write"
                          /\ pc'[n]["snd"] \in {"chunks", "sent"}
         /\ m \in Files /\ Stub(m) =>
              \/ Stub(m)'
              \/ /\ n = Owner[m] /\ Worked(m) /\ pc[n]["snd"] = "chunks"
                 /\ pc'[n]["snd"] = "sent"
<1>c. PICK c : c = conn[n]["snd"]
  OBVIOUS
<1>o. PICK o : o = Other(c, n)
  OBVIOUS
<1>r. PICK r : r = req[n]
  OBVIOUS
<1>i. PICK i : i = MsgId(m) /\ i = MsgId(m)'
  BY DEF MsgId
<1>t. /\ TypeOK /\ wire \in [Conns -> [Nodes -> Seq(Frames)]]
      /\ pc \in [Nodes -> [Procs -> PCs]] /\ "snd" \in Procs
  BY DEF IInv, TypeOK, Procs, Diallers
<1>1. UNCHANGED <<got, rd, cur>> /\ Writing(n)
  BY <1>t, WritesFrame DEF eventVars
<1>2. /\ c \in Conns /\ o \in Nodes \ {n} /\ Claimed(c, n) /\ Other(c, o) = n
      /\ r \in Msgs /\ Owner[r] = n /\ o \in {ini[c], rsp[c]} /\ Worked(r)
  BY <1>c, <1>o, <1>r, <1>1, WriterEnd DEF Writing, Working, Worked
<1>3. Surfaced(i)' <=> Surfaced(i)
  BY <1>1 DEF Surfaced
<1>4. \A d \in Conns, p \in Nodes : InBody(i, d, p)' <=> InBody(i, d, p)
  BY <1>1 DEF InBody
<1>5. CASE UNCHANGED wire
  <2>1. \A d \in Conns, p \in Nodes : \A k \in DOMAIN wire'[d][p] : Carries(d, p, k, i)' <=> Carries(d, p, k, i)
    BY <1>5 DEF Carries, Carrier
  <2>2. Out(m)' => Out(m)
    BY <2>1, <1>i, <1>3, <1>4, <1>5 DEF Out
  <2>3. Stub(m) => Stub(m)'
    BY <2>1, <1>i, <1>3, <1>4, <1>5 DEF Stub
  <2>4. QED  BY <2>2, <2>3
\* One frame f is appended to the wire to the other end.
<1>6. ASSUME NEW f \in Frames, wire' = [wire EXCEPT ![c][o] = Append(@, f)]
      PROVE  /\ \A d \in Conns, p \in Nodes : d # c \/ p # o => wire'[d][p] = wire[d][p]
             /\ \A d \in Conns, p \in Nodes : \A k \in DOMAIN wire'[d][p] : Carries(d, p, k, i)' =>
                  \/ k \in DOMAIN wire[d][p] /\ Carries(d, p, k, i)
                  \/ d = c /\ p = o /\ k = Len(wire'[c][o]) /\ Carrier(f) /\ f.id = i
  <2> DEFINE w == wire[c][o]
             v == wire'[c][o]
  <2>1. v = Append(w, f) /\ w \in Seq(Frames)
    BY <1>2, <1>6, <1>t
  <2>2. /\ Len(w) \in Nat /\ DOMAIN w = 1 .. Len(w) /\ DOMAIN v = 1 .. Len(w) + 1
        /\ Len(v) = Len(w) + 1
        /\ \A k \in 1 .. Len(w) : v[k] = w[k]
        /\ v[Len(w) + 1] = f
    BY <2>1, AppendFacts
  <2>3. \A d \in Conns, p \in Nodes : d # c \/ p # o => wire'[d][p] = wire[d][p]
    BY <1>2, <1>6, <1>t
  <2> HIDE DEF v, w
  <2>4. \A k \in DOMAIN v : (k = Len(v) /\ v[k] = f) \/ (k \in DOMAIN w /\ v[k] = w[k])
    BY <2>2
  <2>5. ASSUME NEW d \in Conns, NEW p \in Nodes, NEW k \in DOMAIN wire'[d][p], Carries(d, p, k, i)'
        PROVE  \/ k \in DOMAIN wire[d][p] /\ Carries(d, p, k, i)
               \/ d = c /\ p = o /\ k = Len(wire'[c][o]) /\ Carrier(f) /\ f.id = i
    <3>1. CASE d = c /\ p = o
      BY <3>1, <2>4, <2>5 DEF Carries, Carrier, v, w
    <3>2. CASE d # c \/ p # o
      BY <3>2, <2>3, <2>5 DEF Carries, Carrier
    <3>3. QED  BY <3>1, <3>2
  <2>6. QED  BY <2>3, <2>5
\* If that frame is not the chunks, or neither an offer of m that is the last frame
\* nor a reader that waits for m's chunks is at this wire, m does not grow.
<1>7. ASSUME NEW f \in Frames, wire' = [wire EXCEPT ![c][o] = Append(@, f)], Stub(m),
             \/ f # Chunks
             \/ /\ ~(InBody(i, c, o) /\ wire[c][o] = <<>>)
                /\ \A k \in DOMAIN wire[c][o] : Carries(c, o, k, i) => k # Len(wire[c][o])
      PROVE  Stub(m)'
  <2> DEFINE w == wire[c][o]
             v == wire'[c][o]
  <2>1. /\ ~Surfaced(i)
        /\ \A d \in Conns, p \in Nodes :
             /\ InBody(i, d, p) => wire[d][p] = <<>> \/ Head(wire[d][p]) # Chunks
             /\ \A k \in DOMAIN wire[d][p] :
                  Carries(d, p, k, i) => k = Len(wire[d][p]) \/ wire[d][p][k + 1] # Chunks
    BY <1>7, <1>i DEF Stub
  <2>v. /\ v = Append(w, f) /\ w \in Seq(Frames)
        /\ \A e \in Conns, q \in Nodes : e # c \/ q # o => wire'[e][q] = wire[e][q]
    BY <1>2, <1>6, <1>7, <1>t
  <2>w. /\ Len(w) \in Nat /\ DOMAIN w = 1 .. Len(w) /\ Len(v) = Len(w) + 1
        /\ \A k \in 1 .. Len(w) : v[k] = w[k]
        /\ v[Len(w) + 1] = f
        /\ w = <<>> => Head(v) = f
        /\ w # <<>> => Head(v) = Head(w)
    BY <2>v, AppendFacts
  <2>2. ASSUME NEW d \in Conns, NEW p \in Nodes, InBody(i, d, p)'
        PROVE  wire'[d][p] = <<>> \/ Head(wire'[d][p]) # Chunks
    <3>1. InBody(i, d, p) /\ (wire[d][p] = <<>> \/ Head(wire[d][p]) # Chunks)
      BY <2>1, <2>2, <1>4
    <3>2. CASE d = c /\ p = o
      BY <3>1, <3>2, <2>w, <1>7
    <3>3. CASE d # c \/ p # o
      BY <3>1, <3>3, <2>v
    <3>4. QED  BY <3>2, <3>3
  <2>3. ASSUME NEW d \in Conns, NEW p \in Nodes, NEW k \in DOMAIN wire'[d][p], Carries(d, p, k, i)'
        PROVE  k = Len(wire'[d][p]) \/ wire'[d][p][k + 1] # Chunks
    <3>1. \/ k \in DOMAIN wire[d][p] /\ Carries(d, p, k, i)
          \/ d = c /\ p = o /\ k = Len(wire'[c][o])
      BY <2>3, <1>6, <1>7
    <3>2. CASE d = c /\ p = o /\ k \in DOMAIN w /\ Carries(c, o, k, i)
      <4>1. k = Len(w) \/ w[k + 1] # Chunks
        BY <3>2, <2>1
      <4>2. k # Len(w) => k + 1 \in 1 .. Len(w)
        BY <3>2, <2>w
      <4>3. QED  BY <4>1, <4>2, <3>2, <2>w, <1>7
    <3>3. CASE d # c \/ p # o
      BY <3>1, <3>3, <2>1, <2>v
    <3>4. QED  BY <3>1, <3>2, <3>3
  <2>4. QED  BY <2>1, <2>2, <2>3, <1>3, <1>i DEF Stub
<1>8. CASE SndWrite(n) /\ wire' # wire
  <2>1. /\ pc[n]["snd"] = "write" /\ ~Between(c, o)
        /\ SendOK(c, n, Envelope(r)) /\ pc'[n]["snd"] \in {"chunks", "sent"}
    BY <1>8, <1>c, <1>r, <1>t, <1>2 DEF SndWrite, SendErr, Goto, Between, SendMuHeld
  <2>2. wire' = [wire EXCEPT ![c][o] = Append(@, Envelope(r))] /\ ~Dead(c, o)
    BY <2>1, <1>8, <1>o, <1>2 DEF SendOK, Dead
  <2>3. Envelope(r) \in Frames /\ Envelope(r).id = MsgId(r) /\ Envelope(r) # Chunks
    BY <1>2, MsgIds DEF Envelope, Chunks
  <2>4. m # r => Envelope(r).id # i
    BY <2>3, <1>2, <1>i, MsgIds
  <2>5. CASE m = r
    <3>1. ~Out(m)
      <4>1. Unsent(m)
        BY <2>1, <2>5, <1>2 DEF Unsent
      <4>2. QED  BY <4>1 DEF StageInv, UnsentOK
    <3>2. /\ ~Surfaced(i)
          /\ \A d \in Conns, p \in Nodes :
               ~InBody(i, d, p) /\ \A k \in DOMAIN wire[d][p] : ~Carries(d, p, k, i)
      BY <3>1, <1>i DEF Out
    <3>3. Stub(m)
      BY <3>2, <1>i DEF Stub
    <3>4. Stub(m)'
      BY <3>3, <2>2, <2>3, <1>7
    <3>5. QED  BY <3>4, <2>1, <2>5, <1>2
  <2>6. CASE m # r
    <3>1. Out(m)' => Out(m)
      <4>1. \A d \in Conns, p \in Nodes : \A k \in DOMAIN wire'[d][p] : Carries(d, p, k, i)' =>
              k \in DOMAIN wire[d][p] /\ Carries(d, p, k, i)
        BY <2>2, <2>3, <2>4, <2>6, <1>6
      <4>2. QED  BY <4>1, <1>i, <1>3, <1>4 DEF Out
    <3>2. ASSUME m \in Files, Stub(m) PROVE Stub(m)'
      BY <3>2, <2>2, <2>3, <1>7
    <3>3. QED  BY <3>1, <3>2
  <2>7. QED  BY <2>5, <2>6
<1>9. CASE SndChunks(n) /\ wire' # wire
  <2>1. /\ pc[n]["snd"] = "chunks" /\ Between(c, o)
        /\ SendOK(c, n, Chunks) /\ pc'[n]["snd"] = "sent"
    BY <1>9, <1>c, <1>t, <1>2 DEF SndChunks, SendErr, Goto, Between, SendMuHeld
  <2>2. wire' = [wire EXCEPT ![c][o] = Append(@, Chunks)] /\ ~Dead(c, o)
    BY <2>1, <1>9, <1>o, <1>2 DEF SendOK, Dead
  <2>3. Chunks \in Frames /\ ~Carrier(Chunks)
    BY FrameMembers DEF Chunks, Carrier
  <2>4. Out(m)' => Out(m)
    <3>1. \A d \in Conns, p \in Nodes : \A k \in DOMAIN wire'[d][p] : Carries(d, p, k, i)' =>
            k \in DOMAIN wire[d][p] /\ Carries(d, p, k, i)
      BY <2>2, <2>3, <1>6
    <3>2. QED  BY <3>1, <1>i, <1>3, <1>4 DEF Out
  <2>5. CASE m = r
    BY <2>1, <2>4, <2>5, <1>2
  <2>6. ASSUME m # r, m \in Files, Stub(m) PROVE Stub(m)'
    <3>1. \/ wire[c][o] # <<>> /\ wire[c][o][Len(wire[c][o])] = Envelope(r)
          \/ wire[c][o] = <<>> /\ InBody(MsgId(r), c, o)
      BY <2>1, <2>2, <1>2, <1>r DEF FlowInv, BetweenRun
    <3>2. MsgId(r) # i /\ Envelope(r).id # i
      BY <2>6, <1>2, <1>i, MsgIds
    <3>3. ~(InBody(i, c, o) /\ wire[c][o] = <<>>)
      BY <3>1, <3>2 DEF InBody
    <3>4. \A k \in DOMAIN wire[c][o] : Carries(c, o, k, i) => k # Len(wire[c][o])
      <4>1. wire[c][o] = <<>> => DOMAIN wire[c][o] = {}
        OBVIOUS
      <4>2. QED  BY <3>1, <3>2, <4>1 DEF Carries
    <3>5. QED  BY <3>3, <3>4, <2>2, <2>3, <2>6, <1>7
  <2>7. QED  BY <2>4, <2>5, <2>6
<1>10. QED  BY <1>5, <1>8, <1>9 DEF Writes

-----------------------------------------------------------------------------
(* How far the sender is with a message *)

\* Program points of a worker that has not written its request.
Early == {"find", "backoff", "answer", "open", "bundle", "adopt", "announce", "write"}
\* A step in which no sender gets further.
Quiet ==
  /\ UNCHANGED <<phase, outbox, req>>
  /\ \A m \in Msgs : \A v \in {"sent", "sendFailed"} : InSeq(v, said'[m]) <=> InSeq(v, said[m])
  /\ \A n \in Nodes :
       \/ pc'[n]["snd"] = pc[n]["snd"]
       \/ pc'[n]["snd"] \in Early /\ pc[n]["snd"] \in Early
\* The steps in which one does.
Sends ==
  \/ \E m \in Msgs : SendCall(m) \/ SendReturn(m)
  \/ \E n \in Nodes : SndStep(n)

\* An event about a message is added to those about it; the others stay.
LEMMA SayAdds ==
  ASSUME TypeOK, NEW m \in Msgs, NEW e \in {"sent", "sendFailed", "DELIVERED", "READ"}, Say(m, e)
  PROVE  \A k \in Msgs : \A v : InSeq(v, said'[k]) <=> InSeq(v, said[k]) \/ (k = m /\ v = e)
<1>1. said \in [Msgs -> Seq({"sent", "sendFailed", "DELIVERED", "READ"})]
  BY DEF TypeOK
<1>2. said' = [said EXCEPT ![m] = Append(@, e)]
  BY DEF Say
<1>3. \A v : InSeq(v, said'[m]) <=> InSeq(v, said[m]) \/ v = e
  BY <1>1, <1>2, InAppend
<1>4. \A k \in Msgs \ {m} : said'[k] = said[k]
  BY <1>1, <1>2
<1>5. QED  BY <1>3, <1>4

\* Receipts, connections, readers and accept loops leave the senders alone.
LEMMA QuietSteps ==
  ASSUME IInv, [Next]_vars PROVE Quiet \/ Sends
<1> DEFINE Goal == Quiet \/ Sends
<1> SUFFICES Goal
  OBVIOUS
<1>t. TypeOK /\ PointsOK /\ pc \in [Nodes -> [Procs -> PCs]]
  BY DEF IInv, BookInv, TypeOK
<1> USE <1>t DEF Quiet, Early, Goto, PointsOK, Procs, Diallers, apiVars, procVars, eventVars
<1>1. ASSUME NEW m \in Msgs, SendCall(m) PROVE Goal
  BY <1>1 DEF Sends
<1>2. ASSUME NEW m \in Msgs, SendReturn(m) PROVE Goal
  BY <1>2 DEF Sends
<1>3. ASSUME NEW n \in Nodes, NEW p \in Nodes, MarkRead(n, p) PROVE Goal
  BY <1>3 DEF MarkRead
<1>4. ASSUME NEW n \in Nodes, NEW p \in Nodes, SendTyping(n, p) PROVE Goal
  BY <1>4 DEF SendTyping
<1>5. ASSUME NEW n \in Nodes, NEW p \in Nodes, Diagnose(n, p) PROVE Goal
  BY <1>5 DEF Diagnose
<1>6. ASSUME NEW n \in Nodes, NEW x \in Diallers, DialOffer(n, x) PROVE Goal
  BY <1>6 DEF DialOffer
<1>7. ASSUME NEW n \in Nodes, NEW x \in Diallers, DialAnswer(n, x) PROVE Goal
  BY <1>7 DEF DialAnswer
<1>8. ASSUME NEW n \in Nodes, NEW x \in Diallers, DialOpen(n, x) PROVE Goal
  BY <1>8 DEF DialOpen
<1>9. ASSUME NEW n \in Nodes, NEW x \in Diallers, DialHandshake(n, x) PROVE Goal
  BY <1>9 DEF DialHandshake
<1>10. ASSUME NEW n \in Nodes, NEW x \in Diallers, DialNotFound(n, x) PROVE Goal
  BY <1>10 DEF DialNotFound, AfterFailure
<1>11. ASSUME NEW n \in Nodes, NEW x \in Diallers, DialFail(n, x) PROVE Goal
  BY <1>11 DEF DialFail, AfterFailure
<1>12. ASSUME NEW n \in Nodes, NEW x \in Procs, Adopt(n, x) PROVE Goal
  BY <1>12 DEF Adopt
<1>13. ASSUME NEW n \in Nodes, NEW x \in Procs, Announce(n, x) PROVE Goal
  <2>1. PICK l \in {"write", "exit", "head"} : pc' = [pc EXCEPT ![n][x] = l] /\ (x = "snd" => l = "write")
    BY <1>13 DEF Announce
  <2>2. pc[n][x] = "announce"
    BY <1>13 DEF Announce
  <2>3. QED  BY <2>1, <2>2, <1>13 DEF Announce
<1>14. ASSUME NEW n \in Nodes, SndTake(n) PROVE Goal
  BY <1>14 DEF Sends, SndStep
<1>15. ASSUME NEW n \in Nodes, SndBadURI(n) PROVE Goal
  BY <1>15 DEF Sends, SndStep
<1>16. ASSUME NEW n \in Nodes, SndClosed(n) PROVE Goal
  BY <1>16 DEF Sends, SndStep
<1>17. ASSUME NEW n \in Nodes, SndBackoff(n) PROVE Goal
  BY <1>17 DEF Sends, SndStep
<1>18. ASSUME NEW n \in Nodes, SndWrite(n) PROVE Goal
  BY <1>18 DEF Sends, SndStep
<1>19. ASSUME NEW n \in Nodes, SndNoFile(n) PROVE Goal
  BY <1>19 DEF Sends, SndStep
<1>20. ASSUME NEW n \in Nodes, SndChunks(n) PROVE Goal
  BY <1>20 DEF Sends, SndStep
<1>21. ASSUME NEW n \in Nodes, SndSent(n) PROVE Goal
  BY <1>21 DEF Sends, SndStep
<1>22. ASSUME NEW n \in Nodes, SndDrop(n) PROVE Goal
  BY <1>22 DEF Sends, SndStep
<1>23. ASSUME NEW n \in Nodes, LstHead(n) PROVE Goal
  BY <1>23 DEF LstHead
<1>24. ASSUME NEW n \in Nodes, LstOffer(n) PROVE Goal
  BY <1>24 DEF LstOffer
<1>25. ASSUME NEW n \in Nodes, LstStopped(n) PROVE Goal
  BY <1>25 DEF LstStopped
<1>26. ASSUME NEW n \in Nodes, LstOpen(n) PROVE Goal
  BY <1>26 DEF LstOpen
<1>27. ASSUME NEW n \in Nodes, LstHandshake(n) PROVE Goal
  BY <1>27 DEF LstHandshake
<1>28. ASSUME NEW n \in Nodes, LstFail(n) PROVE Goal
  BY <1>28 DEF LstFail
<1>29. ASSUME NEW n \in Nodes, StopSwap(n) PROVE Goal
  BY <1>29 DEF StopSwap
<1>30. ASSUME NEW n \in Nodes, StopFinish(n) PROVE Goal
  BY <1>30 DEF StopFinish
<1>31. ASSUME NEW c \in Conns, NEW n \in Nodes, RdText(c, n) PROVE Goal
  BY <1>31 DEF RdText
<1>32. ASSUME NEW c \in Conns, NEW n \in Nodes, RdOffer(c, n) PROVE Goal
  BY <1>32 DEF RdOffer
<1>33. ASSUME NEW c \in Conns, NEW n \in Nodes, RdReceipt(c, n) PROVE Goal
  <2> DEFINE f == Head(wire[c][n])
  <2>1. UNCHANGED <<phase, outbox, req, pc>>
    BY <1>33 DEF RdReceipt
  <2>2. CASE UNCHANGED said
    BY <2>1, <2>2
  <2>3. CASE f.id \in Msgs /\ Say(f.id, f.state)
    <3>1. wire[c][n] # <<>> /\ wire[c][n] \in Seq(Frames) /\ f.kind = "receipt"
      BY <1>33 DEF RdReceipt, Receive, TypeOK
    <3>2. f \in Frames
      BY <3>1, TailFacts
    <3>3. f.state \in {"DELIVERED", "READ"}
      BY <3>1, <3>2, FrameFields
    <3>4. \A m \in Msgs : \A v : InSeq(v, said'[m]) <=> InSeq(v, said[m]) \/ (m = f.id /\ v = f.state)
      BY <2>3, <3>3, SayAdds
    <3>5. QED  BY <2>1, <3>3, <3>4
  <2>4. QED  BY <1>33, <2>2, <2>3 DEF RdReceipt
<1>34. ASSUME NEW c \in Conns, NEW n \in Nodes, RdOther(c, n) PROVE Goal
  BY <1>34 DEF RdOther
<1>35. ASSUME NEW c \in Conns, NEW n \in Nodes, RdFile(c, n) PROVE Goal
  BY <1>35 DEF RdFile
<1>36. ASSUME NEW c \in Conns, NEW n \in Nodes, RdFileLost(c, n) PROVE Goal
  BY <1>36 DEF RdFileLost
<1>37. ASSUME NEW c \in Conns, NEW n \in Nodes, RdAck(c, n) PROVE Goal
  BY <1>37 DEF RdAck
<1>38. ASSUME NEW c \in Conns, NEW n \in Nodes, RdErr(c, n) PROVE Goal
  BY <1>38 DEF RdErr
<1>39. ASSUME NEW c \in Conns, NEW n \in Nodes, RdDrop(c, n) PROVE Goal
  BY <1>39 DEF RdDrop
<1>40. ASSUME NEW c \in Conns, NEW n \in Nodes, RdOffline(c, n) PROVE Goal
  BY <1>40 DEF RdOffline
<1>41. ASSUME NEW c \in Conns, NEW n \in Nodes, ConnDown(c, n) PROVE Goal
  BY <1>41 DEF ConnDown
<1>42. ASSUME NEW c \in Conns, NEW n \in Nodes, ConnFail(c, n) PROVE Goal
  BY <1>42 DEF ConnFail
<1>43. ASSUME UNCHANGED vars PROVE Goal
  BY <1>43 DEF vars
<1>44. QED
  <2> HIDE DEF Goal, Quiet, PointsOK, Procs, Diallers, Goto, apiVars, procVars, eventVars, Early
  <2>1. ASSUME NEW n \in Nodes, NEW x \in Diallers, DialStep(n, x) PROVE Goal
    BY <2>1, <1>6, <1>7, <1>8, <1>9, <1>10, <1>11 DEF DialStep
  <2>2. ASSUME NEW n \in Nodes, NEW x \in Procs, AdoptStep(n, x) PROVE Goal
    BY <2>2, <1>12, <1>13 DEF AdoptStep
  <2>3. ASSUME NEW n \in Nodes, SndStep(n) PROVE Goal
    BY <2>3, <1>14, <1>15, <1>16, <1>17, <1>18, <1>19, <1>20, <1>21, <1>22 DEF SndStep
  <2>4. ASSUME NEW n \in Nodes, LstStep(n) PROVE Goal
    BY <2>4, <1>23, <1>24, <1>25, <1>26, <1>27, <1>28 DEF LstStep
  <2>5. ASSUME NEW c \in Conns, NEW n \in Nodes, RdStep(c, n) PROVE Goal
    BY <2>5, <1>31, <1>32, <1>33, <1>34, <1>35, <1>36, <1>37, <1>38, <1>39, <1>40 DEF RdStep
  <2>6. QED
    BY <2>1, <2>2, <2>3, <2>4, <2>5, <1>1, <1>2, <1>3, <1>4, <1>5,
       <1>29, <1>30, <1>41, <1>42, <1>43 DEF Next

\* What StageInv says of one message, and of the outbox.
StageOf(m) ==
  /\ Queued(m) \/ Worked(m) \/ Answered(m) \/ Out(m) => phase[m] = "returned"
  /\ Queued(m) => ~Worked(m)
  /\ Queued(m) \/ Worked(m) => ~Answered(m)
  /\ Unsent(m) => ~Out(m)
  /\ m \in Files /\ Cut(m) => Stub(m)
QueuedOnce ==
  \A n \in Nodes : \A k, l \in DOMAIN outbox[n] : outbox[n][k] = outbox[n][l] => k = l

\* The stages of deliver, message by message.
LEMMA StageParts == StageInv <=> QueuedOnce /\ \A m \in Msgs : StageOf(m)
  BY RuntimeAssumption DEF StageInv, QueueOK, UnsentOK, CutOK, StageOf, QueuedOnce

\* A message that has not left is not complete.
LEMMA NotOutIsStub == \A m : ~Out(m) => Stub(m)
  BY DEF Out, Stub

\* What a step does to where a message is, as far as its sender can tell.
Moved(m) ==
  LET n == Owner[m] IN
  /\ Out(m)' => \/ Out(m)
                \/ /\ Worked(m) /\ pc[n]["snd"] = "write"
                   /\ pc'[n]["snd"] \in {"chunks", "sent"}
  /\ m \in Files /\ Stub(m) =>
       \/ Stub(m)'
       \/ Worked(m) /\ pc[n]["snd"] = "chunks" /\ pc'[n]["snd"] = "sent"

\* Only deliver's own writes move a message out: no other step does.
LEMMA StepMoved ==
  ASSUME IInv, TypeOK', MsgInv, [Next]_vars, NEW m \in Msgs PROVE Moved(m)
<1>1. TypeOK /\ WriterInv /\ FlowInv /\ PlaceInv /\ StageInv
  BY DEF IInv, MsgInv
<1>2. CASE Plain
  BY <1>1, <1>2, PlainOut DEF Moved
<1>3. ASSUME NEW n \in Nodes, Writes(n) PROVE Moved(m)
  BY <1>1, <1>3, WriteOut DEF Moved
<1>4. ASSUME NEW c \in Conns, NEW n \in Nodes, Reads(c, n) PROVE Moved(m)
  BY <1>1, <1>4, ReadOut DEF Moved
<1>5. QED  BY <1>1, <1>2, <1>3, <1>4, PlainSteps DEF Writes, Reads

\* A step in which the sender of a message gets no further with it: it may only
\* give it up without an event.
Same(m) ==
  LET n == Owner[m] IN
  /\ phase'[m] = phase[m]
  /\ Queued(m)' => Queued(m)
  /\ (Answered(m)' <=> Answered(m)) /\ (Failed(m)' <=> Failed(m))
  /\ Worked(m) => pc'[n]["snd"] = pc[n]["snd"] \/ pc'[n]["snd"] \notin {"chunks", "sent"}
  /\ Worked(m)' => /\ Worked(m)
                   /\ \/ pc'[n]["snd"] = pc[n]["snd"]
                      \/ pc'[n]["snd"] \in Early /\ pc[n]["snd"] \in Early

\* Such a step keeps the message's stage.
LEMMA SameStage ==
  ASSUME NEW m \in Msgs, StageOf(m), Moved(m), Same(m) PROVE StageOf(m)'
<1>1. Out(m)' => Out(m)
  BY DEF Moved, Same
<1>2. m \in Files /\ Stub(m) => Stub(m)'
  BY DEF Moved, Same
<1>3. Unsent(m)' => Unsent(m)
  BY DEF Unsent, Same, Early
<1>4. Cut(m)' => Cut(m)
  BY DEF Cut, Same, Early
<1>5. QED  BY <1>1, <1>2, <1>3, <1>4 DEF StageOf, Same

\* Requests enter the outbox once ...
LEMMA AppendOnce ==
  ASSUME NEW S, NEW s \in Seq(S), NEW e \in S, ~InSeq(e, s),
         \A k, l \in DOMAIN s : s[k] = s[l] => k = l
  PROVE  \A k, l \in DOMAIN Append(s, e) : Append(s, e)[k] = Append(s, e)[l] => k = l
<1> DEFINE v == Append(s, e)
<1>1. /\ Len(s) \in Nat /\ DOMAIN s = 1 .. Len(s) /\ DOMAIN v = 1 .. Len(s) + 1
      /\ \A k \in 1 .. Len(s) : v[k] = s[k] /\ v[k] # e
      /\ v[Len(s) + 1] = e
  BY AppendFacts DEF InSeq
<1> HIDE DEF v
<1>2. \A k, l \in DOMAIN v : v[k] = v[l] => k = l
  BY <1>1
<1>3. QED  BY <1>2 DEF v

\* ... and one that is taken is not there any more.
LEMMA TailOnce ==
  ASSUME NEW S, NEW s \in Seq(S), s # <<>>,
         \A k, l \in DOMAIN s : s[k] = s[l] => k = l
  PROVE  /\ \A k, l \in DOMAIN Tail(s) : Tail(s)[k] = Tail(s)[l] => k = l
         /\ ~InSeq(Head(s), Tail(s))
<1> DEFINE v == Tail(s)
<1>1. /\ Len(s) \in Nat \ {0} /\ DOMAIN s = 1 .. Len(s) /\ DOMAIN v = 1 .. Len(s) - 1
      /\ \A k \in 1 .. Len(s) - 1 : v[k] = s[k + 1] /\ k + 1 \in DOMAIN s
      /\ Head(s) = s[1] /\ 1 \in DOMAIN s
  BY TailFacts
<1> HIDE DEF v
<1>2. \A k, l \in DOMAIN v : v[k] = v[l] => k = l
  <2> TAKE k, l \in DOMAIN v
  <2>1. v[k] = v[l] => k + 1 = l + 1
    BY <1>1
  <2>2. QED  BY <2>1, <1>1
<1>3. \A k \in DOMAIN v : v[k] # Head(s)
  <2> TAKE k \in DOMAIN v
  <2>1. v[k] = s[1] => k + 1 = 1
    BY <1>1
  <2>2. QED  BY <2>1, <1>1
<1>4. QED  BY <1>2, <1>3 DEF v, InSeq

\* The worker reports on its request and is done with it.
LEMMA ReportStage ==
  ASSUME TypeOK, NEW n \in Nodes, NEW e \in {"sent", "sendFailed"}, NEW r \in Msgs, r = req[n],
         Owner[r] = n, Working(n), Report(n, e), UNCHANGED <<phase, outbox>>,
         QueuedOnce, \A m \in Msgs : StageOf(m) /\ Moved(m),
         e = "sendFailed" => IF r \in Files THEN Stub(r)' ELSE ~Out(r)'
  PROVE  QueuedOnce' /\ \A m \in Msgs : StageOf(m)'
<1>t. /\ pc \in [Nodes -> [Procs -> PCs]] /\ req \in [Nodes -> Msgs \cup {NoMsg}] /\ "snd" \in Procs
      /\ Owner \in [Msgs -> Nodes]
  BY RuntimeAssumption DEF TypeOK, Procs, Diallers
<1>1. \A m \in Msgs : \A v : InSeq(v, said'[m]) <=> InSeq(v, said[m]) \/ (m = r /\ v = e)
  BY SayAdds DEF Report
<1>2. /\ pc'[n]["snd"] = "idle"
      /\ \A p \in Nodes \ {n} : pc'[p]["snd"] = pc[p]["snd"] /\ req'[p] = req[p]
  BY <1>t DEF Report, Goto
<1>3. QueuedOnce'
  BY DEF QueuedOnce
<1>4. ASSUME NEW m \in Msgs, m # r PROVE StageOf(m)'
  <2>1. Worked(m)' => Worked(m) /\ pc'[Owner[m]]["snd"] = pc[Owner[m]]["snd"]
    BY <1>2, <1>4, <1>t DEF Worked, Working
  <2>2. Worked(m) => pc'[Owner[m]]["snd"] = pc[Owner[m]]["snd"]
    BY <1>2, <1>4, <1>t DEF Worked
  <2>3. (Answered(m)' <=> Answered(m)) /\ (Failed(m)' <=> Failed(m))
    BY <1>1, <1>4 DEF Answered, Failed
  <2>4. Same(m)
    BY <2>1, <2>2, <2>3 DEF Same, Queued
  <2>5. QED  BY <2>4, SameStage
<1>5. StageOf(r)'
  <2>1. Worked(r)
    BY DEF Worked
  <2>2. phase'[r] = "returned" /\ ~Queued(r)' /\ ~Worked(r)'
    BY <2>1, <1>2 DEF StageOf, Queued, Worked, Working
  <2>3. ~Failed(r)
    BY <2>1 DEF StageOf, Answered, Failed
  <2>4. Failed(r)' <=> e = "sendFailed"
    BY <2>3, <1>1 DEF Failed
  <2>5. QED  BY <2>2, <2>4 DEF StageOf, Unsent, Cut
<1>6. QED  BY <1>3, <1>4, <1>5

\* What becomes of a message when the step leaves it with its sender.
LEMMA NotMoved ==
  ASSUME NEW m \in Msgs, StageOf(m), Moved(m), NEW n \in Nodes, n = Owner[m],
         pc'[n]["snd"] \notin {"chunks", "sent"}
  PROVE  /\ Unsent(m) => ~Out(m)' /\ (m \in Files => Stub(m)')
         /\ m \in Files /\ Cut(m) => Stub(m)'
         /\ Out(m)' => phase[m] = "returned"
<1>1. (Out(m)' => Out(m)) /\ (m \in Files /\ Stub(m) => Stub(m)')
  BY DEF Moved
<1>2. QED  BY <1>1, NotOutIsStub DEF StageOf

\* Every step keeps what is known of the stages.
LEMMA StageStep ==
  ASSUME IInv, TypeOK', MsgInv, [Next]_vars PROVE StageInv'
<1>t. /\ pc \in [Nodes -> [Procs -> PCs]] /\ req \in [Nodes -> Msgs \cup {NoMsg}] /\ "snd" \in Procs
      /\ outbox \in [Nodes -> Seq(Msgs)] /\ phase \in [Msgs -> {"new", "calling", "returned"}]
      /\ Owner \in [Msgs -> Nodes] /\ TypeOK /\ Files \subseteq Msgs
      /\ \A n \in Nodes : \A i \in DOMAIN outbox[n] : Owner[outbox[n][i]] = n
  BY RuntimeAssumption DEF IInv, TypeOK, Procs, Diallers, BookInv, RequestsOK
<1>1. QueuedOnce /\ \A m \in Msgs : StageOf(m)
  BY StageParts DEF MsgInv
<1>2. \A m \in Msgs : Moved(m)
  BY StepMoved
<1>w. ASSUME NEW n \in Nodes, Working(n)
      PROVE  req[n] \in Msgs /\ Owner[req[n]] = n /\ (pc[n]["snd"] = "chunks" => req[n] \in Files)
  <2>1. RequestOK(n)
    BY DEF MsgInv, WriterInv
  <2>2. req[n] \in Msgs
    BY <1>w DEF IInv, BookInv, RequestsOK, Working
  <2>3. QED  BY <2>1, <2>2, <1>w DEF RequestOK
<1> DEFINE Goal == QueuedOnce' /\ \A m \in Msgs : StageOf(m)'
<1> SUFFICES Goal
  BY RuntimeAssumption DEF StageInv, QueueOK, UnsentOK, CutOK, StageOf, QueuedOnce
<1>3. CASE Quiet
  <2>1. QueuedOnce'
    BY <1>1, <1>3 DEF QueuedOnce, Quiet
  <2>2. ASSUME NEW m \in Msgs PROVE Same(m)
    <3>1. Owner[m] \in Nodes
      BY <1>t
    <3>2. (Answered(m)' <=> Answered(m)) /\ (Failed(m)' <=> Failed(m))
      BY <1>3 DEF Quiet, Answered, Failed
    <3>3. QED  BY <3>1, <3>2, <1>3 DEF Quiet, Same, Queued, Worked, Working, Early
  <2>3. QED  BY <2>1, <2>2, <1>1, <1>2, SameStage
<1>4. ASSUME NEW m \in Msgs, SendCall(m) PROVE Goal
  <2>1. /\ phase[m] = "new" /\ phase' = [phase EXCEPT ![m] = "calling"]
        /\ UNCHANGED <<outbox, req, pc, said>>
    BY <1>4 DEF SendCall, procVars, eventVars
  <2>2. QueuedOnce'
    BY <2>1, <1>1 DEF QueuedOnce
  <2>3. ASSUME NEW k \in Msgs, k # m PROVE Same(k)
    BY <2>1, <2>3, <1>t DEF Same, Queued, Answered, Failed, Worked, Working
  <2>4. StageOf(m)'
    <3>1. ~Queued(m) /\ ~Worked(m) /\ ~Answered(m) /\ ~Out(m)
      BY <2>1, <1>1 DEF StageOf
    <3>2. ~Queued(m)' /\ ~Worked(m)' /\ ~Answered(m)' /\ ~Out(m)'
      BY <3>1, <2>1, <1>2 DEF Queued, Worked, Working, Answered, Moved
    <3>3. QED  BY <3>2 DEF StageOf, Unsent, Cut, Answered, Failed
  <2>5. QED  BY <2>2, <2>3, <2>4, <1>1, <1>2, SameStage
<1>5. ASSUME NEW m \in Msgs, SendReturn(m) PROVE Goal
  <2> DEFINE n == Owner[m]
  <2>1. /\ phase[m] = "calling" /\ phase' = [phase EXCEPT ![m] = "returned"]
        /\ UNCHANGED <<req, pc, said>>
        /\ outbox' = outbox \/ outbox' = [outbox EXCEPT ![n] = Append(@, m)]
    BY <1>5 DEF SendReturn, procVars, eventVars
  <2>2. n \in Nodes /\ outbox[n] \in Seq(Msgs)
    BY <1>t
  <2>3. ~Queued(m) /\ ~Worked(m) /\ ~Answered(m) /\ ~Out(m)
    BY <2>1, <1>1 DEF StageOf
  <2>4. \A p \in Nodes \ {n} : outbox'[p] = outbox[p]
    BY <2>1, <1>t
  <2>5. outbox'[n] = outbox[n] \/ outbox'[n] = Append(outbox[n], m)
    BY <2>1, <2>2, <1>t
  <2>6. QueuedOnce'
    <3>1. \A k, l \in DOMAIN outbox'[n] : outbox'[n][k] = outbox'[n][l] => k = l
      <4>1. /\ \A k, l \in DOMAIN outbox[n] : outbox[n][k] = outbox[n][l] => k = l
            /\ ~InSeq(m, outbox[n])
        BY <2>2, <2>3, <1>1 DEF QueuedOnce, Queued
      <4>2. \A k, l \in DOMAIN Append(outbox[n], m) :
              Append(outbox[n], m)[k] = Append(outbox[n], m)[l] => k = l
        BY <4>1, <2>2, AppendOnce
      <4>3. QED  BY <4>1, <4>2, <2>5
    <3>2. QED  BY <3>1, <2>4, <1>1 DEF QueuedOnce
  <2>7. ASSUME NEW k \in Msgs, k # m PROVE Same(k)
    <3>1. Queued(k)' => Queued(k)
      <4>1. CASE Owner[k] = n
        <5>1. InSeq(k, Append(outbox[n], m)) <=> InSeq(k, outbox[n]) \/ k = m
          BY <2>2, InAppend
        <5>2. QED  BY <4>1, <5>1, <2>5, <2>7 DEF Queued
      <4>2. CASE Owner[k] # n
        BY <4>2, <2>4, <1>t DEF Queued
      <4>3. QED  BY <4>1, <4>2
    <3>2. QED  BY <3>1, <2>1, <2>7, <1>t DEF Same, Answered, Failed, Worked, Working
  <2>8. StageOf(m)'
    <3>1. phase'[m] = "returned" /\ ~Worked(m)' /\ ~Answered(m)' /\ ~Out(m)'
      BY <2>1, <2>3, <1>2, <1>t DEF Worked, Working, Answered, Moved
    <3>2. QED  BY <3>1 DEF StageOf, Unsent, Cut, Answered, Failed
  <2>9. QED  BY <2>6, <2>7, <2>8, <1>1, <1>2, SameStage
\* The worker takes the first request, m, from its outbox.
<1>6. ASSUME NEW n \in Nodes, NEW m, m = Head(outbox[n]),
             outbox[n] # <<>>, outbox' = [outbox EXCEPT ![n] = Tail(@)],
             pc[n]["snd"] = "idle", UNCHANGED phase,
             \A p \in Nodes \ {n} : pc'[p]["snd"] = pc[p]["snd"] /\ req'[p] = req[p],
             \A k \in Msgs \ {m} : said'[k] = said[k],
             pc'[n]["snd"] = "idle" \/ (pc'[n]["snd"] \in {"find", "write"} /\ req'[n] = m)
      PROVE  /\ m \in Msgs /\ Owner[m] = n /\ QueuedOnce' /\ Queued(m) /\ ~Queued(m)'
             /\ \A k \in Msgs : k # m => StageOf(k)'
  <2>1. /\ m \in Msgs /\ Owner[m] = n /\ outbox[n] \in Seq(Msgs)
        /\ m = outbox[n][1] /\ 1 \in DOMAIN outbox[n]
    <3>1. outbox[n] \in Seq(Msgs)
      BY <1>t
    <3>2. m = outbox[n][1] /\ 1 \in DOMAIN outbox[n] /\ m \in Msgs
      BY <3>1, <1>6, TailFacts
    <3>3. QED  BY <3>1, <3>2, <1>t
  <2>2. outbox'[n] = Tail(outbox[n]) /\ \A p \in Nodes \ {n} : outbox'[p] = outbox[p]
    BY <1>6, <1>t
  <2>3. /\ \A k, l \in DOMAIN outbox'[n] : outbox'[n][k] = outbox'[n][l] => k = l
        /\ ~InSeq(m, outbox'[n])
    BY <2>1, <2>2, <1>1, <1>6, TailOnce DEF QueuedOnce
  <2>4. QueuedOnce'
    BY <2>2, <2>3, <1>1 DEF QueuedOnce
  <2>5. Queued(m) /\ ~Queued(m)'
    BY <2>1, <2>3 DEF Queued, InSeq
  <2>6. ASSUME NEW k \in Msgs, k # m PROVE Same(k)
    <3>1. Queued(k)' => Queued(k)
      <4>1. CASE Owner[k] = n
        BY <4>1, <2>1, <2>2, <1>6, InTail DEF Queued
      <4>2. CASE Owner[k] # n
        BY <4>2, <2>2, <1>t DEF Queued
      <4>3. QED  BY <4>1, <4>2
    <3>2. (Answered(k)' <=> Answered(k)) /\ (Failed(k)' <=> Failed(k))
      BY <2>6, <1>6 DEF Answered, Failed
    <3>3. Worked(k) => Owner[k] # n
      BY <1>6 DEF Worked, Working
    <3>4. Worked(k)' => Owner[k] # n
      BY <2>6, <1>6 DEF Worked, Working
    <3>5. QED  BY <3>1, <3>2, <3>3, <3>4, <1>6, <1>t DEF Same, Worked, Working
  <2>7. QED  BY <2>1, <2>4, <2>5, <2>6, <1>1, <1>2, SameStage
<1>7. ASSUME NEW n \in Nodes, SndTake(n) PROVE Goal
  <2>m. PICK m : m = Head(outbox[n])
    OBVIOUS
  <2>1. /\ outbox[n] # <<>> /\ outbox' = [outbox EXCEPT ![n] = Tail(@)]
        /\ pc[n]["snd"] = "idle" /\ UNCHANGED <<phase, said>>
        /\ \A p \in Nodes \ {n} : pc'[p]["snd"] = pc[p]["snd"] /\ req'[p] = req[p]
        /\ pc'[n]["snd"] \in {"find", "write"} /\ req'[n] = m
    BY <2>m, <1>7, <1>t DEF SndTake, Goto, eventVars
  <2>2. /\ m \in Msgs /\ Owner[m] = n /\ QueuedOnce' /\ Queued(m) /\ ~Queued(m)'
        /\ \A k \in Msgs : k # m => StageOf(k)'
    BY <2>m, <2>1, <1>6
  <2>3. ~Answered(m) /\ ~Out(m) /\ phase[m] = "returned"
    BY <2>2, <1>1 DEF StageOf, Unsent
  <2>4. ~Answered(m)' /\ ~Out(m)' /\ phase'[m] = "returned"
    BY <2>1, <2>2, <2>3, <1>2 DEF Answered, Moved
  <2>5. StageOf(m)'
    BY <2>1, <2>2, <2>4 DEF StageOf, Unsent, Cut, Answered, Failed
  <2>6. QED  BY <2>2, <2>5
<1>8. ASSUME NEW n \in Nodes, SndBadURI(n) PROVE Goal
  <2>m. PICK m : m = Head(outbox[n])
    OBVIOUS
  <2>0. m \in Msgs
    BY <2>m, <1>8, <1>t, TailFacts DEF SndBadURI
  <2>1. /\ outbox[n] # <<>> /\ outbox' = [outbox EXCEPT ![n] = Tail(@)]
        /\ pc[n]["snd"] = "idle" /\ UNCHANGED <<phase, pc, req>> /\ Say(m, "sendFailed")
    BY <2>m, <1>8 DEF SndBadURI, procVars
  <2>2. \A k \in Msgs \ {m} : said'[k] = said[k]
    BY <2>0, <2>1, <1>t DEF Say, TypeOK
  <2>3. /\ m \in Msgs /\ Owner[m] = n /\ QueuedOnce' /\ Queued(m) /\ ~Queued(m)'
        /\ \A k \in Msgs : k # m => StageOf(k)'
    BY <2>m, <2>1, <2>2, <1>6
  <2>4. Unsent(m) /\ phase'[m] = "returned"
    BY <2>1, <2>3, <1>1 DEF StageOf, Unsent
  <2>5. ~Out(m)' /\ (m \in Files => Stub(m)')
    BY <2>1, <2>3, <2>4, <1>1, <1>2, NotMoved
  <2>6. StageOf(m)'
    BY <2>1, <2>3, <2>4, <2>5 DEF StageOf, Worked, Working
  <2>7. QED  BY <2>3, <2>6
<1>9. ASSUME NEW n \in Nodes, SndClosed(n) PROVE Goal
  <2>1. /\ UNCHANGED <<phase, outbox, said>> /\ pc'[n]["snd"] \in {"idle", "exit"}
        /\ \A p \in Nodes \ {n} : pc'[p]["snd"] = pc[p]["snd"] /\ req'[p] = req[p]
    BY <1>9, <1>t DEF SndClosed, Goto, apiVars, eventVars
  <2>2. QueuedOnce'
    BY <2>1, <1>1 DEF QueuedOnce
  <2>3. ASSUME NEW m \in Msgs PROVE Same(m)
    <3>1. CASE Owner[m] = n
      BY <3>1, <2>1 DEF Same, Queued, Answered, Failed, Worked, Working
    <3>2. CASE Owner[m] # n
      BY <3>2, <2>1, <1>t DEF Same, Queued, Answered, Failed, Worked, Working
    <3>3. QED  BY <3>1, <3>2
  <2>4. QED  BY <2>2, <2>3, <1>1, <1>2, SameStage
\* The worker goes on with its request, m, without an event.
<1>10. ASSUME NEW n \in Nodes, NEW m, m = req[n], Working(n), UNCHANGED <<phase, outbox, req, said>>,
              \A p \in Nodes \ {n} : pc'[p]["snd"] = pc[p]["snd"]
       PROVE  /\ m \in Msgs /\ Owner[m] = n /\ Worked(m) /\ QueuedOnce'
              /\ \A k \in Msgs : k # m => StageOf(k)'
              /\ ~Queued(m)' /\ ~Answered(m)' /\ ~Failed(m)' /\ phase'[m] = "returned"
  <2>1. m \in Msgs /\ Owner[m] = n /\ Worked(m)
    BY <1>w, <1>10 DEF Worked
  <2>2. QueuedOnce'
    BY <1>1, <1>10 DEF QueuedOnce
  <2>3. ASSUME NEW k \in Msgs, k # m PROVE Same(k)
    BY <2>3, <1>10, <1>t DEF Same, Queued, Answered, Failed, Worked, Working
  <2>4. ~Queued(m) /\ ~Answered(m) /\ phase[m] = "returned"
    BY <2>1, <1>1 DEF StageOf
  <2>5. ~Queued(m)' /\ ~Answered(m)' /\ ~Failed(m)' /\ phase'[m] = "returned"
    BY <2>4, <1>10 DEF Queued, Answered, Failed
  <2>6. QED  BY <2>1, <2>2, <2>3, <2>5, <1>1, <1>2, SameStage
\* The worker reports that its request failed, at a point where it cannot be complete.
<1>11. ASSUME NEW n \in Nodes, NEW m, m = req[n], Working(n), UNCHANGED <<phase, outbox>>,
              Report(n, "sendFailed"), IF m \in Files THEN Unsent(m) \/ Cut(m) ELSE Unsent(m)
       PROVE  Goal
  <2>1. m \in Msgs /\ Owner[m] = n
    BY <1>w, <1>11
  <2>2. pc'[n]["snd"] = "idle"
    BY <1>11, <1>t DEF Report, Goto
  <2>3. IF m \in Files THEN Stub(m)' ELSE ~Out(m)'
    BY <2>1, <2>2, <1>1, <1>2, <1>11, NotMoved
  <2>4. QED  BY <2>1, <2>3, <1>1, <1>2, <1>11, <1>t, ReportStage
<1>12. ASSUME NEW n \in Nodes, SndBackoff(n) PROVE Goal
  <2>m. PICK m : m = req[n]
    OBVIOUS
  <2>1. Working(n) /\ pc[n]["snd"] = "backoff" /\ UNCHANGED <<phase, outbox>>
    BY <1>12 DEF SndBackoff, Working, apiVars
  <2>2. CASE Goto(n, "snd", "find") /\ UNCHANGED <<req, said>>
    <3>1. pc'[n]["snd"] = "find" /\ \A p \in Nodes \ {n} : pc'[p]["snd"] = pc[p]["snd"]
      BY <2>2, <1>t DEF Goto
    <3>2. /\ m \in Msgs /\ Owner[m] = n /\ Worked(m) /\ QueuedOnce'
          /\ \A k \in Msgs : k # m => StageOf(k)'
          /\ ~Queued(m)' /\ ~Answered(m)' /\ ~Failed(m)' /\ phase'[m] = "returned"
      BY <2>m, <2>1, <2>2, <3>1, <1>10
    <3>3. ~Out(m)'
      BY <2>1, <3>1, <3>2, <1>1, <1>2, NotMoved DEF Unsent
    <3>4. StageOf(m)'
      BY <3>1, <3>2, <3>3 DEF StageOf, Cut
    <3>5. QED  BY <3>2, <3>4
  <2>3. CASE Report(n, "sendFailed")
    <3>1. Unsent(m)
      BY <2>m, <2>1, <1>w DEF Unsent, Worked
    <3>2. QED  BY <2>m, <2>1, <2>3, <3>1, <1>11
  <2>4. QED  BY <2>2, <2>3, <1>12 DEF SndBackoff
<1>13. ASSUME NEW n \in Nodes, SndNoFile(n) PROVE Goal
  <2>m. PICK m : m = req[n]
    OBVIOUS
  <2>1. /\ Working(n) /\ pc[n]["snd"] = "write" /\ UNCHANGED <<phase, outbox>>
        /\ Report(n, "sendFailed")
    BY <1>13 DEF SndNoFile, Working, apiVars
  <2>2. Unsent(m)
    BY <2>m, <2>1, <1>w DEF Unsent, Worked
  <2>3. QED  BY <2>m, <2>1, <2>2, <1>11
<1>14. ASSUME NEW n \in Nodes, SndDrop(n) PROVE Goal
  <2>m. PICK m : m = req[n]
    OBVIOUS
  <2>1. /\ Working(n) /\ pc[n]["snd"] = "drop" /\ UNCHANGED <<phase, outbox>>
        /\ Report(n, "sendFailed")
    BY <1>14 DEF SndDrop, Working, apiVars
  <2>2. IF m \in Files THEN Cut(m) ELSE Unsent(m)
    BY <2>m, <2>1, <1>w DEF Unsent, Cut, Worked
  <2>3. QED  BY <2>m, <2>1, <2>2, <1>11
<1>15. ASSUME NEW n \in Nodes, SndSent(n) PROVE Goal
  <2>m. PICK m : m = req[n]
    OBVIOUS
  <2>1. Working(n) /\ UNCHANGED <<phase, outbox>> /\ Report(n, "sent")
    BY <1>15 DEF SndSent, Working, apiVars
  <2>2. m \in Msgs /\ Owner[m] = n
    BY <2>m, <2>1, <1>w
  <2>3. QED  BY <2>m, <2>1, <2>2, <1>1, <1>2, <1>t, ReportStage
<1>16. ASSUME NEW n \in Nodes, SndWrite(n) PROVE Goal
  <2>m. PICK m : m = req[n]
    OBVIOUS
  <2>1. /\ Working(n) /\ pc[n]["snd"] = "write" /\ UNCHANGED <<phase, outbox, req, said>>
        /\ \A p \in Nodes \ {n} : pc'[p]["snd"] = pc[p]["snd"]
        /\ pc'[n]["snd"] \in {IF m \in Files THEN "chunks" ELSE "sent", "drop"}
    BY <2>m, <1>16, <1>t DEF SndWrite, Working, apiVars, eventVars, Goto
  <2>2. /\ m \in Msgs /\ Owner[m] = n /\ Worked(m) /\ QueuedOnce'
        /\ \A k \in Msgs : k # m => StageOf(k)'
        /\ ~Queued(m)' /\ ~Answered(m)' /\ ~Failed(m)' /\ phase'[m] = "returned"
    BY <2>m, <2>1, <1>10
  <2>3. Unsent(m)
    BY <2>1, <2>2 DEF Unsent
  <2>4. m \in Files => Stub(m)'
    BY <2>1, <2>2, <2>3, <1>1, <1>2, NotOutIsStub DEF StageOf, Moved
  <2>5. pc'[n]["snd"] = "drop" => ~Out(m)'
    BY <2>2, <2>3, <1>1, <1>2, NotMoved
  <2>6. StageOf(m)'
    BY <2>1, <2>2, <2>4, <2>5 DEF StageOf, Unsent, Cut
  <2>7. QED  BY <2>2, <2>6
<1>17. ASSUME NEW n \in Nodes, SndChunks(n) PROVE Goal
  <2>m. PICK m : m = req[n]
    OBVIOUS
  <2>1. /\ Working(n) /\ pc[n]["snd"] = "chunks" /\ UNCHANGED <<phase, outbox, req, said>>
        /\ \A p \in Nodes \ {n} : pc'[p]["snd"] = pc[p]["snd"]
        /\ pc'[n]["snd"] \in {"sent", "drop"}
    BY <1>17, <1>t DEF SndChunks, Working, apiVars, eventVars, Goto
  <2>2. /\ m \in Msgs /\ Owner[m] = n /\ Worked(m) /\ QueuedOnce'
        /\ \A k \in Msgs : k # m => StageOf(k)'
        /\ ~Queued(m)' /\ ~Answered(m)' /\ ~Failed(m)' /\ phase'[m] = "returned"
    BY <2>m, <2>1, <1>10
  <2>3. m \in Files /\ Cut(m)
    BY <2>m, <2>1, <2>2, <1>w DEF Cut
  <2>4. pc'[n]["snd"] = "drop" => Stub(m)'
    BY <2>2, <2>3, <1>1, <1>2, NotMoved
  <2>5. StageOf(m)'
    BY <2>1, <2>2, <2>3, <2>4 DEF StageOf, Unsent, Cut
  <2>6. QED  BY <2>2, <2>5
<1>18. QED
  <2> HIDE DEF Goal
  <2>1. ASSUME NEW n \in Nodes, SndStep(n) PROVE Goal
    BY <2>1, <1>7, <1>8, <1>9, <1>12, <1>13, <1>14, <1>15, <1>16, <1>17 DEF SndStep
  <2>2. QED  BY <2>1, <1>3, <1>4, <1>5, QuietSteps DEF Sends

-----------------------------------------------------------------------------
(* The invariant holds *)

\* Nothing has been sent when the runtimes start.
LEMMA MsgInit == Init => MsgInv
<1> SUFFICES ASSUME Init PROVE MsgInv
  OBVIOUS
<1>t. "snd" \in Procs /\ Owner \in [Msgs -> Nodes]
  BY RuntimeAssumption DEF Procs, Diallers
<1>1. /\ \A n \in Nodes : pc[n]["snd"] = "idle" /\ got[n] = <<>> /\ outbox[n] = <<>>
      /\ \A n, p \in Nodes : lastIn[n][p] = NoMsg
      /\ \A c \in Conns, n \in Nodes : wire[c][n] = <<>> /\ rd[c][n] = "off"
      /\ \A m \in Msgs : said[m] = <<>> /\ phase[m] = "new"
  BY <1>t DEF Init
<1>2. \A e : ~InSeq(e, <<>>)
  BY DEF InSeq
<1>3. WriterInv
  BY <1>1 DEF WriterInv, WireEnds, RequestOK, LinkFree, Working, Writing, Holding, Building
<1>4. FlowInv
  BY <1>1 DEF FlowInv, OfferRun, BodyRun, BetweenRun, Between, SendMuHeld
<1>5. \A i : ~Surfaced(i) /\ \A c \in Conns, n \in Nodes : ~InBody(i, c, n)
  BY <1>1, <1>2 DEF Surfaced, InBody
<1>6. PlaceInv
  <2>1. /\ \A c \in Conns, n \in Nodes : DOMAIN wire[c][n] = {} /\ rd[c][n] = "off"
        /\ \A n \in Nodes : DOMAIN got[n] = {}
    BY <1>1
  <2>2. OneFrame
    BY <2>1 DEF OneFrame
  <2>3. OnePlace
    BY <2>1, <1>5 DEF OnePlace
  <2>4. Routed
    BY <2>1 DEF Routed
  <2>5. ReceiptsTrue
    BY <2>1, <1>1 DEF ReceiptsTrue
  <2>6. SurfacedOnce
    BY <2>1 DEF SurfacedOnce
  <2>7. QED  BY <2>2, <2>3, <2>4, <2>5, <2>6 DEF PlaceInv
<1>7. \A m \in Msgs : ~Queued(m) /\ ~Worked(m) /\ ~Answered(m) /\ ~Failed(m) /\ ~Out(m)
  <2> TAKE m \in Msgs
  <2>1. ~Queued(m) /\ ~Worked(m)
    BY <1>1, <1>2, <1>t DEF Queued, Worked, Working
  <2>2. ~Answered(m) /\ ~Failed(m)
    BY <1>1, <1>2 DEF Answered, Failed
  <2>3. ~Out(m)
    BY <1>1, <1>5 DEF Out
  <2>4. QED  BY <2>1, <2>2, <2>3
<1>8. StageInv
  <2>1. QueuedOnce
    BY <1>1 DEF QueuedOnce
  <2>2. \A m \in Msgs : StageOf(m)
    BY <1>7 DEF StageOf, Cut
  <2>3. QED  BY <2>1, <2>2, StageParts
<1>9. QED  BY <1>3, <1>4, <1>6, <1>8 DEF MsgInv

\* Every step keeps it.
LEMMA MsgStep == IInv /\ IInv' /\ MsgInv /\ [Next]_vars => MsgInv'
<1> SUFFICES ASSUME IInv, IInv', MsgInv, [Next]_vars PROVE MsgInv'
  OBVIOUS
<1>t. TypeOK /\ TypeOK' /\ WriterInv /\ WireEnds /\ WriterLinks /\ FlowInv /\ PlaceInv /\ StageInv
  BY DEF IInv, MsgInv, WriterInv, WriterLinks
<1>1. WriterLinks'
  BY <1>t, WriterStep
<1>2. StageInv'
  BY <1>t, StageStep
<1>3. WireEnds' /\ FlowInv' /\ PlaceInv'
  <2>1. CASE Plain
    BY <2>1, <1>t, PlainEnds, PlainFlow, PlainPlace
  <2>2. ASSUME NEW n \in Nodes, Writes(n) PROVE WireEnds' /\ FlowInv' /\ PlaceInv'
    BY <2>2, <1>t, WriteFlow, WritePlace
  <2>3. ASSUME NEW c \in Conns, NEW n \in Nodes, Reads(c, n)
        PROVE  WireEnds' /\ FlowInv' /\ PlaceInv'
    BY <2>3, <1>t, ReadFlow, ReadPlace
  <2>4. QED  BY <2>1, <2>2, <2>3, <1>t, PlainSteps DEF Writes, Reads
<1>4. QED  BY <1>1, <1>2, <1>3 DEF MsgInv, WriterInv, WriterLinks

\* What is known of every message holds in every reachable state, for any number
\* of runtimes, connections, messages and network failures.
THEOREM MsgInvariance == Spec => [](IInv /\ MsgInv)
<1>1. Init => IInv /\ MsgInv
  BY Beginning, MsgInit
<1>2. (IInv /\ MsgInv) /\ [Next]_vars => (IInv /\ MsgInv)'
  BY Preservation, MsgStep
<1>3. QED  BY <1>1, <1>2, PTL DEF Spec

====
