--------------------------- MODULE RuntimeProofs ---------------------------
(***************************************************************************)
(* Proofs about Runtime: the inductive invariant IInv, and from it type    *)
(* correctness and the two properties of the link table.  IInv has four    *)
(* parts, each with a lemma for its step: the types (TypeStep), who works  *)
(* on which request (BookStep), Stop (StopStep) and the ends of            *)
(* connections and the table (LinkStep).  LinkStep sorts the actions by    *)
(* what they do to the table: calm ones leave it alone (CalmStep), tidy    *)
(* ones take links out (TidyStep), and the four that build a link or put   *)
(* it in (DialOffer, LstOffer, Adopt, Announce) are treated one by one.    *)
(***************************************************************************)
EXTENDS Runtime, TLAPS

\* What recvLoop's switch reads from a frame is there: an id in every text and
\* offer, an id and a state in every receipt.
LEMMA FrameFields ==
  ASSUME NEW f \in Frames
  PROVE  /\ f.kind \in {"text", "offer"} => f.id \in Ids
         /\ f.kind = "receipt" => f.id \in Ids /\ f.state \in {"DELIVERED", "READ"}
BY DEF Frames

\* Everything the runtime puts on a connection is a frame of the protocol.
LEMMA FrameMembers ==
  /\ {Bundle, Handshake, Typing, Chunks} \subseteq Frames
  /\ \A m \in Msgs : Envelope(m) \in Frames
  /\ \A i \in Ids, s \in {"DELIVERED", "READ"} : Receipt(i, s) \in Frames
BY DEF Frames, Bundle, Handshake, Typing, Chunks, Envelope, Receipt, Ids, MsgId

\* A goroutine's move to a program point keeps pc well formed.
LEMMA GotoTyped ==
  ASSUME TypeOK, NEW n \in Nodes, NEW x \in Procs, NEW l \in PCs, Goto(n, x, l)
  PROVE  pc' \in [Nodes -> [Procs -> PCs]]
BY DEF TypeOK, Goto

\* conn.Send keeps what travels on the connections well formed.
LEMMA SendTyped ==
  ASSUME TypeOK, NEW c \in Conns, NEW n, NEW f \in Frames, SendOK(c, n, f)
  PROVE  wire' \in [Conns -> [Nodes -> Seq(Frames)]]
<1> DEFINE o == Other(c, n)
<1>1. CASE o \in Nodes
  <2>1. Append(wire[c][o], f) \in Seq(Frames)
    BY <1>1 DEF TypeOK
  <2>2. [wire EXCEPT ![c][o] = Append(@, f)] \in [Conns -> [Nodes -> Seq(Frames)]]
    BY <1>1, <2>1 DEF TypeOK
  <2>3. QED  BY <2>2 DEF SendOK, TypeOK
<1>2. CASE o \notin Nodes
  <2>1. [wire EXCEPT ![c][o] = Append(@, f)] = wire
    BY <1>2 DEF TypeOK
  <2>2. QED  BY <2>1 DEF SendOK, TypeOK
<1>3. QED  BY <1>1, <1>2

\* push of an event about an outgoing message keeps the event record well formed.
LEMMA SayTyped ==
  ASSUME TypeOK, NEW m \in Msgs,
         NEW e \in {"sent", "sendFailed", "DELIVERED", "READ"}, Say(m, e)
  PROVE  said' \in [Msgs -> Seq({"sent", "sendFailed", "DELIVERED", "READ"})]
<1>1. Append(said[m], e) \in Seq({"sent", "sendFailed", "DELIVERED", "READ"})
  BY DEF TypeOK
<1>2. QED  BY <1>1 DEF TypeOK, Say

\* conn.Recv returns a frame and leaves well-formed wires.
LEMMA RecvTyped ==
  ASSUME TypeOK, NEW c \in Conns, NEW n \in Nodes, wire[c][n] # <<>>
  PROVE  /\ Head(wire[c][n]) \in Frames
         /\ [wire EXCEPT ![c][n] = Tail(@)] \in [Conns -> [Nodes -> Seq(Frames)]]
BY DEF TypeOK

\* Surfacing an envelope keeps the record of surfaced envelopes well formed.
LEMMA GotTyped ==
  ASSUME TypeOK, NEW n \in Nodes, NEW i \in Ids
  PROVE  [got EXCEPT ![n] = Append(@, i)] \in [Nodes -> Seq(Ids)]
BY DEF TypeOK

\* setLastInbound and the event of an inbound envelope keep their state well
\* formed.
LEMMA SurfaceTyped ==
  ASSUME TypeOK, NEW c \in Conns, NEW n \in Nodes, NEW i \in Ids, Surface(c, n, i)
  PROVE  /\ lastIn' \in [Nodes -> [Nodes -> Ids \cup {NoMsg}]]
         /\ got' \in [Nodes -> Seq(Ids)]
         /\ cur' \in [Conns -> [Nodes -> Ids \cup {NoMsg}]]
         /\ rd' \in [Conns -> [Nodes -> RDs]]
BY GotTyped DEF TypeOK, Surface, RDs

\* Every step of the runtime keeps the state well formed, given who works on
\* what and what the goroutines hold.
LEMMA TypeStep ==
  TypeOK /\ BookInv /\ HoldingOK /\ [Next]_vars => TypeOK'
<1> SUFFICES ASSUME TypeOK, BookInv, HoldingOK, [Next]_vars
             PROVE  TypeOK'
  OBVIOUS
<1> USE RuntimeAssumption DEF TypeOK, PCs, RDs, Procs, Diallers,
      apiVars, procVars, connVars, eventVars
<1>1. ASSUME NEW m \in Msgs, SendCall(m) PROVE TypeOK'
  BY <1>1 DEF SendCall
<1>2. ASSUME NEW m \in Msgs, SendReturn(m) PROVE TypeOK'
  <2>1. outbox' \in [Nodes -> Seq(Msgs)]
    <3>1. Append(outbox[Owner[m]], m) \in Seq(Msgs)
      OBVIOUS
    <3>2. QED  BY <3>1, <1>2 DEF SendReturn
  <2>2. QED  BY <2>1, <1>2 DEF SendReturn
<1>3. ASSUME NEW n \in Nodes, NEW p \in Nodes, MarkRead(n, p) PROVE TypeOK'
  <2>1. links[n][p] \in Conns /\ lastIn[n][p] \in Ids
    BY <1>3 DEF MarkRead
  <2>2. wire' \in [Conns -> [Nodes -> Seq(Frames)]]
    BY <2>1, <1>3, FrameMembers, SendTyped DEF MarkRead, SendErr
  <2>3. QED  BY <2>1, <2>2, <1>3 DEF MarkRead
<1>4. ASSUME NEW n \in Nodes, NEW p \in Nodes, SendTyping(n, p) PROVE TypeOK'
  <2>1. links[n][p] \in Conns
    BY <1>4 DEF SendTyping
  <2>2. wire' \in [Conns -> [Nodes -> Seq(Frames)]]
    BY <2>1, <1>4, FrameMembers, SendTyped DEF SendTyping, SendErr
  <2>3. QED  BY <2>2, <1>4 DEF SendTyping
<1>5. ASSUME NEW n \in Nodes, NEW p \in Nodes, Diagnose(n, p) PROVE TypeOK'
  BY <1>5 DEF Diagnose, Goto
<1>6. ASSUME NEW n \in Nodes, NEW x \in Diallers, DialOffer(n, x) PROVE TypeOK'
  <2>1. Peer(n, x) \in Nodes
    BY <1>6 DEF DialOffer, Peer, BookInv, RequestsOK
  <2>2. pc' \in [Nodes -> [Procs -> PCs]]
    BY <1>6, GotoTyped DEF DialOffer
  <2>3. (CHOOSE c \in Conns : ini[c] = NoNode) \in Conns
    BY <1>6 DEF DialOffer
  <2>4. QED  BY <2>1, <2>2, <2>3, <1>6 DEF DialOffer
<1>7. ASSUME NEW n \in Nodes, NEW x \in Diallers, DialAnswer(n, x) PROVE TypeOK'
  <2>1. pc' \in [Nodes -> [Procs -> PCs]]
    BY <1>7, GotoTyped DEF DialAnswer
  <2>2. QED  BY <2>1, <1>7 DEF DialAnswer
<1>8. ASSUME NEW n \in Nodes, NEW x \in Diallers, DialOpen(n, x) PROVE TypeOK'
  BY <1>8 DEF DialOpen, Goto
<1>9. ASSUME NEW n \in Nodes, NEW x \in Diallers, DialHandshake(n, x) PROVE TypeOK'
  <2> DEFINE c == conn[n][x]
  <2>1. c \in Conns
    BY <1>9 DEF DialHandshake, HoldingOK, Holding, Building
  <2>2. /\ Tail(wire[c][n]) \in Seq(Frames)
        /\ \A p \in Nodes : Append(wire[c][p], Handshake) \in Seq(Frames)
    BY <2>1, <1>9, FrameMembers DEF DialHandshake
  <2>3. wire' \in [Conns -> [Nodes -> Seq(Frames)]]
    BY <2>1, <2>2, <1>9 DEF DialHandshake
  <2>4. pc' \in [Nodes -> [Procs -> PCs]]
    BY <1>9, GotoTyped DEF DialHandshake
  <2>5. QED  BY <2>3, <2>4, <1>9 DEF DialHandshake
<1>10. ASSUME NEW n \in Nodes, NEW x \in Diallers, DialNotFound(n, x) PROVE TypeOK'
  BY <1>10 DEF DialNotFound, Goto, AfterFailure
<1>11. ASSUME NEW n \in Nodes, NEW x \in Diallers, DialFail(n, x) PROVE TypeOK'
  BY <1>11 DEF DialFail, Goto, AfterFailure, Close
<1>12. ASSUME NEW n \in Nodes, NEW x \in Procs, Adopt(n, x) PROVE TypeOK'
  <2>1. pc' \in [Nodes -> [Procs -> PCs]]
    BY <1>12, GotoTyped DEF Adopt
  <2>2. conn[n][x] \in Conns
    BY <1>12 DEF Adopt, HoldingOK, Holding, Building
  <2>3. links' \in [Nodes -> [Nodes -> Conns \cup {NoConn}]]
    BY <2>2, <1>12 DEF Adopt
  <2>4. done' \in [Conns -> [Nodes -> BOOLEAN]]
    BY <1>12 DEF Adopt
  <2>5. QED  BY <2>1, <2>3, <2>4, <1>12 DEF Adopt
<1>13. ASSUME NEW n \in Nodes, NEW x \in Procs, Announce(n, x) PROVE TypeOK'
  BY <1>13 DEF Announce, Goto
<1>14. ASSUME NEW n \in Nodes, SndTake(n) PROVE TypeOK'
  <2>1. Head(outbox[n]) \in Msgs /\ Tail(outbox[n]) \in Seq(Msgs)
    BY <1>14 DEF SndTake
  <2>2. outbox' \in [Nodes -> Seq(Msgs)]
    BY <2>1, <1>14 DEF SndTake
  <2>3. pc' \in [Nodes -> [Procs -> PCs]]
    BY <1>14, GotoTyped DEF SndTake
  <2>4. req' \in [Nodes -> Msgs \cup {NoMsg}] /\ att' \in [Nodes -> 0 .. Attempts]
    BY <2>1, <1>14 DEF SndTake
  <2>5. conn' \in [Nodes -> [Procs -> Conns \cup {NoConn}]]
    <3>1. links[n][Dest[Head(outbox[n])]] \in Conns \cup {NoConn}
      BY <2>1, <1>14 DEF SndTake
    <3>2. QED  BY <3>1, <1>14 DEF SndTake
  <2>6. QED  BY <2>2, <2>3, <2>4, <2>5, <1>14 DEF SndTake
<1>15. ASSUME NEW n \in Nodes, SndBadURI(n) PROVE TypeOK'
  <2>1. Head(outbox[n]) \in Msgs /\ Tail(outbox[n]) \in Seq(Msgs)
    BY <1>15 DEF SndBadURI
  <2>2. outbox' \in [Nodes -> Seq(Msgs)]
    BY <2>1, <1>15 DEF SndBadURI
  <2>3. said' \in [Msgs -> Seq({"sent", "sendFailed", "DELIVERED", "READ"})]
    BY <2>1, <1>15, SayTyped DEF SndBadURI
  <2>4. QED  BY <2>2, <2>3, <1>15 DEF SndBadURI
<1>16. ASSUME NEW n \in Nodes, SndClosed(n) PROVE TypeOK'
  <2>1. pc' \in [Nodes -> [Procs -> PCs]]
    BY <1>16, GotoTyped DEF SndClosed
  <2>2. QED  BY <2>1, <1>16 DEF SndClosed
<1>17. ASSUME NEW n \in Nodes, SndBackoff(n) PROVE TypeOK'
  <2>1. req[n] \in Msgs
    BY <1>17 DEF SndBackoff, BookInv, RequestsOK
  <2>2. pc' \in [Nodes -> [Procs -> PCs]]
    BY <1>17, GotoTyped DEF SndBackoff, Report
  <2>3. said' \in [Msgs -> Seq({"sent", "sendFailed", "DELIVERED", "READ"})]
    BY <2>1, <1>17, SayTyped DEF SndBackoff, Report
  <2>4. req' \in [Nodes -> Msgs \cup {NoMsg}]
    BY <1>17 DEF SndBackoff, Report
  <2>5. att' \in [Nodes -> 0 .. Attempts]
    <3>1. pc[n]["snd"] = "backoff"
      BY <1>17 DEF SndBackoff
    <3>2. att[n] < Attempts
      BY <3>1 DEF BookInv, AttemptsLeft
    <3>3. att[n] + 1 \in 0 .. Attempts
      BY <3>2
    <3>4. QED  BY <3>3, <1>17 DEF SndBackoff
  <2>6. QED  BY <2>2, <2>3, <2>4, <2>5, <1>17 DEF SndBackoff
<1>18. ASSUME NEW n \in Nodes, SndWrite(n) PROVE TypeOK'
  <2>1. req[n] \in Msgs /\ conn[n]["snd"] \in Conns
    BY <1>18 DEF SndWrite, BookInv, RequestsOK, WriterOK
  <2>2. wire' \in [Conns -> [Nodes -> Seq(Frames)]]
    BY <2>1, <1>18, FrameMembers, SendTyped DEF SndWrite, SendErr
  <2>3. pc' \in [Nodes -> [Procs -> PCs]]
    BY <1>18, GotoTyped DEF SndWrite
  <2>4. QED  BY <2>2, <2>3, <1>18 DEF SndWrite
<1>19. ASSUME NEW n \in Nodes, SndNoFile(n) PROVE TypeOK'
  <2>1. req[n] \in Msgs
    BY <1>19 DEF SndNoFile, BookInv, RequestsOK
  <2>2. pc' \in [Nodes -> [Procs -> PCs]]
    BY <1>19, GotoTyped DEF SndNoFile, Report
  <2>3. said' \in [Msgs -> Seq({"sent", "sendFailed", "DELIVERED", "READ"})]
    BY <2>1, <1>19, SayTyped DEF SndNoFile, Report
  <2>4. req' \in [Nodes -> Msgs \cup {NoMsg}]
    BY <1>19 DEF SndNoFile, Report
  <2>5. QED  BY <2>2, <2>3, <2>4, <1>19 DEF SndNoFile
<1>20. ASSUME NEW n \in Nodes, SndChunks(n) PROVE TypeOK'
  <2>1. conn[n]["snd"] \in Conns
    BY <1>20 DEF SndChunks, BookInv, WriterOK
  <2>2. wire' \in [Conns -> [Nodes -> Seq(Frames)]]
    BY <2>1, <1>20, FrameMembers, SendTyped DEF SndChunks, SendErr
  <2>3. pc' \in [Nodes -> [Procs -> PCs]]
    BY <1>20, GotoTyped DEF SndChunks
  <2>4. QED  BY <2>2, <2>3, <1>20 DEF SndChunks
<1>21. ASSUME NEW n \in Nodes, SndSent(n) PROVE TypeOK'
  <2>1. req[n] \in Msgs
    BY <1>21 DEF SndSent, BookInv, RequestsOK
  <2>2. pc' \in [Nodes -> [Procs -> PCs]]
    BY <1>21, GotoTyped DEF SndSent, Report
  <2>3. said' \in [Msgs -> Seq({"sent", "sendFailed", "DELIVERED", "READ"})]
    BY <2>1, <1>21, SayTyped DEF SndSent, Report
  <2>4. req' \in [Nodes -> Msgs \cup {NoMsg}]
    BY <1>21 DEF SndSent, Report
  <2>5. QED  BY <2>2, <2>3, <2>4, <1>21 DEF SndSent
<1>22. ASSUME NEW n \in Nodes, SndDrop(n) PROVE TypeOK'
  <2>1. req[n] \in Msgs
    BY <1>22 DEF SndDrop, BookInv, RequestsOK
  <2>2. pc' \in [Nodes -> [Procs -> PCs]]
    BY <1>22, GotoTyped DEF SndDrop, Report
  <2>3. said' \in [Msgs -> Seq({"sent", "sendFailed", "DELIVERED", "READ"})]
    BY <2>1, <1>22, SayTyped DEF SndDrop, Report
  <2>4. req' \in [Nodes -> Msgs \cup {NoMsg}]
    BY <1>22 DEF SndDrop, Report
  <2>5. QED  BY <2>2, <2>3, <2>4, <1>22 DEF SndDrop, DropLink, Close
<1>23. ASSUME NEW n \in Nodes, LstHead(n) PROVE TypeOK'
  <2>1. pc' \in [Nodes -> [Procs -> PCs]]
    BY <1>23, GotoTyped DEF LstHead
  <2>2. QED  BY <2>1, <1>23 DEF LstHead
<1>24. ASSUME NEW n \in Nodes, LstOffer(n) PROVE TypeOK'
  <2>1. pc' \in [Nodes -> [Procs -> PCs]]
    BY <1>24, GotoTyped DEF LstOffer
  <2>2. PICK c \in Conns : /\ conn' = [conn EXCEPT ![n]["lst"] = c]
                         /\ \E s \in {"answer", "used"} : sdp' = [sdp EXCEPT ![c] = s]
    BY <1>24 DEF LstOffer
  <2>3. /\ conn' \in [Nodes -> [Procs -> Conns \cup {NoConn}]]
        /\ sdp' \in [Conns -> {"none", "offer", "answer", "used"}]
    BY <2>2
  <2>4. UNCHANGED <<apiVars, req, att, target, ini, rsp, up, done, wire, rd, cur,
                    links, advert, life, closing, fails, eventVars, lastIn, marked>>
    BY <1>24 DEF LstOffer
  <2>5. QED  BY <2>1, <2>3, <2>4
<1>25. ASSUME NEW n \in Nodes, LstStopped(n) PROVE TypeOK'
  BY <1>25 DEF LstStopped, Goto
<1>26. ASSUME NEW n \in Nodes, LstOpen(n) PROVE TypeOK'
  <2>1. conn[n]["lst"] \in Conns
    BY <1>26 DEF LstOpen, HoldingOK, Holding, Building
  <2>2. wire' \in [Conns -> [Nodes -> Seq(Frames)]]
    BY <2>1, <1>26, FrameMembers, SendTyped DEF LstOpen
  <2>3. pc' \in [Nodes -> [Procs -> PCs]]
    BY <1>26, GotoTyped DEF LstOpen
  <2>4. QED  BY <2>2, <2>3, <1>26 DEF LstOpen
<1>27. ASSUME NEW n \in Nodes, LstHandshake(n) PROVE TypeOK'
  <2>1. conn[n]["lst"] \in Conns
    BY <1>27 DEF LstHandshake, HoldingOK, Holding, Building
  <2>2. wire' \in [Conns -> [Nodes -> Seq(Frames)]]
    BY <2>1, <1>27, RecvTyped DEF LstHandshake
  <2>3. pc' \in [Nodes -> [Procs -> PCs]]
    BY <1>27, GotoTyped DEF LstHandshake
  <2>4. QED  BY <2>2, <2>3, <1>27 DEF LstHandshake
<1>28. ASSUME NEW n \in Nodes, LstFail(n) PROVE TypeOK'
  BY <1>28 DEF LstFail, Goto, Close
<1>29. ASSUME NEW n \in Nodes, StopSwap(n) PROVE TypeOK'
  BY <1>29 DEF StopSwap
<1>30. ASSUME NEW n \in Nodes, StopFinish(n) PROVE TypeOK'
  BY <1>30 DEF StopFinish
<1>31. ASSUME NEW c \in Conns, NEW n \in Nodes, RdText(c, n) PROVE TypeOK'
  <2> DEFINE i == Head(wire[c][n]).id
  <2>1. i \in Ids /\ wire' \in [Conns -> [Nodes -> Seq(Frames)]]
    BY <1>31, RecvTyped, FrameFields DEF RdText, Receive
  <2>2. QED  BY <2>1, <1>31, SurfaceTyped DEF RdText
<1>32. ASSUME NEW c \in Conns, NEW n \in Nodes, RdOffer(c, n) PROVE TypeOK'
  <2> DEFINE i == Head(wire[c][n]).id
  <2>1. i \in Ids /\ wire' \in [Conns -> [Nodes -> Seq(Frames)]]
    BY <1>32, RecvTyped, FrameFields DEF RdOffer, Receive
  <2>2. QED  BY <2>1, <1>32 DEF RdOffer
<1>33. ASSUME NEW c \in Conns, NEW n \in Nodes, RdReceipt(c, n) PROVE TypeOK'
  <2> DEFINE f == Head(wire[c][n])
  <2>1. wire' \in [Conns -> [Nodes -> Seq(Frames)]]
    BY <1>33, RecvTyped DEF RdReceipt, Receive
  <2>2. f.state \in {"sent", "sendFailed", "DELIVERED", "READ"}
    BY <1>33, RecvTyped, FrameFields DEF RdReceipt, Receive
  <2>3. said' \in [Msgs -> Seq({"sent", "sendFailed", "DELIVERED", "READ"})]
    <3> HIDE DEF f
    <3>1. CASE f.id \in Msgs
      <4>1. Say(f.id, f.state)
        BY <3>1, <1>33 DEF RdReceipt, f
      <4>2. Append(said[f.id], f.state) \in Seq({"sent", "sendFailed", "DELIVERED", "READ"})
        BY <2>2, <3>1
      <4>3. QED  BY <3>1, <4>1, <4>2 DEF Say
    <3>2. CASE f.id \notin Msgs
      BY <3>2, <1>33 DEF RdReceipt, f
    <3>3. QED  BY <3>1, <3>2
  <2>4. QED  BY <2>1, <2>3, <1>33 DEF RdReceipt
<1>34. ASSUME NEW c \in Conns, NEW n \in Nodes, RdOther(c, n) PROVE TypeOK'
  <2>1. wire' \in [Conns -> [Nodes -> Seq(Frames)]]
    BY <1>34, RecvTyped DEF RdOther, Receive
  <2>2. QED  BY <2>1, <1>34 DEF RdOther
<1>35. ASSUME NEW c \in Conns, NEW n \in Nodes, RdFile(c, n) PROVE TypeOK'
  <2>1. wire' \in [Conns -> [Nodes -> Seq(Frames)]]
    BY <1>35, RecvTyped DEF RdFile, Receive
  <2>2. cur[c][n] \in Ids
    BY <1>35 DEF RdFile, BookInv, HandlingOK
  <2>3. QED  BY <2>1, <2>2, <1>35, SurfaceTyped DEF RdFile
<1>36. ASSUME NEW c \in Conns, NEW n \in Nodes, RdFileLost(c, n) PROVE TypeOK'
  <2>1. wire' \in [Conns -> [Nodes -> Seq(Frames)]]
    BY <1>36, RecvTyped DEF RdFileLost
  <2>2. QED  BY <2>1, <1>36 DEF RdFileLost
<1>37. ASSUME NEW c \in Conns, NEW n \in Nodes, RdAck(c, n) PROVE TypeOK'
  <2>1. cur[c][n] \in Ids
    BY <1>37 DEF RdAck, BookInv, HandlingOK
  <2>2. wire' \in [Conns -> [Nodes -> Seq(Frames)]]
    BY <2>1, <1>37, FrameMembers, SendTyped DEF RdAck, SendErr
  <2>3. QED  BY <2>2, <1>37 DEF RdAck
<1>38. ASSUME NEW c \in Conns, NEW n \in Nodes, RdErr(c, n) PROVE TypeOK'
  BY <1>38 DEF RdErr
<1>39. ASSUME NEW c \in Conns, NEW n \in Nodes, RdDrop(c, n) PROVE TypeOK'
  BY <1>39 DEF RdDrop, DropLink, Close
<1>40. ASSUME NEW c \in Conns, NEW n \in Nodes, RdOffline(c, n) PROVE TypeOK'
  BY <1>40 DEF RdOffline
<1>41. ASSUME NEW c \in Conns, NEW n \in Nodes, ConnDown(c, n) PROVE TypeOK'
  BY <1>41 DEF ConnDown, Close
<1>42. ASSUME NEW c \in Conns, NEW n \in Nodes, ConnFail(c, n) PROVE TypeOK'
  BY <1>42 DEF ConnFail, Close
<1>43. CASE UNCHANGED vars
  BY <1>43 DEF vars
<1>44. QED
  <2> HIDE DEF TypeOK
  <2>1. ASSUME NEW n \in Nodes, NEW x \in Diallers, DialStep(n, x) PROVE TypeOK'
    BY <2>1, <1>6, <1>7, <1>8, <1>9, <1>10, <1>11 DEF DialStep
  <2>2. ASSUME NEW n \in Nodes, NEW x \in Procs, AdoptStep(n, x) PROVE TypeOK'
    BY <2>2, <1>12, <1>13 DEF AdoptStep
  <2>3. ASSUME NEW n \in Nodes, SndStep(n) PROVE TypeOK'
    BY <2>3, <1>14, <1>15, <1>16, <1>17, <1>18, <1>19, <1>20, <1>21, <1>22 DEF SndStep
  <2>4. ASSUME NEW n \in Nodes, LstStep(n) PROVE TypeOK'
    BY <2>4, <1>23, <1>24, <1>25, <1>26, <1>27, <1>28 DEF LstStep
  <2>5. ASSUME NEW c \in Conns, NEW n \in Nodes, RdStep(c, n) PROVE TypeOK'
    BY <2>5, <1>31, <1>32, <1>33, <1>34, <1>35, <1>36, <1>37, <1>38, <1>39, <1>40 DEF RdStep
  <2>6. QED
    BY <2>1, <2>2, <2>3, <2>4, <2>5, <1>1, <1>2, <1>3, <1>4, <1>5,
       <1>29, <1>30, <1>41, <1>42, <1>43 DEF Next

\* The types BookStep needs.
BookTypes ==
  /\ outbox \in [Nodes -> Seq(Msgs)]
  /\ req \in [Nodes -> Msgs \cup {NoMsg}]
  /\ att \in [Nodes -> 0 .. Attempts]
  /\ pc \in [Nodes -> [Procs -> PCs]]
  /\ target \in [Nodes -> Nodes \cup {NoNode}]
  /\ conn \in [Nodes -> [Procs -> Conns \cup {NoConn}]]
  /\ rd \in [Conns -> [Nodes -> RDs]]
  /\ cur \in [Conns -> [Nodes -> Ids \cup {NoMsg}]]

\* Every step keeps the bookkeeping of deliver, Diagnose, listenLoop and recvLoop
\* right: whose requests they work on, attempts left, the ends they write to.
LEMMA BookStep == TypeOK /\ BookInv /\ HoldingOK /\ [Next]_vars => BookInv'
<1> SUFFICES ASSUME TypeOK, BookInv, HoldingOK, [Next]_vars PROVE BookInv'
  OBVIOUS
<1>t. BookTypes
  BY DEF TypeOK, BookTypes
<1> USE <1>t, RuntimeAssumption DEF BookTypes, BookInv, RequestsOK, AttemptsLeft, WriterOK,
      HandlingOK, PointsOK, Procs, Diallers, apiVars, procVars, connVars, eventVars
<1>1. ASSUME NEW m \in Msgs, SendCall(m) PROVE BookInv'
  BY <1>1 DEF SendCall
<1>2. ASSUME NEW m \in Msgs, SendReturn(m) PROVE BookInv'
  <2> HIDE DEF BookInv, RequestsOK, AttemptsLeft, WriterOK, HandlingOK, PointsOK
  <2>1. RequestsOK'
    <3>1. ASSUME NEW n \in Nodes, NEW i \in DOMAIN outbox'[n] PROVE Owner[outbox'[n][i]] = n
      <4>1. CASE n = Owner[m] /\ outbox' = [outbox EXCEPT ![Owner[m]] = Append(@, m)]
        BY <3>1, <4>1 DEF BookInv, RequestsOK
      <4>2. CASE ~(n = Owner[m] /\ outbox' = [outbox EXCEPT ![Owner[m]] = Append(@, m)])
        BY <3>1, <4>2, <1>2 DEF SendReturn, BookInv, RequestsOK
      <4>3. QED  BY <4>1, <4>2
    <3>2. QED  BY <3>1, <1>2 DEF SendReturn, BookInv, RequestsOK
  <2>2. AttemptsLeft'
    BY <1>2 DEF SendReturn, BookInv, AttemptsLeft
  <2>3. WriterOK'
    BY <1>2 DEF SendReturn, BookInv, WriterOK
  <2>4. HandlingOK'
    BY <1>2 DEF SendReturn, BookInv, HandlingOK
  <2>5. PointsOK'
    BY <1>2 DEF SendReturn, BookInv, PointsOK
  <2>6. QED  BY <2>1, <2>2, <2>3, <2>4, <2>5 DEF BookInv
<1>3. ASSUME NEW n \in Nodes, NEW p \in Nodes, MarkRead(n, p) PROVE BookInv'
  BY <1>3 DEF MarkRead
<1>4. ASSUME NEW n \in Nodes, NEW p \in Nodes, SendTyping(n, p) PROVE BookInv'
  BY <1>4 DEF SendTyping
<1>5. ASSUME NEW n \in Nodes, NEW p \in Nodes, Diagnose(n, p) PROVE BookInv'
  BY <1>5 DEF Diagnose, Goto
<1>6. ASSUME NEW n \in Nodes, NEW x \in Diallers, DialOffer(n, x) PROVE BookInv'
  BY <1>6 DEF DialOffer, Goto
<1>7. ASSUME NEW n \in Nodes, NEW x \in Diallers, DialAnswer(n, x) PROVE BookInv'
  BY <1>7 DEF DialAnswer, Goto
<1>8. ASSUME NEW n \in Nodes, NEW x \in Diallers, DialOpen(n, x) PROVE BookInv'
  BY <1>8 DEF DialOpen, Goto
<1>9. ASSUME NEW n \in Nodes, NEW x \in Diallers, DialHandshake(n, x) PROVE BookInv'
  BY <1>9 DEF DialHandshake, Goto
<1>10. ASSUME NEW n \in Nodes, NEW x \in Diallers, DialNotFound(n, x) PROVE BookInv'
  BY <1>10 DEF DialNotFound, Goto, AfterFailure
<1>11. ASSUME NEW n \in Nodes, NEW x \in Diallers, DialFail(n, x) PROVE BookInv'
  BY <1>11 DEF DialFail, Goto, AfterFailure
<1>12. ASSUME NEW n \in Nodes, NEW x \in Procs, Adopt(n, x) PROVE BookInv'
  <2> HIDE DEF BookInv, RequestsOK, AttemptsLeft, WriterOK, HandlingOK, PointsOK
  <2>1. RequestsOK'
    BY <1>12 DEF Adopt, Goto, BookInv, RequestsOK
  <2>2. AttemptsLeft'
    BY <1>12 DEF Adopt, Goto, BookInv, AttemptsLeft
  <2>3. WriterOK'
    BY <1>12 DEF Adopt, Goto, BookInv, WriterOK, HoldingOK, Holding, Building
  <2>4. HandlingOK'
    BY <1>12 DEF Adopt, Goto, BookInv, HandlingOK
  <2>5. PointsOK'
    BY <1>12 DEF Adopt, Goto, BookInv, PointsOK
  <2>6. QED  BY <2>1, <2>2, <2>3, <2>4, <2>5 DEF BookInv
<1>13. ASSUME NEW n \in Nodes, NEW x \in Procs, Announce(n, x) PROVE BookInv'
  <2> HIDE DEF BookInv, RequestsOK, AttemptsLeft, WriterOK, HandlingOK, PointsOK
  <2>1. RequestsOK'
    BY <1>13 DEF Announce, Goto, BookInv, RequestsOK
  <2>2. AttemptsLeft'
    BY <1>13 DEF Announce, Goto, BookInv, AttemptsLeft
  <2>3. WriterOK'
    <3>1. x = "snd" => conn[n]["snd"] \in Conns
      BY <1>13 DEF Announce, HoldingOK, Holding
    <3>2. QED  BY <3>1, <1>13 DEF Announce, Goto, BookInv, WriterOK
  <2>4. HandlingOK'
    BY <1>13 DEF Announce, Goto, BookInv, HandlingOK
  <2>5. PointsOK'
    BY <1>13 DEF Announce, Goto, BookInv, PointsOK
  <2>6. QED  BY <2>1, <2>2, <2>3, <2>4, <2>5 DEF BookInv
<1>14. ASSUME NEW n \in Nodes, SndTake(n) PROVE BookInv'
  <2> HIDE DEF BookInv, RequestsOK, AttemptsLeft, WriterOK, HandlingOK, PointsOK
  <2>1. RequestsOK'
    <3>1. ASSUME NEW q \in Nodes, NEW i \in DOMAIN outbox'[q] PROVE Owner[outbox'[q][i]] = q
      <4>1. CASE q = n
        <5>1. outbox'[q] = Tail(outbox[n]) /\ outbox[n] \in Seq(Msgs) /\ outbox[n] # <<>>
          BY <4>1, <1>14 DEF SndTake
        <5>2. i + 1 \in DOMAIN outbox[n] /\ outbox'[q][i] = outbox[n][i + 1]
          BY <3>1, <5>1
        <5>3. QED  BY <4>1, <5>2 DEF BookInv, RequestsOK
      <4>2. CASE q # n
        BY <3>1, <4>2, <1>14 DEF SndTake, BookInv, RequestsOK
      <4>3. QED  BY <4>1, <4>2
    <3>2. Head(outbox[n]) \in Msgs /\ Dest[Head(outbox[n])] \in Nodes \ {n}
      <4>1. Head(outbox[n]) = outbox[n][1] /\ 1 \in DOMAIN outbox[n] /\ Head(outbox[n]) \in Msgs
        BY <1>14 DEF SndTake
      <4>2. QED  BY <4>1, <1>14 DEF SndTake, BookInv, RequestsOK
    <3>3. QED  BY <3>1, <3>2, <1>14 DEF SndTake, Goto, BookInv, RequestsOK
  <2>2. AttemptsLeft'
    BY <1>14 DEF SndTake, Goto, BookInv, AttemptsLeft
  <2>3. WriterOK'
    <3>1. Head(outbox[n]) \in Msgs
      BY <1>14 DEF SndTake
    <3>2. links[n][Dest[Head(outbox[n])]] \in Conns \cup {NoConn}
      BY <3>1, <1>14 DEF SndTake, TypeOK
    <3>3. QED  BY <3>2, <1>14 DEF SndTake, Goto, BookInv, WriterOK
  <2>4. HandlingOK'
    BY <1>14 DEF SndTake, Goto, BookInv, HandlingOK
  <2>5. PointsOK'
    BY <1>14 DEF SndTake, Goto, BookInv, PointsOK
  <2>6. QED  BY <2>1, <2>2, <2>3, <2>4, <2>5 DEF BookInv
<1>15. ASSUME NEW n \in Nodes, SndBadURI(n) PROVE BookInv'
  <2> HIDE DEF BookInv, RequestsOK, AttemptsLeft, WriterOK, HandlingOK, PointsOK
  <2>1. RequestsOK'
    <3>1. ASSUME NEW q \in Nodes, NEW i \in DOMAIN outbox'[q] PROVE Owner[outbox'[q][i]] = q
      <4>1. CASE q = n
        <5>1. outbox'[q] = Tail(outbox[n]) /\ outbox[n] \in Seq(Msgs) /\ outbox[n] # <<>>
          BY <4>1, <1>15 DEF SndBadURI
        <5>2. i + 1 \in DOMAIN outbox[n] /\ outbox'[q][i] = outbox[n][i + 1]
          BY <3>1, <5>1
        <5>3. QED  BY <4>1, <5>2 DEF BookInv, RequestsOK
      <4>2. CASE q # n
        BY <3>1, <4>2, <1>15 DEF SndBadURI, BookInv, RequestsOK
      <4>3. QED  BY <4>1, <4>2
    <3>2. QED  BY <3>1, <1>15 DEF SndBadURI, BookInv, RequestsOK
  <2>2. AttemptsLeft'
    BY <1>15 DEF SndBadURI, BookInv, AttemptsLeft
  <2>3. WriterOK'
    BY <1>15 DEF SndBadURI, BookInv, WriterOK
  <2>4. HandlingOK'
    BY <1>15 DEF SndBadURI, BookInv, HandlingOK
  <2>5. PointsOK'
    BY <1>15 DEF SndBadURI, BookInv, PointsOK
  <2>6. QED  BY <2>1, <2>2, <2>3, <2>4, <2>5 DEF BookInv
<1>16. ASSUME NEW n \in Nodes, SndClosed(n) PROVE BookInv'
  <2> HIDE DEF BookInv, RequestsOK, AttemptsLeft, WriterOK, HandlingOK, PointsOK
  <2>0. PICK l \in {"idle", "exit"} : pc' = [pc EXCEPT ![n]["snd"] = l]
    BY <1>16 DEF SndClosed, Goto
  <2>u. UNCHANGED <<outbox, att, target, conn, rd, cur>> /\ req' = [req EXCEPT ![n] = NoMsg]
    BY <1>16 DEF SndClosed
  <2>1. RequestsOK'
    BY <2>0, <2>u DEF BookInv, RequestsOK
  <2>2. AttemptsLeft'
    BY <2>0, <2>u DEF BookInv, AttemptsLeft
  <2>3. WriterOK'
    BY <2>0, <2>u DEF BookInv, WriterOK
  <2>4. HandlingOK'
    BY <2>0, <2>u DEF BookInv, HandlingOK
  <2>5. PointsOK'
    BY <2>0, <2>u DEF BookInv, PointsOK
  <2>6. QED  BY <2>1, <2>2, <2>3, <2>4, <2>5 DEF BookInv
<1>17. ASSUME NEW n \in Nodes, SndBackoff(n) PROVE BookInv'
  <2> HIDE DEF BookInv, RequestsOK, AttemptsLeft, WriterOK, HandlingOK, PointsOK
  <2>0. PICK l \in {"find", "idle"} : pc' = [pc EXCEPT ![n]["snd"] = l]
    BY <1>17 DEF SndBackoff, Goto, Report
  <2>u. UNCHANGED <<outbox, target, conn, rd, cur>> /\ att' = [att EXCEPT ![n] = @ + 1]
    BY <1>17 DEF SndBackoff
  <2>g. /\ pc[n]["snd"] = "backoff"
        /\ l = "find" => req' = req /\ att[n] + 1 < Attempts
        /\ l = "idle" => req' = [req EXCEPT ![n] = NoMsg]
    BY <2>0, <1>17 DEF SndBackoff, Goto, Report
  <2>1. RequestsOK'
    BY <2>0, <2>u, <2>g DEF BookInv, RequestsOK
  <2>2. AttemptsLeft'
    BY <2>0, <2>u, <2>g DEF BookInv, AttemptsLeft
  <2>3. WriterOK'
    BY <2>0, <2>u, <2>g DEF BookInv, WriterOK
  <2>4. HandlingOK'
    BY <2>0, <2>u, <2>g DEF BookInv, HandlingOK
  <2>5. PointsOK'
    BY <2>0, <2>u, <2>g DEF BookInv, PointsOK
  <2>6. QED  BY <2>1, <2>2, <2>3, <2>4, <2>5 DEF BookInv
<1>18. ASSUME NEW n \in Nodes, SndWrite(n) PROVE BookInv'
  <2> HIDE DEF BookInv, RequestsOK, AttemptsLeft, WriterOK, HandlingOK, PointsOK
  <2>0. PICK l \in {"chunks", "sent", "drop"} : pc' = [pc EXCEPT ![n]["snd"] = l]
    BY <1>18 DEF SndWrite, Goto
  <2>u. UNCHANGED <<outbox, req, att, target, conn, rd, cur>>
    BY <1>18 DEF SndWrite
  <2>g. pc[n]["snd"] = "write"
    BY <1>18 DEF SndWrite
  <2>1. RequestsOK'
    BY <2>0, <2>u, <2>g DEF BookInv, RequestsOK
  <2>2. AttemptsLeft'
    BY <2>0, <2>u, <2>g DEF BookInv, AttemptsLeft
  <2>3. WriterOK'
    BY <2>0, <2>u, <2>g DEF BookInv, WriterOK
  <2>4. HandlingOK'
    BY <2>0, <2>u, <2>g DEF BookInv, HandlingOK
  <2>5. PointsOK'
    BY <2>0, <2>u, <2>g DEF BookInv, PointsOK
  <2>6. QED  BY <2>1, <2>2, <2>3, <2>4, <2>5 DEF BookInv
<1>19. ASSUME NEW n \in Nodes, SndNoFile(n) PROVE BookInv'
  BY <1>19 DEF SndNoFile, Report, Goto
<1>20. ASSUME NEW n \in Nodes, SndChunks(n) PROVE BookInv'
  <2> HIDE DEF BookInv, RequestsOK, AttemptsLeft, WriterOK, HandlingOK, PointsOK
  <2>0. PICK l \in {"chunks", "sent", "drop"} : pc' = [pc EXCEPT ![n]["snd"] = l]
    BY <1>20 DEF SndChunks, Goto
  <2>u. UNCHANGED <<outbox, req, att, target, conn, rd, cur>>
    BY <1>20 DEF SndChunks
  <2>g. pc[n]["snd"] = "chunks"
    BY <1>20 DEF SndChunks
  <2>1. RequestsOK'
    BY <2>0, <2>u, <2>g DEF BookInv, RequestsOK
  <2>2. AttemptsLeft'
    BY <2>0, <2>u, <2>g DEF BookInv, AttemptsLeft
  <2>3. WriterOK'
    BY <2>0, <2>u, <2>g DEF BookInv, WriterOK
  <2>4. HandlingOK'
    BY <2>0, <2>u, <2>g DEF BookInv, HandlingOK
  <2>5. PointsOK'
    BY <2>0, <2>u, <2>g DEF BookInv, PointsOK
  <2>6. QED  BY <2>1, <2>2, <2>3, <2>4, <2>5 DEF BookInv
<1>21. ASSUME NEW n \in Nodes, SndSent(n) PROVE BookInv'
  BY <1>21 DEF SndSent, Report, Goto
<1>22. ASSUME NEW n \in Nodes, SndDrop(n) PROVE BookInv'
  BY <1>22 DEF SndDrop, Report, Goto
<1>23. ASSUME NEW n \in Nodes, LstHead(n) PROVE BookInv'
  <2> HIDE DEF BookInv, RequestsOK, AttemptsLeft, WriterOK, HandlingOK, PointsOK
  <2>0. PICK l \in {"exit", "offer"} : pc' = [pc EXCEPT ![n]["lst"] = l]
    BY <1>23 DEF LstHead, Goto
  <2>u. UNCHANGED <<outbox, req, att, target, conn, rd, cur>>
    BY <1>23 DEF LstHead
  <2>1. RequestsOK'
    BY <2>0, <2>u DEF BookInv, RequestsOK
  <2>2. AttemptsLeft'
    BY <2>0, <2>u DEF BookInv, AttemptsLeft
  <2>3. WriterOK'
    BY <2>0, <2>u DEF BookInv, WriterOK
  <2>4. HandlingOK'
    BY <2>0, <2>u DEF BookInv, HandlingOK
  <2>5. PointsOK'
    BY <2>0, <2>u DEF BookInv, PointsOK
  <2>6. QED  BY <2>1, <2>2, <2>3, <2>4, <2>5 DEF BookInv
<1>24. ASSUME NEW n \in Nodes, LstOffer(n) PROVE BookInv'
  <2> HIDE DEF BookInv, RequestsOK, AttemptsLeft, WriterOK, HandlingOK, PointsOK
  <2>0. PICK l \in {"open", "head"} : pc' = [pc EXCEPT ![n]["lst"] = l]
    BY <1>24 DEF LstOffer, Goto
  <2>u. /\ UNCHANGED <<outbox, req, att, target, rd, cur>>
        /\ \E c \in Conns : conn' = [conn EXCEPT ![n]["lst"] = c]
    BY <1>24 DEF LstOffer
  <2>1. RequestsOK'
    BY <2>0, <2>u DEF BookInv, RequestsOK
  <2>2. AttemptsLeft'
    BY <2>0, <2>u DEF BookInv, AttemptsLeft
  <2>3. WriterOK'
    BY <2>0, <2>u DEF BookInv, WriterOK
  <2>4. HandlingOK'
    BY <2>0, <2>u DEF BookInv, HandlingOK
  <2>5. PointsOK'
    BY <2>0, <2>u DEF BookInv, PointsOK
  <2>6. QED  BY <2>1, <2>2, <2>3, <2>4, <2>5 DEF BookInv
<1>25. ASSUME NEW n \in Nodes, LstStopped(n) PROVE BookInv'
  BY <1>25 DEF LstStopped, Goto
<1>26. ASSUME NEW n \in Nodes, LstOpen(n) PROVE BookInv'
  BY <1>26 DEF LstOpen, Goto
<1>27. ASSUME NEW n \in Nodes, LstHandshake(n) PROVE BookInv'
  <2> HIDE DEF BookInv, RequestsOK, AttemptsLeft, WriterOK, HandlingOK, PointsOK
  <2>1. RequestsOK'
    BY <1>27 DEF LstHandshake, Goto, BookInv, RequestsOK
  <2>2. AttemptsLeft'
    BY <1>27 DEF LstHandshake, Goto, BookInv, AttemptsLeft
  <2>3. WriterOK'
    BY <1>27 DEF LstHandshake, Goto, BookInv, WriterOK
  <2>4. HandlingOK'
    BY <1>27 DEF LstHandshake, Goto, BookInv, HandlingOK
  <2>5. PointsOK'
    BY <1>27 DEF LstHandshake, Goto, BookInv, PointsOK
  <2>6. QED  BY <2>1, <2>2, <2>3, <2>4, <2>5 DEF BookInv
<1>28. ASSUME NEW n \in Nodes, LstFail(n) PROVE BookInv'
  BY <1>28 DEF LstFail, Goto
<1>29. ASSUME NEW n \in Nodes, StopSwap(n) PROVE BookInv'
  BY <1>29 DEF StopSwap
<1>30. ASSUME NEW n \in Nodes, StopFinish(n) PROVE BookInv'
  BY <1>30 DEF StopFinish
<1>31. ASSUME NEW c \in Conns, NEW n \in Nodes, RdText(c, n) PROVE BookInv'
  <2> HIDE DEF BookInv, RequestsOK, AttemptsLeft, WriterOK, HandlingOK, PointsOK
  <2>1. RequestsOK'
    BY <1>31 DEF RdText, Surface, BookInv, RequestsOK
  <2>2. AttemptsLeft'
    BY <1>31 DEF RdText, Surface, BookInv, AttemptsLeft
  <2>3. WriterOK'
    BY <1>31 DEF RdText, Surface, BookInv, WriterOK
  <2>4. HandlingOK'
    <3>1. Head(wire[c][n]).id \in Ids
      BY <1>31, RecvTyped, FrameFields DEF RdText, Receive
    <3>2. QED  BY <3>1, <1>31 DEF RdText, Surface, BookInv, HandlingOK
  <2>5. PointsOK'
    BY <1>31 DEF RdText, Surface, BookInv, PointsOK
  <2>6. QED  BY <2>1, <2>2, <2>3, <2>4, <2>5 DEF BookInv
<1>32. ASSUME NEW c \in Conns, NEW n \in Nodes, RdOffer(c, n) PROVE BookInv'
  <2> HIDE DEF BookInv, RequestsOK, AttemptsLeft, WriterOK, HandlingOK, PointsOK
  <2>1. RequestsOK'
    BY <1>32 DEF RdOffer, BookInv, RequestsOK
  <2>2. AttemptsLeft'
    BY <1>32 DEF RdOffer, BookInv, AttemptsLeft
  <2>3. WriterOK'
    BY <1>32 DEF RdOffer, BookInv, WriterOK
  <2>4. HandlingOK'
    <3>1. Head(wire[c][n]).id \in Ids
      BY <1>32, RecvTyped, FrameFields DEF RdOffer, Receive
    <3>2. QED  BY <3>1, <1>32 DEF RdOffer, BookInv, HandlingOK
  <2>5. PointsOK'
    BY <1>32 DEF RdOffer, BookInv, PointsOK
  <2>6. QED  BY <2>1, <2>2, <2>3, <2>4, <2>5 DEF BookInv
<1>33. ASSUME NEW c \in Conns, NEW n \in Nodes, RdReceipt(c, n) PROVE BookInv'
  BY <1>33 DEF RdReceipt
<1>34. ASSUME NEW c \in Conns, NEW n \in Nodes, RdOther(c, n) PROVE BookInv'
  BY <1>34 DEF RdOther
<1>35. ASSUME NEW c \in Conns, NEW n \in Nodes, RdFile(c, n) PROVE BookInv'
  BY <1>35 DEF RdFile, Surface
<1>36. ASSUME NEW c \in Conns, NEW n \in Nodes, RdFileLost(c, n) PROVE BookInv'
  BY <1>36 DEF RdFileLost
<1>37. ASSUME NEW c \in Conns, NEW n \in Nodes, RdAck(c, n) PROVE BookInv'
  BY <1>37 DEF RdAck
<1>38. ASSUME NEW c \in Conns, NEW n \in Nodes, RdErr(c, n) PROVE BookInv'
  BY <1>38 DEF RdErr
<1>39. ASSUME NEW c \in Conns, NEW n \in Nodes, RdDrop(c, n) PROVE BookInv'
  BY <1>39 DEF RdDrop
<1>40. ASSUME NEW c \in Conns, NEW n \in Nodes, RdOffline(c, n) PROVE BookInv'
  BY <1>40 DEF RdOffline
<1>41. ASSUME NEW c \in Conns, NEW n \in Nodes, ConnDown(c, n) PROVE BookInv'
  BY <1>41 DEF ConnDown
<1>42. ASSUME NEW c \in Conns, NEW n \in Nodes, ConnFail(c, n) PROVE BookInv'
  BY <1>42 DEF ConnFail
<1>43. CASE UNCHANGED vars
  BY <1>43 DEF vars
<1>44. QED
  <2> HIDE DEF BookInv
  <2>1. ASSUME NEW n \in Nodes, NEW x \in Diallers, DialStep(n, x) PROVE BookInv'
    BY <2>1, <1>6, <1>7, <1>8, <1>9, <1>10, <1>11 DEF DialStep
  <2>2. ASSUME NEW n \in Nodes, NEW x \in Procs, AdoptStep(n, x) PROVE BookInv'
    BY <2>2, <1>12, <1>13 DEF AdoptStep
  <2>3. ASSUME NEW n \in Nodes, SndStep(n) PROVE BookInv'
    BY <2>3, <1>14, <1>15, <1>16, <1>17, <1>18, <1>19, <1>20, <1>21, <1>22 DEF SndStep
  <2>4. ASSUME NEW n \in Nodes, LstStep(n) PROVE BookInv'
    BY <2>4, <1>23, <1>24, <1>25, <1>26, <1>27, <1>28 DEF LstStep
  <2>5. ASSUME NEW c \in Conns, NEW n \in Nodes, RdStep(c, n) PROVE BookInv'
    BY <2>5, <1>31, <1>32, <1>33, <1>34, <1>35, <1>36, <1>37, <1>38, <1>39, <1>40 DEF RdStep
  <2>6. QED
    BY <2>1, <2>2, <2>3, <2>4, <2>5, <1>1, <1>2, <1>3, <1>4, <1>5,
       <1>29, <1>30, <1>41, <1>42, <1>43 DEF Next

\* The types LinkStep needs.
LinkTypes ==
  /\ pc \in [Nodes -> [Procs -> PCs]]
  /\ conn \in [Nodes -> [Procs -> Conns \cup {NoConn}]]
  /\ ini \in [Conns -> Nodes \cup {NoNode}]
  /\ rsp \in [Conns -> Nodes \cup {NoNode}]
  /\ sdp \in [Conns -> {"none", "offer", "answer", "used"}]
  /\ done \in [Conns -> [Nodes -> BOOLEAN]]
  /\ rd \in [Conns -> [Nodes -> RDs]]
  /\ links \in [Nodes -> [Nodes -> Conns \cup {NoConn}]]
  /\ closing \in [Nodes -> SUBSET Conns]

\* A step that leaves the table alone: no goroutine starts to hold a
\* connection or finishes adopting one, no reader starts or leaves its link,
\* and ends are only ever closed.
Calm ==
  /\ UNCHANGED <<ini, rsp, links, closing>>
  /\ \A c \in Conns : sdp'[c] = sdp[c] \/ (sdp[c] = "answer" /\ sdp'[c] = "used")
  /\ \A n \in Nodes, x \in Procs :
       /\ Building(n, x)' => Building(n, x)
       /\ pc'[n][x] = "announce" <=> pc[n][x] = "announce"
       /\ conn'[n][x] = conn[n][x] \/ (~Holding(n, x) /\ ~Holding(n, x)')
  /\ \A c \in Conns, n \in Nodes :
       /\ done[c][n] => done'[c][n]
       /\ rd'[c][n] = "off" <=> rd[c][n] = "off"
       /\ Reading(c, n)' <=> Reading(c, n)

\* A calm step preserves the invariant about links.
LEMMA CalmStep ==
  ASSUME LinkTypes, LinkTypes', LinkInv, Calm
  PROVE  LinkInv'
<1>1. EndsOK'
  BY DEF LinkInv, EndsOK, Calm, LinkTypes
<1>2. HoldingOK'
  BY DEF LinkInv, HoldingOK, Calm, Holding, LinkTypes, Procs, Diallers
<1>3. ClaimedOK'
  BY DEF LinkInv, ClaimedOK, Calm, Claimed, LinkTypes
<1>4. BuildingOK'
  <2> SUFFICES ASSUME NEW n \in Nodes, NEW x \in Procs
               PROVE  /\ Holding(n, x)' => rd'[conn'[n][x]][n] = "off"
                      /\ Building(n, x)' =>
                           /\ \A p \in Nodes : links'[n][p] # conn'[n][x]
                           /\ conn'[n][x] \notin closing'[n]
    BY DEF BuildingOK
  <2>1. Holding(n, x)' => Holding(n, x) /\ conn'[n][x] = conn[n][x] /\ conn[n][x] \in Conns
    BY DEF Calm, Holding, LinkInv, HoldingOK, Procs
  <2>2. QED  BY <2>1 DEF LinkInv, BuildingOK, Calm, Holding
<1>5. \A c \in Conns, n \in Nodes : Adopted(c, n)' <=> Adopted(c, n)
  <2> SUFFICES ASSUME NEW c \in Conns, NEW n \in Nodes
               PROVE  Adopted(c, n)' <=> Adopted(c, n)
    OBVIOUS
  <2>1. \A x \in Procs : (pc'[n][x] = "announce" /\ conn'[n][x] = c)
                           <=> (pc[n][x] = "announce" /\ conn[n][x] = c)
    BY DEF Calm, Holding
  <2>2. Announcing(c, n)' <=> Announcing(c, n)
    BY <2>1 DEF Announcing
  <2>3. Reading(c, n)' <=> Reading(c, n)
    BY DEF Calm
  <2>4. QED  BY <2>2, <2>3 DEF Adopted
<1>6. NoOrphanLink'
  BY <1>5 DEF LinkInv, NoOrphanLink, Calm, Other
<1>7. RegisteredLinkIsRead'
  BY <1>5 DEF LinkInv, RegisteredLinkIsRead, Calm, Other, LinkTypes
<1>8. QED  BY <1>1, <1>2, <1>3, <1>4, <1>6, <1>7 DEF LinkInv

\* The goroutines that build links go on as in a calm step.
Settled ==
  /\ UNCHANGED <<ini, rsp, sdp, conn>>
  /\ \A n \in Nodes, x \in Procs :
       /\ Building(n, x)' <=> Building(n, x)
       /\ pc'[n][x] = "announce" <=> pc[n][x] = "announce"

\* A step that takes links out of the table: an entry goes to NoConn, its end
\* is closed or handed to Stop, and a reader that leaves its link leaves an
\* end that is closed and not registered.
Tidy ==
  /\ Settled
  /\ \A c \in Conns, n \in Nodes : rd'[c][n] = "off" <=> rd[c][n] = "off"
  /\ \A c \in Conns, n \in Nodes :
       (Reading(c, n)' <=> Reading(c, n)) \/ (/\ ~Reading(c, n)'
                                              /\ \A p \in Nodes : links'[n][p] # c)
  /\ \A n \in Nodes, p \in Nodes : links'[n][p] \in {links[n][p], NoConn}
  /\ \A n \in Nodes :
       closing'[n] \subseteq closing[n] \cup {links[n][p] : p \in Nodes}
  /\ \A c \in Conns, n \in Nodes :
       ~done'[c][n] =>
         /\ ~done[c][n]
         /\ c \in closing[n] => c \in closing'[n]
         /\ links[n][Other(c, n)] = c /\ Other(c, n) \in Nodes =>
              links'[n][Other(c, n)] = c \/ c \in closing'[n]

\* Two goroutines of a node never hold the same connection.
LEMMA HoldersDiffer ==
  ASSUME EndsOK, HoldingOK, NEW n \in Nodes, NEW x \in Procs, NEW y \in Procs,
         Holding(n, x), Holding(n, y), x # y
  PROVE  conn[n][x] # conn[n][y]
<1>1. CASE x \in Diallers /\ y \in Diallers
  BY <1>1 DEF HoldingOK, Diallers
<1>2. CASE x \in Diallers /\ y = "lst"
  BY <1>2, RuntimeAssumption DEF HoldingOK, EndsOK
<1>3. CASE x = "lst" /\ y \in Diallers
  BY <1>3, RuntimeAssumption DEF HoldingOK, EndsOK
<1>4. QED  BY <1>1, <1>2, <1>3 DEF Procs

\* The peer of a claimed end is a node.
LEMMA PeerOfClaimed ==
  ASSUME LinkTypes, EndsOK, NEW c \in Conns, NEW n \in Nodes, Claimed(c, n)
  PROVE  Other(c, n) \in Nodes
BY RuntimeAssumption DEF LinkTypes, EndsOK, Claimed, Other

\* An adopted end is claimed.
LEMMA AdoptedIsClaimed ==
  ASSUME LinkInv, NEW c \in Conns, NEW n \in Nodes, Adopted(c, n)
  PROVE  Claimed(c, n)
<1>1. CASE Reading(c, n)
  BY <1>1 DEF LinkInv, ClaimedOK, Reading
<1>2. CASE Announcing(c, n)
  BY <1>2 DEF LinkInv, HoldingOK, Announcing, Holding, Claimed, Procs
<1>3. QED  BY <1>1, <1>2 DEF Adopted

\* A tidy step (dropLink or Stop) preserves the invariant about links.
LEMMA TidyStep ==
  ASSUME LinkTypes, LinkTypes', LinkInv, Tidy
  PROVE  LinkInv'
<1>1. EndsOK'
  BY DEF LinkInv, EndsOK, Tidy, Settled
<1>2. \A n \in Nodes, x \in Procs : Holding(n, x)' <=> Holding(n, x)
  BY DEF Tidy, Settled, Holding
<1>3. HoldingOK'
  BY <1>2 DEF LinkInv, HoldingOK, Tidy, Settled, Procs, Diallers
<1>4. \A c \in Conns, n \in Nodes : Claimed(c, n)' <=> Claimed(c, n)
  BY DEF Tidy, Settled, Claimed
<1>5. ClaimedOK'
  <2> SUFFICES ASSUME NEW n \in Nodes, NEW c \in Conns,
                      \/ rd'[c][n] # "off"
                      \/ \E p \in Nodes : links'[n][p] = c
                      \/ c \in closing'[n]
               PROVE  Claimed(c, n)
    BY <1>4 DEF ClaimedOK
  <2>1. CASE rd'[c][n] # "off"
    BY <2>1 DEF Tidy, LinkInv, ClaimedOK
  <2>2. CASE \E p \in Nodes : links'[n][p] = c
    BY <2>2, RuntimeAssumption DEF Tidy, LinkInv, ClaimedOK
  <2>3. CASE c \in closing'[n]
    BY <2>3 DEF Tidy, LinkInv, ClaimedOK
  <2>4. QED  BY <2>1, <2>2, <2>3
<1>6. BuildingOK'
  <2>1. ASSUME NEW n \in Nodes, NEW x \in Procs, Holding(n, x)'
        PROVE  rd'[conn'[n][x]][n] = "off"
    <3>1. Holding(n, x) /\ conn'[n][x] = conn[n][x] /\ conn[n][x] \in Conns
      BY <1>2, <2>1 DEF Tidy, Settled, LinkInv, HoldingOK, Procs
    <3>2. QED  BY <3>1 DEF LinkInv, BuildingOK, Tidy
  <2>2. ASSUME NEW n \in Nodes, NEW x \in Procs, Building(n, x)'
        PROVE  /\ \A p \in Nodes : links'[n][p] # conn'[n][x]
               /\ conn'[n][x] \notin closing'[n]
    <3>1. Building(n, x) /\ Holding(n, x) /\ conn'[n][x] = conn[n][x]
      BY <2>2 DEF Tidy, Settled, Holding
    <3>2. conn[n][x] \in Conns
      BY <3>1 DEF LinkInv, HoldingOK, Procs
    <3>3. /\ \A p \in Nodes : links[n][p] # conn[n][x]
          /\ conn[n][x] \notin closing[n]
      BY <3>1 DEF LinkInv, BuildingOK
    <3>4. QED  BY <3>1, <3>2, <3>3, RuntimeAssumption DEF Tidy
  <2>3. QED  BY <2>1, <2>2 DEF BuildingOK
<1>7. \A c \in Conns, n \in Nodes : Announcing(c, n)' <=> Announcing(c, n)
  BY DEF Announcing, Tidy, Settled
<1>8. \A c \in Conns, n \in Nodes : Adopted(c, n)' => Adopted(c, n)
  BY <1>7 DEF Adopted, Tidy
<1>9. \A c \in Conns, n \in Nodes : Other(c, n)' = Other(c, n)
  BY DEF Other, Tidy, Settled
<1>10. NoOrphanLink'
  <2> SUFFICES ASSUME NEW n \in Nodes, NEW c \in Conns, Adopted(c, n)', ~done'[c][n]
               PROVE  links'[n][Other(c, n)] = c \/ c \in closing'[n]
    BY <1>9 DEF NoOrphanLink
  <2>1. Adopted(c, n) /\ Other(c, n) \in Nodes
    BY <1>8, AdoptedIsClaimed, PeerOfClaimed DEF LinkInv
  <2>2. ~done[c][n]
    BY DEF Tidy
  <2>3. links[n][Other(c, n)] = c \/ c \in closing[n]
    BY <2>1, <2>2 DEF LinkInv, NoOrphanLink
  <2>4. QED  BY <2>1, <2>3 DEF Tidy
<1>11. RegisteredLinkIsRead'
  <2>1. ASSUME NEW n \in Nodes, NEW p \in Nodes, NEW c \in Conns, links'[n][p] = c
        PROVE  Adopted(c, n)' /\ Other(c, n)' = p
    <3>1. links[n][p] = c
      BY <2>1, RuntimeAssumption DEF Tidy
    <3>2. Adopted(c, n) /\ Other(c, n) = p
      BY <3>1, RuntimeAssumption DEF LinkInv, RegisteredLinkIsRead
    <3>3. Reading(c, n)' <=> Reading(c, n)
      BY <2>1 DEF Tidy
    <3>4. QED  BY <1>7, <1>9, <3>2, <3>3 DEF Adopted
  <2>2. QED  BY <2>1 DEF RegisteredLinkIsRead, LinkTypes
<1>12. QED  BY <1>1, <1>3, <1>5, <1>6, <1>10, <1>11 DEF LinkInv

\* Every step of the runtime preserves the invariant about connections and the
\* link table.
LEMMA LinkStep == TypeOK /\ TypeOK' /\ BookInv /\ StopOK /\ LinkInv /\ [Next]_vars => LinkInv'
<1> SUFFICES ASSUME TypeOK, TypeOK', BookInv, StopOK, LinkInv, [Next]_vars PROVE LinkInv'
  OBVIOUS
<1>t. LinkTypes /\ LinkTypes'
  BY DEF TypeOK, LinkTypes
<1> USE <1>t, RuntimeAssumption DEF LinkTypes, Procs, Diallers,
      apiVars, procVars, connVars, eventVars
<1>1. ASSUME NEW m \in Msgs, SendCall(m) PROVE LinkInv'
  <2>1. Calm
    BY <1>1 DEF Calm, Building, Holding, Reading, SendCall
  <2>2. QED  BY <2>1, CalmStep
<1>2. ASSUME NEW m \in Msgs, SendReturn(m) PROVE LinkInv'
  <2>1. Calm
    BY <1>2 DEF Calm, Building, Holding, Reading, SendReturn
  <2>2. QED  BY <2>1, CalmStep
<1>3. ASSUME NEW n \in Nodes, NEW p \in Nodes, MarkRead(n, p) PROVE LinkInv'
  <2>1. Calm
    BY <1>3 DEF Calm, Building, Holding, Reading, MarkRead
  <2>2. QED  BY <2>1, CalmStep
<1>4. ASSUME NEW n \in Nodes, NEW p \in Nodes, SendTyping(n, p) PROVE LinkInv'
  <2>1. Calm
    BY <1>4 DEF Calm, Building, Holding, Reading, SendTyping
  <2>2. QED  BY <2>1, CalmStep
<1>5. ASSUME NEW n \in Nodes, NEW p \in Nodes, Diagnose(n, p) PROVE LinkInv'
  <2>1. Calm
    BY <1>5 DEF Calm, Building, Holding, Reading, Diagnose, Goto
  <2>2. QED  BY <2>1, CalmStep
<1>6. ASSUME NEW n \in Nodes, NEW x \in Diallers, DialOffer(n, x) PROVE LinkInv'
  <2> DEFINE c == CHOOSE d \in Conns : ini[d] = NoNode
             p == Peer(n, x)
  <2>1. c \in Conns /\ ini[c] = NoNode
    BY <1>6 DEF DialOffer
  <2>2. rsp[c] = NoNode /\ sdp[c] = "none"
    BY <2>1 DEF LinkInv, EndsOK
  <2>3. p \in Nodes \ {n}
    BY <1>6 DEF DialOffer, Peer, BookInv, RequestsOK
  <2>4. /\ pc[n][x] = "find"
        /\ ini' = [ini EXCEPT ![c] = n]
        /\ rsp' = [rsp EXCEPT ![c] = p]
        /\ sdp' = [sdp EXCEPT ![c] = "offer"]
        /\ conn' = [conn EXCEPT ![n][x] = c]
        /\ pc' = [pc EXCEPT ![n][x] = "answer"]
        /\ UNCHANGED <<done, rd, links, closing>>
    BY <1>6 DEF DialOffer, Goto
  <2> HIDE DEF c, p
  <2>5. ASSUME NEW q \in Nodes
        PROVE  /\ rd[c][q] = "off"
               /\ \A r \in Nodes : links[q][r] # c
               /\ c \notin closing[q]
    <3>1. ~Claimed(c, q)
      BY <2>1, <2>2 DEF Claimed
    <3>2. QED  BY <2>1, <3>1 DEF LinkInv, ClaimedOK
  <2>6. ASSUME NEW q \in Nodes, NEW y \in Procs, Holding(q, y)
        PROVE  conn[q][y] \in Conns \ {c}
    <3>1. CASE y \in Diallers
      BY <2>1, <2>6, <3>1 DEF LinkInv, HoldingOK
    <3>2. CASE y = "lst"
      BY <2>1, <2>2, <2>6, <3>2 DEF LinkInv, HoldingOK
    <3>3. QED  BY <3>1, <3>2
  <2>7. \A q \in Nodes, y \in Procs : ~(q = n /\ y = x) =>
          (Holding(q, y)' <=> Holding(q, y)) /\ (Building(q, y)' <=> Building(q, y))
    BY <2>4 DEF Holding, Building
  <2>8. EndsOK'
    BY <2>1, <2>2, <2>3, <2>4 DEF LinkInv, EndsOK
  <2>9. HoldingOK'
    <3> SUFFICES ASSUME NEW q \in Nodes
                 PROVE  /\ \A y \in Diallers :
                             Holding(q, y)' => conn'[q][y] \in Conns /\ ini'[conn'[q][y]] = q
                        /\ Holding(q, "lst")' =>
                             /\ conn'[q]["lst"] \in Conns
                             /\ rsp'[conn'[q]["lst"]] = q
                             /\ sdp'[conn'[q]["lst"]] \in {"answer", "used"}
                        /\ Holding(q, "snd")' /\ Holding(q, "diag")' =>
                             conn'[q]["snd"] # conn'[q]["diag"]
      BY DEF HoldingOK
    <3>1. ASSUME NEW y \in Diallers, Holding(q, y)'
          PROVE  conn'[q][y] \in Conns /\ ini'[conn'[q][y]] = q
      BY <2>1, <2>4, <2>6, <2>7, <3>1 DEF LinkInv, HoldingOK
    <3>2. ASSUME Holding(q, "lst")'
          PROVE  /\ conn'[q]["lst"] \in Conns
                 /\ rsp'[conn'[q]["lst"]] = q
                 /\ sdp'[conn'[q]["lst"]] \in {"answer", "used"}
      BY <2>1, <2>4, <2>6, <2>7, <3>2 DEF LinkInv, HoldingOK
    <3>3. ASSUME Holding(q, "snd")', Holding(q, "diag")'
          PROVE  conn'[q]["snd"] # conn'[q]["diag"]
      BY <2>1, <2>4, <2>6, <2>7, <3>3 DEF LinkInv, HoldingOK
    <3>4. QED  BY <3>1, <3>2, <3>3
  <2>10. ClaimedOK'
    BY <2>1, <2>2, <2>3, <2>4, <2>5 DEF LinkInv, ClaimedOK, Claimed
  <2>11. BuildingOK'
    BY <2>1, <2>4, <2>5, <2>6, <2>7 DEF LinkInv, BuildingOK
  <2>12. \A d \in Conns, q \in Nodes : Adopted(d, q)' => d # c /\ Adopted(d, q)
    BY <2>1, <2>4, <2>5, <2>6 DEF Adopted, Reading, Announcing, Holding, Building
  <2>13. \A d \in Conns, q \in Nodes : d # c /\ Adopted(d, q) => Adopted(d, q)'
    BY <2>1, <2>4, <2>5 DEF Adopted, Reading, Announcing
  <2>14. NoOrphanLink'
    BY <2>1, <2>4, <2>12 DEF LinkInv, NoOrphanLink, Other
  <2>15. RegisteredLinkIsRead'
    BY <2>1, <2>4, <2>5, <2>13 DEF LinkInv, RegisteredLinkIsRead, Other
  <2>16. QED  BY <2>8, <2>9, <2>10, <2>11, <2>14, <2>15 DEF LinkInv
<1>7. ASSUME NEW n \in Nodes, NEW x \in Diallers, DialAnswer(n, x) PROVE LinkInv'
  <2>1. Calm
    BY <1>7 DEF Calm, Building, Holding, Reading, DialAnswer, Goto
  <2>2. QED  BY <2>1, CalmStep
<1>8. ASSUME NEW n \in Nodes, NEW x \in Diallers, DialOpen(n, x) PROVE LinkInv'
  <2>1. Calm
    BY <1>8 DEF Calm, Building, Holding, Reading, DialOpen, Goto
  <2>2. QED  BY <2>1, CalmStep
<1>9. ASSUME NEW n \in Nodes, NEW x \in Diallers, DialHandshake(n, x) PROVE LinkInv'
  <2>1. Calm
    BY <1>9 DEF Calm, Building, Holding, Reading, DialHandshake, Goto
  <2>2. QED  BY <2>1, CalmStep
<1>10. ASSUME NEW n \in Nodes, NEW x \in Diallers, DialNotFound(n, x) PROVE LinkInv'
  <2>1. Calm
    BY <1>10 DEF Calm, Building, Holding, Reading, DialNotFound, Goto, AfterFailure
  <2>2. QED  BY <2>1, CalmStep
<1>11. ASSUME NEW n \in Nodes, NEW x \in Diallers, DialFail(n, x) PROVE LinkInv'
  <2>1. Calm
    BY <1>11 DEF Calm, Building, Holding, Reading, DialFail, Goto, AfterFailure, Close
  <2>2. QED  BY <2>1, CalmStep
<1>12. ASSUME NEW n \in Nodes, NEW x \in Procs, Adopt(n, x) PROVE LinkInv'
  <2> DEFINE c == conn[n][x]
             p == Other(c, n)
  <2>1. /\ pc[n][x] = "adopt"
        /\ pc' = [pc EXCEPT ![n][x] = "announce"]
        /\ links' = [links EXCEPT ![n][p] = c]
        /\ done' = IF links[n][p] \in Conns \ {c}
                     THEN [done EXCEPT ![links[n][p]][n] = TRUE] ELSE done
        /\ UNCHANGED <<ini, rsp, sdp, conn, rd, closing>>
    BY <1>12 DEF Adopt, Goto
  <2>2. Building(n, x) /\ Holding(n, x)
    BY <2>1 DEF Building, Holding
  <2>3. c \in Conns /\ Claimed(c, n)
    BY <2>2 DEF LinkInv, HoldingOK, Claimed
  <2>4. p \in Nodes
    BY <2>3 DEF LinkInv, EndsOK, Claimed, Other
  <2>5. /\ rd[c][n] = "off" /\ c \notin closing[n]
        /\ \A r \in Nodes : links[n][r] # c
    BY <2>2 DEF LinkInv, BuildingOK
  <2>6. \A q \in Nodes, y \in Procs :
          /\ Holding(q, y)' <=> Holding(q, y)
          /\ Building(q, y)' <=> Building(q, y) /\ ~(q = n /\ y = x)
    BY <2>1 DEF Holding, Building
  <2>7. \A y \in Procs : Holding(n, y) /\ y # x => conn[n][y] # c
    BY <2>2, HoldersDiffer DEF LinkInv
  <2> HIDE DEF p
  <2>8. EndsOK'
    BY <2>1 DEF LinkInv, EndsOK
  <2>9. HoldingOK'
    BY <2>1, <2>6 DEF LinkInv, HoldingOK
  <2>10. ClaimedOK'
    BY <2>1, <2>3, <2>4 DEF LinkInv, ClaimedOK, Claimed
  <2>11. BuildingOK'
    <3> SUFFICES ASSUME NEW q \in Nodes, NEW y \in Procs
                 PROVE  /\ Holding(q, y)' => rd'[conn'[q][y]][q] = "off"
                        /\ Building(q, y)' =>
                             /\ \A r \in Nodes : links'[q][r] # conn'[q][y]
                             /\ conn'[q][y] \notin closing'[q]
      BY DEF BuildingOK
    <3>1. Holding(q, y)' => rd'[conn'[q][y]][q] = "off"
      BY <2>1, <2>6 DEF LinkInv, BuildingOK
    <3>2. ASSUME Building(q, y)', NEW r \in Nodes PROVE links'[q][r] # conn'[q][y]
      BY <2>1, <2>4, <2>6, <2>7, <3>2 DEF LinkInv, BuildingOK, Holding
    <3>3. ASSUME Building(q, y)' PROVE conn'[q][y] \notin closing'[q]
      BY <2>1, <2>6, <3>3 DEF LinkInv, BuildingOK
    <3>4. QED  BY <3>1, <3>2, <3>3
  <2>12. \A d \in Conns, q \in Nodes :
           Adopted(d, q)' <=> Adopted(d, q) \/ (d = c /\ q = n)
    BY <2>1, <2>3 DEF Adopted, Reading, Announcing
  <2>13. NoOrphanLink'
    <3> SUFFICES ASSUME NEW q \in Nodes, NEW d \in Conns, Adopted(d, q)', ~done'[d][q]
                 PROVE  links'[q][Other(d, q)'] = d \/ d \in closing'[q]
      BY DEF NoOrphanLink
    <3>1. Other(d, q)' = Other(d, q) /\ closing' = closing
      BY <2>1 DEF Other
    <3>2. CASE d = c /\ q = n
      BY <2>1, <2>4, <3>1, <3>2 DEF p
    <3>3. CASE ~(d = c /\ q = n)
      <4>1. Adopted(d, q) /\ ~done[d][q]
        BY <2>1, <2>12, <3>3
      <4>2. links[q][Other(d, q)] = d \/ d \in closing[q]
        BY <4>1 DEF LinkInv, NoOrphanLink
      <4>3. CASE q = n /\ Other(d, q) = p /\ links[q][Other(d, q)] = d
        BY <2>1, <3>3, <4>3
      <4>4. CASE ~(q = n /\ Other(d, q) = p)
        BY <2>1, <2>4, <3>1, <4>2, <4>4
      <4>5. QED  BY <3>1, <4>2, <4>3, <4>4
    <3>4. QED  BY <3>2, <3>3
  <2>14. RegisteredLinkIsRead'
    <3>1. ASSUME NEW q \in Nodes, NEW r \in Nodes, NEW d \in Conns, links'[q][r] = d
          PROVE  Adopted(d, q)' /\ Other(d, q)' = r
      <4>1. Other(d, q)' = Other(d, q)
        BY <2>1 DEF Other
      <4>2. CASE q = n /\ r = p
        BY <2>1, <2>3, <2>4, <2>12, <3>1, <4>1, <4>2 DEF p
      <4>3. CASE ~(q = n /\ r = p)
        <5>1. links[q][r] = d
          BY <2>1, <2>4, <3>1, <4>3
        <5>2. Adopted(d, q) /\ Other(d, q) = r
          BY <5>1 DEF LinkInv, RegisteredLinkIsRead
        <5>3. QED  BY <2>12, <4>1, <5>2
      <4>4. QED  BY <4>2, <4>3
    <3>2. QED  BY <3>1 DEF RegisteredLinkIsRead
  <2>15. QED  BY <2>8, <2>9, <2>10, <2>11, <2>13, <2>14 DEF LinkInv
<1>13. ASSUME NEW n \in Nodes, NEW x \in Procs, Announce(n, x) PROVE LinkInv'
  <2> DEFINE c == conn[n][x]
  <2>1. PICK l \in {"write", "exit", "head"} :
          /\ pc[n][x] = "announce"
          /\ pc' = [pc EXCEPT ![n][x] = l]
    BY <1>13 DEF Announce, Goto
  <2>2. /\ rd' = [rd EXCEPT ![c][n] = "recv"]
        /\ UNCHANGED <<ini, rsp, sdp, conn, done, links, closing>>
    BY <1>13 DEF Announce
  <2>3. Holding(n, x) /\ c \in Conns /\ Claimed(c, n)
    BY <2>1 DEF Holding, LinkInv, HoldingOK, Claimed
  <2>4. \A q \in Nodes, y \in Procs :
          /\ Holding(q, y)' <=> Holding(q, y) /\ ~(q = n /\ y = x)
          /\ Building(q, y)' <=> Building(q, y)
    BY <2>1 DEF Holding, Building
  <2>5. \A y \in Procs : Holding(n, y) /\ y # x => conn[n][y] # c
    BY <2>3, HoldersDiffer DEF LinkInv
  <2>6. EndsOK'
    BY <2>2 DEF LinkInv, EndsOK
  <2>7. HoldingOK'
    BY <2>2, <2>4 DEF LinkInv, HoldingOK
  <2>8. ClaimedOK'
    BY <2>2, <2>3 DEF LinkInv, ClaimedOK, Claimed
  <2>9. BuildingOK'
    <3>1. ASSUME NEW q \in Nodes, NEW y \in Procs, Holding(q, y)'
          PROVE  rd'[conn'[q][y]][q] = "off"
      BY <2>2, <2>3, <2>4, <2>5, <3>1 DEF LinkInv, BuildingOK
    <3>2. ASSUME NEW q \in Nodes, NEW y \in Procs, Building(q, y)'
          PROVE  /\ \A r \in Nodes : links'[q][r] # conn'[q][y]
                 /\ conn'[q][y] \notin closing'[q]
      BY <2>2, <2>4, <3>2 DEF LinkInv, BuildingOK
    <3>3. QED  BY <3>1, <3>2 DEF BuildingOK
  <2>10. ASSUME NEW d \in Conns, NEW q \in Nodes
         PROVE  Adopted(d, q)' <=> Adopted(d, q)
    <3>1. CASE d = c /\ q = n
      <4>1. Adopted(d, q)
        BY <2>1, <3>1 DEF Adopted, Announcing
      <4>2. Adopted(d, q)'
        BY <2>2, <2>3, <3>1 DEF Adopted, Reading
      <4>3. QED  BY <4>1, <4>2
    <3>2. CASE ~(d = c /\ q = n)
      <4>1. Reading(d, q)' <=> Reading(d, q)
        BY <2>2, <2>3, <3>2 DEF Reading
      <4>2. \A y \in Procs : (pc'[q][y] = "announce" /\ conn'[q][y] = d)
                               <=> (pc[q][y] = "announce" /\ conn[q][y] = d)
        BY <2>1, <2>2, <3>2
      <4>3. Announcing(d, q)' <=> Announcing(d, q)
        BY <4>2 DEF Announcing
      <4>4. QED  BY <4>1, <4>3 DEF Adopted
    <3>3. QED  BY <3>1, <3>2
  <2>11. NoOrphanLink'
    BY <2>2, <2>10 DEF LinkInv, NoOrphanLink, Other
  <2>12. RegisteredLinkIsRead'
    BY <2>2, <2>10 DEF LinkInv, RegisteredLinkIsRead, Other
  <2>13. QED  BY <2>6, <2>7, <2>8, <2>9, <2>11, <2>12 DEF LinkInv
<1>14. ASSUME NEW n \in Nodes, SndTake(n) PROVE LinkInv'
  <2>1. Calm
    BY <1>14 DEF Calm, Building, Holding, Reading, SndTake, Goto
  <2>2. QED  BY <2>1, CalmStep
<1>15. ASSUME NEW n \in Nodes, SndBadURI(n) PROVE LinkInv'
  <2>1. Calm
    BY <1>15 DEF Calm, Building, Holding, Reading, SndBadURI
  <2>2. QED  BY <2>1, CalmStep
<1>16. ASSUME NEW n \in Nodes, SndClosed(n) PROVE LinkInv'
  <2>1. PICK l \in {"idle", "exit"} : pc' = [pc EXCEPT ![n]["snd"] = l]
    BY <1>16 DEF SndClosed, Goto
  <2>2. /\ pc[n]["snd"] \in {"find", "backoff", "idle"}
        /\ UNCHANGED <<ini, rsp, sdp, conn, links, closing, done, rd>>
    BY <1>16 DEF SndClosed
  <2>3. Calm
    BY <2>1, <2>2 DEF Calm, Building, Holding, Reading
  <2>4. QED  BY <2>3, CalmStep
<1>17. ASSUME NEW n \in Nodes, SndBackoff(n) PROVE LinkInv'
  <2>1. Calm
    BY <1>17 DEF Calm, Building, Holding, Reading, SndBackoff, Goto, Report
  <2>2. QED  BY <2>1, CalmStep
<1>18. ASSUME NEW n \in Nodes, SndWrite(n) PROVE LinkInv'
  <2>1. PICK l \in {"chunks", "sent", "drop"} : pc' = [pc EXCEPT ![n]["snd"] = l]
    BY <1>18 DEF SndWrite, Goto
  <2>2. /\ pc[n]["snd"] \in {"write"}
        /\ UNCHANGED <<ini, rsp, sdp, conn, links, closing, done, rd>>
    BY <1>18 DEF SndWrite
  <2>3. Calm
    BY <2>1, <2>2 DEF Calm, Building, Holding, Reading
  <2>4. QED  BY <2>3, CalmStep
<1>19. ASSUME NEW n \in Nodes, SndNoFile(n) PROVE LinkInv'
  <2>1. Calm
    BY <1>19 DEF Calm, Building, Holding, Reading, SndNoFile, Report, Goto
  <2>2. QED  BY <2>1, CalmStep
<1>20. ASSUME NEW n \in Nodes, SndChunks(n) PROVE LinkInv'
  <2>1. PICK l \in {"sent", "drop"} : pc' = [pc EXCEPT ![n]["snd"] = l]
    BY <1>20 DEF SndChunks, Goto
  <2>2. /\ pc[n]["snd"] \in {"chunks"}
        /\ UNCHANGED <<ini, rsp, sdp, conn, links, closing, done, rd>>
    BY <1>20 DEF SndChunks
  <2>3. Calm
    BY <2>1, <2>2 DEF Calm, Building, Holding, Reading
  <2>4. QED  BY <2>3, CalmStep
<1>21. ASSUME NEW n \in Nodes, SndSent(n) PROVE LinkInv'
  <2>1. Calm
    BY <1>21 DEF Calm, Building, Holding, Reading, SndSent, Report, Goto
  <2>2. QED  BY <2>1, CalmStep
<1>22. ASSUME NEW n \in Nodes, SndDrop(n) PROVE LinkInv'
  <2> DEFINE c == conn[n]["snd"]
  <2>1. /\ pc[n]["snd"] = "drop" /\ pc' = [pc EXCEPT ![n]["snd"] = "idle"]
        /\ links' = IF links[n][Other(c, n)] = c
                      THEN [links EXCEPT ![n][Other(c, n)] = NoConn] ELSE links
        /\ done' = [done EXCEPT ![c][n] = TRUE]
        /\ UNCHANGED <<ini, rsp, sdp, conn, rd, closing>>
    BY <1>22 DEF SndDrop, Report, Goto, DropLink, Close
  <2>2. c \in Conns
    BY <2>1 DEF BookInv, WriterOK
  <2> HIDE DEF c
  <2>3. Settled
    BY <2>1 DEF Settled, Building, Holding
  <2>4. \A d \in Conns, q \in Nodes : Reading(d, q)' <=> Reading(d, q)
    BY <2>1 DEF Reading
  <2>5. \A q \in Nodes, r \in Nodes : links'[q][r] \in {links[q][r], NoConn}
    BY <2>1
  <2>6. ASSUME NEW d \in Conns, NEW q \in Nodes, ~done'[d][q], links[q][Other(d, q)] = d
        PROVE  ~done[d][q] /\ links'[q][Other(d, q)] = d
    BY <2>1, <2>2, <2>6
  <2>7. \A d \in Conns, q \in Nodes : ~done'[d][q] => ~done[d][q]
    BY <2>1, <2>2
  <2>8. Tidy
    BY <2>1, <2>3, <2>4, <2>5, <2>6, <2>7 DEF Tidy
  <2>9. QED  BY <2>8, TidyStep
<1>23. ASSUME NEW n \in Nodes, LstHead(n) PROVE LinkInv'
  <2>1. Calm
    BY <1>23 DEF Calm, Building, Holding, Reading, LstHead, Goto
  <2>2. QED  BY <2>1, CalmStep
<1>24. ASSUME NEW n \in Nodes, LstOffer(n) PROVE LinkInv'
  <2>1. PICK c \in Conns :
          /\ pc[n]["lst"] = "offer"
          /\ rsp[c] = n /\ sdp[c] = "offer"
          /\ conn' = [conn EXCEPT ![n]["lst"] = c]
          /\ \/ sdp' = [sdp EXCEPT ![c] = "answer"] /\ pc' = [pc EXCEPT ![n]["lst"] = "open"]
             \/ /\ sdp' = [sdp EXCEPT ![c] = "used"]
                /\ \/ pc' = [pc EXCEPT ![n]["lst"] = "open"]
                   \/ pc' = [pc EXCEPT ![n]["lst"] = "head"]
          /\ UNCHANGED <<ini, rsp, done, rd, links, closing>>
    BY <1>24 DEF LstOffer, Goto
  <2>2. ini[c] # n
    BY <2>1 DEF LinkInv, EndsOK
  <2>3. /\ rd[c][n] = "off"
        /\ \A r \in Nodes : links[n][r] # c
        /\ c \notin closing[n]
    <3>1. ~Claimed(c, n)
      BY <2>1, <2>2 DEF Claimed
    <3>2. QED  BY <3>1 DEF LinkInv, ClaimedOK
  <2>4. \A q \in Nodes, y \in Procs : ~(q = n /\ y = "lst") =>
          /\ Holding(q, y)' <=> Holding(q, y)
          /\ Building(q, y)' <=> Building(q, y)
          /\ conn'[q][y] = conn[q][y]
    BY <2>1 DEF Holding, Building
  <2>5. EndsOK'
    BY <2>1 DEF LinkInv, EndsOK
  <2>6. HoldingOK'
    <3> SUFFICES ASSUME NEW q \in Nodes
                 PROVE  /\ \A y \in Diallers :
                             Holding(q, y)' => conn'[q][y] \in Conns /\ ini'[conn'[q][y]] = q
                        /\ Holding(q, "lst")' =>
                             /\ conn'[q]["lst"] \in Conns
                             /\ rsp'[conn'[q]["lst"]] = q
                             /\ sdp'[conn'[q]["lst"]] \in {"answer", "used"}
                        /\ Holding(q, "snd")' /\ Holding(q, "diag")' =>
                             conn'[q]["snd"] # conn'[q]["diag"]
      BY DEF HoldingOK
    <3>1. ASSUME NEW y \in Diallers, Holding(q, y)'
          PROVE  conn'[q][y] \in Conns /\ ini'[conn'[q][y]] = q
      BY <2>1, <2>4, <3>1 DEF LinkInv, HoldingOK
    <3>2. ASSUME Holding(q, "lst")'
          PROVE  /\ conn'[q]["lst"] \in Conns
                 /\ rsp'[conn'[q]["lst"]] = q
                 /\ sdp'[conn'[q]["lst"]] \in {"answer", "used"}
      <4>1. CASE q = n
        BY <2>1, <4>1
      <4>2. CASE q # n
        <5>1. Holding(q, "lst") /\ conn'[q]["lst"] = conn[q]["lst"]
          BY <2>4, <3>2, <4>2
        <5>2. /\ conn[q]["lst"] \in Conns /\ rsp[conn[q]["lst"]] = q
              /\ sdp[conn[q]["lst"]] \in {"answer", "used"}
          BY <5>1 DEF LinkInv, HoldingOK
        <5>3. QED  BY <2>1, <5>1, <5>2
      <4>3. QED  BY <4>1, <4>2
    <3>3. ASSUME Holding(q, "snd")', Holding(q, "diag")'
          PROVE  conn'[q]["snd"] # conn'[q]["diag"]
      BY <2>4, <3>3 DEF LinkInv, HoldingOK
    <3>4. QED  BY <3>1, <3>2, <3>3
  <2>7. ClaimedOK'
    <3>1. \A d \in Conns, q \in Nodes : Claimed(d, q) => Claimed(d, q)'
      BY <2>1 DEF Claimed
    <3>2. QED  BY <2>1, <3>1 DEF LinkInv, ClaimedOK
  <2>8. BuildingOK'
    BY <2>1, <2>3, <2>4 DEF LinkInv, BuildingOK
  <2>9. \A d \in Conns, q \in Nodes : Adopted(d, q)' <=> Adopted(d, q)
    BY <2>1 DEF Adopted, Reading, Announcing
  <2>10. NoOrphanLink'
    BY <2>1, <2>9 DEF LinkInv, NoOrphanLink, Other
  <2>11. RegisteredLinkIsRead'
    BY <2>1, <2>9 DEF LinkInv, RegisteredLinkIsRead, Other
  <2>12. QED  BY <2>5, <2>6, <2>7, <2>8, <2>10, <2>11 DEF LinkInv
<1>25. ASSUME NEW n \in Nodes, LstStopped(n) PROVE LinkInv'
  <2>1. Calm
    BY <1>25 DEF Calm, Building, Holding, Reading, LstStopped, Goto
  <2>2. QED  BY <2>1, CalmStep
<1>26. ASSUME NEW n \in Nodes, LstOpen(n) PROVE LinkInv'
  <2>1. Calm
    BY <1>26 DEF Calm, Building, Holding, Reading, LstOpen, Goto
  <2>2. QED  BY <2>1, CalmStep
<1>27. ASSUME NEW n \in Nodes, LstHandshake(n) PROVE LinkInv'
  <2>1. Calm
    BY <1>27 DEF Calm, Building, Holding, Reading, LstHandshake, Goto
  <2>2. QED  BY <2>1, CalmStep
<1>28. ASSUME NEW n \in Nodes, LstFail(n) PROVE LinkInv'
  <2>1. Calm
    BY <1>28 DEF Calm, Building, Holding, Reading, LstFail, Goto, Close
  <2>2. QED  BY <2>1, CalmStep
<1>29. ASSUME NEW n \in Nodes, StopSwap(n) PROVE LinkInv'
  <2>1. /\ life[n] = "running"
        /\ closing' = [closing EXCEPT ![n] = {links[n][r] : r \in Nodes} \ {NoConn}]
        /\ links' = [links EXCEPT ![n] = [r \in Nodes |-> NoConn]]
        /\ UNCHANGED <<ini, rsp, sdp, conn, pc, done, rd>>
    BY <1>29 DEF StopSwap
  <2>2. closing[n] = {}
    BY <2>1 DEF StopOK
  <2>3. Settled
    BY <2>1 DEF Settled, Building, Holding
  <2>4. \A d \in Conns, q \in Nodes : Reading(d, q)' <=> Reading(d, q)
    BY <2>1 DEF Reading
  <2>5. \A q \in Nodes, r \in Nodes : links'[q][r] \in {links[q][r], NoConn}
    BY <2>1
  <2>6. ASSUME NEW d \in Conns, NEW q \in Nodes, links[q][Other(d, q)] = d, Other(d, q) \in Nodes
        PROVE  links'[q][Other(d, q)] = d \/ d \in closing'[q]
    BY <2>1, <2>6
  <2>7. \A q \in Nodes : /\ closing[q] \subseteq closing'[q]
                         /\ closing'[q] \subseteq closing[q] \cup {links[q][r] : r \in Nodes}
    BY <2>1, <2>2
  <2>8. Tidy
    BY <2>1, <2>3, <2>4, <2>5, <2>6, <2>7 DEF Tidy
  <2>9. QED  BY <2>8, TidyStep
<1>30. ASSUME NEW n \in Nodes, StopFinish(n) PROVE LinkInv'
  <2>1. /\ done' = [c \in Conns |-> [done[c] EXCEPT ![n] = @ \/ c \in closing[n]]]
        /\ closing' = [closing EXCEPT ![n] = {}]
        /\ UNCHANGED <<ini, rsp, sdp, conn, pc, links, rd>>
    BY <1>30 DEF StopFinish
  <2>2. \A d \in Conns, q \in Nodes :
          ~done'[d][q] => ~done[d][q] /\ (d \in closing[q] => d \in closing'[q])
    BY <2>1
  <2>3. Settled
    BY <2>1 DEF Settled, Building, Holding
  <2>4. \A d \in Conns, q \in Nodes : Reading(d, q)' <=> Reading(d, q)
    BY <2>1 DEF Reading
  <2>5. \A q \in Nodes : closing'[q] \subseteq closing[q]
    BY <2>1
  <2>8. Tidy
    BY <2>1, <2>2, <2>3, <2>4, <2>5 DEF Tidy
  <2>9. QED  BY <2>8, TidyStep
<1>31. ASSUME NEW c \in Conns, NEW n \in Nodes, RdText(c, n) PROVE LinkInv'
  <2>1. Calm
    BY <1>31 DEF Calm, Building, Holding, Reading, RdText, Surface
  <2>2. QED  BY <2>1, CalmStep
<1>32. ASSUME NEW c \in Conns, NEW n \in Nodes, RdOffer(c, n) PROVE LinkInv'
  <2>1. Calm
    BY <1>32 DEF Calm, Building, Holding, Reading, RdOffer
  <2>2. QED  BY <2>1, CalmStep
<1>33. ASSUME NEW c \in Conns, NEW n \in Nodes, RdReceipt(c, n) PROVE LinkInv'
  <2>1. Calm
    BY <1>33 DEF Calm, Building, Holding, Reading, RdReceipt
  <2>2. QED  BY <2>1, CalmStep
<1>34. ASSUME NEW c \in Conns, NEW n \in Nodes, RdOther(c, n) PROVE LinkInv'
  <2>1. Calm
    BY <1>34 DEF Calm, Building, Holding, Reading, RdOther
  <2>2. QED  BY <2>1, CalmStep
<1>35. ASSUME NEW c \in Conns, NEW n \in Nodes, RdFile(c, n) PROVE LinkInv'
  <2>1. Calm
    BY <1>35 DEF Calm, Building, Holding, Reading, RdFile, Surface
  <2>2. QED  BY <2>1, CalmStep
<1>36. ASSUME NEW c \in Conns, NEW n \in Nodes, RdFileLost(c, n) PROVE LinkInv'
  <2>1. Calm
    BY <1>36 DEF Calm, Building, Holding, Reading, RdFileLost
  <2>2. QED  BY <2>1, CalmStep
<1>37. ASSUME NEW c \in Conns, NEW n \in Nodes, RdAck(c, n) PROVE LinkInv'
  <2>1. Calm
    BY <1>37 DEF Calm, Building, Holding, Reading, RdAck
  <2>2. QED  BY <2>1, CalmStep
<1>38. ASSUME NEW c \in Conns, NEW n \in Nodes, RdErr(c, n) PROVE LinkInv'
  <2>1. Calm
    BY <1>38 DEF Calm, Building, Holding, Reading, RdErr
  <2>2. QED  BY <2>1, CalmStep
<1>39. ASSUME NEW c \in Conns, NEW n \in Nodes, RdDrop(c, n) PROVE LinkInv'
  <2>1. /\ rd[c][n] = "drop" /\ rd' = [rd EXCEPT ![c][n] = "offline"]
        /\ links' = IF links[n][Other(c, n)] = c
                      THEN [links EXCEPT ![n][Other(c, n)] = NoConn] ELSE links
        /\ done' = [done EXCEPT ![c][n] = TRUE]
        /\ UNCHANGED <<ini, rsp, sdp, conn, pc, closing>>
    BY <1>39 DEF RdDrop, DropLink, Close
  <2>2. ASSUME NEW r \in Nodes PROVE links'[n][r] # c
    <3>1. CASE links[n][r] = c
      <4>1. Other(c, n) = r
        BY <3>1 DEF LinkInv, RegisteredLinkIsRead
      <4>2. QED  BY <2>1, <3>1, <4>1
    <3>2. CASE links[n][r] # c
      BY <2>1, <3>2
    <3>3. QED  BY <3>1, <3>2
  <2>3. Settled
    BY <2>1 DEF Settled, Building, Holding
  <2>4. \A d \in Conns, q \in Nodes :
          IF d = c /\ q = n THEN ~Reading(d, q)' ELSE Reading(d, q)' <=> Reading(d, q)
    BY <2>1 DEF Reading
  <2>5. \A q \in Nodes, r \in Nodes : links'[q][r] \in {links[q][r], NoConn}
    BY <2>1
  <2>6. ASSUME NEW d \in Conns, NEW q \in Nodes, ~done'[d][q], links[q][Other(d, q)] = d
        PROVE  ~done[d][q] /\ links'[q][Other(d, q)] = d
    BY <2>1, <2>6
  <2>7. \A d \in Conns, q \in Nodes : ~done'[d][q] => ~done[d][q]
    BY <2>1
  <2>8. Tidy
    BY <2>1, <2>2, <2>3, <2>4, <2>5, <2>6, <2>7 DEF Tidy
  <2>9. QED  BY <2>8, TidyStep
<1>40. ASSUME NEW c \in Conns, NEW n \in Nodes, RdOffline(c, n) PROVE LinkInv'
  <2>1. Calm
    BY <1>40 DEF Calm, Building, Holding, Reading, RdOffline
  <2>2. QED  BY <2>1, CalmStep
<1>41. ASSUME NEW c \in Conns, NEW n \in Nodes, ConnDown(c, n) PROVE LinkInv'
  <2>1. Calm
    BY <1>41 DEF Calm, Building, Holding, Reading, ConnDown, Close
  <2>2. QED  BY <2>1, CalmStep
<1>42. ASSUME NEW c \in Conns, NEW n \in Nodes, ConnFail(c, n) PROVE LinkInv'
  <2>1. Calm
    BY <1>42 DEF Calm, Building, Holding, Reading, ConnFail, Close
  <2>2. QED  BY <2>1, CalmStep
<1>43. CASE UNCHANGED vars
  <2>1. Calm
    BY <1>43 DEF vars, Calm, Building, Holding, Reading
  <2>2. QED  BY <2>1, CalmStep
<1>44. QED
  <2>1. ASSUME NEW n \in Nodes, NEW x \in Diallers, DialStep(n, x) PROVE LinkInv'
    BY <2>1, <1>6, <1>7, <1>8, <1>9, <1>10, <1>11 DEF DialStep
  <2>2. ASSUME NEW n \in Nodes, NEW x \in Procs, AdoptStep(n, x) PROVE LinkInv'
    BY <2>2, <1>12, <1>13 DEF AdoptStep
  <2>3. ASSUME NEW n \in Nodes, SndStep(n) PROVE LinkInv'
    BY <2>3, <1>14, <1>15, <1>16, <1>17, <1>18, <1>19, <1>20, <1>21, <1>22 DEF SndStep
  <2>4. ASSUME NEW n \in Nodes, LstStep(n) PROVE LinkInv'
    BY <2>4, <1>23, <1>24, <1>25, <1>26, <1>27, <1>28 DEF LstStep
  <2>5. ASSUME NEW c \in Conns, NEW n \in Nodes, RdStep(c, n) PROVE LinkInv'
    BY <2>5, <1>31, <1>32, <1>33, <1>34, <1>35, <1>36, <1>37, <1>38, <1>39, <1>40 DEF RdStep
  <2>6. QED
    BY <2>1, <2>2, <2>3, <2>4, <2>5, <1>1, <1>2, <1>3, <1>4, <1>5,
       <1>29, <1>30, <1>41, <1>42, <1>43 DEF Next

\* Stop alone takes links in hand, and gives them back closed before it ends.
LEMMA StopStep == TypeOK /\ StopOK /\ [Next]_vars => StopOK'
<1> SUFFICES ASSUME TypeOK, StopOK, [Next]_vars PROVE StopOK'
  OBVIOUS
<1> USE DEF apiVars, procVars, connVars, eventVars
<1>1. ASSUME NEW n \in Nodes, StopSwap(n) PROVE StopOK'
  BY <1>1 DEF StopSwap, StopOK, TypeOK
<1>2. ASSUME NEW n \in Nodes, StopFinish(n) PROVE StopOK'
  BY <1>2 DEF StopFinish, StopOK, TypeOK
<1>3. ASSUME NEW n \in Nodes, NEW x \in Procs, DialStep(n, x) \/ AdoptStep(n, x)
      PROVE  UNCHANGED <<life, closing>>
  BY <1>3 DEF DialStep, DialOffer, DialAnswer, DialOpen, DialHandshake, DialNotFound,
     DialFail, AdoptStep, Adopt, Announce
<1>4. ASSUME NEW n \in Nodes, SndStep(n) \/ LstStep(n)
      PROVE  UNCHANGED <<life, closing>>
  BY <1>4 DEF SndStep, SndTake, SndBadURI, SndClosed, SndBackoff, SndWrite, SndNoFile,
     SndChunks, SndSent, SndDrop, LstStep, LstHead, LstOffer, LstStopped, LstOpen,
     LstHandshake, LstFail
<1>5. ASSUME NEW c \in Conns, NEW n \in Nodes,
             RdStep(c, n) \/ ConnDown(c, n) \/ ConnFail(c, n)
      PROVE  UNCHANGED <<life, closing>>
  BY <1>5 DEF RdStep, RdText, RdOffer, RdReceipt, RdOther, RdFile, RdFileLost, RdAck,
     RdErr, RdDrop, RdOffline, ConnDown, ConnFail
<1>6. ASSUME NEW n \in Nodes, NEW p \in Nodes,
             MarkRead(n, p) \/ SendTyping(n, p) \/ Diagnose(n, p)
      PROVE  UNCHANGED <<life, closing>>
  BY <1>6 DEF MarkRead, SendTyping, Diagnose
<1>7. ASSUME NEW m \in Msgs, SendCall(m) \/ SendReturn(m)
      PROVE  UNCHANGED <<life, closing>>
  BY <1>7 DEF SendCall, SendReturn
<1>8. ASSUME UNCHANGED <<life, closing>> PROVE StopOK'
  BY <1>8 DEF StopOK
<1>9. CASE UNCHANGED vars
  BY <1>8, <1>9 DEF vars
<1>10. QED
  BY <1>1, <1>2, <1>3, <1>4, <1>5, <1>6, <1>7, <1>8, <1>9 DEF Next, Procs

\* The invariant holds when the runtimes start: nothing is dialled, registered
\* or read.
LEMMA Beginning == Init => IInv
<1> SUFFICES ASSUME Init PROVE IInv
  OBVIOUS
<1> USE RuntimeAssumption DEF Init
<1>1. TypeOK
  BY DEF TypeOK, PCs, RDs, Procs, Diallers
<1>2. BookInv
  BY DEF BookInv, RequestsOK, AttemptsLeft, WriterOK, HandlingOK, PointsOK, Procs, Diallers
<1>3. \A n \in Nodes, x \in Procs : ~Holding(n, x)
  BY DEF Holding, Building
<1>4. EndsOK /\ HoldingOK /\ ClaimedOK
  BY <1>3 DEF EndsOK, HoldingOK, ClaimedOK, Procs, Diallers
<1>5. BuildingOK
  BY <1>3 DEF BuildingOK, Holding
<1>6. NoOrphanLink /\ RegisteredLinkIsRead
  BY DEF NoOrphanLink, RegisteredLinkIsRead, Adopted, Reading, Announcing
<1>7. QED  BY <1>1, <1>2, <1>4, <1>5, <1>6 DEF IInv, LinkInv, StopOK

\* Every step of a runtime preserves the invariant.
LEMMA Preservation == IInv /\ [Next]_vars => IInv'
<1> SUFFICES ASSUME IInv, [Next]_vars PROVE IInv'
  OBVIOUS
<1>1. TypeOK /\ BookInv /\ StopOK /\ LinkInv /\ HoldingOK
  BY DEF IInv, LinkInv
<1>2. TypeOK'
  BY <1>1, TypeStep
<1>3. BookInv'
  BY <1>1, BookStep
<1>4. LinkInv'
  BY <1>1, <1>2, LinkStep
<1>5. StopOK'
  BY <1>1, StopStep
<1>6. QED  BY <1>2, <1>3, <1>4, <1>5 DEF IInv

\* The inductive invariant holds in every reachable state, for any number of
\* runtimes, connections, messages, attempts and network failures.
THEOREM Invariance == Spec => []IInv
BY Beginning, Preservation, PTL DEF Spec

\* The state stays well formed: no goroutine of runtime.go reaches a program
\* point it does not have, deliver stays within connectAttempts, and nothing but
\* envelopes of the protocol travels on a connection.
THEOREM TypeCorrect == Spec => []TypeOK
<1>1. IInv => TypeOK
  BY DEF IInv
<1>2. QED  BY Invariance, <1>1, PTL

\* adopt, dropLink and Stop together leak no link: whatever links the send
\* worker, the accept loop and Diagnose of a runtime build at the same time, one
\* that is read and still open is the registered one or about to be closed by
\* Stop.
THEOREM NoLinkLeaks == Spec => []NoOrphanLink
<1>1. IInv => NoOrphanLink
  BY DEF IInv, LinkInv
<1>2. QED  BY Invariance, <1>1, PTL

\* The link table never points to a link without a recvLoop or to a link of
\* another peer, so getLink hands deliver a link whose end will be noticed.
THEOREM TableIsRead == Spec => []RegisteredLinkIsRead
<1>1. IInv => RegisteredLinkIsRead
  BY DEF IInv, LinkInv
<1>2. QED  BY Invariance, <1>1, PTL

=============================================================================
