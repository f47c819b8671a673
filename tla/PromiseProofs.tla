---------------------------- MODULE PromiseProofs ----------------------------
(***************************************************************************)
(* Proofs about Runtime: what its users see of messages and of presence,   *)
(* and that this is what Delivery allows.  They rest on MsgInv of          *)
(* DeliveryProofs.                                                         *)
(***************************************************************************)
EXTENDS DeliveryProofs

-----------------------------------------------------------------------------
(* Messages *)

\* A text or a file reaches the user at most once: an id is on one wire or with
\* one reader until it is surfaced, and deliver never writes a request twice.
THEOREM MessagesSurfaceOnce == Spec => []SurfacedOnce
<1>1. MsgInv => SurfacedOnce
  BY DEF MsgInv, PlaceInv
<1>2. QED  BY <1>1, MsgInvariance, PTL

\* deliver reports "sendFailed" for a text only when conn.Send has put nothing
\* of it on the wire, so nobody has received it and nobody will.
THEOREM FailureIsFinal == Spec => []FailedTextNeverArrives
<1>1. MsgInv => FailedTextNeverArrives
  <2> SUFFICES ASSUME MsgInv, NEW m \in Msgs \ Files, InSeq("sendFailed", said[m]), NEW n \in Nodes
               PROVE  ~InSeq(m, got[n]) /\ \A c \in Conns : ~InSeq(Envelope(m), wire[c][n])
    BY DEF FailedTextNeverArrives
  <2>1. ~Out(m)
    BY DEF MsgInv, StageInv, UnsentOK, Unsent, Failed
  <2>2. MsgId(m) = m
    BY DEF MsgId
  <2>3. ~InSeq(m, got[n])
    BY <2>1, <2>2 DEF Out, Surfaced
  <2>4. ASSUME NEW c \in Conns, NEW k \in DOMAIN wire[c][n], wire[c][n][k] = Envelope(m) PROVE FALSE
    <3>1. Carries(c, n, k, MsgId(m))
      BY <2>4, MsgIds DEF Carries
    <3>2. QED  BY <3>1, <2>1 DEF Out
  <2>5. QED  BY <2>3, <2>4 DEF InSeq
<1>2. QED  BY <1>1, MsgInvariance, PTL

\* What ReceiveFileBody reads after an offer is that file's body: SendFile keeps
\* sendMu, so nothing gets between an offer and its chunks, unless the link is
\* being given up.
THEOREM BodiesFollowOffers == Spec => []FileBodyFollowsOffer
<1>1. MsgInv => FileBodyFollowsOffer
  BY DEF MsgInv, FlowInv, BodyRun, Follows, FileBodyFollowsOffer
<1>2. QED  BY <1>1, MsgInvariance, PTL

-----------------------------------------------------------------------------
(* Presence *)

\* A reader that has been started and has not ended.
Alive(c, n) == Reading(c, n) \/ rd[c][n] = "offline"

\* The ends of a connection stay; readers end only with a presence event.
LEMMA ReadersStay ==
  ASSUME IInv, [Next]_vars
  PROVE  \/ /\ UNCHANGED shown
            /\ \A c \in Conns, n \in Nodes :
                 Alive(c, n) => Alive(c, n)' /\ Other(c, n)' = Other(c, n)
         \/ \E n \in Nodes, x \in Procs : Announce(n, x)
         \/ \E c \in Conns, n \in Nodes : RdOffline(c, n)
<1> DEFINE Goal ==
      \/ /\ UNCHANGED shown
         /\ \A c \in Conns, n \in Nodes :
              Alive(c, n) => Alive(c, n)' /\ Other(c, n)' = Other(c, n)
      \/ \E n \in Nodes, x \in Procs : Announce(n, x)
      \/ \E c \in Conns, n \in Nodes : RdOffline(c, n)
<1> SUFFICES Goal
  OBVIOUS
<1>t. /\ rd \in [Conns -> [Nodes -> RDs]] /\ RuntimeAssumption
      /\ ini \in [Conns -> Nodes \cup {NoNode}] /\ rsp \in [Conns -> Nodes \cup {NoNode}]
      /\ \A c \in Conns, n \in Nodes : Alive(c, n) => Claimed(c, n)
      /\ EndsOK
  BY RuntimeAssumption DEF IInv, TypeOK, LinkInv, ClaimedOK, Alive, Reading
<1> USE <1>t DEF Alive, Reading, Other, connVars, eventVars
<1>1. ASSUME NEW m \in Msgs, SendCall(m) PROVE Goal
  BY <1>1 DEF SendCall
<1>2. ASSUME NEW m \in Msgs, SendReturn(m) PROVE Goal
  BY <1>2 DEF SendReturn
<1>3. ASSUME NEW n \in Nodes, NEW p \in Nodes, MarkRead(n, p) PROVE Goal
  BY <1>3 DEF MarkRead
<1>4. ASSUME NEW n \in Nodes, NEW p \in Nodes, SendTyping(n, p) PROVE Goal
  BY <1>4 DEF SendTyping
<1>5. ASSUME NEW n \in Nodes, NEW p \in Nodes, Diagnose(n, p) PROVE Goal
  BY <1>5 DEF Diagnose
<1>6. ASSUME NEW n \in Nodes, NEW x \in Diallers, DialOffer(n, x) PROVE Goal
  <2> DEFINE c == CHOOSE c \in Conns : ini[c] = NoNode
  <2>1. c \in Conns /\ ini[c] = NoNode
    BY <1>6 DEF DialOffer
  <2>2. \A q \in Nodes : ~Alive(c, q)
    BY <2>1 DEF Claimed, EndsOK, RuntimeAssumption
  <2>3. /\ \A d \in Conns \ {c} : ini'[d] = ini[d] /\ rsp'[d] = rsp[d]
        /\ UNCHANGED <<shown, rd>>
    BY <2>1, <1>6 DEF DialOffer
  <2> HIDE DEF c
  <2>4. QED  BY <2>1, <2>2, <2>3
<1>7. ASSUME NEW n \in Nodes, NEW x \in Diallers, DialAnswer(n, x) PROVE Goal
  BY <1>7 DEF DialAnswer
<1>8. ASSUME NEW n \in Nodes, NEW x \in Diallers, DialOpen(n, x) PROVE Goal
  BY <1>8 DEF DialOpen
<1>9. ASSUME NEW n \in Nodes, NEW x \in Diallers, DialHandshake(n, x) PROVE Goal
  BY <1>9 DEF DialHandshake
<1>10. ASSUME NEW n \in Nodes, NEW x \in Diallers, DialNotFound(n, x) PROVE Goal
  BY <1>10 DEF DialNotFound
<1>11. ASSUME NEW n \in Nodes, NEW x \in Diallers, DialFail(n, x) PROVE Goal
  BY <1>11 DEF DialFail
<1>12. ASSUME NEW n \in Nodes, NEW x \in Procs, Adopt(n, x) PROVE Goal
  BY <1>12 DEF Adopt
<1>13. ASSUME NEW n \in Nodes, NEW x \in Procs, Announce(n, x) PROVE Goal
  BY <1>13
<1>14. ASSUME NEW n \in Nodes, SndTake(n) PROVE Goal
  BY <1>14 DEF SndTake
<1>15. ASSUME NEW n \in Nodes, SndBadURI(n) PROVE Goal
  BY <1>15 DEF SndBadURI
<1>16. ASSUME NEW n \in Nodes, SndClosed(n) PROVE Goal
  BY <1>16 DEF SndClosed
<1>17. ASSUME NEW n \in Nodes, SndBackoff(n) PROVE Goal
  BY <1>17 DEF SndBackoff
<1>18. ASSUME NEW n \in Nodes, SndWrite(n) PROVE Goal
  BY <1>18 DEF SndWrite
<1>19. ASSUME NEW n \in Nodes, SndNoFile(n) PROVE Goal
  BY <1>19 DEF SndNoFile
<1>20. ASSUME NEW n \in Nodes, SndChunks(n) PROVE Goal
  BY <1>20 DEF SndChunks
<1>21. ASSUME NEW n \in Nodes, SndSent(n) PROVE Goal
  BY <1>21 DEF SndSent
<1>22. ASSUME NEW n \in Nodes, SndDrop(n) PROVE Goal
  BY <1>22 DEF SndDrop
<1>23. ASSUME NEW n \in Nodes, LstHead(n) PROVE Goal
  BY <1>23 DEF LstHead
<1>24. ASSUME NEW n \in Nodes, LstOffer(n) PROVE Goal
  BY <1>24 DEF LstOffer
<1>25. ASSUME NEW n \in Nodes, LstStopped(n) PROVE Goal
  BY <1>25 DEF LstStopped
<1>26. ASSUME NEW n \in Nodes, LstOpen(n) PROVE Goal
  BY <1>26 DEF LstOpen
<1>27. ASSUME NEW n \in Nodes, LstHandshake(n) PROVE Goal
  BY <1>27 DEF LstHandshake
<1>28. ASSUME NEW n \in Nodes, LstFail(n) PROVE Goal
  BY <1>28 DEF LstFail
<1>29. ASSUME NEW n \in Nodes, StopSwap(n) PROVE Goal
  BY <1>29 DEF StopSwap
<1>30. ASSUME NEW n \in Nodes, StopFinish(n) PROVE Goal
  BY <1>30 DEF StopFinish
<1>31. ASSUME NEW c \in Conns, NEW n \in Nodes, RdText(c, n) PROVE Goal
  BY <1>31 DEF RdText, Surface
<1>32. ASSUME NEW c \in Conns, NEW n \in Nodes, RdOffer(c, n) PROVE Goal
  BY <1>32 DEF RdOffer
<1>33. ASSUME NEW c \in Conns, NEW n \in Nodes, RdReceipt(c, n) PROVE Goal
  BY <1>33 DEF RdReceipt
<1>34. ASSUME NEW c \in Conns, NEW n \in Nodes, RdOther(c, n) PROVE Goal
  BY <1>34 DEF RdOther
<1>35. ASSUME NEW c \in Conns, NEW n \in Nodes, RdFile(c, n) PROVE Goal
  BY <1>35 DEF RdFile, Surface
<1>36. ASSUME NEW c \in Conns, NEW n \in Nodes, RdFileLost(c, n) PROVE Goal
  BY <1>36 DEF RdFileLost
<1>37. ASSUME NEW c \in Conns, NEW n \in Nodes, RdAck(c, n) PROVE Goal
  BY <1>37 DEF RdAck
<1>38. ASSUME NEW c \in Conns, NEW n \in Nodes, RdErr(c, n) PROVE Goal
  BY <1>38 DEF RdErr
<1>39. ASSUME NEW c \in Conns, NEW n \in Nodes, RdDrop(c, n) PROVE Goal
  BY <1>39 DEF RdDrop
<1>40. ASSUME NEW c \in Conns, NEW n \in Nodes, RdOffline(c, n) PROVE Goal
  BY <1>40
<1>41. ASSUME NEW c \in Conns, NEW n \in Nodes, ConnDown(c, n) PROVE Goal
  BY <1>41 DEF ConnDown
<1>42. ASSUME NEW c \in Conns, NEW n \in Nodes, ConnFail(c, n) PROVE Goal
  BY <1>42 DEF ConnFail
<1>43. ASSUME UNCHANGED vars PROVE Goal
  BY <1>43 DEF vars
<1>44. QED
  <2> HIDE DEF Goal, Alive, Reading, Other, connVars, eventVars
  <2>1. ASSUME NEW n \in Nodes, NEW x \in Diallers, DialStep(n, x) PROVE Goal
    BY <2>1, <1>6, <1>7, <1>8, <1>9, <1>10, <1>11 DEF DialStep
  <2>2. ASSUME NEW n \in Nodes, NEW x \in Procs, AdoptStep(n, x) PROVE Goal
    BY <2>2, <1>12, <1>13 DEF AdoptStep
  <2>3. ASSUME NEW n \in Nodes, SndStep(n) PROVE Goal
    BY <2>3, <1>14, <1>15, <1>16, <1>17, <1>18, <1>19, <1>20, <1>21, <1>22 DEF SndStep
  <2>4. ASSUME NEW n \in Nodes, LstStep(n) PROVE Goal
    BY <2>4, <1>23, <1>24, <1>25, <1>26, <1>27, <1>28 DEF LstStep
  <2>5. ASSUME NEW c \in Conns, NEW n \in Nodes, RdStep(c, n) PROVE Goal
    BY <2>5, <1>31, <1>32, <1>33, <1>34, <1>35, <1>36, <1>37, <1>38, <1>39, <1>40 DEF RdStep
  <2>6. QED
    BY <2>1, <2>2, <2>3, <2>4, <2>5, <1>1, <1>2, <1>3, <1>4, <1>5,
       <1>29, <1>30, <1>41, <1>42, <1>43 DEF Next

\* A peer shown online has a reader: adopt starts one with the presence event,
\* and recvLoop announces its own end.
LEMMA OnlineStep == IInv /\ OnlineHasReader /\ [Next]_vars => OnlineHasReader'
<1> SUFFICES ASSUME IInv, OnlineHasReader, [Next]_vars, NEW n \in Nodes, NEW p \in Nodes, shown'[n][p]
             PROVE  \E c \in Conns : Other(c, n)' = p /\ Alive(c, n)'
  BY DEF OnlineHasReader, Alive, Reading
<1>t. /\ rd \in [Conns -> [Nodes -> RDs]] /\ shown \in [Nodes -> [Nodes -> BOOLEAN]]
      /\ HoldingOK /\ BuildingOK
  BY DEF IInv, TypeOK, LinkInv
<1>1. shown[n][p] => \E c \in Conns : Other(c, n) = p /\ Alive(c, n)
  BY DEF OnlineHasReader, Alive
<1>2. CASE /\ UNCHANGED shown
           /\ \A c \in Conns, q \in Nodes :
                Alive(c, q) => Alive(c, q)' /\ Other(c, q)' = Other(c, q)
  BY <1>1, <1>2
<1>3. ASSUME NEW q \in Nodes, NEW x \in Procs, Announce(q, x)
      PROVE  \E c \in Conns : Other(c, n)' = p /\ Alive(c, n)'
  <2>c. PICK d : d = conn[q][x]
    OBVIOUS
  <2>1. /\ d \in Conns /\ rd[d][q] = "off"
        /\ shown' = [shown EXCEPT ![q][Other(d, q)] = TRUE]
        /\ rd' = [rd EXCEPT ![d][q] = "recv"] /\ UNCHANGED connVars
    BY <2>c, <1>3, <1>t DEF Announce, HoldingOK, BuildingOK, Holding, Procs, Diallers
  <2>2. \A c \in Conns, r \in Nodes : Other(c, r)' = Other(c, r)
    BY <2>1 DEF connVars, Other
  <2>3. Alive(d, q)' /\ \A c \in Conns, r \in Nodes : Alive(c, r) => Alive(c, r)'
    BY <2>1, <1>t DEF Alive, Reading
  <2>4. CASE n = q /\ p = Other(d, q)
    BY <2>1, <2>2, <2>3, <2>4
  <2>5. CASE ~(n = q /\ p = Other(d, q))
    <3>1. shown'[n][p] = shown[n][p]
      BY <2>1, <2>5, <1>t
    <3>2. QED  BY <3>1, <2>2, <2>3, <1>1
  <2>6. QED  BY <2>4, <2>5
<1>4. ASSUME NEW d \in Conns, NEW q \in Nodes, RdOffline(d, q)
      PROVE  \E c \in Conns : Other(c, n)' = p /\ Alive(c, n)'
  <2>1. /\ shown' = [shown EXCEPT ![q][Other(d, q)] = FALSE]
        /\ rd' = [rd EXCEPT ![d][q] = "over"] /\ UNCHANGED connVars
    BY <1>4 DEF RdOffline
  <2>2. \A c \in Conns, r \in Nodes : Other(c, r)' = Other(c, r)
    BY <2>1 DEF connVars, Other
  <2>3. \A c \in Conns, r \in Nodes : Alive(c, r) /\ ~(c = d /\ r = q) => Alive(c, r)'
    BY <2>1, <1>t DEF Alive, Reading
  <2>4. shown'[n][p] = shown[n][p] /\ ~(n = q /\ p = Other(d, q))
    BY <2>1, <1>t
  <2>5. PICK c \in Conns : Other(c, n) = p /\ Alive(c, n)
    BY <2>4, <1>1
  <2>6. QED  BY <2>2, <2>3, <2>4, <2>5
<1>5. QED  BY <1>2, <1>3, <1>4, ReadersStay

\* The presence a runtime shows is not left over from a link that is gone: there
\* is a recvLoop for the peer that has yet to announce its end.
THEOREM PresenceIsBacked == Spec => []OnlineHasReader
<1>1. Init => OnlineHasReader
  BY DEF Init, OnlineHasReader
<1>2. QED  BY <1>1, OnlineStep, Invariance, PTL DEF Spec

-----------------------------------------------------------------------------
(* The engine implements Delivery *)

\* An event at a user interface, or a call from one.
Visible ==
  \/ \E m \in Msgs : SendCall(m) \/ SendReturn(m)
  \/ \E n \in Nodes : SndBadURI(n) \/ SndBackoff(n) \/ SndNoFile(n) \/ SndSent(n) \/ SndDrop(n)
  \/ \E c \in Conns, n \in Nodes : RdText(c, n) \/ RdReceipt(c, n) \/ RdFile(c, n)

\* Nothing else shows.
LEMMA InvisibleSteps ==
  ASSUME [Next]_vars PROVE UNCHANGED <<phase, said, got>> \/ Visible
<1> DEFINE Goal == UNCHANGED <<phase, said, got>> \/ Visible
<1> SUFFICES Goal
  OBVIOUS
<1> USE DEF apiVars, eventVars
<1>1. ASSUME NEW m \in Msgs, SendCall(m) PROVE Goal
  BY <1>1 DEF Visible
<1>2. ASSUME NEW m \in Msgs, SendReturn(m) PROVE Goal
  BY <1>2 DEF Visible
<1>3. ASSUME NEW n \in Nodes, NEW p \in Nodes, MarkRead(n, p) PROVE Goal
  BY <1>3 DEF MarkRead
<1>4. ASSUME NEW n \in Nodes, NEW p \in Nodes, SendTyping(n, p) PROVE Goal
  BY <1>4 DEF SendTyping
<1>5. ASSUME NEW n \in Nodes, NEW p \in Nodes, Diagnose(n, p) PROVE Goal
  BY <1>5 DEF Diagnose
<1>6. ASSUME NEW n \in Nodes, NEW x \in Diallers, DialOffer(n, x) PROVE Goal
  BY <1>6 DEF DialOffer
<1>7. ASSUME NEW n \in Nodes, NEW x \in Diallers, DialAnswer(n, x) PROVE Goal
  BY <1>7 DEF DialAnswer
<1>8. ASSUME NEW n \in Nodes, NEW x \in Diallers, DialOpen(n, x) PROVE Goal
  BY <1>8 DEF DialOpen
<1>9. ASSUME NEW n \in Nodes, NEW x \in Diallers, DialHandshake(n, x) PROVE Goal
  BY <1>9 DEF DialHandshake
<1>10. ASSUME NEW n \in Nodes, NEW x \in Diallers, DialNotFound(n, x) PROVE Goal
  BY <1>10 DEF DialNotFound
<1>11. ASSUME NEW n \in Nodes, NEW x \in Diallers, DialFail(n, x) PROVE Goal
  BY <1>11 DEF DialFail
<1>12. ASSUME NEW n \in Nodes, NEW x \in Procs, Adopt(n, x) PROVE Goal
  BY <1>12 DEF Adopt
<1>13. ASSUME NEW n \in Nodes, NEW x \in Procs, Announce(n, x) PROVE Goal
  BY <1>13 DEF Announce
<1>14. ASSUME NEW n \in Nodes, SndTake(n) PROVE Goal
  BY <1>14 DEF SndTake
<1>15. ASSUME NEW n \in Nodes, SndBadURI(n) PROVE Goal
  BY <1>15 DEF Visible
<1>16. ASSUME NEW n \in Nodes, SndClosed(n) PROVE Goal
  BY <1>16 DEF SndClosed
<1>17. ASSUME NEW n \in Nodes, SndBackoff(n) PROVE Goal
  BY <1>17 DEF Visible
<1>18. ASSUME NEW n \in Nodes, SndWrite(n) PROVE Goal
  BY <1>18 DEF SndWrite
<1>19. ASSUME NEW n \in Nodes, SndNoFile(n) PROVE Goal
  BY <1>19 DEF Visible
<1>20. ASSUME NEW n \in Nodes, SndChunks(n) PROVE Goal
  BY <1>20 DEF SndChunks
<1>21. ASSUME NEW n \in Nodes, SndSent(n) PROVE Goal
  BY <1>21 DEF Visible
<1>22. ASSUME NEW n \in Nodes, SndDrop(n) PROVE Goal
  BY <1>22 DEF Visible
<1>23. ASSUME NEW n \in Nodes, LstHead(n) PROVE Goal
  BY <1>23 DEF LstHead
<1>24. ASSUME NEW n \in Nodes, LstOffer(n) PROVE Goal
  BY <1>24 DEF LstOffer
<1>25. ASSUME NEW n \in Nodes, LstStopped(n) PROVE Goal
  BY <1>25 DEF LstStopped
<1>26. ASSUME NEW n \in Nodes, LstOpen(n) PROVE Goal
  BY <1>26 DEF LstOpen
<1>27. ASSUME NEW n \in Nodes, LstHandshake(n) PROVE Goal
  BY <1>27 DEF LstHandshake
<1>28. ASSUME NEW n \in Nodes, LstFail(n) PROVE Goal
  BY <1>28 DEF LstFail
<1>29. ASSUME NEW n \in Nodes, StopSwap(n) PROVE Goal
  BY <1>29 DEF StopSwap
<1>30. ASSUME NEW n \in Nodes, StopFinish(n) PROVE Goal
  BY <1>30 DEF StopFinish
<1>31. ASSUME NEW c \in Conns, NEW n \in Nodes, RdText(c, n) PROVE Goal
  BY <1>31 DEF Visible
<1>32. ASSUME NEW c \in Conns, NEW n \in Nodes, RdOffer(c, n) PROVE Goal
  BY <1>32 DEF RdOffer
<1>33. ASSUME NEW c \in Conns, NEW n \in Nodes, RdReceipt(c, n) PROVE Goal
  BY <1>33 DEF Visible
<1>34. ASSUME NEW c \in Conns, NEW n \in Nodes, RdOther(c, n) PROVE Goal
  BY <1>34 DEF RdOther
<1>35. ASSUME NEW c \in Conns, NEW n \in Nodes, RdFile(c, n) PROVE Goal
  BY <1>35 DEF Visible
<1>36. ASSUME NEW c \in Conns, NEW n \in Nodes, RdFileLost(c, n) PROVE Goal
  BY <1>36 DEF RdFileLost
<1>37. ASSUME NEW c \in Conns, NEW n \in Nodes, RdAck(c, n) PROVE Goal
  BY <1>37 DEF RdAck
<1>38. ASSUME NEW c \in Conns, NEW n \in Nodes, RdErr(c, n) PROVE Goal
  BY <1>38 DEF RdErr
<1>39. ASSUME NEW c \in Conns, NEW n \in Nodes, RdDrop(c, n) PROVE Goal
  BY <1>39 DEF RdDrop
<1>40. ASSUME NEW c \in Conns, NEW n \in Nodes, RdOffline(c, n) PROVE Goal
  BY <1>40 DEF RdOffline
<1>41. ASSUME NEW c \in Conns, NEW n \in Nodes, ConnDown(c, n) PROVE Goal
  BY <1>41 DEF ConnDown
<1>42. ASSUME NEW c \in Conns, NEW n \in Nodes, ConnFail(c, n) PROVE Goal
  BY <1>42 DEF ConnFail
<1>43. ASSUME UNCHANGED vars PROVE Goal
  BY <1>43 DEF vars
<1>44. QED
  <2> HIDE DEF Goal, apiVars, eventVars
  <2>1. ASSUME NEW n \in Nodes, NEW x \in Diallers, DialStep(n, x) PROVE Goal
    BY <2>1, <1>6, <1>7, <1>8, <1>9, <1>10, <1>11 DEF DialStep
  <2>2. ASSUME NEW n \in Nodes, NEW x \in Procs, AdoptStep(n, x) PROVE Goal
    BY <2>2, <1>12, <1>13 DEF AdoptStep
  <2>3. ASSUME NEW n \in Nodes, SndStep(n) PROVE Goal
    BY <2>3, <1>14, <1>15, <1>16, <1>17, <1>18, <1>19, <1>20, <1>21, <1>22 DEF SndStep
  <2>4. ASSUME NEW n \in Nodes, LstStep(n) PROVE Goal
    BY <2>4, <1>23, <1>24, <1>25, <1>26, <1>27, <1>28 DEF LstStep
  <2>5. ASSUME NEW c \in Conns, NEW n \in Nodes, RdStep(c, n) PROVE Goal
    BY <2>5, <1>31, <1>32, <1>33, <1>34, <1>35, <1>36, <1>37, <1>38, <1>39, <1>40 DEF RdStep
  <2>6. QED
    BY <2>1, <2>2, <2>3, <2>4, <2>5, <1>1, <1>2, <1>3, <1>4, <1>5,
       <1>29, <1>30, <1>41, <1>42, <1>43 DEF Next

\* How often an id is in a sequence without repetitions.
LEMMA CountOnce ==
  ASSUME NEW s, NEW e, \A i, j \in DOMAIN s : s[i] = s[j] => i = j
  PROVE  Occurrences(s, e) = IF InSeq(e, s) THEN 1 ELSE 0
<1>1. CASE InSeq(e, s)
  <2>1. PICK i \in DOMAIN s : s[i] = e
    BY <1>1 DEF InSeq
  <2>2. {j \in DOMAIN s : s[j] = e} = {i}
    BY <2>1
  <2>3. QED  BY <1>1, <2>2, FS_Singleton DEF Occurrences
<1>2. CASE ~InSeq(e, s)
  <2>1. {j \in DOMAIN s : s[j] = e} = {}
    BY <1>2 DEF InSeq
  <2>2. QED  BY <1>2, <2>1, FS_EmptySet DEF Occurrences
<1>3. QED  BY <1>1, <1>2

\* A message has reached its recipient.
Here(m) == Dest[m] # NoNode /\ InSeq(MsgId(m), got[Dest[m]])

\* The recipient is the only user who gets a message, and gets it once.
LEMMA SurfacedHere ==
  ASSUME PlaceInv, NEW m \in Msgs
  PROVE  /\ TimesSurfaced(m) = IF Here(m) THEN 1 ELSE 0
         /\ Surfaced(MsgId(m)) <=> Here(m)
<1>t. Dest[m] \in Nodes \cup {NoNode} /\ NoNode \notin Nodes
  BY RuntimeAssumption
<1>1. TimesSurfaced(m) = IF Here(m) THEN 1 ELSE 0
  <2>1. CASE Dest[m] = NoNode
    BY <2>1 DEF TimesSurfaced, Here
  <2>2. CASE Dest[m] \in Nodes
    <3>1. \A i, j \in DOMAIN got[Dest[m]] : got[Dest[m]][i] = got[Dest[m]][j] => i = j
      BY <2>2 DEF PlaceInv, SurfacedOnce
    <3>2. Occurrences(got[Dest[m]], MsgId(m)) = IF InSeq(MsgId(m), got[Dest[m]]) THEN 1 ELSE 0
      BY <3>1, CountOnce
    <3>3. QED  BY <3>2, <2>2, <1>t DEF TimesSurfaced, Here
  <2>3. QED  BY <2>1, <2>2, <1>t
<1>2. ASSUME Surfaced(MsgId(m)) PROVE Here(m)
  <2>1. PICK n \in Nodes : \E k \in DOMAIN got[n] : got[n][k] = MsgId(m)
    BY <1>2 DEF Surfaced, InSeq
  <2>2. PICK k \in DOMAIN got[n] : got[n][k] = MsgId(m)
    BY <2>1
  <2>3. PICK j \in Msgs : got[n][k] = MsgId(j) /\ Dest[j] = n
    BY <2>2 DEF PlaceInv, Routed
  <2>4. j = m
    BY <2>2, <2>3, MsgIds
  <2>5. QED  BY <2>2, <2>3, <2>4, <1>t DEF Here, InSeq
<1>3. Here(m) => Surfaced(MsgId(m))
  BY <1>t DEF Here, Surfaced
<1>4. QED  BY <1>1, <1>2, <1>3

\* Where a message has arrived when nobody's events change, and when one is added.
LEMMA HereAfter ==
  ASSUME TypeOK, SurfacedOnce', NEW k \in Msgs
  PROVE  /\ TimesSurfaced(k)' = IF Here(k)' THEN 1 ELSE 0
         /\ UNCHANGED got => (Here(k)' <=> Here(k))
         /\ \A m \in Msgs, n \in Nodes :
              Dest[m] = n /\ got' = [got EXCEPT ![n] = Append(@, MsgId(m))] =>
                (Here(k)' <=> Here(k) \/ k = m)
<1>t. /\ Dest[k] \in Nodes \cup {NoNode} /\ NoNode \notin Nodes /\ MsgId(k) \in Ids
      /\ got \in [Nodes -> Seq(Ids)]
  BY RuntimeAssumption, MsgIds DEF TypeOK
<1>i. PICK i : i = MsgId(k) /\ i = MsgId(k)'
  BY DEF MsgId
<1>1. TimesSurfaced(k)' = IF Here(k)' THEN 1 ELSE 0
  <2>1. CASE Dest[k] = NoNode
    BY <2>1 DEF TimesSurfaced, Here
  <2>2. CASE Dest[k] \in Nodes
    <3>1. \A x, y \in DOMAIN got'[Dest[k]] : got'[Dest[k]][x] = got'[Dest[k]][y] => x = y
      BY <2>2 DEF SurfacedOnce
    <3>2. Occurrences(got'[Dest[k]], i) = IF InSeq(i, got'[Dest[k]]) THEN 1 ELSE 0
      BY <3>1, CountOnce
    <3>3. QED  BY <3>2, <2>2, <1>t, <1>i DEF TimesSurfaced, Here
  <2>3. QED  BY <2>1, <2>2, <1>t
<1>2. UNCHANGED got => (Here(k)' <=> Here(k))
  BY <1>i DEF Here
<1>3. ASSUME NEW m \in Msgs, NEW n \in Nodes, Dest[m] = n,
             got' = [got EXCEPT ![n] = Append(@, MsgId(m))]
      PROVE  Here(k)' <=> Here(k) \/ k = m
  <2>1. MsgId(m) \in Ids /\ (MsgId(k) = MsgId(m) <=> k = m)
    BY MsgIds
  <2>2. CASE Dest[k] = n
    <3>1. got'[n] = Append(got[n], MsgId(m)) /\ got[n] \in Seq(Ids)
      BY <1>3, <1>t
    <3>2. InSeq(i, got'[n]) <=> InSeq(i, got[n]) \/ i = MsgId(m)
      BY <3>1, <2>1, InAppend
    <3>3. QED  BY <3>2, <2>1, <2>2, <1>t, <1>i DEF Here
  <2>3. CASE Dest[k] \in Nodes \ {n}
    <3>1. got'[Dest[k]] = got[Dest[k]] /\ k # m
      BY <2>3, <1>3, <1>t
    <3>2. QED  BY <3>1, <1>i DEF Here
  <2>4. CASE Dest[k] = NoNode
    BY <2>4, <1>3, <1>t DEF Here
  <2>5. QED  BY <2>2, <2>3, <2>4, <1>t
<1>4. QED  BY <1>1, <1>2, <1>3

\* Steps of Delivery, told message by message.
SameAsked == \A k \in Msgs : phase'[k] = "new" <=> phase[k] = "new"
SameVerdicts == \A k \in Msgs : VerdictOn(k)' = VerdictOn(k)
SameArrivals == \A k \in Msgs : TimesSurfaced(k)' = TimesSurfaced(k)
SameReceipts == \A k \in Msgs : ReceiptsFor(k)' = ReceiptsFor(k)

\* Functions and sets that are equal message by message are equal.
LEMMA PromiseTerms ==
  /\ SameAsked => UNCHANGED {m \in Msgs : phase[m] # "new"}
  /\ SameVerdicts => UNCHANGED [m \in Msgs |-> VerdictOn(m)]
  /\ SameArrivals => UNCHANGED [m \in Msgs |-> TimesSurfaced(m)]
  /\ SameReceipts => UNCHANGED [m \in Msgs |-> ReceiptsFor(m)]
<1>1. SameAsked => UNCHANGED {m \in Msgs : phase[m] # "new"}
  BY DEF SameAsked
<1>2. SameVerdicts => UNCHANGED [m \in Msgs |-> VerdictOn(m)]
  BY DEF SameVerdicts
<1>3. SameArrivals => UNCHANGED [m \in Msgs |-> TimesSurfaced(m)]
  BY DEF SameArrivals
<1>4. SameReceipts => UNCHANGED [m \in Msgs |-> ReceiptsFor(m)]
  BY DEF SameReceipts
<1>5. QED  BY <1>1, <1>2, <1>3, <1>4

\* A step that shows nothing.
LEMMA PromiseStutter ==
  ASSUME SameAsked, SameVerdicts, SameArrivals, SameReceipts PROVE UNCHANGED Promise!vars
  BY PromiseTerms DEF Promise!vars

\* A step that shows a call of Send or SendFile.
LEMMA PromiseAsk ==
  ASSUME NEW m \in Msgs, phase[m] = "new", SameVerdicts, SameArrivals, SameReceipts,
         \A k \in Msgs : phase'[k] = "new" <=> phase[k] = "new" /\ k # m
  PROVE  Promise!Ask(m)
<1>1. {k \in Msgs : phase[k] # "new"}' = {k \in Msgs : phase[k] # "new"} \cup {m}
  OBVIOUS
<1>2. QED  BY <1>1, PromiseTerms DEF Promise!Ask

\* A step that shows a message or a file to its recipient.
LEMMA PromiseArrive ==
  ASSUME NEW m \in Msgs, phase[m] # "new", VerdictOn(m) # "sendFailed", TimesSurfaced(m) = 0,
         SameAsked, SameVerdicts, SameReceipts,
         \A k \in Msgs : TimesSurfaced(k)' = IF k = m THEN 1 ELSE TimesSurfaced(k)
  PROVE  Promise!Arrive(m)
<1>1. [k \in Msgs |-> TimesSurfaced(k)]' = [[k \in Msgs |-> TimesSurfaced(k)] EXCEPT ![m] = 1]
  OBVIOUS
<1>2. QED  BY <1>1, PromiseTerms DEF Promise!Arrive

\* A step that shows a verdict to the sender.
LEMMA PromiseVerdict ==
  ASSUME NEW m \in Msgs, NEW e \in {"sent", "sendFailed"}, phase[m] # "new", VerdictOn(m) = "none",
         e = "sendFailed" => TimesSurfaced(m) = 0,
         SameAsked, SameArrivals, SameReceipts,
         \A k \in Msgs : VerdictOn(k)' = IF k = m THEN e ELSE VerdictOn(k)
  PROVE  Promise!Sent(m) \/ Promise!Fail(m)
<1>1. [k \in Msgs |-> VerdictOn(k)]' = [[k \in Msgs |-> VerdictOn(k)] EXCEPT ![m] = e]
  OBVIOUS
<1>2. CASE e = "sent"
  BY <1>1, <1>2, PromiseTerms DEF Promise!Sent
<1>3. CASE e = "sendFailed"
  BY <1>1, <1>3, PromiseTerms DEF Promise!Fail
<1>4. QED  BY <1>2, <1>3

\* A step that shows a receipt to the sender.
LEMMA PromiseAcknowledge ==
  ASSUME NEW m \in Msgs, NEW r, TimesSurfaced(m) = 1, SameAsked, SameVerdicts, SameArrivals,
         \A k \in Msgs : ReceiptsFor(k)' = IF k = m THEN ReceiptsFor(k) \cup {r} ELSE ReceiptsFor(k)
  PROVE  Promise!Acknowledge(m, r)
<1>1. [k \in Msgs |-> ReceiptsFor(k)]'
        = [[k \in Msgs |-> ReceiptsFor(k)] EXCEPT ![m] = [k \in Msgs |-> ReceiptsFor(k)][m] \cup {r}]
  OBVIOUS
<1>2. QED  BY <1>1, PromiseTerms DEF Promise!Acknowledge

\* What a user interface is shown when events about m are pushed, or none are.
LEMMA SaidSame ==
  ASSUME NEW k \in Msgs, UNCHANGED said
  PROVE  VerdictOn(k)' = VerdictOn(k) /\ ReceiptsFor(k)' = ReceiptsFor(k)
BY DEF VerdictOn, ReceiptsFor

\* A first verdict on m is the verdict shown, and no receipt changes.
LEMMA SaidVerdict ==
  ASSUME TypeOK, NEW m \in Msgs, NEW e \in {"sent", "sendFailed"}, Say(m, e), ~Answered(m)
  PROVE  /\ VerdictOn(m) = "none" /\ SameReceipts
         /\ \A k \in Msgs : VerdictOn(k)' = IF k = m THEN e ELSE VerdictOn(k)
<1>1. \A k \in Msgs : \A v : InSeq(v, said'[k]) <=> InSeq(v, said[k]) \/ (k = m /\ v = e)
  BY SayAdds
<1>2. SameReceipts
  BY <1>1 DEF SameReceipts, ReceiptsFor
<1>3. VerdictOn(m) = "none" /\ VerdictOn(m)' = e
  BY <1>1 DEF VerdictOn, Answered
<1>4. \A k \in Msgs : k # m => VerdictOn(k)' = VerdictOn(k)
  BY <1>1 DEF VerdictOn
<1>5. QED  BY <1>2, <1>3, <1>4

\* A receipt for m is added to the ones shown, and no verdict changes.
LEMMA SaidReceipt ==
  ASSUME TypeOK, NEW m \in Msgs, NEW r \in {"DELIVERED", "READ"}, Say(m, r)
  PROVE  /\ SameVerdicts
         /\ \A k \in Msgs : ReceiptsFor(k)' = IF k = m THEN ReceiptsFor(k) \cup {r} ELSE ReceiptsFor(k)
<1>1. \A k \in Msgs : \A v : InSeq(v, said'[k]) <=> InSeq(v, said[k]) \/ (k = m /\ v = r)
  BY SayAdds
<1>2. SameVerdicts
  BY <1>1 DEF SameVerdicts, VerdictOn
<1>3. ASSUME NEW k \in Msgs PROVE ReceiptsFor(k)' = IF k = m THEN ReceiptsFor(k) \cup {r} ELSE ReceiptsFor(k)
  <2>1. CASE k = m
    BY <2>1, <1>1 DEF ReceiptsFor
  <2>2. CASE k # m
    BY <2>2, <1>1 DEF ReceiptsFor
  <2>3. QED  BY <2>1, <2>2
<1>4. QED  BY <1>2, <1>3

\* Every step of the engine is a step of Delivery or shows nothing.
LEMMA PromiseStep ==
  ASSUME IInv, MsgInv, MsgInv', [Next]_vars PROVE [Promise!Next]_(Promise!vars)
<1>t. /\ TypeOK /\ SurfacedOnce' /\ PlaceInv /\ StageInv /\ FlowInv /\ WriterInv
      /\ wire \in [Conns -> [Nodes -> Seq(Frames)]] /\ phase \in [Msgs -> {"new", "calling", "returned"}]
  BY DEF IInv, TypeOK, MsgInv, PlaceInv
<1>s. \A m \in Msgs : StageOf(m)
  BY <1>t, StageParts
<1> DEFINE Visibly ==
      \E m \in Msgs : \/ Promise!Ask(m) \/ Promise!Arrive(m) \/ Promise!Sent(m) \/ Promise!Fail(m)
                      \/ \E r \in {"DELIVERED", "READ"} : Promise!Acknowledge(m, r)
      Shows == Visibly \/ UNCHANGED Promise!vars
<1> SUFFICES Shows
  BY DEF Promise!Next, Promise!Receipts
<1>a. UNCHANGED got => SameArrivals
  BY <1>t, SurfacedHere, HereAfter DEF SameArrivals
<1>v. UNCHANGED said => SameVerdicts /\ SameReceipts
  BY SaidSame DEF SameVerdicts, SameReceipts
<1>p. UNCHANGED phase => SameAsked
  BY DEF SameAsked
<1> HIDE DEF Shows, Visibly
<1>1. CASE UNCHANGED <<phase, said, got>>
  BY <1>1, <1>a, <1>v, <1>p, PromiseStutter DEF Shows
<1>2. ASSUME NEW m \in Msgs, SendCall(m) PROVE Shows
  <2>1. phase[m] = "new" /\ phase' = [phase EXCEPT ![m] = "calling"] /\ UNCHANGED <<said, got>>
    BY <1>2 DEF SendCall, eventVars
  <2>2. \A k \in Msgs : phase'[k] = "new" <=> phase[k] = "new" /\ k # m
    BY <2>1, <1>t
  <2>3. Promise!Ask(m)
    BY <2>1, <2>2, <1>a, <1>v, PromiseAsk
  <2>4. QED  BY <2>3 DEF Shows, Visibly
<1>3. ASSUME NEW m \in Msgs, SendReturn(m) PROVE Shows
  <2>1. phase[m] = "calling" /\ phase' = [phase EXCEPT ![m] = "returned"] /\ UNCHANGED <<said, got>>
    BY <1>3 DEF SendReturn, eventVars
  <2>2. SameAsked
    BY <2>1, <1>t DEF SameAsked
  <2>3. QED  BY <2>1, <2>2, <1>a, <1>v, PromiseStutter DEF Shows
\* The sender is told of m.
<1>4. ASSUME NEW m \in Msgs, NEW e \in {"sent", "sendFailed"}, Say(m, e), UNCHANGED <<phase, got>>,
             Queued(m) \/ Worked(m), e = "sendFailed" => ~Surfaced(MsgId(m))
      PROVE  Shows
  <2>1. ~Answered(m) /\ phase[m] = "returned"
    BY <1>4, <1>s DEF StageOf
  <2>2. /\ VerdictOn(m) = "none" /\ SameReceipts
        /\ \A k \in Msgs : VerdictOn(k)' = IF k = m THEN e ELSE VerdictOn(k)
    BY <2>1, <1>4, <1>t, SaidVerdict
  <2>3. e = "sendFailed" => TimesSurfaced(m) = 0
    BY <1>4, <1>t, SurfacedHere
  <2>4. Promise!Sent(m) \/ Promise!Fail(m)
    BY <2>1, <2>2, <2>3, <1>4, <1>a, <1>p, PromiseVerdict
  <2>5. QED  BY <2>4 DEF Shows, Visibly
<1>5. ASSUME NEW n \in Nodes, NEW e \in {"sent", "sendFailed"}, Report(n, e), Working(n),
             UNCHANGED <<phase, got>>,
             \A m \in Msgs : m = req[n] /\ e = "sendFailed" => Unsent(m) \/ (m \in Files /\ Cut(m))
      PROVE  Shows
  <2>m. PICK m : m = req[n]
    OBVIOUS
  <2>1. m \in Msgs
    BY <2>m, <1>5 DEF IInv, BookInv, RequestsOK, Working
  <2>2. Owner[m] = n
    BY <2>m, <1>5, <1>t DEF WriterInv, RequestOK
  <2>3. Say(m, e) /\ Worked(m)
    BY <2>m, <2>2, <1>5 DEF Report, Worked
  <2>4. e = "sendFailed" => ~Surfaced(MsgId(m))
    BY <2>m, <2>1, <1>5, <1>s DEF StageOf, Out, Stub
  <2>5. QED  BY <2>1, <2>3, <2>4, <1>4, <1>5
<1>r. ASSUME NEW n \in Nodes, Working(n)
      PROVE  \A m \in Msgs : m = req[n] => Worked(m) /\ Owner[m] = n
  BY <1>r, <1>t DEF WriterInv, RequestOK, Worked
<1>6. ASSUME NEW n \in Nodes, SndBadURI(n) PROVE Shows
  <2>m. PICK m : m = Head(outbox[n])
    OBVIOUS
  <2>1. outbox[n] # <<>> /\ outbox[n] \in Seq(Msgs) /\ Say(m, "sendFailed") /\ UNCHANGED <<phase, got>>
    BY <2>m, <1>6 DEF SndBadURI, IInv, TypeOK
  <2>2. m \in Msgs /\ m = outbox[n][1] /\ 1 \in DOMAIN outbox[n]
    BY <2>m, <2>1, TailFacts
  <2>3. Owner[m] = n
    BY <2>2 DEF IInv, BookInv, RequestsOK
  <2>4. Queued(m)
    BY <2>2, <2>3 DEF Queued, InSeq
  <2>5. ~Surfaced(MsgId(m))
    BY <2>2, <2>4, <1>s DEF StageOf, Unsent, Out
  <2>6. QED  BY <2>1, <2>2, <2>4, <2>5, <1>4
<1>7. ASSUME NEW n \in Nodes, SndBackoff(n) PROVE Shows
  <2>1. Working(n) /\ pc[n]["snd"] = "backoff" /\ UNCHANGED <<phase, got>>
    BY <1>7 DEF SndBackoff, Working, apiVars
  <2>2. CASE UNCHANGED said
    BY <2>1, <2>2, <1>1
  <2>3. CASE Report(n, "sendFailed")
    BY <2>1, <2>3, <1>r, <1>5 DEF Unsent
  <2>4. QED  BY <2>2, <2>3, <1>7 DEF SndBackoff
<1>8. ASSUME NEW n \in Nodes, SndNoFile(n) PROVE Shows
  <2>1. Working(n) /\ pc[n]["snd"] = "write" /\ UNCHANGED <<phase, got>> /\ Report(n, "sendFailed")
    BY <1>8 DEF SndNoFile, Working, apiVars
  <2>2. QED  BY <2>1, <1>r, <1>5 DEF Unsent
<1>9. ASSUME NEW n \in Nodes, SndDrop(n) PROVE Shows
  <2>1. Working(n) /\ pc[n]["snd"] = "drop" /\ UNCHANGED <<phase, got>> /\ Report(n, "sendFailed")
    BY <1>9 DEF SndDrop, Working, apiVars
  <2>2. QED  BY <2>1, <1>r, <1>5 DEF Unsent, Cut
<1>10. ASSUME NEW n \in Nodes, SndSent(n) PROVE Shows
  <2>1. Working(n) /\ UNCHANGED <<phase, got>> /\ Report(n, "sent")
    BY <1>10 DEF SndSent, Working, apiVars
  <2>2. QED  BY <2>1, <1>5
\* The recipient is shown m.
<1>11. ASSUME NEW n \in Nodes, NEW m \in Msgs, Dest[m] = n, UNCHANGED <<phase, said>>,
              got' = [got EXCEPT ![n] = Append(@, MsgId(m))],
              Out(m), ~Surfaced(MsgId(m)), ~Failed(m)
       PROVE  Shows
  <2>1. phase[m] = "returned"
    BY <1>11, <1>s DEF StageOf
  <2>2. VerdictOn(m) # "sendFailed"
    BY <1>11 DEF VerdictOn, Failed
  <2>3. TimesSurfaced(m) = 0
    BY <1>11, <1>t, SurfacedHere
  <2>4. ASSUME NEW k \in Msgs PROVE TimesSurfaced(k)' = IF k = m THEN 1 ELSE TimesSurfaced(k)
    <3>1. /\ TimesSurfaced(k) = IF Here(k) THEN 1 ELSE 0
          /\ TimesSurfaced(k)' = IF Here(k)' THEN 1 ELSE 0
          /\ Here(k)' <=> Here(k) \/ k = m
      BY <1>11, <1>t, SurfacedHere, HereAfter
    <3>2. QED  BY <3>1
  <2>5. Promise!Arrive(m)
    BY <2>1, <2>2, <2>3, <2>4, <1>11, <1>v, <1>p, PromiseArrive
  <2>6. QED  BY <2>5 DEF Shows, Visibly
<1>12. ASSUME NEW c \in Conns, NEW n \in Nodes, RdText(c, n) PROVE Shows
  <2> DEFINE f == Head(wire[c][n])
  <2>1. /\ wire[c][n] # <<>> /\ f.kind = "text" /\ UNCHANGED <<phase, said>>
        /\ got' = [got EXCEPT ![n] = Append(@, f.id)]
    BY <1>12 DEF RdText, Receive, Surface, apiVars
  <2>2. f = wire[c][n][1] /\ 1 \in DOMAIN wire[c][n]
    BY <2>1, <1>t, TailFacts
  <2>3. PICK m \in Msgs : f = Envelope(m) /\ Dest[m] = n
    BY <2>1, <2>2, <1>t DEF PlaceInv, Routed, Carrier
  <2>4. f.id = MsgId(m) /\ m \notin Files
    BY <2>1, <2>3, MsgIds
  <2>5. Carries(c, n, 1, MsgId(m)) /\ MsgId(m) \in Ids
    BY <2>1, <2>2, <2>4, MsgIds DEF Carries, Carrier
  <2>6. Out(m) /\ ~Surfaced(MsgId(m))
    BY <2>2, <2>5, <1>t DEF Out, PlaceInv, OnePlace
  <2>7. ~Failed(m)
    BY <2>4, <2>6, <1>s DEF StageOf, Unsent
  <2>8. QED  BY <2>1, <2>3, <2>4, <2>6, <2>7, <1>11
<1>13. ASSUME NEW c \in Conns, NEW n \in Nodes, RdFile(c, n) PROVE Shows
  <2>1. /\ wire[c][n] # <<>> /\ rd[c][n] = "body" /\ UNCHANGED <<phase, said>>
        /\ got' = [got EXCEPT ![n] = Append(@, cur[c][n])]
    BY <1>13 DEF RdFile, Receive, Surface, apiVars
  <2>c. Head(wire[c][n]) = Chunks
    <3>1. wire[c][n] \in Seq(Frames)
      BY <1>t DEF IInv, TypeOK
    <3>2. Head(wire[c][n]) \in Frames
      BY <2>1, <3>1
    <3>3. QED  BY <3>2, <1>13, ChunksFrame DEF RdFile, Receive
  <2>2. PICK m \in Files : cur[c][n] = MsgId(m) /\ Dest[m] = n
    BY <2>1, <1>t DEF PlaceInv, Routed
  <2>3. m \in Msgs /\ MsgId(m) \in Ids
    BY RuntimeAssumption, MsgIds
  <2>4. InBody(MsgId(m), c, n)
    BY <2>1, <2>2 DEF InBody
  <2>5. Out(m) /\ ~Surfaced(MsgId(m))
    BY <2>3, <2>4, <1>t DEF Out, PlaceInv, OnePlace
  <2>6. ~Failed(m)
    BY <2>1, <2>c, <2>3, <2>4, <1>s DEF StageOf, Cut, Stub
  <2>7. QED  BY <2>1, <2>2, <2>3, <2>5, <2>6, <1>11
<1>14. ASSUME NEW c \in Conns, NEW n \in Nodes, RdReceipt(c, n) PROVE Shows
  <2> DEFINE f == Head(wire[c][n])
  <2>1. /\ wire[c][n] # <<>> /\ f.kind = "receipt" /\ UNCHANGED <<phase, got>>
        /\ IF f.id \in Msgs THEN Say(f.id, f.state) ELSE UNCHANGED said
    BY <1>14 DEF RdReceipt, Receive, apiVars
  <2>2. f = wire[c][n][1] /\ 1 \in DOMAIN wire[c][n] /\ f \in Frames
    BY <2>1, <1>t, TailFacts
  <2>3. f.state \in {"DELIVERED", "READ"} /\ Surfaced(f.id)
    BY <2>1, <2>2, <1>t, FrameFields DEF PlaceInv, ReceiptsTrue
  <2> HIDE DEF f
  <2>4. CASE f.id \notin Msgs
    BY <2>1, <2>4, <1>1
  <2>5. CASE f.id \in Msgs
    <3>1. MsgId(f.id) = f.id
      <4>1. PICK p \in Nodes : \E k \in DOMAIN got[p] : got[p][k] = f.id
        BY <2>3 DEF Surfaced, InSeq
      <4>2. PICK j \in Msgs : MsgId(j) = f.id
        BY <4>1, <1>t DEF PlaceInv, Routed
      <4>3. QED  BY <4>2, <2>5, MsgIds
    <3>2. TimesSurfaced(f.id) = 1
      BY <3>1, <2>3, <2>5, <1>t, SurfacedHere
    <3>3. /\ SameVerdicts
          /\ \A k \in Msgs : ReceiptsFor(k)' =
               IF k = f.id THEN ReceiptsFor(k) \cup {f.state} ELSE ReceiptsFor(k)
      BY <2>1, <2>3, <2>5, <1>t, SaidReceipt
    <3>4. PICK m \in Msgs : m = f.id
      BY <2>5
    <3>5. PICK r \in {"DELIVERED", "READ"} : r = f.state
      BY <2>3
    <3>6. Promise!Acknowledge(m, r)
      BY <3>2, <3>3, <3>4, <3>5, <2>1, <1>a, <1>p, PromiseAcknowledge
    <3>7. QED  BY <3>6 DEF Shows, Visibly
  <2>6. QED  BY <2>4, <2>5
<1>15. QED
  BY <1>1, <1>2, <1>3, <1>6, <1>7, <1>8, <1>9, <1>10, <1>12, <1>13, <1>14, InvisibleSteps
     DEF Visible

\* Before anything is sent nothing is shown.
LEMMA PromiseInit == Init => Promise!Init
<1> SUFFICES ASSUME Init PROVE Promise!Init
  OBVIOUS
<1>1. /\ \A m \in Msgs : phase[m] = "new" /\ said[m] = <<>>
      /\ \A n \in Nodes : got[n] = <<>>
  BY DEF Init
<1>2. \A e : ~InSeq(e, <<>>) /\ Occurrences(<<>>, e) = 0
  <2>1. \A e : ~InSeq(e, <<>>)
    BY DEF InSeq
  <2>2. \A e : Occurrences(<<>>, e) = IF InSeq(e, <<>>) THEN 1 ELSE 0
    BY CountOnce
  <2>3. QED  BY <2>1, <2>2
<1>3. \A m \in Msgs : VerdictOn(m) = "none" /\ ReceiptsFor(m) = {}
  BY <1>1, <1>2 DEF VerdictOn, ReceiptsFor
<1>4. \A m \in Msgs : TimesSurfaced(m) = 0
  BY <1>1, <1>2, RuntimeAssumption DEF TimesSurfaced
<1>5. {m \in Msgs : phase[m] # "new"} = {}
  BY <1>1
<1>6. QED  BY <1>3, <1>4, <1>5 DEF Promise!Init

\* The engine keeps the promises of Delivery, for any number of runtimes, links,
\* messages, attempts and failures: one verdict per request, one arrival per
\* message, none after a failure and no failure after an arrival, and receipts
\* only for what has arrived.
THEOREM EngineImplementsDelivery == Spec => ImplementsDelivery
<1>1. (IInv /\ MsgInv) /\ (IInv /\ MsgInv)' /\ [Next]_vars => [Promise!Next]_(Promise!vars)
  BY PromiseStep
<1>2. QED
  BY <1>1, PromiseInit, MsgInvariance, PTL DEF Spec, ImplementsDelivery, Promise!Spec

=============================================================================
