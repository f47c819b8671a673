-------------------------- MODULE SignalingProofs --------------------------
(***************************************************************************)
(* The exchange of offers and answers, for any number of nodes and dials   *)
(* and any queue capacities.                                               *)
(*   RegistryAnswersOfferer: the Registry routes every answer to the       *)
(* dialler of the offer it answers.  The DHTSignaler does not (run         *)
(* misrouted): the argument rests on lastRemote being moved by the accept  *)
(* loop alone.                                                             *)
(*   OffersHandledOnce: with either implementation an offer, or the answer *)
(* to it, is in one place at most.  SignalInv says in five predicates      *)
(* where an offer can be; every action moves one offer from one place to   *)
(* the next, makes one that was nowhere, or lets places go.                *)
(*   NoneLeft: through the Registry no answer is left over for a later     *)
(* dial, although the diallers of a node may take each other's answers.    *)
(* CountInv says that no more offers to a peer are pending than diallers   *)
(* wait for that peer: every answer that is taken releases one of them.    *)
(***************************************************************************)
EXTENDS Signaling, FiniteSetTheorems, TLAPS

\* A queue with room takes one more element of its kind, and its elements stay.
LEMMA QueueGrows ==
  ASSUME NEW S, NEW q \in Seq(S), NEW e \in S, NEW cap \in Nat, Len(q) < cap
  PROVE  /\ Append(q, e) \in Seq(S)
         /\ Len(Append(q, e)) <= cap
         /\ \A i \in DOMAIN Append(q, e) :
              Append(q, e)[i] = e \/ \E j \in DOMAIN q : Append(q, e)[i] = q[j]
  OBVIOUS

\* The head of a queue is one of its elements and the rest are the others.
LEMMA QueueShrinks ==
  ASSUME NEW S, NEW q \in Seq(S), q # <<>>
  PROVE  /\ Head(q) \in S
         /\ Tail(q) \in Seq(S)
         /\ Len(Tail(q)) <= Len(q)
         /\ \A i \in DOMAIN Tail(q) : \E j \in DOMAIN q : Tail(q)[i] = q[j]
  <1>1. Len(q) \in Nat \ {0}
    OBVIOUS
  <1>2. \A i \in DOMAIN Tail(q) : i + 1 \in DOMAIN q /\ Tail(q)[i] = q[i + 1]
    BY <1>1
  <1> QED BY <1>1, <1>2

\* A dialler belongs to a node.
LEMMA HomeIsNode == \A d \in Diallers : Home(d) \in Nodes
  BY SignalingAssumption DEF Diallers, Home

\* The initial state satisfies the invariant: nothing is queued.
LEMMA RegistryBegins == Init => RegistryInv
  BY SignalingAssumption
     DEF Init, RegistryInv, ByRegistry, TypeOK, WaitingOK, ReplyTarget, AnswerToOfferer

\* A dial of the Registry: only the peer's queue of offers and the dialler
\* itself change.
LEMMA DialKeeps ==
  ASSUME ByRegistry, ~byStream, NEW d \in Diallers, NEW p \in Nodes, Dial(d, p)
  PROVE  ByRegistry'
  <1>0. PICK n \in Nodes : n = Home(d)
    BY HomeIsNode
  <1> DEFINE o == <<n, dials[n] + 1>>
  <1>1. o \in Offers /\ dials[n] + 1 \in 0 .. MaxDials
    BY <1>0, SignalingAssumption DEF Dial, ByRegistry, TypeOK, Offers
  <1>2. /\ Len(offerIn[p]) < OfferCap
        /\ offerIn' = [offerIn EXCEPT ![p] = Append(@, o)]
        /\ UNCHANGED <<setting, acc, answers, lastRemote, streams, lost>>
        /\ dials' = [dials EXCEPT ![n] = @ + 1]
        /\ dial' = [dial EXCEPT ![d] =
                      [st |-> "waiting", to |-> p, offer |-> o, heard |-> NoOffer]]
    BY <1>0 DEF Dial, QueueOffer
  <1>3. /\ Append(offerIn[p], o) \in Seq(Offers)
        /\ Len(Append(offerIn[p], o)) <= OfferCap
    BY <1>1, <1>2, QueueGrows, SignalingAssumption DEF ByRegistry, TypeOK
  <1>4. TypeOK'
    <2>1. /\ offerIn' \in [Nodes -> Seq(Offers)]
          /\ \A m \in Nodes : Len(offerIn'[m]) <= OfferCap
      BY <1>2, <1>3 DEF ByRegistry, TypeOK
    <2>2. dials' \in [Nodes -> 0 .. MaxDials]
      BY <1>1, <1>2 DEF ByRegistry, TypeOK
    <2>3. dial' \in [Diallers -> [st : {"idle", "waiting"}, to : Nodes \cup {NoNode},
                               offer : Offers \cup {NoOffer},
                               heard : Offers \cup {NoOffer}]]
      BY <1>1, <1>2 DEF ByRegistry, TypeOK
    <2> QED BY <1>2, <2>1, <2>2, <2>3 DEF ByRegistry, TypeOK, setting
  <1>5. ReplyTarget' /\ streams' = {} /\ AnswerToOfferer'
    BY <1>2 DEF ByRegistry, ReplyTarget, AnswerToOfferer
  <1>6. WaitingOK'
    BY <1>2 DEF ByRegistry, TypeOK, WaitingOK
  <1> QED BY <1>4, <1>5, <1>6 DEF ByRegistry

\* Hearing an answer shortens one queue of answers.
LEMMA DialAnsweredKeeps ==
  ASSUME ByRegistry, NEW d \in Diallers, DialAnswered(d)
  PROVE  ByRegistry'
  <1>0. PICK n \in Nodes : n = Home(d)
    BY HomeIsNode
  <1> DEFINE p == dial[d].to
             q == answers[n][p]
  <1>1. p \in Nodes /\ q # <<>>
    BY <1>0 DEF DialAnswered, ByRegistry, WaitingOK
  <1>2. UNCHANGED <<setting, dials, acc, offerIn, lastRemote, streams, lost>>
    BY DEF DialAnswered
  <1>3. /\ q \in Seq(Offers) /\ Head(q) \in Offers /\ Tail(q) \in Seq(Offers)
        /\ Len(Tail(q)) <= AnswerCap
        /\ \A i \in DOMAIN Tail(q) : \E j \in DOMAIN q : Tail(q)[i] = q[j]
    <2>1. q \in Seq(Offers) /\ Len(q) <= AnswerCap
      BY <1>1 DEF ByRegistry, TypeOK
    <2>2. Head(q) \in Offers /\ Tail(q) \in Seq(Offers) /\ Len(Tail(q)) <= Len(q)
      BY <1>1, <2>1, QueueShrinks
    <2>3. \A i \in DOMAIN Tail(q) : \E j \in DOMAIN q : Tail(q)[i] = q[j]
      BY <1>1, <2>1, QueueShrinks
    <2> QED BY <2>1, <2>2, <2>3, SignalingAssumption
  <1>4. /\ answers' = [answers EXCEPT ![n][p] = Tail(q)]
        /\ dial' = [dial EXCEPT ![d] =
                      [st |-> "idle", to |-> p, offer |-> dial[d].offer,
                       heard |-> Head(q)]]
    BY <1>0 DEF DialAnswered
  <1>5. \A m \in Nodes, r \in Nodes :
          answers'[m][r] = IF m = n /\ r = p THEN Tail(q) ELSE answers[m][r]
    BY <1>1, <1>4 DEF ByRegistry, TypeOK
  <1>6. /\ answers' \in [Nodes -> [Nodes -> Seq(Offers)]]
        /\ \A m \in Nodes, r \in Nodes : Len(answers'[m][r]) <= AnswerCap
    BY <1>1, <1>3, <1>4, <1>5 DEF ByRegistry, TypeOK
  <1>7. /\ dial' \in [Diallers -> [st : {"idle", "waiting"}, to : Nodes \cup {NoNode},
                                offer : Offers \cup {NoOffer},
                                heard : Offers \cup {NoOffer}]]
        /\ WaitingOK'
    <2>1. dial[d].offer \in Offers \cup {NoOffer}
      BY DEF ByRegistry, TypeOK
    <2>2. WaitingOK'
      BY <1>4 DEF ByRegistry, TypeOK, WaitingOK
    <2> QED BY <1>1, <1>3, <1>4, <2>1, <2>2 DEF ByRegistry, TypeOK
  <1>8. AnswerToOfferer'
    <2>1. \A i \in DOMAIN Tail(q) : Dialler(Tail(q)[i]) = n
      <3>1. \A j \in DOMAIN q : Dialler(q[j]) = n
        BY <1>1 DEF ByRegistry, AnswerToOfferer
      <3> QED BY <1>3, <3>1
    <2>2. ASSUME NEW m \in Nodes, NEW r \in Nodes, NEW i \in DOMAIN answers'[m][r]
          PROVE  Dialler(answers'[m][r][i]) = m
      <3>1. CASE m = n /\ r = p
        <4>1. answers'[m][r] = Tail(q)
          BY <1>5, <3>1
        <4> QED BY <2>1, <3>1, <4>1
      <3>2. CASE ~(m = n /\ r = p)
        <4>1. answers'[m][r] = answers[m][r]
          BY <1>5, <3>2
        <4> QED BY <4>1 DEF ByRegistry, AnswerToOfferer
      <3> QED BY <3>1, <3>2
    <2> QED BY <1>2, <2>2 DEF ByRegistry, AnswerToOfferer
  <1> QED BY <1>2, <1>6, <1>7, <1>8 DEF ByRegistry, TypeOK, setting, ReplyTarget

\* Taking an offer makes its dialler the reply target.
LEMMA AcceptOfferKeeps ==
  ASSUME ByRegistry, NEW n \in Nodes, AcceptOffer(n)
  PROVE  ByRegistry'
  <1> DEFINE q == offerIn[n]
             o == Head(q)
  <1>1. q \in Seq(Offers) /\ q # <<>> /\ Len(q) <= OfferCap
    BY DEF AcceptOffer, ByRegistry, TypeOK
  <1>2. o \in Offers /\ Tail(q) \in Seq(Offers) /\ Len(Tail(q)) <= Len(q)
    BY <1>1, QueueShrinks
  <1>3. Len(Tail(q)) <= OfferCap
    BY <1>1, <1>2, SignalingAssumption
  <1>4. Dialler(o) \in Nodes
    BY <1>2 DEF Offers, Dialler
  <1>5. /\ offerIn' = [offerIn EXCEPT ![n] = Tail(q)]
        /\ lastRemote' = [lastRemote EXCEPT ![n] = Dialler(o)]
        /\ acc' = [acc EXCEPT ![n] = [st |-> "answering", offer |-> o]]
        /\ UNCHANGED <<setting, dial, dials, answers, streams, lost>>
    BY DEF AcceptOffer
  <1>6. TypeOK'
    BY <1>2, <1>3, <1>4, <1>5 DEF ByRegistry, TypeOK, setting
  <1>7. ReplyTarget'
    BY <1>2, <1>5 DEF ByRegistry, TypeOK, ReplyTarget
  <1> QED BY <1>5, <1>6, <1>7 DEF ByRegistry, WaitingOK, AnswerToOfferer

\* The answer goes where ReplyTarget says: to the offer's dialler.
LEMMA SendAnswerKeeps ==
  ASSUME ByRegistry, ~byStream, NEW n \in Nodes, SendAnswer(n)
  PROVE  ByRegistry'
  <1> DEFINE p == lastRemote[n]
             o == acc[n].offer
             q == answers[p][n]
  <1>1. o \in Offers /\ p = Dialler(o) /\ p \in Nodes
    BY DEF SendAnswer, ByRegistry, ReplyTarget, Offers, Dialler
  <1>2. /\ Len(q) < AnswerCap
        /\ answers' = [answers EXCEPT ![p][n] = Append(q, o)]
        /\ acc' = [acc EXCEPT ![n] = [@ EXCEPT !.st = "open"]]
        /\ UNCHANGED <<setting, dial, dials, offerIn, lastRemote, streams, lost>>
    BY DEF SendAnswer
  <1>3. q \in Seq(Offers)
    BY <1>1 DEF ByRegistry, TypeOK
  <1>4. Append(q, o) \in Seq(Offers) /\ Len(Append(q, o)) <= AnswerCap
    BY <1>1, <1>2, <1>3, QueueGrows, SignalingAssumption
  <1>5. \A i \in DOMAIN Append(q, o) : Dialler(Append(q, o)[i]) = p
    <2>1. \A i \in DOMAIN q : Dialler(q[i]) = p
      BY <1>1 DEF ByRegistry, AnswerToOfferer
    <2>2. \A i \in DOMAIN Append(q, o) :
            Append(q, o)[i] = o \/ \E j \in DOMAIN q : Append(q, o)[i] = q[j]
      BY <1>1, <1>2, <1>3, QueueGrows, SignalingAssumption
    <2> QED BY <1>1, <2>1, <2>2
  <1>6. \A m \in Nodes, r \in Nodes :
          answers'[m][r] = IF m = p /\ r = n THEN Append(q, o) ELSE answers[m][r]
    BY <1>1, <1>2 DEF ByRegistry, TypeOK
  <1>7. AnswerToOfferer'
    BY <1>2, <1>5, <1>6 DEF ByRegistry, AnswerToOfferer
  <1>8. TypeOK'
    <2>1. /\ answers' \in [Nodes -> [Nodes -> Seq(Offers)]]
          /\ \A m \in Nodes, r \in Nodes : Len(answers'[m][r]) <= AnswerCap
      BY <1>1, <1>2, <1>4, <1>6 DEF ByRegistry, TypeOK
    <2>2. acc[n] \in [st : {"off", "listen", "answering", "open", "gone"},
                      offer : Offers \cup {NoOffer}]
      BY DEF ByRegistry, TypeOK
    <2>3. [acc[n] EXCEPT !.st = "open"] = [st |-> "open", offer |-> acc[n].offer]
      BY <2>2
    <2>4. acc' = [acc EXCEPT ![n] = [st |-> "open", offer |-> acc[n].offer]]
      BY <1>2, <2>3
    <2>5. acc' \in [Nodes -> [st : {"off", "listen", "answering", "open", "gone"},
                              offer : Offers \cup {NoOffer}]]
      BY <2>2, <2>4 DEF ByRegistry, TypeOK
    <2> QED BY <1>2, <2>1, <2>5 DEF ByRegistry, TypeOK, setting
  <1>9. ReplyTarget'
    BY <1>2 DEF ByRegistry, TypeOK, ReplyTarget
  <1> QED BY <1>2, <1>7, <1>8, <1>9 DEF ByRegistry, WaitingOK

\* Every step of the Registry preserves the invariant; there are no streams, so
\* no goroutine but the accept loop moves lastRemote, and no context is done.
LEMMA RegistryStep ==
  ASSUME ByRegistry, ~byStream, Next
  PROVE  ByRegistry'
  <1>1. ASSUME NEW n \in Nodes, AcceptDone(n)
        PROVE  ByRegistry'
    <2>1. TypeOK'
      BY <1>1 DEF AcceptDone, ByRegistry, TypeOK, setting
    <2>2. ReplyTarget'
      BY <1>1 DEF AcceptDone, ByRegistry, TypeOK, ReplyTarget
    <2> QED BY <1>1, <2>1, <2>2 DEF AcceptDone, ByRegistry, WaitingOK, AnswerToOfferer
  <1>2. ASSUME NEW n \in Nodes, Listen(n)
        PROVE  ByRegistry'
    <2>1. TypeOK'
      BY <1>2 DEF Listen, ByRegistry, TypeOK
    <2>2. ReplyTarget'
      BY <1>2 DEF Listen, ByRegistry, TypeOK, ReplyTarget
    <2> QED BY <1>2, <2>1, <2>2 DEF Listen, ByRegistry, WaitingOK, AnswerToOfferer
  <1>3. ASSUME NEW n \in Nodes,
               AnswerLost(n) \/ AcceptReleased(n) \/ Close(n)
        PROVE  FALSE
    BY <1>3 DEF AnswerLost, AcceptReleased, Close, Done
  <1>a. ASSUME NEW d \in Diallers, DialReleased(d)
        PROVE  FALSE
    BY <1>a DEF DialReleased, Done
  <1>4. ~\E s \in streams : StreamStep(s)
    BY DEF ByRegistry
  <1> QED
    BY <1>1, <1>2, <1>3, <1>a, <1>4, DialKeeps, DialAnsweredKeeps, AcceptOfferKeeps,
       SendAnswerKeeps DEF Next, AcceptStep, DialStep

\* No step changes the implementation in use.
LEMMA SameImplementation ==
  ASSUME [Next]_vars
  PROVE  byStream' = byStream
  <1>1. CASE UNCHANGED vars
    BY <1>1 DEF vars, setting
  <1>2. CASE Next
    BY <1>2 DEF Next, Dial, DialStep, DialAnswered, DialReleased, AcceptStep, Listen,
       AcceptOffer, SendAnswer, AnswerLost, AcceptDone, AcceptReleased, Close,
       StreamStep, StreamNoted, StreamQueued, StreamAnswered, StreamBroken,
       StreamCancelled, setting
  <1> QED BY <1>1, <1>2

\* A step keeps the invariant of the Registry.
LEMMA RegistryInvStep ==
  ASSUME RegistryInv, [Next]_vars
  PROVE  RegistryInv'
  <1>1. CASE byStream
    BY <1>1, SameImplementation DEF RegistryInv
  <1>2. CASE ~byStream /\ UNCHANGED vars
    <2>1. ByRegistry
      BY <1>2 DEF RegistryInv
    <2>2. ByRegistry'
      BY <1>2, <2>1 DEF vars, setting, ByRegistry, TypeOK, WaitingOK, ReplyTarget,
         AnswerToOfferer
    <2> QED BY <2>2 DEF RegistryInv
  <1>3. CASE ~byStream /\ Next
    <2>1. ByRegistry
      BY <1>3 DEF RegistryInv
    <2>2. ByRegistry'
      BY <1>3, <2>1, RegistryStep
    <2> QED BY <2>2 DEF RegistryInv
  <1> QED BY <1>1, <1>2, <1>3

\* With the Registry as signaler, SendSDP("") always reaches the node whose
\* offer Accept is answering, for every number of nodes and queue capacity.
THEOREM RegistryAnswersOfferer == Spec => []RegistryAnswers
  <1>1. Init => RegistryInv
    BY RegistryBegins
  <1>2. RegistryInv /\ [Next]_vars => RegistryInv'
    BY RegistryInvStep
  <1>3. RegistryInv => RegistryAnswers
    BY DEF RegistryInv, ByRegistry, RegistryAnswers
  <1> QED BY <1>1, <1>2, <1>3, PTL DEF Spec

-----------------------------------------------------------------------------
(* Both implementations: every offer is in one place.                      *)

Has(q, x) == \E i \in DOMAIN q : q[i] = x
Once(q) == \A i, j \in DOMAIN q : q[i] = q[j] => i = j

\* The places an offer or the answer to it can be in.
InStream(s, o) == s \in streams /\ s.offer = o
Queued(n, o) == Has(offerIn[n], o)
Replied(n, p, o) == Has(answers[n][p], o)
Answering(n, o) == acc[n].st = "answering" /\ acc[n].offer = o
Heard(d, o) == dial[d].heard = o
HeardBy(o) == \E d \in Diallers : Heard(d, o)

\* An offer is in one of them at most, and in one place of its kind.
OnePlace(o) ==
  /\ \A s, t : InStream(s, o) /\ InStream(t, o) => s = t
  /\ \A d, e \in Diallers : Heard(d, o) /\ Heard(e, o) => d = e
  /\ \A m \in Nodes, n \in Nodes :
       /\ Queued(m, o) /\ Queued(n, o) => m = n
       /\ Answering(m, o) /\ Answering(n, o) => m = n
       /\ \A p \in Nodes, q \in Nodes : Replied(m, p, o) /\ Replied(n, q, o) => m = n /\ p = q
  /\ \A s : InStream(s, o) => ~HeardBy(o)
  /\ \A s : \A n \in Nodes : InStream(s, o) =>
       /\ ~Queued(n, o) /\ ~Answering(n, o)
       /\ \A p \in Nodes : ~Replied(n, p, o)
  /\ HeardBy(o) => \A n \in Nodes :
       /\ ~Queued(n, o) /\ ~Answering(n, o)
       /\ \A p \in Nodes : ~Replied(n, p, o)
  /\ \A m \in Nodes, n \in Nodes :
       /\ Queued(m, o) => ~Answering(n, o) /\ \A p \in Nodes : ~Replied(n, p, o)
       /\ Answering(m, o) => \A p \in Nodes : ~Replied(n, p, o)

\* The offer has been made.
Offered(o) == o[2] <= dials[o[1]]
Somewhere(o) ==
  \/ \E s : InStream(s, o)
  \/ HeardBy(o)
  \/ \E n \in Nodes : Queued(n, o) \/ Answering(n, o)
  \/ \E n \in Nodes, p \in Nodes : Replied(n, p, o)

QueuesOnce ==
  \A n \in Nodes : Once(offerIn[n]) /\ \A p \in Nodes : Once(answers[n][p])
AnsweringOK ==
  \A n \in Nodes : acc[n].st = "answering" => acc[n].offer \in Offers /\ lastRemote[n] \in Nodes

PlacesOK == \A o \in Offers : OnePlace(o) /\ (Somewhere(o) => Offered(o))
SignalInv == TypeOK /\ WaitingOK /\ AnsweringOK /\ QueuesOnce /\ PlacesOK

\* Append adds one element, Tail takes the head away, and neither repeats one.
LEMMA AppendOnce ==
  ASSUME NEW S, NEW q \in Seq(S), NEW e \in S
  PROVE  /\ \A x : Has(Append(q, e), x) <=> Has(q, x) \/ x = e
         /\ Once(q) /\ ~Has(q, e) => Once(Append(q, e))
<1>1. /\ Len(q) \in Nat /\ DOMAIN q = 1 .. Len(q) /\ DOMAIN Append(q, e) = 1 .. Len(q) + 1
      /\ Append(q, e)[Len(q) + 1] = e /\ \A i \in 1 .. Len(q) : Append(q, e)[i] = q[i]
  OBVIOUS
<1>2. \A i \in 1 .. Len(q) + 1 : i \in 1 .. Len(q) \/ i = Len(q) + 1
  BY <1>1
<1>3. \A x : Has(Append(q, e), x) <=> Has(q, x) \/ x = e
  BY <1>1, <1>2 DEF Has
<1>4. Once(q) /\ ~Has(q, e) => Once(Append(q, e))
  BY <1>1, <1>2 DEF Once, Has
<1>5. QED  BY <1>3, <1>4

\* Tail of a queue without repetition.
LEMMA TailOnce ==
  ASSUME NEW S, NEW q \in Seq(S), q # <<>>, Once(q)
  PROVE  /\ Has(q, Head(q)) /\ Once(Tail(q))
         /\ \A x : Has(Tail(q), x) <=> Has(q, x) /\ x # Head(q)
<1>1. /\ Len(q) \in Nat \ {0} /\ DOMAIN q = 1 .. Len(q) /\ DOMAIN Tail(q) = 1 .. Len(q) - 1
      /\ Head(q) = q[1] /\ \A i \in 1 .. Len(q) - 1 : Tail(q)[i] = q[i + 1]
  OBVIOUS
<1>2. \A i \in 1 .. Len(q) : i = 1 \/ (i - 1 \in 1 .. Len(q) - 1 /\ i = (i - 1) + 1)
  BY <1>1
<1>3. \A i \in 1 .. Len(q) - 1 : i + 1 \in 1 .. Len(q) /\ i + 1 # 1
  BY <1>1
<1>4. 1 \in 1 .. Len(q)
  BY <1>1
<1>5. Has(q, Head(q))
  BY <1>1, <1>4 DEF Has
<1>6. ASSUME NEW i \in 1 .. Len(q) - 1, NEW j \in 1 .. Len(q) - 1, Tail(q)[i] = Tail(q)[j]
      PROVE  i = j
  <2>1. q[i + 1] = q[j + 1] /\ i + 1 \in DOMAIN q /\ j + 1 \in DOMAIN q
    BY <1>1, <1>3, <1>6
  <2>2. i + 1 = j + 1
    BY <2>1 DEF Once
  <2>3. QED  BY <2>2, <1>1
<1>7. ASSUME NEW x, Has(Tail(q), x) PROVE Has(q, x) /\ x # Head(q)
  <2>1. PICK i \in 1 .. Len(q) - 1 : Tail(q)[i] = x
    BY <1>1, <1>7 DEF Has
  <2>2. q[i + 1] = x /\ i + 1 \in DOMAIN q /\ i + 1 # 1
    BY <1>1, <1>3, <2>1
  <2>3. QED  BY <1>1, <1>4, <2>2 DEF Has, Once
<1>8. ASSUME NEW x, Has(q, x), x # Head(q) PROVE Has(Tail(q), x)
  <2>1. PICK i \in 1 .. Len(q) : q[i] = x
    BY <1>1, <1>8 DEF Has
  <2>2. i - 1 \in DOMAIN Tail(q) /\ Tail(q)[i - 1] = x
    BY <1>1, <1>2, <1>8, <2>1
  <2>3. QED  BY <2>2 DEF Has
<1>9. QED  BY <1>1, <1>5, <1>6, <1>7, <1>8 DEF Once

\* The parts of TypeOK, each for its variable.
DialOK == dial \in [Diallers -> [st : {"idle", "waiting"}, to : Nodes \cup {NoNode},
                                 offer : Offers \cup {NoOffer}, heard : Offers \cup {NoOffer}]]
AccOK == acc \in [Nodes -> [st : {"off", "listen", "answering", "open", "gone"},
                            offer : Offers \cup {NoOffer}]]
OffersOK == offerIn \in [Nodes -> Seq(Offers)] /\ \A n \in Nodes : Len(offerIn[n]) <= OfferCap
AnswersOK ==
  /\ answers \in [Nodes -> [Nodes -> Seq(Offers)]]
  /\ \A n \in Nodes, p \in Nodes : Len(answers[n][p]) <= AnswerCap
StreamsOK == streams \subseteq [kind : {"offer", "noted", "answer"}, from : Nodes, to : Nodes,
                                offer : Offers]
RestOK == /\ byStream \in Impls /\ up \subseteq Nodes /\ advert \subseteq Nodes
          /\ dials \in [Nodes -> 0 .. MaxDials] /\ lastRemote \in [Nodes -> Nodes \cup {NoNode}]
          /\ lost \in 0 .. MaxLost

\* TypeOK is the conjunction of its parts.
LEMMA TypeParts ==
  /\ TypeOK <=> DialOK /\ AccOK /\ OffersOK /\ AnswersOK /\ StreamsOK /\ RestOK
  /\ TypeOK' <=> DialOK' /\ AccOK' /\ OffersOK' /\ AnswersOK' /\ StreamsOK' /\ RestOK'
BY DEF TypeOK, DialOK, AccOK, OffersOK, AnswersOK, StreamsOK, RestOK

\* Queueing an offer.
LEMMA OfferQueued ==
  ASSUME OffersOK, NEW p \in Nodes, NEW o \in Offers, Len(offerIn[p]) < OfferCap,
         offerIn' = [offerIn EXCEPT ![p] = Append(@, o)]
  PROVE  /\ OffersOK'
         /\ \A m \in Nodes : \A x : Queued(m, x)' <=> Queued(m, x) \/ (m = p /\ x = o)
         /\ (\A m \in Nodes : Once(offerIn[m])) /\ ~Queued(p, o) => \A m \in Nodes : Once(offerIn'[m])
<1>1. offerIn \in [Nodes -> Seq(Offers)] /\ offerIn[p] \in Seq(Offers) /\ OfferCap \in Nat
  BY SignalingAssumption DEF OffersOK
<1>2. offerIn'[p] = Append(offerIn[p], o) /\ \A m \in Nodes : m # p => offerIn'[m] = offerIn[m]
  BY <1>1
<1>3. /\ Append(offerIn[p], o) \in Seq(Offers) /\ Len(Append(offerIn[p], o)) <= OfferCap
  BY <1>1, QueueGrows
<1>4. OffersOK'
  BY <1>1, <1>2, <1>3 DEF OffersOK
<1>5. /\ \A x : Has(Append(offerIn[p], o), x) <=> Has(offerIn[p], x) \/ x = o
      /\ Once(offerIn[p]) /\ ~Has(offerIn[p], o) => Once(Append(offerIn[p], o))
  BY <1>1, AppendOnce
<1>6. \A m \in Nodes : \A x : Has(offerIn'[m], x) <=> Has(offerIn[m], x) \/ (m = p /\ x = o)
  BY <1>2, <1>5
<1>7. QED  BY <1>2, <1>4, <1>5, <1>6 DEF Queued

\* Taking the head of a queue of offers.
LEMMA OfferTaken ==
  ASSUME OffersOK, QueuesOnce, NEW p \in Nodes, offerIn[p] # <<>>,
         offerIn' = [offerIn EXCEPT ![p] = Tail(@)]
  PROVE  /\ OffersOK' /\ Head(offerIn[p]) \in Offers /\ Queued(p, Head(offerIn[p]))
         /\ \A m \in Nodes : \A x :
              Queued(m, x)' <=> Queued(m, x) /\ ~(m = p /\ x = Head(offerIn[p]))
         /\ \A m \in Nodes : Once(offerIn'[m])
<1>1. offerIn \in [Nodes -> Seq(Offers)] /\ offerIn[p] \in Seq(Offers) /\ OfferCap \in Nat
  BY SignalingAssumption DEF OffersOK
<1>2. offerIn'[p] = Tail(offerIn[p]) /\ \A m \in Nodes : m # p => offerIn'[m] = offerIn[m]
  BY <1>1
<1>3. /\ Head(offerIn[p]) \in Offers /\ Tail(offerIn[p]) \in Seq(Offers)
      /\ Len(Tail(offerIn[p])) <= Len(offerIn[p]) /\ Len(Tail(offerIn[p])) \in Nat
      /\ Len(offerIn[p]) \in Nat
  BY <1>1, QueueShrinks
<1>4. OffersOK'
  <2>1. Len(Tail(offerIn[p])) <= OfferCap
    BY <1>1, <1>3 DEF OffersOK
  <2>2. QED  BY <1>1, <1>2, <1>3, <2>1 DEF OffersOK
<1>5. Once(offerIn[p])
  BY DEF QueuesOnce
<1>6. /\ Has(offerIn[p], Head(offerIn[p])) /\ Once(Tail(offerIn[p]))
      /\ \A x : Has(Tail(offerIn[p]), x) <=> Has(offerIn[p], x) /\ x # Head(offerIn[p])
  BY <1>1, <1>5, TailOnce
<1>7. \A m \in Nodes : \A x :
        Has(offerIn'[m], x) <=> Has(offerIn[m], x) /\ ~(m = p /\ x = Head(offerIn[p]))
  BY <1>2, <1>6
<1>8. QED  BY <1>2, <1>3, <1>4, <1>6, <1>7 DEF Queued, QueuesOnce

\* Queueing an answer.
LEMMA AnswerQueued ==
  ASSUME AnswersOK, NEW n \in Nodes, NEW p \in Nodes, NEW o \in Offers,
         Len(answers[n][p]) < AnswerCap,
         answers' = [answers EXCEPT ![n][p] = Append(@, o)]
  PROVE  /\ AnswersOK'
         /\ \A m \in Nodes, q \in Nodes : \A x :
              Replied(m, q, x)' <=> Replied(m, q, x) \/ (m = n /\ q = p /\ x = o)
         /\ (\A m \in Nodes, q \in Nodes : Once(answers[m][q])) /\ ~Replied(n, p, o)
              => \A m \in Nodes, q \in Nodes : Once(answers'[m][q])
<1>1. /\ answers \in [Nodes -> [Nodes -> Seq(Offers)]] /\ answers[n][p] \in Seq(Offers)
      /\ AnswerCap \in Nat
  BY SignalingAssumption DEF AnswersOK
<1>2. /\ answers'[n][p] = Append(answers[n][p], o)
      /\ \A m \in Nodes, q \in Nodes : m # n \/ q # p => answers'[m][q] = answers[m][q]
  BY <1>1
<1>3. /\ Append(answers[n][p], o) \in Seq(Offers) /\ Len(Append(answers[n][p], o)) <= AnswerCap
  BY <1>1, QueueGrows
<1>4. AnswersOK'
  <2>1. answers' \in [Nodes -> [Nodes -> Seq(Offers)]]
    BY <1>1, <1>3
  <2>2. \A m \in Nodes, q \in Nodes : Len(answers'[m][q]) <= AnswerCap
    BY <1>2, <1>3 DEF AnswersOK
  <2>3. QED  BY <2>1, <2>2 DEF AnswersOK
<1>5. /\ \A x : Has(Append(answers[n][p], o), x) <=> Has(answers[n][p], x) \/ x = o
      /\ Once(answers[n][p]) /\ ~Has(answers[n][p], o) => Once(Append(answers[n][p], o))
  BY <1>1, AppendOnce
<1>6. \A m \in Nodes, q \in Nodes : \A x :
        Has(answers'[m][q], x) <=> Has(answers[m][q], x) \/ (m = n /\ q = p /\ x = o)
  BY <1>2, <1>5
<1>7. QED  BY <1>2, <1>4, <1>5, <1>6 DEF Replied

\* Taking the head of a queue of answers.
LEMMA AnswerTaken ==
  ASSUME AnswersOK, QueuesOnce, NEW n \in Nodes, NEW p \in Nodes, answers[n][p] # <<>>,
         answers' = [answers EXCEPT ![n][p] = Tail(@)]
  PROVE  /\ AnswersOK' /\ Head(answers[n][p]) \in Offers /\ Replied(n, p, Head(answers[n][p]))
         /\ \A m \in Nodes, q \in Nodes : \A x :
              Replied(m, q, x)' <=>
                Replied(m, q, x) /\ ~(m = n /\ q = p /\ x = Head(answers[n][p]))
         /\ \A m \in Nodes, q \in Nodes : Once(answers'[m][q])
<1>1. /\ answers \in [Nodes -> [Nodes -> Seq(Offers)]] /\ answers[n][p] \in Seq(Offers)
      /\ AnswerCap \in Nat
  BY SignalingAssumption DEF AnswersOK
<1>2. /\ answers'[n][p] = Tail(answers[n][p])
      /\ \A m \in Nodes, q \in Nodes : m # n \/ q # p => answers'[m][q] = answers[m][q]
  BY <1>1
<1>3. /\ Head(answers[n][p]) \in Offers /\ Tail(answers[n][p]) \in Seq(Offers)
      /\ Len(Tail(answers[n][p])) <= Len(answers[n][p]) /\ Len(Tail(answers[n][p])) \in Nat
      /\ Len(answers[n][p]) \in Nat
  BY <1>1, QueueShrinks
<1>4. AnswersOK'
  <2>1. answers' \in [Nodes -> [Nodes -> Seq(Offers)]]
    BY <1>1, <1>3
  <2>a. Len(Tail(answers[n][p])) <= AnswerCap
    BY <1>1, <1>3 DEF AnswersOK
  <2>2. \A m \in Nodes, q \in Nodes : Len(answers'[m][q]) <= AnswerCap
    BY <1>2, <2>a DEF AnswersOK
  <2>3. QED  BY <2>1, <2>2 DEF AnswersOK
<1>5. Once(answers[n][p])
  BY DEF QueuesOnce
<1>6. /\ Has(answers[n][p], Head(answers[n][p])) /\ Once(Tail(answers[n][p]))
      /\ \A x : Has(Tail(answers[n][p]), x) <=> Has(answers[n][p], x) /\ x # Head(answers[n][p])
  BY <1>1, <1>5, TailOnce
<1>7. \A m \in Nodes, q \in Nodes : \A x :
        Has(answers'[m][q], x) <=>
          Has(answers[m][q], x) /\ ~(m = n /\ q = p /\ x = Head(answers[n][p]))
  BY <1>2, <1>6
<1>8. QED  BY <1>2, <1>3, <1>4, <1>6, <1>7 DEF Replied, QueuesOnce

\* What a step does to the places of the offer x when it only leaves some.
Fewer(x) ==
  /\ \A s : InStream(s, x)' => InStream(s, x)
  /\ \A d \in Diallers : Heard(d, x)' => Heard(d, x)
  /\ \A n \in Nodes : /\ Queued(n, x)' => Queued(n, x)
                      /\ Answering(n, x)' => Answering(n, x)
                      /\ \A p \in Nodes : Replied(n, p, x)' => Replied(n, p, x)

\* An offer that only leaves places stays in one at most.
LEMMA FewerKeeps ==
  ASSUME NEW x, OnePlace(x), Fewer(x)
  PROVE  OnePlace(x)' /\ (Somewhere(x)' => Somewhere(x))
<1>0. HeardBy(x)' => HeardBy(x)
  BY DEF Fewer, HeardBy
<1>1. OnePlace(x)'
  BY <1>0 DEF OnePlace, Fewer
<1>2. Somewhere(x)' => Somewhere(x)
  BY <1>0 DEF Somewhere, Fewer
<1>3. QED  BY <1>1, <1>2

\* An offer in one place only, of each kind.
LEMMA OnlyStream ==
  ASSUME NEW o, NEW t, \A s : InStream(s, o)' => s = t, ~HeardBy(o)',
         \A n \in Nodes : ~Queued(n, o)' /\ ~Answering(n, o)'
                          /\ \A p \in Nodes : ~Replied(n, p, o)'
  PROVE  OnePlace(o)'
BY DEF OnePlace, HeardBy

\* The one place is a queue of offers.
LEMMA OnlyQueued ==
  ASSUME NEW o, NEW k \in Nodes, \A s : ~InStream(s, o)', ~HeardBy(o)',
         \A n \in Nodes : (Queued(n, o)' => n = k) /\ ~Answering(n, o)'
                          /\ \A p \in Nodes : ~Replied(n, p, o)'
  PROVE  OnePlace(o)'
BY DEF OnePlace, HeardBy

\* The one place is an accept loop.
LEMMA OnlyAnswering ==
  ASSUME NEW o, NEW k \in Nodes, \A s : ~InStream(s, o)', ~HeardBy(o)',
         \A n \in Nodes : ~Queued(n, o)' /\ (Answering(n, o)' => n = k)
                          /\ \A p \in Nodes : ~Replied(n, p, o)'
  PROVE  OnePlace(o)'
BY DEF OnePlace, HeardBy

\* The one place is a dialler.
LEMMA OnlyHeard ==
  ASSUME NEW o, NEW k \in Diallers, \A s : ~InStream(s, o)',
         \A d \in Diallers : Heard(d, o)' => d = k,
         \A n \in Nodes : ~Queued(n, o)' /\ ~Answering(n, o)'
                          /\ \A p \in Nodes : ~Replied(n, p, o)'
  PROVE  OnePlace(o)'
BY DEF OnePlace, HeardBy

\* The one place is a queue of answers.
LEMMA OnlyReplied ==
  ASSUME NEW o, NEW k \in Nodes, NEW l \in Nodes, \A s : ~InStream(s, o)', ~HeardBy(o)',
         \A n \in Nodes : ~Queued(n, o)' /\ ~Answering(n, o)'
                          /\ \A p \in Nodes : Replied(n, p, o)' => n = k /\ p = l
  PROVE  OnePlace(o)'
BY DEF OnePlace, HeardBy

\* A step that moves one offer, or makes it, and lets others leave places only.
LEMMA OneMoves ==
  ASSUME PlacesOK, RestOK, NEW o \in Offers, OnePlace(o)', Offered(o)',
         \A n \in Nodes : dials'[n] \in Nat /\ dials[n] <= dials'[n],
         \A x \in Offers : x # o => Fewer(x)
  PROVE  PlacesOK'
<1>1. ASSUME NEW x \in Offers, x # o
      PROVE  OnePlace(x)' /\ (Somewhere(x)' => Offered(x)')
  <2>1. OnePlace(x) /\ (Somewhere(x) => Offered(x)) /\ Fewer(x)
    BY <1>1 DEF PlacesOK
  <2>2. OnePlace(x)' /\ (Somewhere(x)' => Somewhere(x))
    BY <2>1, FewerKeeps
  <2>3. x[1] \in Nodes /\ x[2] \in Nat /\ dials[x[1]] \in Nat
    BY DEF Offers, RestOK
  <2>4. Offered(x) => Offered(x)'
    BY <2>3 DEF Offered
  <2>5. QED  BY <2>1, <2>2, <2>4
<1>2. QED  BY <1>1 DEF PlacesOK

\* A step after which every offer is where it was or in fewer places.
LEMMA NoneMoves ==
  ASSUME PlacesOK, UNCHANGED dials, \A x \in Offers : Fewer(x)
  PROVE  PlacesOK'
<1>1. ASSUME NEW x \in Offers
      PROVE  OnePlace(x)' /\ (Somewhere(x)' => Offered(x)')
  <2>1. OnePlace(x) /\ (Somewhere(x) => Offered(x)) /\ Fewer(x)
    BY <1>1 DEF PlacesOK
  <2>2. OnePlace(x)' /\ (Somewhere(x)' => Somewhere(x))
    BY <2>1, FewerKeeps
  <2>3. Offered(x) => Offered(x)'
    BY DEF Offered
  <2>4. QED  BY <2>1, <2>2, <2>3
<1>2. QED  BY <1>1 DEF PlacesOK

\* An accept loop that leaves its offer, or goes on without one.
LEMMA LoopMoves ==
  ASSUME AccOK, NEW n \in Nodes, NEW v \in {"listen", "open", "gone"},
         acc' = [acc EXCEPT ![n].st = v]
  PROVE  /\ AccOK'
         /\ \A m \in Nodes : \A x : Answering(m, x)' <=> Answering(m, x) /\ m # n
         /\ AnsweringOK /\ UNCHANGED lastRemote => AnsweringOK'
<1>1. acc[n] \in [st : {"off", "listen", "answering", "open", "gone"}, offer : Offers \cup {NoOffer}]
  BY DEF AccOK
<1>2. acc'[n] = [st |-> v, offer |-> acc[n].offer] /\ \A m \in Nodes : m # n => acc'[m] = acc[m]
  BY <1>1 DEF AccOK
<1>3. AccOK'
  BY <1>1, <1>2 DEF AccOK
<1>4. \A m \in Nodes : \A x : Answering(m, x)' <=> Answering(m, x) /\ m # n
  BY <1>2 DEF Answering
<1>5. AnsweringOK /\ UNCHANGED lastRemote => AnsweringOK'
  BY <1>2 DEF AnsweringOK
<1>6. QED  BY <1>3, <1>4, <1>5

\* A step that changes nothing an offer can be in.
LEMMA SameTypes ==
  ASSUME SignalInv
  PROVE  /\ UNCHANGED acc => AccOK' /\ \A m \in Nodes : \A x : Answering(m, x)' <=> Answering(m, x)
         /\ UNCHANGED dial => /\ DialOK' /\ WaitingOK'
                              /\ \A d \in Diallers : \A x : Heard(d, x)' <=> Heard(d, x)
                              /\ \A x : HeardBy(x)' <=> HeardBy(x)
         /\ UNCHANGED offerIn =>
              /\ OffersOK' /\ \A m \in Nodes : Once(offerIn'[m])
              /\ \A m \in Nodes : \A x : Queued(m, x)' <=> Queued(m, x)
         /\ UNCHANGED answers =>
              /\ AnswersOK' /\ \A m \in Nodes, p \in Nodes : Once(answers'[m][p])
              /\ \A m \in Nodes, p \in Nodes : \A x : Replied(m, p, x)' <=> Replied(m, p, x)
         /\ UNCHANGED streams => StreamsOK' /\ \A s, x : InStream(s, x)' <=> InStream(s, x)
         /\ UNCHANGED <<acc, lastRemote>> => AnsweringOK'
         /\ AccOK /\ DialOK /\ OffersOK /\ AnswersOK /\ StreamsOK /\ RestOK
<1>1. AccOK /\ DialOK /\ OffersOK /\ AnswersOK /\ StreamsOK /\ RestOK
  BY TypeParts DEF SignalInv
<1>2. UNCHANGED acc => AccOK' /\ \A m \in Nodes : \A x : Answering(m, x)' <=> Answering(m, x)
  BY <1>1 DEF AccOK, Answering
<1>3. UNCHANGED dial => /\ DialOK' /\ WaitingOK'
                        /\ \A d \in Diallers : \A x : Heard(d, x)' <=> Heard(d, x)
                        /\ \A x : HeardBy(x)' <=> HeardBy(x)
  BY <1>1 DEF DialOK, WaitingOK, Heard, HeardBy, SignalInv
<1>4. UNCHANGED offerIn =>
              /\ OffersOK' /\ \A m \in Nodes : Once(offerIn'[m])
              /\ \A m \in Nodes : \A x : Queued(m, x)' <=> Queued(m, x)
  BY <1>1 DEF OffersOK, QueuesOnce, Queued, SignalInv
<1>5. UNCHANGED answers =>
              /\ AnswersOK' /\ \A m \in Nodes, p \in Nodes : Once(answers'[m][p])
              /\ \A m \in Nodes, p \in Nodes : \A x : Replied(m, p, x)' <=> Replied(m, p, x)
  BY <1>1 DEF AnswersOK, QueuesOnce, Replied, SignalInv
<1>6. UNCHANGED streams => StreamsOK' /\ \A s, x : InStream(s, x)' <=> InStream(s, x)
  BY <1>1 DEF StreamsOK, InStream
<1>7. UNCHANGED <<acc, lastRemote>> => AnsweringOK'
  BY DEF AnsweringOK, SignalInv
<1>8. QED  BY <1>1, <1>2, <1>3, <1>4, <1>5, <1>6, <1>7

\* The steps of an accept loop that drop an offer or none.
LEMMA LoopStep ==
  ASSUME SignalInv, NEW n \in Nodes,
         Listen(n) \/ AnswerLost(n) \/ AcceptDone(n) \/ AcceptReleased(n)
  PROVE  SignalInv'
<1>1. UNCHANGED <<byStream, up, dial, dials, offerIn, answers, lastRemote, streams>>
  BY DEF Listen, AnswerLost, AcceptDone, AcceptReleased, setting
<1>2. PICK v \in {"listen", "open", "gone"} : acc' = [acc EXCEPT ![n].st = v]
  BY DEF Listen, AnswerLost, AcceptDone, AcceptReleased
<1>3. RestOK' 
  BY SameTypes, SignalingAssumption DEF Listen, AnswerLost, AcceptDone, AcceptReleased, setting, RestOK
<1>4. /\ AccOK' /\ AnsweringOK'
      /\ \A m \in Nodes : \A x : Answering(m, x)' <=> Answering(m, x) /\ m # n
  <2>1. AccOK /\ AnsweringOK
    BY SameTypes DEF SignalInv
  <2>2. QED  BY <1>1, <1>2, <2>1, LoopMoves
<1>5. TypeOK' /\ WaitingOK' /\ QueuesOnce'
  BY <1>1, <1>3, <1>4, SameTypes, TypeParts DEF QueuesOnce
<1>6. \A x \in Offers : Fewer(x)
  BY <1>1, <1>4, SameTypes DEF Fewer
<1>7. PlacesOK'
  BY <1>1, <1>6, NoneMoves DEF SignalInv
<1>8. QED  BY <1>4, <1>5, <1>7 DEF SignalInv

\* Close and a released dialler leave every offer where it is.
LEMMA CloseStep ==
  ASSUME SignalInv, (\E n \in Nodes : Close(n)) \/ \E d \in Diallers : DialReleased(d)
  PROVE  SignalInv'
<1>1. UNCHANGED <<byStream, advert, dials, acc, offerIn, answers, lastRemote, streams, lost>>
  BY DEF Close, DialReleased, setting
<1>2. RestOK'
  BY SameTypes DEF Close, DialReleased, setting, RestOK
<1>3. DialOK' /\ WaitingOK' /\ \A e \in Diallers : \A x : Heard(e, x)' <=> Heard(e, x)
  <2>1. CASE \E n \in Nodes : Close(n)
    BY <2>1, SameTypes DEF Close
  <2>2. ASSUME NEW d \in Diallers, DialReleased(d)
        PROVE  DialOK' /\ WaitingOK' /\ \A e \in Diallers : \A x : Heard(e, x)' <=> Heard(e, x)
    <3>1. dial' = [dial EXCEPT ![d].st = "idle"] /\ DialOK
      BY <2>2, SameTypes DEF DialReleased
    <3>2. DialOK'
      BY <3>1 DEF DialOK
    <3>3. \A e \in Diallers : dial'[e].heard = dial[e].heard /\ dial'[e].to = dial[e].to
                              /\ (dial'[e].st = "waiting" => dial[e].st = "waiting")
      BY <3>1 DEF DialOK
    <3>4. QED  BY <3>2, <3>3 DEF Heard, WaitingOK, SignalInv
  <2>3. QED  BY <2>1, <2>2
<1>4. TypeOK' /\ QueuesOnce' /\ AnsweringOK'
  BY <1>1, <1>2, <1>3, SameTypes, TypeParts DEF QueuesOnce
<1>5. \A x \in Offers : Fewer(x)
  BY <1>1, <1>3, SameTypes DEF Fewer
<1>6. PlacesOK'
  BY <1>1, <1>5, NoneMoves DEF SignalInv
<1>7. QED  BY <1>3, <1>4, <1>6 DEF SignalInv

\* A stream that ends, with what it carried.
LEMMA StreamEnds ==
  ASSUME SignalInv, NEW s \in streams, StreamBroken(s) \/ StreamCancelled(s)
  PROVE  SignalInv'
<1>1. /\ UNCHANGED <<byStream, up, advert, dial, dials, acc, offerIn, answers, lastRemote>>
      /\ streams' = streams \ {s}
  BY DEF StreamBroken, StreamCancelled, setting
<1>2. RestOK'
  BY SameTypes, SignalingAssumption DEF StreamBroken, StreamCancelled, setting, RestOK
<1>3. StreamsOK' /\ \A t, x : InStream(t, x)' => InStream(t, x)
  BY <1>1, SameTypes DEF StreamsOK, InStream
<1>4. TypeOK' /\ QueuesOnce' /\ AnsweringOK' /\ WaitingOK'
  BY <1>1, <1>2, <1>3, SameTypes, TypeParts DEF QueuesOnce
<1>5. \A x \in Offers : Fewer(x)
  BY <1>1, <1>3, SameTypes DEF Fewer
<1>6. PlacesOK'
  BY <1>1, <1>5, NoneMoves DEF SignalInv
<1>7. QED  BY <1>4, <1>6 DEF SignalInv

\* An offer's stream is noted: it stays the one place of its offer.
LEMMA StreamNotedStep ==
  ASSUME SignalInv, NEW s \in streams, StreamNoted(s)
  PROVE  SignalInv'
<1> DEFINE t == [s EXCEPT !.kind = "noted"]
<1>1. s.offer \in Offers /\ s.to \in Nodes /\ s.from \in Nodes
      /\ s \in [kind : {"offer", "noted", "answer"}, from : Nodes, to : Nodes, offer : Offers]
  BY SameTypes DEF StreamsOK
<1>2. t.offer = s.offer /\ t \in [kind : {"offer", "noted", "answer"}, from : Nodes, to : Nodes, offer : Offers]
  BY <1>1
<1>3. /\ UNCHANGED <<byStream, up, advert, dial, dials, acc, offerIn, answers, lost>>
      /\ lastRemote' = [lastRemote EXCEPT ![s.to] = s.from]
      /\ streams' = (streams \ {s}) \cup {t}
  BY DEF StreamNoted, setting
<1> HIDE DEF t
<1>4. RestOK'
  BY <1>1, <1>3, SameTypes DEF RestOK
<1>5. /\ StreamsOK'
      /\ \A r, x : InStream(r, x)' <=> (InStream(r, x) /\ r # s) \/ (r = t /\ x = s.offer)
  BY <1>2, <1>3, SameTypes DEF StreamsOK, InStream
<1>6. AnsweringOK'
  <2>1. \A m \in Nodes : lastRemote'[m] = lastRemote[m] \/ lastRemote'[m] \in Nodes
    BY <1>1, <1>3, SameTypes DEF RestOK
  <2>2. QED  BY <1>3, <2>1 DEF AnsweringOK, SignalInv
<1>7. TypeOK' /\ QueuesOnce' /\ WaitingOK'
  BY <1>3, <1>4, <1>5, SameTypes, TypeParts DEF QueuesOnce
<1>8. \A x \in Offers : x # s.offer => Fewer(x)
  BY <1>3, <1>5, SameTypes DEF Fewer
<1>9. InStream(s, s.offer) /\ OnePlace(s.offer) /\ Offered(s.offer)
  BY <1>1 DEF InStream, SignalInv, PlacesOK, Somewhere
<1>10. OnePlace(s.offer)'
  <2>1. \A r : InStream(r, s.offer)' => r = t
    BY <1>5, <1>9 DEF OnePlace
  <2>2. ~HeardBy(s.offer)'
    BY <1>3, <1>9, SameTypes DEF OnePlace
  <2>3. \A n \in Nodes : ~Queued(n, s.offer)' /\ ~Answering(n, s.offer)'
                         /\ \A p \in Nodes : ~Replied(n, p, s.offer)'
    BY <1>3, <1>9, SameTypes DEF OnePlace
  <2>4. QED  BY <2>1, <2>2, <2>3, OnlyStream
<1>11. PlacesOK'
  <2>1. Offered(s.offer)' /\ \A n \in Nodes : dials'[n] \in Nat /\ dials[n] <= dials'[n]
    BY <1>3, <1>9, SameTypes DEF Offered, RestOK
  <2>2. QED  BY <1>1, <1>8, <1>10, <2>1, SameTypes, OneMoves DEF SignalInv
<1>12. QED  BY <1>6, <1>7, <1>11 DEF SignalInv

\* An offer goes from its stream to the queue of offers.
LEMMA StreamQueuedStep ==
  ASSUME SignalInv, NEW s \in streams, StreamQueued(s)
  PROVE  SignalInv'
<1>1. s.offer \in Offers /\ s.to \in Nodes
  BY SameTypes DEF StreamsOK
<1>2. /\ UNCHANGED <<byStream, up, advert, dial, dials, acc, answers, lastRemote, lost>>
      /\ offerIn' = [offerIn EXCEPT ![s.to] = Append(@, s.offer)]
      /\ Len(offerIn[s.to]) < OfferCap /\ streams' = streams \ {s}
  BY DEF StreamQueued, setting
<1>3. RestOK'
  BY <1>2, SameTypes DEF RestOK
<1>4. /\ StreamsOK'
      /\ \A r, x : InStream(r, x)' <=> InStream(r, x) /\ r # s
  BY <1>2, SameTypes DEF StreamsOK, InStream
<1>5. InStream(s, s.offer) /\ OnePlace(s.offer) /\ Offered(s.offer)
  BY <1>1 DEF InStream, SignalInv, PlacesOK, Somewhere
<1>6. ~Queued(s.to, s.offer) /\ \A m \in Nodes : Once(offerIn[m])
  BY <1>1, <1>5 DEF OnePlace, SignalInv, QueuesOnce
<1>7. /\ OffersOK' /\ \A m \in Nodes : Once(offerIn'[m])
      /\ \A m \in Nodes : \A x : Queued(m, x)' <=> Queued(m, x) \/ (m = s.to /\ x = s.offer)
  BY <1>1, <1>2, <1>6, SameTypes, OfferQueued
<1>8. TypeOK' /\ QueuesOnce' /\ WaitingOK' /\ AnsweringOK'
  BY <1>2, <1>3, <1>4, <1>7, SameTypes, TypeParts DEF QueuesOnce
<1>9. \A x \in Offers : x # s.offer => Fewer(x)
  BY <1>2, <1>4, <1>7, SameTypes DEF Fewer
<1>10. OnePlace(s.offer)'
  <2>1. \A r : ~InStream(r, s.offer)'
    BY <1>4, <1>5 DEF OnePlace
  <2>2. ~HeardBy(s.offer)'
    BY <1>2, <1>5, SameTypes DEF OnePlace
  <2>3. \A n \in Nodes : (Queued(n, s.offer)' => n = s.to) /\ ~Answering(n, s.offer)'
                         /\ \A p \in Nodes : ~Replied(n, p, s.offer)'
    BY <1>2, <1>5, <1>7, SameTypes DEF OnePlace
  <2>4. QED  BY <1>1, <2>1, <2>2, <2>3, OnlyQueued
<1>11. PlacesOK'
  <2>1. Offered(s.offer)' /\ \A n \in Nodes : dials'[n] \in Nat /\ dials[n] <= dials'[n]
    BY <1>2, <1>5, SameTypes DEF Offered, RestOK
  <2>2. QED  BY <1>1, <1>9, <1>10, <2>1, SameTypes, OneMoves DEF SignalInv
<1>12. QED  BY <1>8, <1>11 DEF SignalInv

\* An answer goes from its stream to the queue of its peer.
LEMMA StreamAnsweredStep ==
  ASSUME SignalInv, NEW s \in streams, StreamAnswered(s)
  PROVE  SignalInv'
<1>1. s.offer \in Offers /\ s.to \in Nodes /\ s.from \in Nodes
  BY SameTypes DEF StreamsOK
<1>2. /\ UNCHANGED <<byStream, up, advert, dial, dials, acc, offerIn, lastRemote, lost>>
      /\ answers' = [answers EXCEPT ![s.to][s.from] = Append(@, s.offer)]
      /\ Len(answers[s.to][s.from]) < AnswerCap /\ streams' = streams \ {s}
  BY DEF StreamAnswered, setting
<1>3. RestOK'
  BY <1>2, SameTypes DEF RestOK
<1>4. /\ StreamsOK'
      /\ \A r, x : InStream(r, x)' <=> InStream(r, x) /\ r # s
  BY <1>2, SameTypes DEF StreamsOK, InStream
<1>5. InStream(s, s.offer) /\ OnePlace(s.offer) /\ Offered(s.offer)
  BY <1>1 DEF InStream, SignalInv, PlacesOK, Somewhere
<1>6. ~Replied(s.to, s.from, s.offer) /\ \A m \in Nodes, q \in Nodes : Once(answers[m][q])
  BY <1>1, <1>5 DEF OnePlace, SignalInv, QueuesOnce
<1>7. /\ AnswersOK' /\ \A m \in Nodes, q \in Nodes : Once(answers'[m][q])
      /\ \A m \in Nodes, q \in Nodes : \A x :
           Replied(m, q, x)' <=> Replied(m, q, x) \/ (m = s.to /\ q = s.from /\ x = s.offer)
  <2>1. AnswersOK
    BY SameTypes
  <2>2. QED  BY <1>1, <1>2, <1>6, <2>1, AnswerQueued
<1>8. TypeOK' /\ QueuesOnce' /\ WaitingOK' /\ AnsweringOK'
  BY <1>2, <1>3, <1>4, <1>7, SameTypes, TypeParts DEF QueuesOnce
<1>9. \A x \in Offers : x # s.offer => Fewer(x)
  BY <1>2, <1>4, <1>7, SameTypes DEF Fewer
<1>10. OnePlace(s.offer)'
  <2>1. \A r : ~InStream(r, s.offer)'
    BY <1>4, <1>5 DEF OnePlace
  <2>2. ~HeardBy(s.offer)'
    BY <1>2, <1>5, SameTypes DEF OnePlace
  <2>3. \A n \in Nodes : ~Queued(n, s.offer)' /\ ~Answering(n, s.offer)'
                         /\ \A p \in Nodes : Replied(n, p, s.offer)' => n = s.to /\ p = s.from
    BY <1>2, <1>5, <1>7, SameTypes DEF OnePlace
  <2>4. QED  BY <1>1, <2>1, <2>2, <2>3, OnlyReplied
<1>11. PlacesOK'
  <2>1. Offered(s.offer)' /\ \A n \in Nodes : dials'[n] \in Nat /\ dials[n] <= dials'[n]
    BY <1>2, <1>5, SameTypes DEF Offered, RestOK
  <2>2. QED  BY <1>1, <1>9, <1>10, <2>1, SameTypes, OneMoves DEF SignalInv
<1>12. QED  BY <1>8, <1>11 DEF SignalInv

\* The accept loop takes an offer from its queue, to answer it.
LEMMA AcceptOfferStep ==
  ASSUME SignalInv, NEW n \in Nodes, AcceptOffer(n)
  PROVE  SignalInv'
<1>1. PICK o : o = Head(offerIn[n])
  OBVIOUS
<1>2. /\ UNCHANGED <<byStream, up, advert, dial, dials, answers, streams, lost>>
      /\ offerIn' = [offerIn EXCEPT ![n] = Tail(@)] /\ offerIn[n] # <<>>
      /\ lastRemote' = [lastRemote EXCEPT ![n] = Dialler(o)]
      /\ acc' = [acc EXCEPT ![n] = [st |-> "answering", offer |-> o]]
      /\ acc[n].st = "listen"
  BY <1>1 DEF AcceptOffer, setting
<1>3. /\ OffersOK' /\ o \in Offers /\ Queued(n, o)
      /\ \A m \in Nodes : \A x : Queued(m, x)' <=> Queued(m, x) /\ ~(m = n /\ x = o)
      /\ \A m \in Nodes : Once(offerIn'[m])
  <2>1. OffersOK /\ QueuesOnce
    BY SameTypes DEF SignalInv
  <2>2. QED  BY <1>1, <1>2, <2>1, OfferTaken
<1>4. Dialler(o) \in Nodes
  BY <1>3 DEF Offers, Dialler
<1>5. RestOK'
  BY <1>2, <1>4, SameTypes DEF RestOK
<1>6. /\ AccOK'
      /\ \A m \in Nodes : \A x : Answering(m, x)' <=> (Answering(m, x) /\ m # n) \/ (m = n /\ x = o)
  BY <1>2, <1>3, SameTypes DEF AccOK, Answering
<1>7. AnsweringOK'
  BY <1>2, <1>3, <1>4, SameTypes DEF AnsweringOK, AccOK, RestOK, SignalInv
<1>8. TypeOK' /\ QueuesOnce' /\ WaitingOK'
  BY <1>2, <1>3, <1>5, <1>6, SameTypes, TypeParts DEF QueuesOnce
<1>9. \A x \in Offers : x # o => Fewer(x)
  BY <1>2, <1>3, <1>6, SameTypes DEF Fewer
<1>10. OnePlace(o) /\ Offered(o)
  BY <1>3 DEF SignalInv, PlacesOK, Somewhere
<1>11. OnePlace(o)'
  <2>1. \A r : ~InStream(r, o)'
    BY <1>2, <1>3, <1>10, SameTypes DEF OnePlace
  <2>2. ~HeardBy(o)'
    BY <1>2, <1>3, <1>10, SameTypes DEF OnePlace
  <2>3. \A m \in Nodes : ~Queued(m, o)' /\ (Answering(m, o)' => m = n)
                         /\ \A p \in Nodes : ~Replied(m, p, o)'
    BY <1>2, <1>3, <1>6, <1>10, SameTypes DEF OnePlace
  <2>4. QED  BY <2>1, <2>2, <2>3, OnlyAnswering
<1>12. PlacesOK'
  <2>1. Offered(o)' /\ \A m \in Nodes : dials'[m] \in Nat /\ dials[m] <= dials'[m]
    BY <1>2, <1>10, SameTypes DEF Offered, RestOK
  <2>2. QED  BY <1>3, <1>9, <1>11, <2>1, SameTypes, OneMoves DEF SignalInv
<1>13. QED  BY <1>7, <1>8, <1>12 DEF SignalInv

\* The answer leaves the accept loop, for a stream or for the queue of the peer
\* that lastRemote names.
LEMMA SendAnswerStep ==
  ASSUME SignalInv, NEW n \in Nodes, SendAnswer(n)
  PROVE  SignalInv'
<1>1. PICK o, p : o = acc[n].offer /\ p = lastRemote[n]
  OBVIOUS
<1>2. /\ UNCHANGED <<byStream, up, advert, dial, dials, offerIn, lastRemote, lost>>
      /\ acc' = [acc EXCEPT ![n].st = "open"]
      /\ acc[n].st = "answering"
  BY DEF SendAnswer, setting
<1>3. o \in Offers /\ p \in Nodes /\ Answering(n, o)
  BY <1>1, <1>2 DEF AnsweringOK, SignalInv, Answering
<1>4. RestOK'
  BY <1>2, SameTypes DEF RestOK
<1>5. /\ AccOK' /\ AnsweringOK'
      /\ \A m \in Nodes : \A x : Answering(m, x)' <=> Answering(m, x) /\ m # n
  <2>1. AccOK /\ AnsweringOK
    BY SameTypes DEF SignalInv
  <2>2. QED  BY <1>2, <2>1, LoopMoves
<1>6. OnePlace(o) /\ Offered(o)
  BY <1>3 DEF SignalInv, PlacesOK, Somewhere
<1>7. Offered(o)' /\ \A m \in Nodes : dials'[m] \in Nat /\ dials[m] <= dials'[m]
  BY <1>2, <1>6, SameTypes DEF Offered, RestOK
<1>8. \A m \in Nodes : /\ ~Queued(m, o)' /\ ~Answering(m, o)'
                       /\ \A q \in Nodes : ~Replied(m, q, o)
  BY <1>2, <1>3, <1>5, <1>6, SameTypes DEF OnePlace
<1>a. ~HeardBy(o)'
  BY <1>2, <1>3, <1>6, SameTypes DEF OnePlace
<1>9. \A r : ~InStream(r, o)
  BY <1>3, <1>6 DEF OnePlace
<1>10. CASE /\ streams' = streams \cup {Stream("answer", n, p, o)}
            /\ UNCHANGED answers
  <2> DEFINE t == Stream("answer", n, p, o)
  <2>1. t.offer = o /\ t \in [kind : {"offer", "noted", "answer"}, from : Nodes, to : Nodes, offer : Offers]
    BY <1>3 DEF Stream
  <2>2. streams' = streams \cup {t}
    BY <1>10
  <2> HIDE DEF t
  <2>3. StreamsOK' /\ \A r, x : InStream(r, x)' <=> InStream(r, x) \/ (r = t /\ x = o)
    BY <2>1, <2>2, SameTypes DEF StreamsOK, InStream
  <2>4. TypeOK' /\ QueuesOnce' /\ WaitingOK'
    BY <1>2, <1>4, <1>5, <1>10, <2>3, SameTypes, TypeParts DEF QueuesOnce
  <2>5. \A x \in Offers : x # o => Fewer(x)
    BY <1>2, <1>5, <1>10, <2>3, SameTypes DEF Fewer
  <2>6. OnePlace(o)'
    <3>1. \A r : InStream(r, o)' => r = t
      BY <1>9, <2>3
    <3>2. \A m \in Nodes : \A q \in Nodes : ~Replied(m, q, o)'
      BY <1>8, <1>10, SameTypes
    <3>3. QED  BY <1>8, <1>a, <3>1, <3>2, OnlyStream
  <2>7. PlacesOK'
    BY <1>3, <1>7, <2>5, <2>6, SameTypes, OneMoves DEF SignalInv
  <2>8. QED  BY <1>5, <2>4, <2>7 DEF SignalInv
<1>11. CASE /\ Len(answers[p][n]) < AnswerCap
            /\ answers' = [answers EXCEPT ![p][n] = Append(@, o)]
            /\ UNCHANGED streams
  <2>1. ~Replied(p, n, o) /\ \A m \in Nodes, q \in Nodes : Once(answers[m][q])
    BY <1>3, <1>8 DEF SignalInv, QueuesOnce
  <2>2. /\ AnswersOK' /\ \A m \in Nodes, q \in Nodes : Once(answers'[m][q])
        /\ \A m \in Nodes, q \in Nodes : \A x :
             Replied(m, q, x)' <=> Replied(m, q, x) \/ (m = p /\ q = n /\ x = o)
    <3>1. AnswersOK
      BY SameTypes
    <3>2. QED  BY <1>3, <1>11, <2>1, <3>1, AnswerQueued
  <2>3. TypeOK' /\ QueuesOnce' /\ WaitingOK'
    BY <1>2, <1>4, <1>5, <1>11, <2>2, SameTypes, TypeParts DEF QueuesOnce
  <2>4. \A x \in Offers : x # o => Fewer(x)
    BY <1>2, <1>5, <1>11, <2>2, SameTypes DEF Fewer
  <2>5. OnePlace(o)'
    <3>1. \A r : ~InStream(r, o)'
      BY <1>9, <1>11, SameTypes
    <3>2. \A m \in Nodes : \A q \in Nodes : Replied(m, q, o)' => m = p /\ q = n
      BY <1>8, <2>2
    <3>3. QED  BY <1>3, <1>8, <1>a, <3>1, <3>2, OnlyReplied
  <2>6. PlacesOK'
    BY <1>3, <1>7, <2>4, <2>5, SameTypes, OneMoves DEF SignalInv
  <2>7. QED  BY <1>5, <2>3, <2>6 DEF SignalInv
<1>12. QED  BY <1>1, <1>10, <1>11 DEF SendAnswer

\* A dialler hears the next answer of the peer it waits for.
LEMMA DialAnsweredStep ==
  ASSUME SignalInv, NEW d \in Diallers, DialAnswered(d)
  PROVE  SignalInv'
<1>0. PICK n \in Nodes : n = Home(d)
  BY HomeIsNode
<1>1. PICK p, o : p = dial[d].to /\ o = Head(answers[n][p])
  OBVIOUS
<1>2. /\ UNCHANGED <<byStream, up, advert, dials, acc, offerIn, lastRemote, streams, lost>>
      /\ dial' = [dial EXCEPT ![d] = [st |-> "idle", to |-> p, offer |-> dial[d].offer, heard |-> o]]
      /\ answers' = [answers EXCEPT ![n][p] = Tail(@)] /\ answers[n][p] # <<>>
      /\ dial[d].st = "waiting"
  BY <1>0, <1>1 DEF DialAnswered, setting
<1>3. p \in Nodes
  BY <1>1, <1>2 DEF WaitingOK, SignalInv
<1>4. /\ AnswersOK' /\ o \in Offers /\ Replied(n, p, o)
      /\ \A m \in Nodes, q \in Nodes : \A x :
           Replied(m, q, x)' <=> Replied(m, q, x) /\ ~(m = n /\ q = p /\ x = o)
      /\ \A m \in Nodes, q \in Nodes : Once(answers'[m][q])
  <2>1. AnswersOK /\ QueuesOnce
    BY SameTypes DEF SignalInv
  <2>2. QED  BY <1>1, <1>2, <1>3, <2>1, AnswerTaken
<1>5. RestOK'
  BY <1>2, SameTypes DEF RestOK
<1>6. /\ DialOK' /\ WaitingOK'
      /\ \A e \in Diallers : \A x : Heard(e, x)' <=> (Heard(e, x) /\ e # d) \/ (e = d /\ x = o)
  <2>1. DialOK /\ WaitingOK /\ dial[d].offer \in Offers \cup {NoOffer}
    BY SameTypes DEF SignalInv, DialOK
  <2>2. DialOK'
    BY <1>2, <1>3, <1>4, <2>1 DEF DialOK
  <2>3. dial'[d].st = "idle" /\ dial'[d].heard = o /\ \A e \in Diallers : e # d => dial'[e] = dial[e]
    BY <1>2, <2>1 DEF DialOK
  <2>4. QED  BY <2>1, <2>2, <2>3 DEF WaitingOK, Heard
<1>7. TypeOK' /\ QueuesOnce' /\ AnsweringOK'
  BY <1>2, <1>4, <1>5, <1>6, SameTypes, TypeParts DEF QueuesOnce
<1>8. \A x \in Offers : x # o => Fewer(x)
  BY <1>2, <1>4, <1>6, SameTypes DEF Fewer
<1>9. OnePlace(o) /\ Offered(o)
  BY <1>3, <1>4 DEF SignalInv, PlacesOK, Somewhere
<1>10. OnePlace(o)'
  <2>1. \A r : ~InStream(r, o)'
    BY <1>2, <1>3, <1>4, <1>9, SameTypes DEF OnePlace
  <2>2. \A m \in Nodes : ~Queued(m, o)' /\ ~Answering(m, o)'
    BY <1>2, <1>3, <1>4, <1>9, SameTypes DEF OnePlace
  <2>3. \A m \in Nodes : \A q \in Nodes : ~Replied(m, q, o)'
    BY <1>3, <1>4, <1>9 DEF OnePlace
  <2>4. ~HeardBy(o)
    BY <1>3, <1>4, <1>9 DEF OnePlace
  <2>5. \A e \in Diallers : Heard(e, o)' => e = d
    BY <1>6, <2>4 DEF HeardBy
  <2>6. QED  BY <2>1, <2>2, <2>3, <2>5, OnlyHeard
<1>11. PlacesOK'
  <2>1. Offered(o)' /\ \A m \in Nodes : dials'[m] \in Nat /\ dials[m] <= dials'[m]
    BY <1>2, <1>9, SameTypes DEF Offered, RestOK
  <2>2. QED  BY <1>4, <1>8, <1>10, <2>1, SameTypes, OneMoves DEF SignalInv
<1>12. QED  BY <1>6, <1>7, <1>11 DEF SignalInv

\* A dial makes an offer that was nowhere yet, and forgets what was heard before.
LEMMA DialStepKeeps ==
  ASSUME SignalInv, NEW d \in Diallers, NEW p \in Nodes, Dial(d, p)
  PROVE  SignalInv'
<1>0. PICK n \in Nodes : n = Home(d)
  BY HomeIsNode
<1>1. PICK o : o = <<n, dials[n] + 1>>
  OBVIOUS
<1>2. /\ UNCHANGED <<byStream, up, advert, acc, answers, lastRemote, lost>>
      /\ dials' = [dials EXCEPT ![n] = @ + 1]
      /\ dial' = [dial EXCEPT ![d] = [st |-> "waiting", to |-> p, offer |-> o, heard |-> NoOffer]]
      /\ dials[n] < MaxDials
  <2>1. dials[n] < IF byStream THEN MaxStreamDials ELSE MaxDials
    BY <1>0 DEF Dial
  <2>2. dials[n] \in Nat /\ MaxStreamDials \in Nat /\ MaxDials \in Nat /\ MaxStreamDials <= MaxDials
    BY SameTypes, SignalingAssumption DEF RestOK
  <2>3. dials[n] < MaxDials
    BY <2>1, <2>2
  <2>4. QED  BY <1>0, <1>1, <2>3 DEF Dial, OpenStream, QueueOffer, setting
<1>3. /\ dials \in [Nodes -> 0 .. MaxDials] /\ dials[n] \in Nat /\ MaxDials \in Nat
      /\ o \in Offers /\ o[1] = n /\ o[2] = dials[n] + 1
  BY <1>1, <1>2, SameTypes, SignalingAssumption DEF RestOK, Offers
<1>4. dials'[n] = dials[n] + 1 /\ dials' \in [Nodes -> 0 .. MaxDials]
      /\ \A m \in Nodes : dials'[m] \in Nat /\ dials[m] <= dials'[m]
  BY <1>2, <1>3
<1>5. RestOK' /\ Offered(o)' /\ ~Offered(o)
  BY <1>2, <1>3, <1>4, SameTypes DEF RestOK, Offered
<1>6. ~Somewhere(o)
  BY <1>3, <1>5 DEF SignalInv, PlacesOK
<1>7. /\ DialOK' /\ WaitingOK'
      /\ \A e \in Diallers : \A x \in Offers : Heard(e, x)' <=> Heard(e, x) /\ e # d
      /\ \A x \in Offers : HeardBy(x)' => HeardBy(x)
  <2>1. DialOK /\ WaitingOK
    BY SameTypes DEF SignalInv
  <2>2. DialOK'
    BY <1>2, <1>3, <2>1 DEF DialOK
  <2>3. /\ dial'[d].st = "waiting" /\ dial'[d].heard = NoOffer /\ dial'[d].to = p
        /\ \A e \in Diallers : e # d => dial'[e] = dial[e]
    BY <1>2, <2>1 DEF DialOK
  <2>4. NoOffer \notin Offers
    BY SignalingAssumption DEF NoOffer, Offers
  <2>5. QED  BY <2>1, <2>2, <2>3, <2>4 DEF WaitingOK, Heard, HeardBy
<1>8. CASE byStream
  <2> DEFINE t == Stream("offer", n, p, o)
  <2>1. t.offer = o /\ t \in [kind : {"offer", "noted", "answer"}, from : Nodes, to : Nodes, offer : Offers]
    BY <1>3 DEF Stream
  <2>2. streams' = streams \cup {t} /\ UNCHANGED offerIn
    BY <1>0, <1>1, <1>8 DEF Dial, OpenStream
  <2> HIDE DEF t
  <2>3. StreamsOK' /\ \A r, x : InStream(r, x)' <=> InStream(r, x) \/ (r = t /\ x = o)
    BY <2>1, <2>2, SameTypes DEF StreamsOK, InStream
  <2>4. TypeOK' /\ QueuesOnce' /\ AnsweringOK'
    BY <1>2, <1>5, <1>7, <2>2, <2>3, SameTypes, TypeParts DEF QueuesOnce
  <2>5. \A x \in Offers : x # o => Fewer(x)
    BY <1>2, <1>7, <2>2, <2>3, SameTypes DEF Fewer
  <2>6. OnePlace(o)'
    <3>1. \A r : InStream(r, o)' => r = t
      BY <1>6, <2>3 DEF Somewhere
    <3>2. ~HeardBy(o)'
      BY <1>3, <1>6, <1>7 DEF Somewhere
    <3>3. \A m \in Nodes : ~Queued(m, o)' /\ ~Answering(m, o)'
                           /\ \A q \in Nodes : ~Replied(m, q, o)'
      BY <1>2, <1>6, <2>2, SameTypes DEF Somewhere
    <3>4. QED  BY <3>1, <3>2, <3>3, OnlyStream
  <2>7. PlacesOK'
    BY <1>3, <1>4, <1>5, <2>5, <2>6, SameTypes, OneMoves DEF SignalInv
  <2>8. QED  BY <1>7, <2>4, <2>7 DEF SignalInv
<1>9. CASE ~byStream
  <2>1. /\ Len(offerIn[p]) < OfferCap /\ offerIn' = [offerIn EXCEPT ![p] = Append(@, o)]
        /\ UNCHANGED streams
    BY <1>0, <1>1, <1>9 DEF Dial, QueueOffer
  <2>2. ~Queued(p, o) /\ \A m \in Nodes : Once(offerIn[m])
    BY <1>6 DEF Somewhere, SignalInv, QueuesOnce
  <2>3. /\ OffersOK' /\ \A m \in Nodes : Once(offerIn'[m])
        /\ \A m \in Nodes : \A x : Queued(m, x)' <=> Queued(m, x) \/ (m = p /\ x = o)
    BY <1>3, <2>1, <2>2, SameTypes, OfferQueued
  <2>4. TypeOK' /\ QueuesOnce' /\ AnsweringOK'
    BY <1>2, <1>5, <1>7, <2>1, <2>3, SameTypes, TypeParts DEF QueuesOnce
  <2>5. \A x \in Offers : x # o => Fewer(x)
    BY <1>2, <1>7, <2>1, <2>3, SameTypes DEF Fewer
  <2>6. OnePlace(o)'
    <3>1. \A r : ~InStream(r, o)'
      BY <1>6, <2>1, SameTypes DEF Somewhere
    <3>2. ~HeardBy(o)'
      BY <1>3, <1>6, <1>7 DEF Somewhere
    <3>3. \A m \in Nodes : (Queued(m, o)' => m = p) /\ ~Answering(m, o)'
                           /\ \A q \in Nodes : ~Replied(m, q, o)'
      BY <1>2, <1>6, <2>3, SameTypes DEF Somewhere
    <3>4. QED  BY <3>1, <3>2, <3>3, OnlyQueued
  <2>7. PlacesOK'
    BY <1>3, <1>4, <1>5, <2>5, <2>6, SameTypes, OneMoves DEF SignalInv
  <2>8. QED  BY <1>7, <2>4, <2>7 DEF SignalInv
<1>10. QED  BY <1>8, <1>9

\* At first no offer has been made.
LEMMA SignalBegins == Init => SignalInv
<1> SUFFICES ASSUME Init PROVE SignalInv
  OBVIOUS
<1>1. TypeOK /\ WaitingOK /\ AnsweringOK
  BY SignalingAssumption DEF Init, TypeOK, WaitingOK, AnsweringOK
<1>2. QueuesOnce
  <2>1. Once(<<>>)
    BY DEF Once
  <2>2. \A n \in Nodes : offerIn[n] = <<>> /\ \A p \in Nodes : answers[n][p] = <<>>
    BY DEF Init
  <2>3. QED  BY <2>1, <2>2 DEF QueuesOnce
<1>3. NoOffer \notin Offers
  BY SignalingAssumption DEF NoOffer, Offers
<1>4. ASSUME NEW o \in Offers PROVE ~Somewhere(o)
  BY <1>3 DEF Init, Somewhere, InStream, Queued, Replied, Answering, Heard, HeardBy, Has
<1>5. \A o \in Offers : OnePlace(o)
  BY <1>4 DEF Somewhere, OnePlace, HeardBy
<1>6. QED  BY <1>1, <1>2, <1>4, <1>5 DEF SignalInv, PlacesOK

\* Every step keeps every offer in one place, whichever implementation is used.
LEMMA SignalStep ==
  ASSUME SignalInv, [Next]_vars
  PROVE  SignalInv'
<1>1. CASE UNCHANGED vars
  <2>1. UNCHANGED <<byStream, up, advert, dial, dials, acc, offerIn, answers, lastRemote, streams, lost>>
    BY <1>1 DEF vars, setting
  <2>2. RestOK'
    BY <2>1, SameTypes DEF RestOK
  <2>3. TypeOK' /\ QueuesOnce' /\ AnsweringOK' /\ WaitingOK'
    BY <2>1, <2>2, SameTypes, TypeParts DEF QueuesOnce
  <2>4. \A x \in Offers : Fewer(x)
    BY <2>1, SameTypes DEF Fewer
  <2>5. PlacesOK'
    BY <2>1, <2>4, NoneMoves DEF SignalInv
  <2>6. QED  BY <2>3, <2>5 DEF SignalInv
<1>2. ASSUME NEW d \in Diallers, (\E p \in Nodes : Dial(d, p)) \/ DialStep(d)
      PROVE  SignalInv'
  BY <1>2, DialStepKeeps, DialAnsweredStep, CloseStep DEF DialStep
<1>a. ASSUME NEW n \in Nodes, AcceptStep(n) \/ Close(n)
      PROVE  SignalInv'
  BY <1>a, CloseStep, LoopStep, AcceptOfferStep, SendAnswerStep DEF AcceptStep
<1>3. ASSUME NEW s \in streams, StreamStep(s)
      PROVE  SignalInv'
  BY <1>3, StreamNotedStep, StreamQueuedStep, StreamAnsweredStep, StreamEnds DEF StreamStep
<1>4. QED  BY <1>1, <1>2, <1>a, <1>3 DEF Next

\* SignalInv is an invariant of both implementations.
THEOREM SignalInvariance == Spec => []SignalInv
<1>1. Init => SignalInv
  BY SignalBegins
<1>2. SignalInv /\ [Next]_vars => SignalInv'
  BY SignalStep
<1>3. QED  BY <1>1, <1>2, PTL DEF Spec

\* The queues, streams and cursors of both signalers keep their types and their
\* capacities.
THEOREM SignalTypes == Spec => []TypeOK
<1>1. SignalInv => TypeOK
  BY DEF SignalInv
<1>2. QED  BY <1>1, SignalInvariance, PTL


\* Two places of an offer are the same one.
LEMMA OneOfPlaces ==
  ASSUME SignalInv, NEW o \in Offers, NEW x \in Places(o), NEW y \in Places(o)
  PROVE  x = y
<1>1. OnePlace(o) /\ AccOK /\ OffersOK /\ AnswersOK
  BY SameTypes DEF SignalInv, PlacesOK
<1>2. ASSUME NEW z \in Places(o)
      PROVE  \/ \E s : z = <<"stream", s>> /\ InStream(s, o)
             \/ \E n \in Nodes : \E i \in DOMAIN offerIn[n] :
                  z = <<"offerIn", n, i>> /\ offerIn[n][i] = o
             \/ \E n \in Nodes, p \in Nodes : \E i \in DOMAIN answers[n][p] :
                  z = <<"answers", n, p, i>> /\ answers[n][p][i] = o
             \/ \E n \in Nodes : z = <<"answering", n>> /\ Answering(n, o)
             \/ \E d \in Diallers : z = <<"heard", d>> /\ Heard(d, o)
  <2>1. \/ z \in {<<"stream", s>> : s \in {r \in streams : r.offer = o}}
        \/ z \in UNION {{<<"offerIn", n, i>> : i \in At(offerIn[n], o)} : n \in Nodes}
        \/ z \in UNION {{<<"answers", r[1], r[2], i>> : i \in At(answers[r[1]][r[2]], o)} :
                          r \in Nodes \X Nodes}
        \/ z \in {<<"answering", n>> : n \in {m \in Nodes : acc[m] = [st |-> "answering", offer |-> o]}}
        \/ z \in {<<"heard", d>> : d \in {e \in Diallers : dial[e].heard = o}}
    BY DEF Places
  <2>2. CASE z \in {<<"stream", s>> : s \in {r \in streams : r.offer = o}}
    BY <2>2 DEF InStream
  <2>3. CASE z \in UNION {{<<"offerIn", n, i>> : i \in At(offerIn[n], o)} : n \in Nodes}
    BY <2>3 DEF At
  <2>4. CASE z \in UNION {{<<"answers", r[1], r[2], i>> : i \in At(answers[r[1]][r[2]], o)} :
                            r \in Nodes \X Nodes}
    <3>1. PICK r \in Nodes \X Nodes : z \in {<<"answers", r[1], r[2], i>> : i \in At(answers[r[1]][r[2]], o)}
      BY <2>4
    <3>2. PICK i \in At(answers[r[1]][r[2]], o) : z = <<"answers", r[1], r[2], i>>
      BY <3>1
    <3>3. PICK n \in Nodes, p \in Nodes : n = r[1] /\ p = r[2]
      BY <3>1
    <3>4. i \in DOMAIN answers[n][p] /\ answers[n][p][i] = o
      BY <3>2, <3>3 DEF At
    <3>5. z = <<"answers", n, p, i>>
      BY <3>2, <3>3
    <3>6. QED  BY <3>4, <3>5
  <2>5. CASE z \in {<<"answering", n>> : n \in {m \in Nodes : acc[m] = [st |-> "answering", offer |-> o]}}
    BY <2>5 DEF Answering
  <2>6. CASE z \in {<<"heard", d>> : d \in {e \in Diallers : dial[e].heard = o}}
    BY <2>6 DEF Heard
  <2>7. QED  BY <2>1, <2>2, <2>3, <2>4, <2>5, <2>6
<1>3. \A n \in Nodes : \A i \in DOMAIN offerIn[n] : offerIn[n][i] = o => Queued(n, o)
  BY DEF Queued, Has
<1>4. \A n \in Nodes, p \in Nodes : \A i \in DOMAIN answers[n][p] :
        answers[n][p][i] = o => Replied(n, p, o)
  BY DEF Replied, Has
<1>a. \A d \in Diallers : Heard(d, o) => HeardBy(o)
  BY DEF HeardBy
<1>5. CASE \E s : x = <<"stream", s>> /\ InStream(s, o)
  BY <1>1, <1>2, <1>3, <1>4, <1>5, <1>a DEF OnePlace
<1>6. ASSUME NEW n \in Nodes, NEW i \in DOMAIN offerIn[n], x = <<"offerIn", n, i>>, offerIn[n][i] = o
      PROVE  x = y
  <2>1. Queued(n, o) /\ Once(offerIn[n])
    BY <1>3, <1>6 DEF SignalInv, QueuesOnce
  <2>2. PICK m \in Nodes : \E j \in DOMAIN offerIn[m] :
          y = <<"offerIn", m, j>> /\ offerIn[m][j] = o
    BY <1>1, <1>2, <1>4, <1>a, <2>1 DEF OnePlace
  <2>3. m = n
    BY <1>1, <1>3, <2>1, <2>2 DEF OnePlace
  <2>4. QED  BY <1>6, <2>1, <2>2, <2>3 DEF Once
<1>7. ASSUME NEW n \in Nodes, NEW p \in Nodes, NEW i \in DOMAIN answers[n][p],
             x = <<"answers", n, p, i>>, answers[n][p][i] = o
      PROVE  x = y
  <2>1. Replied(n, p, o) /\ Once(answers[n][p])
    BY <1>4, <1>7 DEF SignalInv, QueuesOnce
  <2>2. PICK m \in Nodes, q \in Nodes : \E j \in DOMAIN answers[m][q] :
          y = <<"answers", m, q, j>> /\ answers[m][q][j] = o
    BY <1>1, <1>2, <1>3, <1>a, <2>1 DEF OnePlace
  <2>3. m = n /\ q = p
    BY <1>1, <1>4, <2>1, <2>2 DEF OnePlace
  <2>4. QED  BY <1>7, <2>1, <2>2, <2>3 DEF Once
<1>8. CASE \E n \in Nodes : x = <<"answering", n>> /\ Answering(n, o)
  BY <1>1, <1>2, <1>3, <1>4, <1>8, <1>a DEF OnePlace
<1>9. CASE \E d \in Diallers : x = <<"heard", d>> /\ Heard(d, o)
  BY <1>1, <1>2, <1>3, <1>4, <1>9, <1>a DEF OnePlace
<1>10. QED  BY <1>2, <1>5, <1>6, <1>7, <1>8, <1>9

\* Every offer is handled at most once, from its stream or queue to the answer
\* its dialler hears: neither the goroutines of onStream, nor a full queue, nor
\* Close makes a second answer to it, with either implementation.
THEOREM OffersHandledOnce == Spec => []HandledOnce
<1>1. SignalInv => HandledOnce
  BY OneOfPlaces DEF HandledOnce
<1>2. QED  BY <1>1, SignalInvariance, PTL

-----------------------------------------------------------------------------
(* The Registry: no answer is left for a later dial.                       *)

\* No more offers are pending than diallers wait.
Balanced(P, W) == IsFiniteSet(P) /\ IsFiniteSet(W) /\ Cardinality(P) <= Cardinality(W)

CountInv == ~byStream => \A n, p \in Nodes : Balanced(Pending(n, p), Waiting(n, p))
LeftInv == SignalInv /\ RegistryInv /\ CountInv

\* Offers that go while everybody waits on.
LEMMA BalanceKept ==
  ASSUME NEW P, NEW W, NEW P2, Balanced(P, W), P2 \subseteq P
  PROVE  Balanced(P2, W)
<1>1. IsFiniteSet(P2) /\ Cardinality(P2) <= Cardinality(P)
  BY FS_Subset DEF Balanced
<1>2. Cardinality(P2) \in Nat /\ Cardinality(P) \in Nat /\ Cardinality(W) \in Nat
  BY <1>1, FS_CardinalityType DEF Balanced
<1>3. QED  BY <1>1, <1>2 DEF Balanced

\* One more offer for one more dialler.
LEMMA BalanceUp ==
  ASSUME NEW P, NEW W, NEW P2, NEW o, NEW d, Balanced(P, W),
         P2 \subseteq P \cup {o}, d \notin W
  PROVE  Balanced(P2, W \cup {d})
<1>1. /\ IsFiniteSet(P \cup {o}) /\ IsFiniteSet(W \cup {d})
      /\ Cardinality(W \cup {d}) = Cardinality(W) + 1
      /\ Cardinality(P \cup {o}) = Cardinality(P) \/ Cardinality(P \cup {o}) = Cardinality(P) + 1
  BY FS_AddElement DEF Balanced
<1>2. Cardinality(P) \in Nat /\ Cardinality(W) \in Nat
  BY FS_CardinalityType DEF Balanced
<1>3. Balanced(P \cup {o}, W \cup {d})
  BY <1>1, <1>2 DEF Balanced
<1>4. QED  BY <1>3, BalanceKept

\* One offer less and one dialler less.
LEMMA BalanceDown ==
  ASSUME NEW P, NEW W, NEW P2, NEW o \in P, NEW d \in W, Balanced(P, W), P2 \subseteq P \ {o}
  PROVE  Balanced(P2, W \ {d})
<1>1. /\ IsFiniteSet(P \ {o}) /\ IsFiniteSet(W \ {d})
      /\ Cardinality(W \ {d}) = Cardinality(W) - 1
      /\ Cardinality(P \ {o}) = Cardinality(P) - 1
  BY FS_RemoveElement DEF Balanced
<1>2. Cardinality(P) \in Nat /\ Cardinality(W) \in Nat
  BY FS_CardinalityType DEF Balanced
<1>3. Balanced(P \ {o}, W \ {d})
  BY <1>1, <1>2 DEF Balanced
<1>4. QED  BY <1>3, BalanceKept

\* Pending in terms of the places of an offer.
LEMMA PendingIs ==
  ASSUME NEW n \in Nodes, NEW p \in Nodes
  PROVE  /\ AccOK => \A x : x \in Pending(n, p) <=>
              x \in Offers /\ Dialler(x) = n
                /\ (Queued(p, x) \/ Answering(p, x) \/ Replied(n, p, x))
         /\ AccOK' => \A x : x \in Pending(n, p)' <=>
              x \in Offers /\ Dialler(x) = n
                /\ (Queued(p, x)' \/ Answering(p, x)' \/ Replied(n, p, x)')
<1>1. AccOK => \A x : acc[p] = [st |-> "answering", offer |-> x] <=> Answering(p, x)
  BY DEF AccOK, Answering
<1>2. AccOK' => \A x : acc'[p] = [st |-> "answering", offer |-> x] <=> Answering(p, x)'
  BY DEF AccOK, Answering
<1>3. QED  BY <1>1, <1>2 DEF Pending, Queued, Replied, Has

\* A dial: its offer is pending and its dialler waits.
LEMMA CountDial ==
  ASSUME LeftInv, SignalInv', ~byStream, NEW d \in Diallers, NEW p \in Nodes, Dial(d, p)
  PROVE  CountInv'
<1>0. PICK n \in Nodes : n = Home(d)
  BY HomeIsNode
<1>1. PICK o : o = <<n, dials[n] + 1>>
  OBVIOUS
<1>2. /\ UNCHANGED <<byStream, acc, answers>> /\ dial[d].st = "idle"
      /\ dial' = [dial EXCEPT ![d] = [st |-> "waiting", to |-> p, offer |-> o, heard |-> NoOffer]]
      /\ Len(offerIn[p]) < OfferCap /\ offerIn' = [offerIn EXCEPT ![p] = Append(@, o)]
      /\ dials[n] < MaxDials
  BY <1>0, <1>1 DEF Dial, QueueOffer, setting
<1>3. OffersOK /\ DialOK /\ RestOK /\ AccOK /\ AccOK'
  BY SameTypes, TypeParts DEF LeftInv, SignalInv
<1>4. o \in Offers /\ Dialler(o) = n
  BY <1>1, <1>2, <1>3, SignalingAssumption DEF RestOK, Offers, Dialler
<1>5. \A m \in Nodes : \A x : Queued(m, x)' <=> Queued(m, x) \/ (m = p /\ x = o)
  BY <1>2, <1>3, <1>4, OfferQueued
<1>6. \A m, q \in Nodes : \A x : /\ Answering(m, x)' <=> Answering(m, x)
                                 /\ Replied(m, q, x)' <=> Replied(m, q, x)
  BY <1>2 DEF Answering, Replied
<1>7. \A e \in Diallers : dial'[e] = IF e = d THEN [st |-> "waiting", to |-> p, offer |-> o,
                                                    heard |-> NoOffer]
                                     ELSE dial[e]
  BY <1>2, <1>3 DEF DialOK
<1>8. ASSUME NEW m \in Nodes, NEW q \in Nodes
      PROVE  Balanced(Pending(m, q)', Waiting(m, q)')
  <2>1. Balanced(Pending(m, q), Waiting(m, q))
    BY DEF LeftInv, CountInv
  <2>2. CASE m = n /\ q = p
    <3>1. Pending(m, q)' \subseteq Pending(m, q) \cup {o}
      BY <1>3, <1>5, <1>6, PendingIs
    <3>2. d \notin Waiting(m, q) /\ Waiting(m, q)' = Waiting(m, q) \cup {d}
      BY <1>0, <1>2, <1>7, <2>2 DEF Waiting
    <3>3. QED
      <4> DEFINE P2 == Pending(m, q)'
      <4>1. Balanced(P2, Waiting(m, q) \cup {d})
        BY <2>1, <3>1, <3>2, BalanceUp
      <4>2. QED  BY <3>2, <4>1
  <2>3. CASE ~(m = n /\ q = p)
    <3>1. Pending(m, q)' \subseteq Pending(m, q)
      BY <1>3, <1>4, <1>5, <1>6, <2>3, PendingIs
    <3>2. Waiting(m, q)' = Waiting(m, q)
      BY <1>0, <1>2, <1>7, <2>3 DEF Waiting
    <3>3. QED  BY <2>1, <3>1, <3>2, BalanceKept
  <2>4. QED  BY <2>2, <2>3
<1>9. QED  BY <1>8 DEF CountInv

\* An answer that is heard, whoever it was for, is one offer less, and the one
\* that hears it is one dialler less.
LEMMA CountHeard ==
  ASSUME LeftInv, SignalInv', ~byStream, NEW d \in Diallers, DialAnswered(d)
  PROVE  CountInv'
<1>0. PICK n \in Nodes : n = Home(d)
  BY HomeIsNode
<1>1. PICK p, o : p = dial[d].to /\ o = Head(answers[n][p])
  OBVIOUS
<1>2. /\ UNCHANGED <<byStream, acc, offerIn>> /\ dial[d].st = "waiting"
      /\ dial' = [dial EXCEPT ![d] = [st |-> "idle", to |-> p, offer |-> dial[d].offer, heard |-> o]]
      /\ answers' = [answers EXCEPT ![n][p] = Tail(@)] /\ answers[n][p] # <<>>
  BY <1>0, <1>1 DEF DialAnswered, setting
<1>3. SignalInv /\ AnswersOK /\ DialOK /\ QueuesOnce /\ AccOK /\ AccOK'
  BY SameTypes, TypeParts DEF LeftInv, SignalInv
<1>4. p \in Nodes
  BY <1>1, <1>2, <1>3 DEF WaitingOK, SignalInv
<1>5. /\ o \in Offers /\ Replied(n, p, o)
      /\ \A m \in Nodes, q \in Nodes : \A x :
           Replied(m, q, x)' <=> Replied(m, q, x) /\ ~(m = n /\ q = p /\ x = o)
  BY <1>1, <1>2, <1>3, <1>4, AnswerTaken
<1>6. Dialler(o) = n
  <2>1. AnswerToOfferer
    BY DEF LeftInv, RegistryInv, ByRegistry
  <2>2. PICK i \in DOMAIN answers[n][p] : answers[n][p][i] = o
    BY <1>5 DEF Replied, Has
  <2>3. QED  BY <1>4, <2>1, <2>2 DEF AnswerToOfferer
<1>7. \A m \in Nodes : \A x : /\ Answering(m, x)' <=> Answering(m, x)
                              /\ Queued(m, x)' <=> Queued(m, x)
  BY <1>2 DEF Answering, Queued
<1>8. ~Queued(p, o) /\ ~Answering(p, o)
  <2>1. OnePlace(o)
    BY <1>3, <1>5 DEF SignalInv, PlacesOK
  <2>2. QED  BY <1>4, <1>5, <2>1 DEF OnePlace
<1>9. \A e \in Diallers : /\ e # d => dial'[e] = dial[e]
                          /\ e = d => dial'[e].st = "idle"
  BY <1>2, <1>3 DEF DialOK
<1>10. ASSUME NEW m \in Nodes, NEW q \in Nodes
       PROVE  Balanced(Pending(m, q)', Waiting(m, q)')
  <2>1. Balanced(Pending(m, q), Waiting(m, q))
    BY DEF LeftInv, CountInv
  <2>2. Pending(m, q)' \subseteq Pending(m, q)
    BY <1>3, <1>5, <1>7, PendingIs
  <2>3. CASE m = n /\ q = p
    <3>1. o \in Pending(m, q) /\ Pending(m, q)' \subseteq Pending(m, q) \ {o}
      BY <1>3, <1>5, <1>6, <1>7, <1>8, <2>2, <2>3, PendingIs
    <3>2. d \in Waiting(m, q) /\ Waiting(m, q)' = Waiting(m, q) \ {d}
      BY <1>0, <1>1, <1>2, <1>9, <2>3 DEF Waiting
    <3>3. QED  BY <2>1, <3>1, <3>2, BalanceDown
  <2>4. CASE ~(m = n /\ q = p)
    <3>1. Waiting(m, q)' = Waiting(m, q)
      BY <1>0, <1>1, <1>9, <2>4 DEF Waiting
    <3>2. QED  BY <2>1, <2>2, <3>1, BalanceKept
  <2>5. QED  BY <2>3, <2>4
<1>11. QED  BY <1>10 DEF CountInv

\* The accept loop passes an offer on to its answer, and starts none.
LEMMA AcceptPasses ==
  ASSUME SignalInv, SignalInv', ~byStream, NEW k \in Nodes, AcceptStep(k),
         NEW n \in Nodes, NEW p \in Nodes
  PROVE  Pending(n, p)' \subseteq Pending(n, p)
<1>1. OffersOK /\ AnswersOK /\ AccOK /\ AccOK' /\ QueuesOnce
  BY SameTypes, TypeParts DEF SignalInv
<1>2. CASE Listen(k) \/ AnswerLost(k) \/ AcceptDone(k) \/ AcceptReleased(k)
  <2>1. UNCHANGED <<offerIn, answers>>
    BY <1>2 DEF Listen, AnswerLost, AcceptDone, AcceptReleased
  <2>2. PICK v \in {"listen", "open", "gone"} : acc' = [acc EXCEPT ![k].st = v]
    BY <1>2 DEF Listen, AnswerLost, AcceptDone, AcceptReleased
  <2>3. \A x : Answering(p, x)' => Answering(p, x)
    BY <1>1, <2>2, LoopMoves
  <2>4. \A x : (Queued(p, x)' <=> Queued(p, x)) /\ (Replied(n, p, x)' <=> Replied(n, p, x))
    BY <2>1 DEF Queued, Replied
  <2>5. QED  BY <1>1, <2>3, <2>4, PendingIs
<1>3. CASE AcceptOffer(k)
  <2>1. PICK o : o = Head(offerIn[k])
    OBVIOUS
  <2>2. /\ UNCHANGED answers
        /\ offerIn' = [offerIn EXCEPT ![k] = Tail(@)] /\ offerIn[k] # <<>>
        /\ acc' = [acc EXCEPT ![k] = [st |-> "answering", offer |-> o]]
    BY <1>3, <2>1 DEF AcceptOffer
  <2>3. Queued(k, o) /\ \A x : Queued(p, x)' => Queued(p, x)
    BY <1>1, <2>1, <2>2, OfferTaken
  <2>4. \A x : Answering(p, x)' => Answering(p, x) \/ (p = k /\ x = o)
    <3>1. acc'[p] = IF p = k THEN [st |-> "answering", offer |-> o] ELSE acc[p]
      BY <1>1, <2>2 DEF AccOK
    <3>2. QED  BY <3>1 DEF Answering
  <2>5. \A x : Replied(n, p, x)' <=> Replied(n, p, x)
    BY <2>2 DEF Replied
  <2>6. QED  BY <1>1, <2>3, <2>4, <2>5, PendingIs
<1>4. CASE SendAnswer(k)
  <2>1. PICK o, r : o = acc[k].offer /\ r = lastRemote[k]
    OBVIOUS
  <2>2. /\ UNCHANGED offerIn /\ Answering(k, o) /\ Len(answers[r][k]) < AnswerCap
        /\ answers' = [answers EXCEPT ![r][k] = Append(@, o)]
        /\ acc' = [acc EXCEPT ![k].st = "open"]
    BY <1>4, <2>1 DEF SendAnswer, Answering
  <2>3. o \in Offers /\ r \in Nodes
    BY <2>1, <2>2 DEF SignalInv, AnsweringOK, Answering
  <2>4. \A x : Replied(n, p, x)' => Replied(n, p, x) \/ (p = k /\ x = o)
    <3>1. /\ answers[r][k] \in Seq(Offers)
          /\ answers'[n][p] = IF n = r /\ p = k THEN Append(answers[r][k], o) ELSE answers[n][p]
      BY <1>1, <2>2, <2>3 DEF AnswersOK
    <3>2. \A x : Has(Append(answers[r][k], o), x) <=> Has(answers[r][k], x) \/ x = o
      BY <2>3, <3>1, AppendOnce
    <3>3. QED  BY <3>1, <3>2 DEF Replied
  <2>5. \A x : Answering(p, x)' => Answering(p, x)
    BY <1>1, <2>2, LoopMoves
  <2>6. \A x : Queued(p, x)' <=> Queued(p, x)
    BY <2>2 DEF Queued
  <2>7. QED  BY <1>1, <2>2, <2>4, <2>5, <2>6, PendingIs
<1>5. QED  BY <1>2, <1>3, <1>4 DEF AcceptStep

\* So no accept step leaves more offers than diallers.
LEMMA CountAccept ==
  ASSUME LeftInv, SignalInv', ~byStream, NEW k \in Nodes, AcceptStep(k)
  PROVE  CountInv'
<1>1. UNCHANGED <<byStream, dial>>
  BY DEF AcceptStep, Listen, AcceptOffer, SendAnswer, AnswerLost, AcceptDone, AcceptReleased,
         setting
<1>2. ASSUME NEW n \in Nodes, NEW p \in Nodes
      PROVE  Balanced(Pending(n, p)', Waiting(n, p)')
  <2>1. Balanced(Pending(n, p), Waiting(n, p))
    BY DEF LeftInv, CountInv
  <2>2. Pending(n, p)' \subseteq Pending(n, p)
    BY AcceptPasses DEF LeftInv
  <2>3. Waiting(n, p)' = Waiting(n, p)
    BY <1>1 DEF Waiting
  <2>4. QED  BY <2>1, <2>2, <2>3, BalanceKept
<1>3. QED  BY <1>2 DEF CountInv

\* Every step keeps the count.
LEMMA LeftStep ==
  ASSUME LeftInv, [Next]_vars
  PROVE  LeftInv'
<1>1. SignalInv' /\ RegistryInv' /\ byStream' = byStream
  BY SignalStep, RegistryInvStep, SameImplementation DEF LeftInv
<1>2. CASE byStream
  BY <1>1, <1>2 DEF LeftInv, CountInv
<1>3. CASE UNCHANGED vars
  <2>1. UNCHANGED <<byStream, dial, acc, offerIn, answers>>
    BY <1>3 DEF vars, setting
  <2>2. \A n, p \in Nodes : Pending(n, p)' = Pending(n, p) /\ Waiting(n, p)' = Waiting(n, p)
    BY <2>1 DEF Pending, Waiting
  <2>3. QED  BY <1>1, <2>2 DEF LeftInv, CountInv
<1>4. CASE ~byStream /\ Next
  <2>1. ~\E s \in streams : StreamStep(s)
    BY <1>4 DEF LeftInv, RegistryInv, ByRegistry
  <2>2. (\A n \in Nodes : ~Close(n)) /\ \A d \in Diallers : ~DialReleased(d)
    BY <1>4 DEF DialReleased, Close, Done
  <2>3. \/ \E d \in Diallers : (\E p \in Nodes : Dial(d, p)) \/ DialAnswered(d)
        \/ \E n \in Nodes : AcceptStep(n)
    BY <1>4, <2>1, <2>2 DEF Next, DialStep
  <2>4. CountInv'
    BY <1>1, <1>4, <2>3, CountDial, CountHeard, CountAccept
  <2>5. QED  BY <1>1, <2>4 DEF LeftInv
<1>5. QED  BY <1>2, <1>3, <1>4

\* Through the Registry, when no dialler of a node waits for a peer any more,
\* no answer of that peer is left in their channel or still to come: diallers
\* that took each other's answers leave nothing behind for the next dial.
THEOREM NoneLeft == Spec => []NoAnswerLeft
<1>1. Init => LeftInv
  <2> SUFFICES ASSUME Init PROVE CountInv
    BY SignalBegins, RegistryBegins DEF LeftInv
  <2>1. ASSUME NEW n \in Nodes, NEW p \in Nodes
        PROVE  Pending(n, p) = {} /\ Waiting(n, p) = {}
    BY DEF Init, Pending, Waiting
  <2>2. Balanced({}, {})
    BY FS_EmptySet DEF Balanced
  <2>3. QED  BY <2>1, <2>2 DEF CountInv
<1>2. LeftInv /\ [Next]_vars => LeftInv'
  BY LeftStep
<1>3. LeftInv => NoAnswerLeft
  <2> SUFFICES ASSUME LeftInv, ~byStream, NEW n \in Nodes, NEW p \in Nodes, Waiting(n, p) = {}
               PROVE  Pending(n, p) = {}
    BY DEF NoAnswerLeft
  <2>1. Balanced(Pending(n, p), Waiting(n, p)) /\ Cardinality(Waiting(n, p)) = 0
    BY FS_EmptySet DEF LeftInv, CountInv
  <2>2. Cardinality(Pending(n, p)) = 0
    BY <2>1, FS_CardinalityType DEF Balanced
  <2>3. QED  BY <2>1, <2>2, FS_EmptySet DEF Balanced
<1>4. QED  BY <1>1, <1>2, <1>3, PTL DEF Spec

====
