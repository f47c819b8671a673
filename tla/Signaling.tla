----------------------------- MODULE Signaling -----------------------------
(***************************************************************************)
(* The exchange of SDP offers and answers in core/pkg/signaling, in its    *)
(* two implementations: the in-process Registry of memory.go, used by the  *)
(* tests and the headless harness, and the DHTSignaler of libp2p.go, used  *)
(* in production; with the part of Dial and Accept of transport/pion.go    *)
(* that drives it.  Every node runs an accept loop and a dialler, its send *)
(* worker; each Diagnose of a contact is a dialler more, and all of a node *)
(* take the answers of a peer from one channel.                            *)
(*                                                                         *)
(* SendSDP("") answers "the peer we last received an offer from": the      *)
(* signaler remembers it in lastRemote.  An offer is named by its node and *)
(* a number.  In production an offer or answer travels in a stream,        *)
(* handled by a goroutine of its own (onStream), and Close cancels the     *)
(* context that all of them wait on; the Registry's Close releases nobody. *)
(***************************************************************************)
EXTENDS Naturals, Sequences

CONSTANTS
  Nodes,
  NoNode,       \* lastRemote before the first offer
  Impls,        \* the implementations: TRUE is DHTSignaler, FALSE is Registry
  Checking,     \* the nodes that run Diagnose
  MaxChecks,    \* Diagnose calls at the same time (bound)
  Closers,      \* the nodes whose signaler may be closed
  OfferCap,     \* capacity of a queue of offers (8 or 16 in the code)
  AnswerCap,    \* capacity of a queue of answers (8 in the code)
  MaxDials,     \* dials of each node through the Registry (bound)
  MaxStreamDials, \* dials of each node through streams (bound)
  MaxLost       \* streams that break or cannot be opened (bound)

ASSUME SignalingAssumption ==
  /\ NoNode \notin Nodes /\ Closers \subseteq Nodes
  /\ Checking \subseteq Nodes /\ MaxChecks \in Nat
  /\ Impls \subseteq BOOLEAN
  /\ OfferCap \in Nat \ {0} /\ AnswerCap \in Nat \ {0}
  /\ MaxDials \in Nat /\ MaxStreamDials \in 0 .. MaxDials /\ MaxLost \in Nat

VARIABLES
  byStream,    \* the implementation in use: never changes
  up,          \* the nodes whose signaler has not been closed
  advert,      \* the nodes whose discovery key has been advertised
  dial,        \* dial[d]: what the dialler d does
  dials,       \* dials[n]: offers n has made
  acc,         \* acc[n]: what n's accept loop does
  offerIn,     \* offerIn[n]: queued inbound offers
  answers,     \* answers[n][p]: queued answers of p to n
  lastRemote,  \* lastRemote[n]: where n's next answer goes
  streams,     \* streams on their way or being handled
  lost         \* streams that broke or could not be opened, so far

setting == <<byStream, up, advert>>
vars == <<setting, dial, dials, acc, offerIn, answers, lastRemote, streams, lost>>

\* The send worker of each node, and the calls of Diagnose.
Diallers == (Nodes \X {0}) \cup (Checking \X (1 .. MaxChecks))
Home(d) == d[1]

Offers == Nodes \X (1 .. MaxDials)
NoOffer == <<NoNode, 0>>
Dialler(o) == o[1]

TypeOK ==
  /\ byStream \in Impls
  /\ up \subseteq Nodes /\ advert \subseteq Nodes
  /\ dial \in [Diallers -> [st : {"idle", "waiting"}, to : Nodes \cup {NoNode},
                         offer : Offers \cup {NoOffer},
                         heard : Offers \cup {NoOffer}]]
  /\ dials \in [Nodes -> 0 .. MaxDials]
  /\ acc \in [Nodes -> [st : {"off", "listen", "answering", "open", "gone"},
                        offer : Offers \cup {NoOffer}]]
  /\ offerIn \in [Nodes -> Seq(Offers)]
  /\ \A n \in Nodes : Len(offerIn[n]) <= OfferCap
  /\ answers \in [Nodes -> [Nodes -> Seq(Offers)]]
  /\ \A n \in Nodes, p \in Nodes : Len(answers[n][p]) <= AnswerCap
  /\ lastRemote \in [Nodes -> Nodes \cup {NoNode}]
  /\ streams \subseteq [kind : {"offer", "noted", "answer"}, from : Nodes, to : Nodes,
                        offer : Offers]
  /\ lost \in 0 .. MaxLost

Init ==
  /\ byStream \in Impls
  /\ up = Nodes
  /\ advert = {}
  /\ dial = [d \in Diallers |->
               [st |-> "idle", to |-> NoNode, offer |-> NoOffer, heard |-> NoOffer]]
  /\ dials = [n \in Nodes |-> 0]
  /\ acc = [n \in Nodes |-> [st |-> "off", offer |-> NoOffer]]
  /\ offerIn = [n \in Nodes |-> <<>>]
  /\ answers = [n \in Nodes |-> [p \in Nodes |-> <<>>]]
  /\ lastRemote = [n \in Nodes |-> NoNode]
  /\ streams = {}
  /\ lost = 0

\* The context that Close cancels is done.
Done(n) == byStream /\ n \notin up

Stream(kind, from, to, o) == [kind |-> kind, from |-> from, to |-> to, offer |-> o]

-----------------------------------------------------------------------------
(* Dial *)

\* Variant: the Registry notes the offerer when the offer is queued.
QueueOfferNotes(n, p, o) ==
  /\ Len(offerIn[p]) < OfferCap
  /\ offerIn' = [offerIn EXCEPT ![p] = Append(@, o)]
  /\ lastRemote' = [lastRemote EXCEPT ![p] = n]
  /\ UNCHANGED streams

\* Registry: SendSDP(peer) queues the offer, waiting for room.
QueueOffer(n, p, o) ==
  /\ Len(offerIn[p]) < OfferCap
  /\ offerIn' = [offerIn EXCEPT ![p] = Append(@, o)]
  /\ UNCHANGED <<lastRemote, streams>>

\* DHTSignaler: SendSDP(peer) opens a stream.
OpenStream(s) ==
  /\ streams' = streams \cup {s}
  /\ UNCHANGED offerIn

\* Find, SendSDP(peer); the dialler then waits in RecvSDP(peer).  A key that is
\* not found and a stream that does not open are errors that change nothing; a
\* record in the DHT outlives the node that published it.
Dial(d, p) ==
  LET n == Home(d)  o == <<n, dials[n] + 1>> IN
  /\ p # n
  /\ p \in advert
  /\ dial[d].st = "idle"
  /\ ~Done(n) /\ ~Done(p)
  /\ dials[n] < IF byStream THEN MaxStreamDials ELSE MaxDials
  /\ dials' = [dials EXCEPT ![n] = @ + 1]
  /\ dial' = [dial EXCEPT ![d] =
                [st |-> "waiting", to |-> p, offer |-> o, heard |-> NoOffer]]
  /\ IF byStream
       THEN OpenStream(Stream("offer", n, p, o)) /\ UNCHANGED lastRemote
       ELSE QueueOffer(n, p, o)
  /\ UNCHANGED <<setting, acc, answers, lost>>

\* Variant: RecvSDP(peer) may also give up before the answer comes.
DialAnsweredOrLate(d) ==
  LET n == Home(d)  p == dial[d].to IN
  /\ dial[d].st = "waiting"
  /\ \/ /\ answers[n][p] # <<>>
        /\ dial' = [dial EXCEPT ![d].st = "idle", ![d].heard = Head(answers[n][p])]
        /\ answers' = [answers EXCEPT ![n][p] = Tail(@)]
     \/ /\ dial' = [dial EXCEPT ![d].st = "idle"]
        /\ UNCHANGED answers
  /\ UNCHANGED <<setting, dials, acc, offerIn, lastRemote, streams, lost>>

\* RecvSDP(peer) returns the next answer of that peer.
DialAnswered(d) ==
  LET n == Home(d)  p == dial[d].to IN
  /\ dial[d].st = "waiting"
  /\ answers[n][p] # <<>>
  /\ dial' = [dial EXCEPT ![d] = [st |-> "idle", to |-> p, offer |-> @.offer,
                                  heard |-> Head(answers[n][p])]]
  /\ answers' = [answers EXCEPT ![n][p] = Tail(@)]
  /\ UNCHANGED <<setting, dials, acc, offerIn, lastRemote, streams, lost>>

\* RecvSDP(peer) gives up when its own signaler is closed.
DialReleased(d) ==
  /\ dial[d].st = "waiting"
  /\ Done(Home(d))
  /\ dial' = [dial EXCEPT ![d].st = "idle"]
  /\ UNCHANGED <<setting, dials, acc, offerIn, answers, lastRemote, streams, lost>>

-----------------------------------------------------------------------------
(* onStream *)

\* An offer's goroutine notes the remote peer ...
StreamNoted(s) ==
  /\ s.kind = "offer"
  /\ lastRemote' = [lastRemote EXCEPT ![s.to] = s.from]
  /\ streams' = (streams \ {s}) \cup {[s EXCEPT !.kind = "noted"]}
  /\ UNCHANGED <<setting, dial, dials, acc, offerIn, answers, lost>>

\* Variants: the queue has no limit; the stream is delivered again.
StreamQueuedAlways(s) ==
  /\ s.kind = "noted"
  /\ offerIn' = [offerIn EXCEPT ![s.to] = Append(@, s.offer)]
  /\ streams' = streams \ {s}
  /\ UNCHANGED <<setting, dial, dials, acc, answers, lastRemote, lost>>
StreamQueuedAgain(s) ==
  /\ s.kind = "noted"
  /\ Len(offerIn[s.to]) < OfferCap
  /\ offerIn' = [offerIn EXCEPT ![s.to] = Append(@, s.offer)]
  /\ UNCHANGED <<setting, dial, dials, acc, answers, lastRemote, streams, lost>>

\* ... and queues the offer when there is room.
StreamQueued(s) ==
  /\ s.kind = "noted"
  /\ Len(offerIn[s.to]) < OfferCap
  /\ offerIn' = [offerIn EXCEPT ![s.to] = Append(@, s.offer)]
  /\ streams' = streams \ {s}
  /\ UNCHANGED <<setting, dial, dials, acc, answers, lastRemote, lost>>

\* An answer's goroutine queues it by the peer it came from.
StreamAnswered(s) ==
  /\ s.kind = "answer"
  /\ Len(answers[s.to][s.from]) < AnswerCap
  /\ answers' = [answers EXCEPT ![s.to][s.from] = Append(@, s.offer)]
  /\ streams' = streams \ {s}
  /\ UNCHANGED <<setting, dial, dials, acc, offerIn, lastRemote, lost>>

\* readFrame fails: the connection broke, or an end of it was closed.
StreamBroken(s) ==
  /\ s.kind # "noted"
  /\ \/ (Done(s.from) \/ Done(s.to)) /\ UNCHANGED lost
     \/ lost < MaxLost /\ lost' = lost + 1
  /\ streams' = streams \ {s}
  /\ UNCHANGED <<setting, dial, dials, acc, offerIn, answers, lastRemote>>

\* Variant: the goroutine of an offer waits for room only.
StreamCancelledUnread(s) ==
  /\ Done(s.to)
  /\ s.kind # "noted"
  /\ streams' = streams \ {s}
  /\ UNCHANGED <<setting, dial, dials, acc, offerIn, answers, lastRemote, lost>>

\* The goroutine waits for room or for Close of its signaler.
StreamCancelled(s) ==
  /\ Done(s.to)
  /\ streams' = streams \ {s}
  /\ UNCHANGED <<setting, dial, dials, acc, offerIn, answers, lastRemote, lost>>

-----------------------------------------------------------------------------
(* Accept *)

\* The accept loop calls Listen: Advertise, then Accept.  When it calls it again
\* the key is already advertised, which changes nothing.
Listen(n) ==
  /\ acc[n].st = "off"
  /\ acc' = [acc EXCEPT ![n].st = "listen"]
  /\ advert' = advert \cup {n}
  /\ UNCHANGED <<byStream, up, dial, dials, offerIn, answers, lastRemote, streams, lost>>

\* Variant: offers and answers share a queue, and the accept loop takes an
\* answer that it cannot use.
AcceptOfferAny(n) ==
  LET o == Head(offerIn[n]) IN
  /\ acc[n].st = "listen"
  /\ \/ /\ offerIn[n] # <<>>
        /\ offerIn' = [offerIn EXCEPT ![n] = Tail(@)]
        /\ lastRemote' = [lastRemote EXCEPT ![n] = Dialler(o)]
        /\ acc' = [acc EXCEPT ![n] = [st |-> "answering", offer |-> o]]
        /\ UNCHANGED answers
     \/ \E p \in Nodes :
          /\ answers[n][p] # <<>>
          /\ answers' = [answers EXCEPT ![n][p] = Tail(@)]
          /\ UNCHANGED <<offerIn, lastRemote, acc>>
  /\ UNCHANGED <<setting, dial, dials, streams, lost>>

\* RecvSDP(""): the next offer, whose dialler becomes the reply target.
AcceptOffer(n) ==
  LET o == Head(offerIn[n]) IN
  /\ acc[n].st = "listen"
  /\ offerIn[n] # <<>>
  /\ offerIn' = [offerIn EXCEPT ![n] = Tail(@)]
  /\ lastRemote' = [lastRemote EXCEPT ![n] = Dialler(o)]
  /\ acc' = [acc EXCEPT ![n] = [st |-> "answering", offer |-> o]]
  /\ UNCHANGED <<setting, dial, dials, answers, streams, lost>>

\* The candidates are gathered; SendSDP("") sends the answer to lastRemote.
SendAnswer(n) ==
  LET p == lastRemote[n]  o == acc[n].offer IN
  /\ acc[n].st = "answering"
  /\ acc' = [acc EXCEPT ![n].st = "open"]
  /\ \/ /\ byStream
        /\ ~Done(n) /\ ~Done(p)
        /\ streams' = streams \cup {Stream("answer", n, p, o)}
        /\ UNCHANGED answers
     \/ /\ ~byStream
        /\ Len(answers[p][n]) < AnswerCap
        /\ answers' = [answers EXCEPT ![p][n] = Append(@, o)]
        /\ UNCHANGED streams
  /\ UNCHANGED <<setting, dial, dials, offerIn, lastRemote, lost>>

\* The stream for the answer cannot be opened: Accept fails.
AnswerLost(n) ==
  /\ byStream
  /\ acc[n].st = "answering"
  /\ \/ (Done(n) \/ Done(lastRemote[n])) /\ UNCHANGED lost
     \/ lost < MaxLost /\ lost' = lost + 1
  /\ acc' = [acc EXCEPT ![n].st = "listen"]
  /\ UNCHANGED <<setting, dial, dials, offerIn, answers, lastRemote, streams>>

\* The data channel opened, or connectTimeout passed; the loop accepts again.
AcceptDone(n) ==
  /\ acc[n].st = "open"
  /\ acc' = [acc EXCEPT ![n].st = "listen"]
  /\ UNCHANGED <<setting, dial, dials, offerIn, answers, lastRemote, streams, lost>>

\* RecvSDP("") fails when the signaler is closed; so does Accept, and the loop
\* ends.
AcceptReleased(n) ==
  /\ acc[n].st = "listen"
  /\ Done(n)
  /\ acc' = [acc EXCEPT ![n].st = "gone"]
  /\ UNCHANGED <<setting, dial, dials, offerIn, answers, lastRemote, streams, lost>>

\* Close: the DHTSignaler's context is done.  The Registry's Close only clears
\* the mark that Presence reads.
Close(n) ==
  /\ byStream
  /\ n \in Closers \cap up
  /\ up' = up \ {n}
  /\ UNCHANGED <<byStream, advert, dial, dials, acc, offerIn, answers, lastRemote,
                 streams, lost>>

-----------------------------------------------------------------------------
DialStep(d) == DialAnswered(d) \/ DialReleased(d)
StreamStep(s) ==
  StreamNoted(s) \/ StreamQueued(s) \/ StreamAnswered(s) \/ StreamBroken(s) \/ StreamCancelled(s)
AcceptStep(n) ==
  Listen(n) \/ AcceptOffer(n) \/ SendAnswer(n) \/ AnswerLost(n) \/ AcceptDone(n) \/ AcceptReleased(n)

Next ==
  \/ \E d \in Diallers : (\E p \in Nodes : Dial(d, p)) \/ DialStep(d)
  \/ \E n \in Nodes : AcceptStep(n) \/ Close(n)
  \/ \E s \in streams : StreamStep(s)

Spec == Init /\ [][Next]_vars

\* Goroutines are scheduled, gathering ends, and a select whose context is done
\* does not wait.
FairSpec ==
  /\ Spec
  /\ \A d \in Diallers : WF_vars(DialStep(d))
  /\ \A n \in Nodes : WF_vars(AcceptStep(n))
  /\ WF_vars(\E s \in streams : StreamCancelled(s))

-----------------------------------------------------------------------------
(* Properties *)

\* An answer goes to the dialler of the offer it answers, on every queue and in
\* every stream: lastRemote still names that dialler when Accept has gathered
\* its candidates.
AnswerToOfferer ==
  /\ \A n \in Nodes, p \in Nodes : \A i \in DOMAIN answers[n][p] :
       Dialler(answers[n][p][i]) = n
  /\ \A s \in streams : s.kind = "answer" => Dialler(s.offer) = s.to

\* The same of the Registry, where only the accept loop moves lastRemote.
RegistryAnswers == ~byStream => AnswerToOfferer

\* The diallers of n that wait for an answer of p; n's offers to p that are
\* queued, being answered or answered.
Waiting(n, p) ==
  {d \in Diallers : Home(d) = n /\ dial[d].st = "waiting" /\ dial[d].to = p}
Pending(n, p) ==
  {o \in Offers : Dialler(o) = n /\
     \/ \E i \in DOMAIN offerIn[p] : offerIn[p][i] = o
     \/ acc[p] = [st |-> "answering", offer |-> o]
     \/ \E i \in DOMAIN answers[n][p] : answers[n][p][i] = o}

\* Two diallers of a node that wait for one peer may take each other's answer
\* from the channel they share.  Through the Registry no answer outlives that:
\* when nobody waits for p any more, none of p's answers is left or still to
\* come for the next dial to take.
NoAnswerLeft ==
  ~byStream => \A n, p \in Nodes : Waiting(n, p) = {} => Pending(n, p) = {}

\* The positions of the offer o in a queue.
At(q, o) == {i \in DOMAIN q : q[i] = o}

\* Where the offer o, or the answer to it, is: the streams and the queues, with
\* those that are answering it or have heard the answer.
Places(o) ==
  {<<"stream", s>> : s \in {x \in streams : x.offer = o}}
    \cup (UNION {{<<"offerIn", n, i>> : i \in At(offerIn[n], o)} : n \in Nodes})
    \cup (UNION {{<<"answers", x[1], x[2], i>> : i \in At(answers[x[1]][x[2]], o)} :
                  x \in Nodes \X Nodes})
    \cup {<<"answering", n>> : n \in {m \in Nodes : acc[m] = [st |-> "answering", offer |-> o]}}
    \cup {<<"heard", d>> : d \in {e \in Diallers : dial[e].heard = o}}

\* Every offer is handled at most once, from its stream or queue to the answer
\* a dialler hears, whatever the goroutines of the streams do.
HandledOnce == \A o \in Offers : \A x, y \in Places(o) : x = y

\* RecvSDP has no timeout of its own: every dialler that waits in it gets an
\* answer from the Registry, although queues fill up, all dial each other and
\* diallers take each other's answers, as long as Accept does not fail.
EveryDialAnswered ==
  \A d \in Diallers : ~byStream /\ dial[d].st = "waiting" ~> dial[d].st # "waiting"

\* After Close of a DHTSignaler its diallers, its accept loop and the goroutines
\* of its inbound streams all end, whatever they were waiting for.
CloseReleases ==
  \A n \in Closers : Done(n) ~> /\ \A d \in Diallers : Home(d) = n => dial[d].st # "waiting"
                                /\ acc[n].st = "gone"
                                /\ \A s \in streams : s.to # n

-----------------------------------------------------------------------------
(* The inductive invariant behind AnswerToOfferer for the Registry: nothing *)
(* but the accept loop itself moves lastRemote.                            *)

ReplyTarget ==
  \A n \in Nodes : acc[n].st = "answering" =>
    acc[n].offer \in Offers /\ lastRemote[n] = Dialler(acc[n].offer)

\* A dialler waits for a real peer.
WaitingOK == \A d \in Diallers : dial[d].st = "waiting" => dial[d].to \in Nodes

ByRegistry == TypeOK /\ WaitingOK /\ ReplyTarget /\ streams = {} /\ AnswerToOfferer
RegistryInv == byStream \/ ByRegistry

=============================================================================
