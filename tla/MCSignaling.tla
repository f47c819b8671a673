---------------------------- MODULE MCSignaling ----------------------------
(***************************************************************************)
(* Signaling within the bounds TLC can explore.  Dialling is not fair, so  *)
(* cutting dials off takes nothing from the fairness of FairSpec.          *)
(***************************************************************************)
EXTENDS Signaling, FiniteSetsExt

CONSTANT MaxOffers    \* offers of all nodes together (bound)

ASSUME MaxOffersAssumption == MaxOffers \in Nat

FewOffers == MapThenSumSet(LAMBDA n : dials[n], Nodes) <= MaxOffers

\* The diallers of a node are alike: the send worker is the first to dial.
WorkerFirst ==
  \A d \in Diallers : dial[d].offer # NoOffer => dial[<<Home(d), 0>>].offer # NoOffer

Bounds == FewOffers /\ WorkerFirst

=============================================================================
