----------------------------- MODULE MCHarness -----------------------------
(***************************************************************************)
(* The parts of the core that only the headless harness and the tests use: *)
(* links over the in-process pipe with files, and the offline mailbox.     *)
(* They share no state, so an instance exercises one of them: the mailbox  *)
(* when there is no program on the pipe.                                   *)
(***************************************************************************)
EXTENDS Pipe, Offline

CONSTANT MaxLetters    \* messages of all senders together (bound)

ASSUME MaxLettersAssumption == MaxLetters \in Nat

vars == <<pipeVars, mailVars>>

Init == PipeInit /\ MailInit

Next ==
  \/ prog # "none" /\ PipeNext /\ UNCHANGED mailVars
  \/ prog = "none" /\ MailNext /\ UNCHANGED pipeVars

Spec == Init /\ [][Next]_vars

\* Goroutines are scheduled.
FairSpec ==
  Spec /\ \A g \in Goroutines : WF_vars(PipeStep(g) /\ UNCHANGED mailVars)

\* Leaving messages is not fair, so cutting it off takes nothing from fairness.
FewLetters == Cardinality({l \in Letters : l[2] <= puts[l[1]]}) <= MaxLetters

=============================================================================
