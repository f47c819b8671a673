----------------------------- MODULE MCRuntime -----------------------------
(***************************************************************************)
(* Two runtimes, alice and bob: alice sends m1, m3 and m4 to bob (in the   *)
(* liveness runs m3 and m4 to an unreadable contact URI), bob m2 to alice. *)
(***************************************************************************)
EXTENDS Runtime, TLC

CONSTANTS alice, bob, m1, m2, m3, m4

TwoNodes == {alice, bob}

MCOwner == [m \in Msgs |-> IF m = m2 THEN bob ELSE alice]
MCDest == [m \in Msgs |-> IF m = m2 THEN alice ELSE bob]
MCDestBad == [m \in Msgs |-> IF m \in {m3, m4} THEN NoNode ELSE MCDest[m]]

\* Beside alice's message one more thing happens: bob writes to her at the same
\* time, she checks the connection by hand, or engines are stopped.
OneMore ==
  Cardinality({m \in {m2} : phase[m] # "new"}
              \cup {n \in {alice} : pc[n]["diag"] # "idle"}
              \cup {n \in {bob} : \E k \in Nodes : IsClosed(k)}) <= 1

\* Nobody types any more once a second connection is dialled.
TypingOnFirst ==
  Cardinality({c \in Conns : ini[c] # NoNode}) > 1 =>
    \A c \in Conns, n \in Nodes : ~InSeq(Typing, wire[c][n])

\* alice's user interface calls Send for m1, m4 and m3, one after the other from
\* its one thread.
InOrder ==
  /\ phase[m4] # "new" => phase[m1] = "returned"
  /\ phase[m3] # "new" => phase[m4] = "returned"

\* One thing at most goes wrong beside lost answers and failed dials: the
\* connection breaks or bob's engine is stopped while alice sends m1 alone, or
\* alice's engine is stopped in her first attempt, with one or all three calls
\* made.  Nobody dials again in an engine that is stopped or to one.
OneTrouble ==
  /\ Cardinality({n \in Nodes : IsClosed(n)}) + fails <= 1
  /\ fails > 0 \/ IsClosed(bob) => phase[m4] = "new"
  /\ IsClosed(alice) => att[alice] = 0 /\ (phase[m4] = "new" \/ phase[m3] # "new")
  /\ (\E n \in Nodes : IsClosed(n)) => Cardinality({c \in Conns : ini[c] # NoNode}) <= 1

LiveBounds == InOrder /\ OneTrouble

\* Connections differ in nothing but their names: all those not yet used are in
\* the same state, so it does not matter which of them a dial takes.
ConnSymmetry == Permutations(Conns)

=============================================================================
