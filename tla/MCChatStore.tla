---------------------------- MODULE MCChatStore ----------------------------
(***************************************************************************)
(* ChatStore within the bounds TLC can explore.  No bound depends on what  *)
(* draining an event changes, so the Drain step of every state explored is *)
(* explored too, as the fairness of FairSpec needs.                        *)
(***************************************************************************)
EXTENDS ChatStore

\* Two messages are sent, both texts, while nothing came in, no save failed and
\* no conversation is on disk.
TwoOut ==
  next = 2 => /\ files = {} /\ came = 0 /\ kills = 0
              /\ disk.chats = <<>> /\ tried = disk

\* Contacts are muted before anything is sent.
MutedFirst == next # 0 => \A p \in Peers : contacts[p].flags \subseteq {"none"}

\* Saves fail while nothing came in.
FailedSave == disk # tried => came = 0

\* After a restart messages go one way.
OneWay == kills # 0 => next = 0 \/ came = 0

Bounds == TwoOut /\ MutedFirst /\ FailedSave /\ OneWay

=============================================================================
