-------------------------- MODULE ChatStoreProofs --------------------------
(***************************************************************************)
(* Proofs about ChatStore, for any contacts and any number of messages and *)
(* restarts. ChatInv says of the store in memory, of the one on disk and   *)
(* of the one the last save was given (SavedOK) that every contact has one *)
(* conversation at most (StoredOK), and of each outgoing message that it   *)
(* is in the conversation of its owner and that its status agrees with     *)
(* what the runtime did (MessageOK); the events queued agree with it too,  *)
(* so applying them later, in any order with what the user does, does not  *)
(* spoil it.                                                               *)
(***************************************************************************)
EXTENDS ChatStore, FiniteSetTheorems, TLAPS

Contact == [code : BOOLEAN, flags : SUBSET Flags]
Msg == [id : Nat, mine : BOOLEAN, status : Statuses]
Chat == [peer : Peers, msgs : Seq(Msg), unread : Nat]

\* The message m is in a conversation with p.
Has(s, p, m) ==
  \E j \in DOMAIN s : s[j].peer = p /\ \E k \in DOMAIN s[j].msgs : s[j].msgs[k] = m
Distinct(s) == \A i, j \in DOMAIN s : s[i].peer = s[j].peer => i = j

\* Contacts c and conversations s that the store can hold.
StoredOK(c, s) ==
  /\ c \in [Peers -> Contact \cup {NoContact}]
  /\ s \in Seq(Chat)
  /\ Distinct(s)
  /\ \A j \in DOMAIN s : c[s[j].peer] # NoContact

\* An outgoing message of a conversation with p, and what happened to it.
MessageOK(p, m) ==
  m.mine => /\ m.id \in 1 .. next
            /\ owner[m.id] = p
            /\ m.status = "delivered" => m.id \in wrote
            /\ m.status = "failed" => m.id \notin wrote /\ out[m.id] # "queued"

\* Copies of an outgoing message have one status.
Agree(s) ==
  \A p, q, m, n : Has(s, p, m) /\ Has(s, q, n) /\ m.mine /\ n.mine /\ m.id = n.id
                    => m.status = n.status
MessagesOK(s) == Agree(s) /\ \A p, m : Has(s, p, m) => MessageOK(p, m)

\* Inbound messages that are still in the queue of events are not counted yet.
Waiting(q) == Cardinality({i \in DOMAIN q : q[i].kind = "message"})
UnreadOK(s) == \A j \in DOMAIN s : s[j].unread + Waiting(events) <= came

Outs == {"new", "queued", "written", "answered", "lost"}
RuntimeOK ==
  /\ next \in 0 .. MaxOut
  /\ out \in [Ids -> Outs]
  /\ DOMAIN owner = Ids /\ \A i \in 1 .. next : owner[i] \in Peers
  /\ wrote \subseteq Ids /\ acked \subseteq wrote /\ readBy \subseteq wrote
  /\ \A i \in Ids : /\ out[i] # "new" => i <= next
                    /\ i \in wrote => out[i] \notin {"new", "queued"}

Event ==
  [kind : {"sent", "sendFailed", "DELIVERED"}, id : Nat]
    \cup [kind : {"READ", "online", "offline", "message"}, peer : Peers]

\* What an event in the queue says is so when it is applied.
EventOK(e) ==
  /\ e.kind = "sendFailed" => e.id \in Ids /\ e.id \notin wrote /\ out[e.id] \notin {"new", "queued"}
  /\ e.kind = "DELIVERED" => e.id = 0 \/ e.id \in wrote
EventsOK ==
  /\ events \in Seq(Event) /\ \A i \in DOMAIN events : EventOK(events[i])
  /\ came \in 0 .. MaxIn /\ Waiting(events) <= came

ServiceOK ==
  /\ mode \in {"down", "live", "degraded", "unsaved"} /\ timer \in BOOLEAN
  /\ online \subseteq {p \in Peers : Known(p)}

\* What was saved, or given to a save: a store that agrees with the runtime.
SavedOK(d) ==
  /\ d = [contacts |-> d.contacts, chats |-> d.chats]
  /\ StoredOK(d.contacts, d.chats) /\ MessagesOK(d.chats) /\ UnreadOK(d.chats)

ChatInv ==
  /\ StoredOK(contacts, chats) /\ MessagesOK(chats) /\ UnreadOK(chats)
  /\ SavedOK(disk) /\ SavedOK(tried)
  /\ RuntimeOK /\ EventsOK /\ ServiceOK /\ DirtyIsScheduled

-----------------------------------------------------------------------------
(* Sequences of conversations.                                             *)

\* t takes elements of s, each position of s once at most.
Picks(t, s) ==
  \E h \in [DOMAIN t -> DOMAIN s] :
    /\ \A j, k \in DOMAIN t : h[j] = h[k] => j = k
    /\ \A j \in DOMAIN t : t[j] = s[h[j]]

\* The elements of a concatenation.
LEMMA ConcatIs ==
  ASSUME NEW S, NEW a \in Seq(S), NEW b \in Seq(S)
  PROVE  /\ a \o b \in Seq(S) /\ Len(a \o b) = Len(a) + Len(b)
         /\ \A j \in 1 .. Len(a) + Len(b) :
              (a \o b)[j] = IF j <= Len(a) THEN a[j] ELSE b[j - Len(a)]
<1>1. a \o b \in Seq(S) /\ Len(a \o b) = Len(a) + Len(b) /\ Len(a) \in Nat /\ Len(b) \in Nat
  OBVIOUS
<1>2. ASSUME NEW j \in 1 .. Len(a) + Len(b)
      PROVE  (a \o b)[j] = IF j <= Len(a) THEN a[j] ELSE b[j - Len(a)]
  OBVIOUS
<1>3. QED  BY <1>1, <1>2

\* RemoveAt takes all elements but the one at i.
LEMMA RemoveAtSkips ==
  ASSUME NEW S, NEW s \in Seq(S), NEW i \in DOMAIN s
  PROVE  /\ RemoveAt(s, i) \in Seq(S)
         /\ \E g \in [DOMAIN RemoveAt(s, i) -> DOMAIN s] :
              /\ \A j, k \in DOMAIN RemoveAt(s, i) : g[j] = g[k] => j = k
              /\ \A j \in DOMAIN RemoveAt(s, i) : RemoveAt(s, i)[j] = s[g[j]] /\ g[j] # i
<1> DEFINE t == RemoveAt(s, i)
           h == [j \in 1 .. Len(s) - 1 |-> IF j < i THEN j ELSE j + 1]
<1>1. Len(s) \in Nat /\ DOMAIN s = 1 .. Len(s) /\ i \in 1 .. Len(s)
  OBVIOUS
<1>2. /\ SubSeq(s, 1, i - 1) \in Seq(S) /\ SubSeq(s, i + 1, Len(s)) \in Seq(S)
      /\ Len(SubSeq(s, 1, i - 1)) = i - 1 /\ Len(SubSeq(s, i + 1, Len(s))) = Len(s) - i
      /\ \A j \in 1 .. i - 1 : SubSeq(s, 1, i - 1)[j] = s[j]
      /\ \A j \in 1 .. Len(s) - i : SubSeq(s, i + 1, Len(s))[j] = s[i + j]
  <2>1. SubSeq(s, 1, i - 1) \in Seq(S) /\ SubSeq(s, i + 1, Len(s)) \in Seq(S)
    BY <1>1
  <2>2. Len(SubSeq(s, 1, i - 1)) = i - 1 /\ Len(SubSeq(s, i + 1, Len(s))) = Len(s) - i
    BY <1>1
  <2>3. \A j \in 1 .. i - 1 : SubSeq(s, 1, i - 1)[j] = s[j]
    BY <1>1
  <2>4. \A j \in 1 .. Len(s) - i : SubSeq(s, i + 1, Len(s))[j] = s[i + j]
    BY <1>1
  <2>5. QED  BY <2>1, <2>2, <2>3, <2>4
<1>3. /\ t \in Seq(S) /\ Len(t) = Len(s) - 1
      /\ \A j \in 1 .. Len(s) - 1 : t[j] = IF j < i THEN s[j] ELSE s[j + 1]
  <2> DEFINE a == SubSeq(s, 1, i - 1)
             b == SubSeq(s, i + 1, Len(s))
  <2>1. a \in Seq(S) /\ b \in Seq(S) /\ Len(a) = i - 1 /\ Len(b) = Len(s) - i /\ t = a \o b
    BY <1>2 DEF RemoveAt
  <2>2. /\ \A j \in 1 .. i - 1 : a[j] = s[j]
        /\ \A j \in 1 .. Len(s) - i : b[j] = s[i + j]
    BY <1>2
  <2> HIDE DEF a, b, t
  <2>3. t \in Seq(S) /\ Len(t) = Len(a) + Len(b)
        /\ \A j \in 1 .. Len(a) + Len(b) : t[j] = IF j <= Len(a) THEN a[j] ELSE b[j - Len(a)]
    <3>1. t = a \o b /\ a \in Seq(S) /\ b \in Seq(S)
      BY <2>1
    <3>2. QED  BY <3>1, ConcatIs
  <2>4. Len(t) = Len(s) - 1
    BY <1>1, <2>1, <2>3
  <2>5. ASSUME NEW j \in 1 .. Len(s) - 1 PROVE t[j] = IF j < i THEN s[j] ELSE s[j + 1]
    <3>1. CASE j < i
      <4>1. j \in 1 .. i - 1 /\ j <= Len(a) /\ j \in 1 .. Len(a) + Len(b)
        BY <1>1, <2>1, <3>1
      <4>2. QED  BY <2>2, <2>3, <3>1, <4>1
    <3>2. CASE ~(j < i)
      <4>1. /\ j - (i - 1) \in 1 .. Len(s) - i /\ ~(j <= Len(a)) /\ j \in 1 .. Len(a) + Len(b)
            /\ i + (j - (i - 1)) = j + 1
        BY <1>1, <2>1, <3>2
      <4>2. t[j] = b[j - (i - 1)]
        BY <2>1, <2>3, <4>1
      <4>3. QED  BY <2>2, <3>2, <4>1, <4>2
    <3>3. QED  BY <3>1, <3>2
  <2>6. QED  BY <2>3, <2>4, <2>5
<1> HIDE DEF t
<1>4. DOMAIN t = 1 .. Len(s) - 1
  BY <1>3
<1>5. h \in [DOMAIN t -> DOMAIN s]
  BY <1>1, <1>4
<1>6. \A j, k \in DOMAIN t : h[j] = h[k] => j = k
  BY <1>1, <1>4
<1>7. \A j \in DOMAIN t : t[j] = s[h[j]] /\ h[j] # i
  BY <1>1, <1>3, <1>4
<1> HIDE DEF h
<1>8. QED  BY <1>3, <1>5, <1>6, <1>7 DEF t

\* So it picks.
LEMMA RemoveAtPicks ==
  ASSUME NEW S, NEW s \in Seq(S), NEW i \in DOMAIN s
  PROVE  RemoveAt(s, i) \in Seq(S) /\ Picks(RemoveAt(s, i), s)
<1>1. RemoveAt(s, i) \in Seq(S)
  BY RemoveAtSkips
<1>2. \E g \in [DOMAIN RemoveAt(s, i) -> DOMAIN s] :
        /\ \A j, k \in DOMAIN RemoveAt(s, i) : g[j] = g[k] => j = k
        /\ \A j \in DOMAIN RemoveAt(s, i) : RemoveAt(s, i)[j] = s[g[j]] /\ g[j] # i
  BY RemoveAtSkips
<1>3. QED  BY <1>1, <1>2 DEF Picks

\* MoveToTop takes all elements, that one first.
LEMMA MoveToTopPicks ==
  ASSUME NEW S, NEW s \in Seq(S), NEW i \in DOMAIN s
  PROVE  /\ MoveToTop(s, i) \in Seq(S) /\ MoveToTop(s, i)[1] = s[i] /\ 1 \in DOMAIN MoveToTop(s, i)
         /\ Picks(MoveToTop(s, i), s)
<1> DEFINE r == RemoveAt(s, i)
           t == MoveToTop(s, i)
<1>1. /\ Len(s) \in Nat /\ DOMAIN s = 1 .. Len(s) /\ s[i] \in S
  OBVIOUS
<1>2. PICK g \in [DOMAIN r -> DOMAIN s] :
        /\ \A j, k \in DOMAIN r : g[j] = g[k] => j = k
        /\ \A j \in DOMAIN r : r[j] = s[g[j]] /\ g[j] # i
  <2>1. \E g \in [DOMAIN r -> DOMAIN s] :
          /\ \A j, k \in DOMAIN r : g[j] = g[k] => j = k
          /\ \A j \in DOMAIN r : r[j] = s[g[j]] /\ g[j] # i
    BY RemoveAtSkips
  <2>2. QED  BY <2>1
<1>3. r \in Seq(S) /\ Len(r) \in Nat /\ DOMAIN r = 1 .. Len(r)
  <2>1. r \in Seq(S)
    BY RemoveAtPicks
  <2>2. QED  BY <2>1
<1>4. t = <<s[i]>> \o r
  BY DEF MoveToTop
<1> HIDE DEF r, t
<1>5. /\ t \in Seq(S) /\ DOMAIN t = 1 .. Len(r) + 1 /\ t[1] = s[i]
      /\ \A j \in 2 .. Len(r) + 1 : t[j] = r[j - 1]
  BY <1>1, <1>3, <1>4
<1> DEFINE h == [j \in 1 .. Len(r) + 1 |-> IF j = 1 THEN i ELSE g[j - 1]]
<1>6. \A j \in 1 .. Len(r) + 1 : j = 1 \/ (j \in 2 .. Len(r) + 1 /\ j - 1 \in DOMAIN r)
  BY <1>3
<1>7. h \in [DOMAIN t -> DOMAIN s]
  BY <1>2, <1>5, <1>6
<1>8. ASSUME NEW j \in DOMAIN t, NEW k \in DOMAIN t, h[j] = h[k] PROVE j = k
  <2>1. CASE j = 1
    BY <1>2, <1>5, <1>6, <1>8, <2>1
  <2>2. CASE k = 1
    BY <1>2, <1>5, <1>6, <1>8, <2>2
  <2>3. CASE j # 1 /\ k # 1
    <3>1. j - 1 = k - 1
      BY <1>2, <1>5, <1>6, <1>8, <2>3
    <3>2. QED  BY <1>3, <1>5, <3>1
  <2>4. QED  BY <2>1, <2>2, <2>3
<1>9. \A j \in DOMAIN t : t[j] = s[h[j]]
  BY <1>2, <1>5, <1>6
<1> HIDE DEF h
<1>10. Picks(t, s)
  BY <1>7, <1>8, <1>9 DEF Picks
<1>11. 1 \in DOMAIN t
  BY <1>3, <1>5
<1>12. QED  BY <1>5, <1>10, <1>11 DEF t

\* What is picked is distinct where the source was, and holds its messages only.
LEMMA PicksKeeps ==
  ASSUME NEW s, NEW t, Picks(t, s)
  PROVE  /\ Distinct(s) => Distinct(t)
         /\ \A p, m : Has(t, p, m) => Has(s, p, m)
         /\ \A j \in DOMAIN t : \E k \in DOMAIN s : t[j] = s[k]
<1>1. PICK h \in [DOMAIN t -> DOMAIN s] :
        /\ \A j, k \in DOMAIN t : h[j] = h[k] => j = k
        /\ \A j \in DOMAIN t : t[j] = s[h[j]]
  BY DEF Picks
<1>2. Distinct(s) => Distinct(t)
  BY <1>1 DEF Distinct
<1>3. \A p, m : Has(t, p, m) => Has(s, p, m)
  BY <1>1 DEF Has
<1>4. QED  BY <1>1, <1>2, <1>3

\* What removeWhere keeps is picked, from the positions given.
LEMMA KeptPicks ==
  ASSUME NEW S, NEW s \in Seq(S), NEW T \in SUBSET DOMAIN s, NEW t \in Kept(s, T)
  PROVE  t \in Seq(S) /\ Picks(t, s) /\ \A j \in DOMAIN t : \E k \in T : t[j] = s[k]
<1>1. Len(s) \in Nat /\ DOMAIN s = 1 .. Len(s)
  OBVIOUS
<1>2. Cardinality(T) \in Nat
  <2>1. IsFiniteSet(1 .. Len(s))
    BY <1>1, FS_Interval
  <2>2. IsFiniteSet(T)
    BY <1>1, <2>1, FS_Subset
  <2>3. QED  BY <2>2, FS_CardinalityType
<1>3. PICK n : n = Cardinality(T)
  OBVIOUS
<1>4. PICK f \in [1 .. n -> T] : /\ \A a, b \in 1 .. n : a < b => f[a] < f[b]
                                 /\ t = [k \in 1 .. n |-> s[f[k]]]
  BY <1>3 DEF Kept
<1>5. \A k \in 1 .. n : f[k] \in T /\ f[k] \in 1 .. Len(s) /\ s[f[k]] \in S
  BY <1>1, <1>4
<1>6. t \in Seq(S) /\ DOMAIN t = 1 .. n
  BY <1>2, <1>3, <1>4, <1>5
<1>7. ASSUME NEW a \in 1 .. n, NEW b \in 1 .. n, f[a] = f[b] PROVE a = b
  <2>1. a \in Nat /\ b \in Nat /\ f[a] \in Nat /\ f[b] \in Nat
    BY <1>1, <1>2, <1>3, <1>5
  <2>2. QED  BY <1>4, <1>7, <2>1
<1>8. \A j \in 1 .. n : t[j] = s[f[j]]
  BY <1>4
<1>9. Picks(t, s)
  <2>1. f \in [DOMAIN t -> DOMAIN s]
    BY <1>1, <1>4, <1>5, <1>6
  <2>2. QED  BY <1>6, <1>7, <1>8, <2>1 DEF Picks
<1>10. QED  BY <1>5, <1>6, <1>8, <1>9

\* A store whose conversations are picked stays one.
LEMMA StoredPicks ==
  ASSUME NEW c, NEW s, NEW t, StoredOK(c, s), t \in Seq(Chat), Picks(t, s)
  PROVE  StoredOK(c, t)
<1>1. (Distinct(s) => Distinct(t)) /\ \A j \in DOMAIN t : \E k \in DOMAIN s : t[j] = s[k]
  BY PicksKeeps
<1>2. QED  BY <1>1 DEF StoredOK

\* So does one whose conversations stay with their contacts.
LEMMA StoredSame ==
  ASSUME NEW c, NEW s, NEW t, StoredOK(c, s), t \in Seq(Chat), DOMAIN t = DOMAIN s,
         \A j \in DOMAIN s : t[j].peer = s[j].peer
  PROVE  StoredOK(c, t)
BY DEF StoredOK, Distinct

Replaced(s, j, h) == [s EXCEPT ![j] = h]

\* One conversation is replaced.
LEMMA OneReplaced ==
  ASSUME NEW c, NEW s, StoredOK(c, s), NEW j \in DOMAIN s, NEW h \in Chat, h.peer = s[j].peer,
         NEW t, t = Replaced(s, j, h)
  PROVE  /\ StoredOK(c, t) /\ DOMAIN t = DOMAIN s
         /\ t[j] = h /\ \A k \in DOMAIN s : k # j => t[k] = s[k]
         /\ \A p, m : Has(t, p, m) =>
              Has(s, p, m) \/ (p = h.peer /\ \E k \in DOMAIN h.msgs : h.msgs[k] = m)
<1>1. s \in Seq(Chat)
  BY DEF StoredOK
<1>2. /\ t \in Seq(Chat) /\ DOMAIN t = DOMAIN s /\ t[j] = h
      /\ \A k \in DOMAIN s : k # j => t[k] = s[k]
  BY <1>1 DEF Replaced
<1>3. \A k \in DOMAIN s : t[k].peer = s[k].peer
  BY <1>2
<1>4. StoredOK(c, t)
  BY <1>2, <1>3, StoredSame
<1>5. \A p, m : Has(t, p, m) => Has(s, p, m) \/ (p = h.peer /\ \E k \in DOMAIN h.msgs : h.msgs[k] = m)
  BY <1>2 DEF Has
<1>6. QED  BY <1>2, <1>4, <1>5

\* A message at the end of a conversation.
LEMMA AppendIs ==
  ASSUME NEW q \in Seq(Msg), NEW m \in Msg
  PROVE  /\ Append(q, m) \in Seq(Msg)
         /\ \A k \in DOMAIN Append(q, m) : Append(q, m)[k] = m \/ \E l \in DOMAIN q : Append(q, m)[k] = q[l]
OBVIOUS

\* What Restated does to one message.
Upd(m, i, kept, status) ==
  IF m.id = i /\ m.mine /\ m.status \notin kept THEN [m EXCEPT !.status = status] ELSE m

\* Every conversation stays where it is, with its messages updated.
LEMMA RestatedIs ==
  ASSUME NEW c, NEW s, StoredOK(c, s), NEW i, NEW kept, NEW status \in Statuses
  PROVE  /\ StoredOK(c, Restated(s, i, kept, status))
         /\ DOMAIN Restated(s, i, kept, status) = DOMAIN s
         /\ \A j \in DOMAIN s : Restated(s, i, kept, status)[j].unread = s[j].unread
         /\ \A p, m : Has(Restated(s, i, kept, status), p, m) =>
              \E o \in Msg : Has(s, p, o) /\ m = Upd(o, i, kept, status)
         /\ ~Present(s, i) => Restated(s, i, kept, status) = s
<1> DEFINE t == Restated(s, i, kept, status)
           ms(q) == [k \in DOMAIN q |-> Upd(q[k], i, kept, status)]
<1>1. s \in Seq(Chat) /\ \A j \in DOMAIN s : s[j] \in Chat /\ s[j].msgs \in Seq(Msg)
  <2>1. s \in Seq(Chat)
    BY DEF StoredOK
  <2>2. \A j \in DOMAIN s : s[j] \in Chat
    BY <2>1
  <2>3. \A h \in Chat : h.msgs \in Seq(Msg)
    BY DEF Chat
  <2>4. QED  BY <2>1, <2>2, <2>3
<1>2. t = [j \in DOMAIN s |-> [s[j] EXCEPT !.msgs = ms(s[j].msgs)]]
  BY DEF Restated, Upd
<1>3. \A m \in Msg : Upd(m, i, kept, status) \in Msg
  BY DEF Upd, Msg
<1>4. \A q \in Seq(Msg) : ms(q) \in Seq(Msg) /\ DOMAIN ms(q) = DOMAIN q
  BY <1>3
<1>5. ASSUME NEW j \in DOMAIN s
      PROVE  /\ t[j] \in Chat /\ t[j].peer = s[j].peer /\ t[j].unread = s[j].unread
             /\ t[j].msgs = ms(s[j].msgs)
  <2>1. t[j] = [s[j] EXCEPT !.msgs = ms(s[j].msgs)]
    BY <1>2
  <2>2. ms(s[j].msgs) \in Seq(Msg)
    BY <1>1, <1>4
  <2> HIDE DEF ms
  <2>3. QED  BY <1>1, <2>1, <2>2 DEF Chat
<1>6. DOMAIN t = DOMAIN s /\ t \in Seq(Chat)
  <2>1. t = [j \in DOMAIN s |-> t[j]]
    BY <1>2
  <2>2. \A j \in DOMAIN s : t[j] \in Chat
    BY <1>5
  <2> HIDE DEF t
  <2>3. Len(s) \in Nat /\ DOMAIN s = 1 .. Len(s)
    BY <1>1
  <2>4. QED  BY <2>1, <2>2, <2>3
<1>7. StoredOK(c, t)
  BY <1>5, <1>6, StoredSame
<1>8. ASSUME NEW p, NEW m, Has(t, p, m)
      PROVE  \E o \in Msg : Has(s, p, o) /\ m = Upd(o, i, kept, status)
  <2>1. PICK j \in DOMAIN s : t[j].peer = p /\ \E k \in DOMAIN t[j].msgs : t[j].msgs[k] = m
    BY <1>6, <1>8 DEF Has
  <2>2. PICK k \in DOMAIN s[j].msgs : ms(s[j].msgs)[k] = m
    BY <1>1, <1>4, <1>5, <2>1
  <2>3. m = Upd(s[j].msgs[k], i, kept, status) /\ s[j].msgs[k] \in Msg
    BY <1>1, <2>2
  <2>4. Has(s, p, s[j].msgs[k])
    BY <1>5, <2>1, <2>2 DEF Has
  <2>5. QED  BY <2>3, <2>4
<1>9. ASSUME ~Present(s, i) PROVE t = s
  <2>1. ASSUME NEW j \in DOMAIN s PROVE t[j] = s[j]
    <3>1. \A k \in DOMAIN s[j].msgs : Upd(s[j].msgs[k], i, kept, status) = s[j].msgs[k]
      BY <1>9 DEF Present, Upd
    <3>2. ms(s[j].msgs) = s[j].msgs
      BY <1>1, <3>1
    <3> HIDE DEF ms
    <3>3. QED  BY <1>1, <1>2, <3>2 DEF Chat
  <2>2. t = [j \in DOMAIN s |-> t[j]] /\ s = [j \in DOMAIN s |-> s[j]]
    BY <1>1, <1>2
  <2> HIDE DEF t
  <2>3. QED  BY <2>1, <2>2
<1>10. QED  BY <1>5, <1>6, <1>7, <1>8, <1>9 DEF t

\* What markReadByPeer does to one message.
Seen(m) == IF m.mine THEN [m EXCEPT !.status = "read"] ELSE m

\* The messages of the conversation with p are marked, the others stay.
LEMMA MarkReadIs ==
  ASSUME NEW c, NEW s, StoredOK(c, s), NEW p
  PROVE  /\ StoredOK(c, MarkReadByPeer(s, p))
         /\ DOMAIN MarkReadByPeer(s, p) = DOMAIN s
         /\ \A j \in DOMAIN s : MarkReadByPeer(s, p)[j].unread = s[j].unread
         /\ \A q, m : Has(MarkReadByPeer(s, p), q, m) =>
              \E o \in Msg : Has(s, q, o) /\ m = IF q = p THEN Seen(o) ELSE o
<1> DEFINE t == MarkReadByPeer(s, p)
           ms(q) == [k \in DOMAIN q |-> Seen(q[k])]
<1>1. s \in Seq(Chat) /\ \A j \in DOMAIN s : s[j] \in Chat /\ s[j].msgs \in Seq(Msg)
  <2>1. s \in Seq(Chat)
    BY DEF StoredOK
  <2>2. \A j \in DOMAIN s : s[j] \in Chat
    BY <2>1
  <2>3. \A h \in Chat : h.msgs \in Seq(Msg)
    BY DEF Chat
  <2>4. QED  BY <2>1, <2>2, <2>3
<1>2. t = [j \in DOMAIN s |-> IF s[j].peer # p THEN s[j] ELSE [s[j] EXCEPT !.msgs = ms(s[j].msgs)]]
  BY DEF MarkReadByPeer, Seen
<1>3. \A m \in Msg : Seen(m) \in Msg
  BY DEF Seen, Msg, Statuses
<1>4. \A q \in Seq(Msg) : ms(q) \in Seq(Msg) /\ DOMAIN ms(q) = DOMAIN q
  BY <1>3
<1>5. ASSUME NEW j \in DOMAIN s
      PROVE  /\ t[j] \in Chat /\ t[j].peer = s[j].peer /\ t[j].unread = s[j].unread
             /\ t[j].msgs = IF s[j].peer = p THEN ms(s[j].msgs) ELSE s[j].msgs
  <2>1. t[j] = IF s[j].peer # p THEN s[j] ELSE [s[j] EXCEPT !.msgs = ms(s[j].msgs)]
    BY <1>2
  <2>2. ms(s[j].msgs) \in Seq(Msg)
    BY <1>1, <1>4
  <2> HIDE DEF ms
  <2>3. QED  BY <1>1, <2>1, <2>2 DEF Chat
<1>6. DOMAIN t = DOMAIN s /\ t \in Seq(Chat)
  <2>1. t = [j \in DOMAIN s |-> t[j]]
    BY <1>2
  <2>2. \A j \in DOMAIN s : t[j] \in Chat
    BY <1>5
  <2> HIDE DEF t
  <2>3. Len(s) \in Nat /\ DOMAIN s = 1 .. Len(s)
    BY <1>1
  <2>4. QED  BY <2>1, <2>2, <2>3
<1>7. StoredOK(c, t)
  BY <1>5, <1>6, StoredSame
<1>8. ASSUME NEW q, NEW m, Has(t, q, m)
      PROVE  \E o \in Msg : Has(s, q, o) /\ m = IF q = p THEN Seen(o) ELSE o
  <2>1. PICK j \in DOMAIN s : t[j].peer = q /\ \E k \in DOMAIN t[j].msgs : t[j].msgs[k] = m
    BY <1>6, <1>8 DEF Has
  <2>2. PICK k \in DOMAIN t[j].msgs : t[j].msgs[k] = m
    BY <2>1
  <2>3. /\ s[j].peer = q /\ k \in DOMAIN s[j].msgs /\ s[j].msgs[k] \in Msg
        /\ m = IF q = p THEN Seen(s[j].msgs[k]) ELSE s[j].msgs[k]
    <3>1. s[j].peer = q
      BY <1>5, <2>1
    <3>2. t[j].msgs = IF q = p THEN ms(s[j].msgs) ELSE s[j].msgs
      BY <1>5, <3>1
    <3>3. k \in DOMAIN s[j].msgs
      BY <1>1, <1>4, <2>2, <3>2
    <3>4. QED  BY <1>1, <2>2, <3>1, <3>2, <3>3
  <2>4. Has(s, q, s[j].msgs[k])
    BY <2>3 DEF Has
  <2>5. QED  BY <2>3, <2>4
<1>9. QED  BY <1>5, <1>6, <1>7, <1>8 DEF t

\* The conversation with p is first, and the others are as they were.
LEMMA OpenedIs ==
  ASSUME NEW c, NEW s, StoredOK(c, s), NEW p \in Peers, c[p] # NoContact
  PROVE  /\ StoredOK(c, Opened(s, p))
         /\ 1 \in DOMAIN Opened(s, p) /\ Opened(s, p)[1].peer = p
         /\ \A q, m : Has(Opened(s, p), q, m) => Has(s, q, m)
         /\ \A j \in DOMAIN Opened(s, p) :
              Opened(s, p)[j].unread = 0 \/ \E k \in DOMAIN s : Opened(s, p)[j] = s[k]
<1>1. s \in Seq(Chat) /\ Len(s) \in Nat /\ DOMAIN s = 1 .. Len(s)
  <2>1. s \in Seq(Chat)
    BY DEF StoredOK
  <2>2. QED  BY <2>1
<1>2. CASE ChatsWith(s, p) = {}
  <2>1. PICK n : n = NewChat(p)
    OBVIOUS
  <2>2. n \in Chat /\ n.peer = p /\ n.unread = 0 /\ DOMAIN n.msgs = {}
    BY <2>1 DEF NewChat, Chat
  <2>3. PICK t : t = <<n>> \o s
    OBVIOUS
  <2>4. t = Opened(s, p)
    BY <1>2, <2>1, <2>3 DEF Opened
  <2>5. /\ t \in Seq(Chat) /\ DOMAIN t = 1 .. Len(s) + 1 /\ t[1] = n
        /\ \A j \in 2 .. Len(s) + 1 : t[j] = s[j - 1]
    BY <1>1, <2>2, <2>3
  <2>6. \A j \in DOMAIN t : j = 1 \/ (j \in 2 .. Len(s) + 1 /\ j - 1 \in DOMAIN s)
    BY <1>1, <2>5
  <2>7. \A j \in DOMAIN s : s[j].peer # p
    BY <1>2 DEF ChatsWith
  <2>8. \A j \in DOMAIN t : j # 1 => t[j] = s[j - 1] /\ j - 1 \in DOMAIN s
    BY <2>5, <2>6
  <2>9. Distinct(t)
    <3> SUFFICES ASSUME NEW i \in DOMAIN t, NEW j \in DOMAIN t, t[i].peer = t[j].peer
                 PROVE  i = j
      BY DEF Distinct
    <3>1. CASE i = 1 \/ j = 1
      BY <2>2, <2>5, <2>7, <2>8, <3>1
    <3>2. CASE i # 1 /\ j # 1
      <4>1. s[i - 1].peer = s[j - 1].peer /\ i - 1 \in DOMAIN s /\ j - 1 \in DOMAIN s
        BY <2>8, <3>2
      <4>2. i - 1 = j - 1
        BY <4>1 DEF StoredOK, Distinct
      <4>3. QED  BY <1>1, <2>5, <4>2
    <3>3. QED  BY <3>1, <3>2
  <2>10. \A j \in DOMAIN t : c[t[j].peer] # NoContact
    BY <2>2, <2>5, <2>8 DEF StoredOK
  <2>11. StoredOK(c, t)
    BY <2>5, <2>9, <2>10 DEF StoredOK
  <2>12. \A q, m : Has(t, q, m) => Has(s, q, m)
    BY <2>2, <2>5, <2>8 DEF Has
  <2>13. 1 \in DOMAIN t /\ t[1].peer = p
    BY <1>1, <2>2, <2>5
  <2>14. \A j \in DOMAIN t : t[j].unread = 0 \/ \E k \in DOMAIN s : t[j] = s[k]
    BY <2>2, <2>5, <2>8
  <2>15. QED  BY <2>4, <2>11, <2>12, <2>13, <2>14
<1>3. CASE ChatsWith(s, p) # {}
  <2>1. PICK i : i = CHOOSE k \in ChatsWith(s, p) : \A j \in ChatsWith(s, p) : k <= j
    OBVIOUS
  <2>2. \E k \in ChatsWith(s, p) : \A j \in ChatsWith(s, p) : k <= j
    <3>1. PICK k \in ChatsWith(s, p) : TRUE
      BY <1>3
    <3>2. \A j \in ChatsWith(s, p) : j = k
      BY DEF StoredOK, Distinct, ChatsWith
    <3>3. k <= k
      BY <1>1 DEF ChatsWith
    <3>4. QED  BY <3>2, <3>3
  <2>3. i \in DOMAIN s /\ s[i].peer = p
    BY <2>1, <2>2 DEF ChatsWith
  <2>4. PICK t : t = MoveToTop(s, i)
    OBVIOUS
  <2>5. t = Opened(s, p)
    BY <1>3, <2>1, <2>4 DEF Opened
  <2>6. t \in Seq(Chat) /\ t[1] = s[i] /\ 1 \in DOMAIN t /\ Picks(t, s)
    BY <1>1, <2>3, <2>4, MoveToTopPicks
  <2>7. StoredOK(c, t)
    BY <2>6, StoredPicks
  <2>8. /\ \A q, m : Has(t, q, m) => Has(s, q, m)
        /\ \A j \in DOMAIN t : \E k \in DOMAIN s : t[j] = s[k]
    BY <2>6, PicksKeeps
  <2>9. QED  BY <2>3, <2>5, <2>6, <2>7, <2>8
<1>4. QED  BY <1>2, <1>3

-----------------------------------------------------------------------------
(* Contacts and events.                                                    *)

\* No contact is NoContact.
LEMMA NoContactApart == NoContact \notin Contact
<1>1. "none" \notin Flags
  BY ChatStoreAssumption
<1>2. QED  BY <1>1 DEF NoContact, Contact

\* addContact adds a contact or keeps it, and forgets none.
LEMMA AddedIs ==
  ASSUME NEW c, NEW s, StoredOK(c, s), NEW p \in Peers, NEW code \in BOOLEAN
  PROVE  /\ StoredOK(Added(c, p, code), s) /\ Added(c, p, code)[p] # NoContact
         /\ \A q \in Peers : c[q] # NoContact => Added(c, p, code)[q] # NoContact
<1>1. PICK d : d = Added(c, p, code)
  OBVIOUS
<1>2. c \in [Peers -> Contact \cup {NoContact}] /\ c[p] \in Contact \cup {NoContact}
  BY DEF StoredOK
<1>3. PICK n : n = IF c[p] = NoContact THEN [code |-> code, flags |-> {}]
                   ELSE [c[p] EXCEPT !.code = @ \/ code]
  OBVIOUS
<1>4. n \in Contact
  <2>1. CASE c[p] = NoContact
    BY <1>3, <2>1 DEF Contact
  <2>2. CASE c[p] # NoContact
    <3>1. c[p] \in Contact
      BY <1>2, <2>2
    <3>2. QED  BY <1>3, <2>2, <3>1 DEF Contact
  <2>3. QED  BY <2>1, <2>2
<1>5. d = [c EXCEPT ![p] = n]
  BY <1>1, <1>3 DEF Added
<1>6. n # NoContact
  BY <1>4, NoContactApart
<1>7. d \in [Peers -> Contact \cup {NoContact}] /\ d[p] = n /\ \A q \in Peers : q # p => d[q] = c[q]
  BY <1>2, <1>4, <1>5
<1>8. \A q \in Peers : c[q] # NoContact => d[q] # NoContact
  BY <1>6, <1>7
<1>9. \A j \in DOMAIN s : s[j].peer \in Peers
  <2>1. s \in Seq(Chat)
    BY DEF StoredOK
  <2>2. \A j \in DOMAIN s : s[j] \in Chat
    BY <2>1
  <2>3. QED  BY <2>2 DEF Chat
<1>10. StoredOK(d, s)
  BY <1>7, <1>8, <1>9 DEF StoredOK
<1>11. QED  BY <1>1, <1>6, <1>7, <1>8, <1>10

Toggled(c, p, f) == [c EXCEPT ![p].flags = IF f \in @ THEN @ \ {f} ELSE @ \cup {f}]

\* So does a toggle.
LEMMA ToggledIs ==
  ASSUME NEW c, NEW s, StoredOK(c, s), NEW p \in Peers, c[p] # NoContact, NEW f \in Flags, NEW d,
         d = Toggled(c, p, f)
  PROVE  StoredOK(d, s) /\ \A q \in Peers : c[q] # NoContact => d[q] # NoContact
<1>1. c \in [Peers -> Contact \cup {NoContact}] /\ c[p] \in Contact
  BY DEF StoredOK
<1>2. PICK n : n = [c[p] EXCEPT !.flags = IF f \in @ THEN @ \ {f} ELSE @ \cup {f}]
  OBVIOUS
<1>3. n \in Contact
  BY <1>1, <1>2 DEF Contact
<1>4. d = [c EXCEPT ![p] = n]
  BY <1>2 DEF Toggled
<1>5. n # NoContact
  BY <1>3, NoContactApart
<1>6. d \in [Peers -> Contact \cup {NoContact}] /\ d[p] = n /\ \A q \in Peers : q # p => d[q] = c[q]
  BY <1>1, <1>3, <1>4
<1>7. \A q \in Peers : c[q] # NoContact => d[q] # NoContact
  BY <1>5, <1>6
<1>8. \A j \in DOMAIN s : s[j].peer \in Peers
  <2>1. s \in Seq(Chat)
    BY DEF StoredOK
  <2>2. \A j \in DOMAIN s : s[j] \in Chat
    BY <2>1
  <2>3. QED  BY <2>2 DEF Chat
<1>9. QED  BY <1>6, <1>7, <1>8 DEF StoredOK

Inbound(q) == {i \in DOMAIN q : q[i].kind = "message"}

\* The inbound messages of a queue are finitely many.
LEMMA InboundFinite ==
  ASSUME NEW q \in Seq(Event)
  PROVE  IsFiniteSet(Inbound(q)) /\ Waiting(q) = Cardinality(Inbound(q)) /\ Waiting(q) \in Nat
<1>1. Len(q) \in Nat /\ DOMAIN q = 1 .. Len(q)
  OBVIOUS
<1>2. IsFiniteSet(1 .. Len(q))
  BY <1>1, FS_Interval
<1>3. Inbound(q) \subseteq 1 .. Len(q)
  BY <1>1 DEF Inbound
<1>4. IsFiniteSet(Inbound(q))
  BY <1>2, <1>3, FS_Subset
<1>5. Cardinality(Inbound(q)) \in Nat
  BY <1>4, FS_CardinalityType
<1>6. QED  BY <1>4, <1>5 DEF Waiting, Inbound

\* None waits in an empty queue.
LEMMA WaitingNone == Waiting(<<>>) = 0
<1>1. {i \in DOMAIN <<>> : <<>>[i].kind = "message"} = {}
  OBVIOUS
<1>2. QED  BY <1>1, FS_EmptySet DEF Waiting

\* An event pushed waits, if it is a message.
LEMMA WaitingPush ==
  ASSUME NEW q \in Seq(Event), NEW e \in Event
  PROVE  /\ Append(q, e) \in Seq(Event)
         /\ Waiting(Append(q, e)) = IF e.kind = "message" THEN Waiting(q) + 1 ELSE Waiting(q)
         /\ \A i \in DOMAIN Append(q, e) : Append(q, e)[i] = e \/ (i \in DOMAIN q /\ Append(q, e)[i] = q[i])
<1>1. PICK r : r = Append(q, e)
  OBVIOUS
<1>2. /\ r \in Seq(Event) /\ Len(q) \in Nat /\ DOMAIN q = 1 .. Len(q) /\ DOMAIN r = 1 .. Len(q) + 1
      /\ r[Len(q) + 1] = e /\ \A i \in 1 .. Len(q) : r[i] = q[i]
  BY <1>1
<1>3. PICK n : n = Len(q) + 1
  OBVIOUS
<1>4. DOMAIN r = DOMAIN q \cup {n} /\ n \notin DOMAIN q /\ r[n] = e /\ \A i \in DOMAIN q : r[i] = q[i]
  BY <1>2, <1>3
<1>5. Inbound(r) = IF e.kind = "message" THEN Inbound(q) \cup {n} ELSE Inbound(q)
  BY <1>4 DEF Inbound
<1>6. n \notin Inbound(q)
  BY <1>4 DEF Inbound
<1>7. Cardinality(Inbound(q) \cup {n}) = Cardinality(Inbound(q)) + 1
  BY <1>6, InboundFinite, FS_AddElement
<1>8. Waiting(r) = IF e.kind = "message" THEN Waiting(q) + 1 ELSE Waiting(q)
  BY <1>2, <1>5, <1>7, InboundFinite
<1>9. \A i \in DOMAIN r : r[i] = e \/ (i \in DOMAIN q /\ r[i] = q[i])
  BY <1>4
<1>10. QED  BY <1>1, <1>2, <1>8, <1>9

\* An event taken no longer waits.
LEMMA WaitingTake ==
  ASSUME NEW q \in Seq(Event), q # <<>>
  PROVE  /\ Head(q) \in Event /\ 1 \in DOMAIN q /\ Head(q) = q[1]
         /\ Tail(q) \in Seq(Event)
         /\ Waiting(q) = IF Head(q).kind = "message" THEN Waiting(Tail(q)) + 1 ELSE Waiting(Tail(q))
         /\ \A i \in DOMAIN Tail(q) : i + 1 \in DOMAIN q /\ Tail(q)[i] = q[i + 1]
<1>1. PICK r : r = Tail(q)
  OBVIOUS
<1>2. /\ r \in Seq(Event) /\ Len(q) \in Nat \ {0} /\ DOMAIN q = 1 .. Len(q) /\ DOMAIN r = 1 .. Len(q) - 1
      /\ \A i \in 1 .. Len(q) - 1 : r[i] = q[i + 1]
      /\ Head(q) = q[1]
  BY <1>1
<1>3. Head(q) \in Event /\ 1 \in DOMAIN q
  BY <1>2
<1>4. \A i \in DOMAIN r : i + 1 \in DOMAIN q /\ r[i] = q[i + 1]
  BY <1>2
<1> DEFINE later == Inbound(q) \ {1}
           f == [i \in Inbound(r) |-> i + 1]
<1>5. f \in Bijection(Inbound(r), later)
  <2>1. \A i \in Inbound(r) : i \in Nat /\ i + 1 \in later
    BY <1>2 DEF Inbound
  <2>2. f \in [Inbound(r) -> later]
    BY <2>1
  <2>3. \A a, b \in Inbound(r) : f[a] = f[b] => a = b
    BY <2>1
  <2>4. ASSUME NEW b \in later PROVE \E a \in Inbound(r) : f[a] = b
    <3>1. b \in 2 .. Len(q) /\ q[b].kind = "message"
      BY <1>2 DEF Inbound
    <3>2. b - 1 \in 1 .. Len(q) - 1 /\ (b - 1) + 1 = b
      BY <1>2, <3>1
    <3>3. b - 1 \in Inbound(r)
      BY <1>2, <3>1, <3>2 DEF Inbound
    <3>4. QED  BY <3>2, <3>3
  <2> HIDE DEF f, later
  <2>5. QED  BY <2>2, <2>3, <2>4 DEF Bijection, Injection, Surjection, IsInjective
<1>6. Cardinality(Inbound(r)) = Cardinality(later)
  <2>1. IsFiniteSet(Inbound(r))
    BY <1>2, InboundFinite
  <2>2. ExistsBijection(Inbound(r), later)
    BY <1>5 DEF ExistsBijection
  <2>3. QED  BY <2>1, <2>2, FS_Bijection
<1>7. Cardinality(later) = IF 1 \in Inbound(q) THEN Cardinality(Inbound(q)) - 1 ELSE Cardinality(Inbound(q))
  BY InboundFinite, FS_RemoveElement
<1>8. 1 \in Inbound(q) <=> Head(q).kind = "message"
  BY <1>2, <1>3 DEF Inbound
<1>9. Waiting(q) = IF Head(q).kind = "message" THEN Waiting(r) + 1 ELSE Waiting(r)
  BY <1>2, <1>6, <1>7, <1>8, InboundFinite
<1>10. QED  BY <1>1, <1>2, <1>3, <1>4, <1>9

-----------------------------------------------------------------------------
(* Steps.                                                                  *)

\* What every step does to messages already there: the runtime goes on, and
\* whatever left the queue of events was counted or came before.
Evolves ==
  /\ next <= next' /\ \A i \in 1 .. next : owner'[i] = owner[i]
  /\ wrote \subseteq wrote'
  /\ \A i \in 1 .. next : /\ i \in wrote' \ wrote => out[i] = "queued"
                          /\ out'[i] = "queued" => out[i] = "queued"
Fewer == came + Waiting(events') <= came' + Waiting(events)

\* Conversations that stay agree with the runtime after its step.
LEMMA MessagesStep ==
  ASSUME NEW s, MessagesOK(s), Evolves, next \in Nat, next' \in Nat
  PROVE  MessagesOK(s)'
<1>1. Agree(s)
  BY DEF MessagesOK
<1>2. ASSUME NEW p, NEW m, Has(s, p, m) PROVE MessageOK(p, m)'
  <2>1. MessageOK(p, m)
    BY <1>2 DEF MessagesOK
  <2> SUFFICES ASSUME m.mine
               PROVE  /\ m.id \in 1 .. next' /\ owner'[m.id] = p
                      /\ m.status = "delivered" => m.id \in wrote'
                      /\ m.status = "failed" => m.id \notin wrote' /\ out'[m.id] # "queued"
    BY DEF MessageOK
  <2>2. /\ m.id \in 1 .. next /\ owner[m.id] = p
        /\ m.status = "delivered" => m.id \in wrote
        /\ m.status = "failed" => m.id \notin wrote /\ out[m.id] # "queued"
    BY <2>1 DEF MessageOK
  <2>3. m.id \in 1 .. next'
    BY <2>2 DEF Evolves
  <2>4. QED  BY <2>2, <2>3 DEF Evolves
<1>3. QED  BY <1>1, <1>2 DEF MessagesOK

\* Fewer messages are fewer to agree.
LEMMA MessagesFewer ==
  ASSUME NEW s, NEW t, MessagesOK(s), \A p, m : Has(t, p, m) => Has(s, p, m)
  PROVE  MessagesOK(t)
<1>1. Agree(t)
  <2>1. Agree(s)
    BY DEF MessagesOK
  <2>2. ASSUME NEW p, NEW q, NEW m, NEW n, Has(t, p, m), Has(t, q, n),
               m.mine, n.mine, m.id = n.id
        PROVE  m.status = n.status
    <3>1. Has(s, p, m) /\ Has(s, q, n)
      BY <2>2
    <3>2. QED  BY <2>1, <2>2, <3>1 DEF Agree
  <2>3. QED  BY <2>2 DEF Agree
<1>2. \A p, m : Has(t, p, m) => MessageOK(p, m)
  BY DEF MessagesOK
<1>3. QED  BY <1>1, <1>2 DEF MessagesOK

\* The counts of unread messages stay below those that came.
LEMMA UnreadStep ==
  ASSUME NEW c, NEW s, NEW d, NEW t, StoredOK(c, s), UnreadOK(s), StoredOK(d, t),
         \A j \in DOMAIN t : t[j].unread = 0 \/ \E k \in DOMAIN s : t[j].unread = s[k].unread,
         EventsOK, EventsOK', Fewer
  PROVE  UnreadOK(t)'
<1>1. /\ came \in Nat /\ came' \in Nat /\ Waiting(events) \in Nat /\ Waiting(events') \in Nat
      /\ Waiting(events') <= came'
  <2>1. events \in Seq(Event) /\ events' \in Seq(Event) /\ Waiting(events') <= came'
    BY DEF EventsOK
  <2>2. came \in Nat /\ came' \in Nat
    BY ChatStoreAssumption DEF EventsOK
  <2>3. QED  BY <2>1, <2>2, InboundFinite
<1>2. \A j \in DOMAIN s : s[j].unread \in Nat
  <2>1. s \in Seq(Chat)
    BY DEF StoredOK
  <2>2. \A j \in DOMAIN s : s[j] \in Chat
    BY <2>1
  <2>3. QED  BY <2>2 DEF Chat
<1>3. ASSUME NEW j \in DOMAIN t PROVE t[j].unread + Waiting(events') <= came'
  <2>1. CASE t[j].unread = 0
    BY <1>1, <2>1
  <2>2. ASSUME NEW k \in DOMAIN s, t[j].unread = s[k].unread
        PROVE  t[j].unread + Waiting(events') <= came'
    <3>1. s[k].unread + Waiting(events) <= came /\ s[k].unread \in Nat
      BY <1>2 DEF UnreadOK
    <3>2. came + Waiting(events') <= came' + Waiting(events)
      BY DEF Fewer
    <3>3. QED  BY <1>1, <2>2, <3>1, <3>2
  <2>3. QED  BY <2>1, <2>2
<1>4. QED  BY <1>3 DEF UnreadOK

\* A status that agrees with the runtime may be set.
LEMMA RestatedMessages ==
  ASSUME NEW c, NEW s, StoredOK(c, s), MessagesOK(s), next \in Nat,
         NEW i, NEW kept, NEW status \in Statuses,
         status = "delivered" => i = 0 \/ i \in wrote,
         status = "failed" => i \notin wrote /\ out[i] # "queued"
  PROVE  MessagesOK(Restated(s, i, kept, status))
<1>1. PICK t : t = Restated(s, i, kept, status)
  OBVIOUS
<1>2. \A p, m : Has(t, p, m) => \E o \in Msg : Has(s, p, o) /\ m = Upd(o, i, kept, status)
  BY <1>1, RestatedIs
<1>3. ASSUME NEW p, NEW m, Has(t, p, m) PROVE MessageOK(p, m)
  <2>1. PICK o \in Msg : Has(s, p, o) /\ m = Upd(o, i, kept, status)
    BY <1>2, <1>3
  <2>2. MessageOK(p, o)
    BY <2>1 DEF MessagesOK
  <2>3. CASE m = o
    BY <2>2, <2>3
  <2>4. CASE m # o
    <3>1. o.id = i /\ o.mine /\ m = [o EXCEPT !.status = status]
      BY <2>1, <2>4 DEF Upd
    <3>2. m.id = i /\ m.status = status /\ m.mine
      BY <3>1 DEF Msg
    <3>3. i \in 1 .. next /\ owner[i] = p
      BY <2>2, <3>1 DEF MessageOK
    <3>4. i # 0
      BY <3>3
    <3>5. QED  BY <3>2, <3>3, <3>4 DEF MessageOK
  <2>5. QED  BY <2>3, <2>4
<1>4. ASSUME NEW p, NEW q, NEW m, NEW n, Has(t, p, m), Has(t, q, n), m.mine, n.mine, m.id = n.id
      PROVE  m.status = n.status
  <2>1. PICK a \in Msg : Has(s, p, a) /\ m = Upd(a, i, kept, status)
    BY <1>2, <1>4
  <2>2. PICK b \in Msg : Has(s, q, b) /\ n = Upd(b, i, kept, status)
    BY <1>2, <1>4
  <2>3. a.id = m.id /\ a.mine /\ b.id = n.id /\ b.mine
    BY <1>4, <2>1, <2>2 DEF Upd, Msg
  <2>4. Agree(s)
    BY DEF MessagesOK
  <2>5. a.status = b.status
    BY <1>4, <2>1, <2>2, <2>3, <2>4 DEF Agree
  <2>6. QED  BY <1>4, <2>1, <2>2, <2>3, <2>5 DEF Upd, Msg
<1>5. Agree(t)
  BY <1>4 DEF Agree
<1>6. QED  BY <1>1, <1>3, <1>5 DEF MessagesOK

\* The copies of a message are with one contact, so they are marked together.
LEMMA ReadMessages ==
  ASSUME NEW c, NEW s, StoredOK(c, s), MessagesOK(s), NEW p
  PROVE  MessagesOK(MarkReadByPeer(s, p))
<1>1. PICK t : t = MarkReadByPeer(s, p)
  OBVIOUS
<1>2. \A q, m : Has(t, q, m) => \E o \in Msg : Has(s, q, o) /\ m = IF q = p THEN Seen(o) ELSE o
  BY <1>1, MarkReadIs
<1>3. ASSUME NEW q, NEW m, Has(t, q, m) PROVE MessageOK(q, m)
  <2>1. PICK o \in Msg : Has(s, q, o) /\ m = IF q = p THEN Seen(o) ELSE o
    BY <1>2, <1>3
  <2>2. MessageOK(q, o)
    BY <2>1 DEF MessagesOK
  <2>3. CASE m = o
    BY <2>2, <2>3
  <2>4. CASE m # o
    <3>1. o.mine /\ m = [o EXCEPT !.status = "read"]
      BY <2>1, <2>4 DEF Seen
    <3>2. m.id = o.id /\ m.status = "read" /\ m.mine
      BY <3>1 DEF Msg
    <3>3. QED  BY <2>2, <3>1, <3>2 DEF MessageOK
  <2>5. QED  BY <2>3, <2>4
<1>4. ASSUME NEW q, NEW r, NEW m, NEW n, Has(t, q, m), Has(t, r, n), m.mine, n.mine, m.id = n.id
      PROVE  m.status = n.status
  <2>1. PICK a \in Msg : Has(s, q, a) /\ m = IF q = p THEN Seen(a) ELSE a
    BY <1>2, <1>4
  <2>2. PICK b \in Msg : Has(s, r, b) /\ n = IF r = p THEN Seen(b) ELSE b
    BY <1>2, <1>4
  <2>3. a.id = m.id /\ a.mine /\ b.id = n.id /\ b.mine
    BY <1>4, <2>1, <2>2 DEF Seen, Msg
  <2>4. Agree(s)
    BY DEF MessagesOK
  <2>5. a.status = b.status
    BY <1>4, <2>1, <2>2, <2>3, <2>4 DEF Agree
  <2>6. q = r
    <3>1. owner[a.id] = q /\ owner[b.id] = r
      BY <2>1, <2>2, <2>3 DEF MessagesOK, MessageOK
    <3>2. QED  BY <1>4, <2>3, <3>1
  <2>7. QED  BY <1>4, <2>1, <2>2, <2>3, <2>5, <2>6 DEF Seen, Msg
<1>5. Agree(t)
  BY <1>4 DEF Agree
<1>6. QED  BY <1>1, <1>3, <1>5 DEF MessagesOK

\* What was saved agrees with the runtime after its step.
LEMMA SavedStep ==
  ASSUME NEW d, SavedOK(d), EventsOK, RuntimeOK, Evolves, Fewer, RuntimeOK', EventsOK'
  PROVE  SavedOK(d)'
<1>1. PICK c, s : c = d.contacts /\ s = d.chats
  OBVIOUS
<1>2. StoredOK(c, s) /\ MessagesOK(s) /\ UnreadOK(s) /\ next \in Nat /\ next' \in Nat
  BY <1>1, ChatStoreAssumption DEF SavedOK, RuntimeOK
<1>3. MessagesOK(s)'
  BY <1>2, MessagesStep
<1>4. UnreadOK(s)'
  BY <1>2, UnreadStep
<1>5. QED  BY <1>1, <1>2, <1>3, <1>4 DEF SavedOK

\* The file gets at most what the runtime's store holds, and a runtime that
\* starts holds what the file does.
LEMMA DiskStep ==
  ASSUME ChatInv, Evolves, Fewer, RuntimeOK', EventsOK',
         disk' \in {disk, tried}, tried' \in {disk, tried}
  PROVE  SavedOK(disk)' /\ SavedOK(tried)'
<1>1. PICK d, e : d = disk /\ e = tried
  OBVIOUS
<1>2. SavedOK(d) /\ SavedOK(e) /\ EventsOK /\ RuntimeOK
  BY <1>1 DEF ChatInv
<1>3. SavedOK(d)' /\ SavedOK(e)'
  BY <1>2, SavedStep
<1>4. disk' \in {d, e} /\ tried' \in {d, e}
  BY <1>1
<1>5. QED  BY <1>3, <1>4

\* A step of the runtime: the store is as it was.
LEMMA RuntimeKeeps ==
  ASSUME ChatInv, UNCHANGED <<contacts, chats, online, mode, timer, tried>>,
         disk' \in {disk, tried}, Evolves, Fewer, RuntimeOK', EventsOK'
  PROVE  ChatInv'
<1>1. SavedOK(disk)' /\ SavedOK(tried)'
  BY DiskStep
<1>2. PICK c, s : c = contacts /\ s = chats
  OBVIOUS
<1>3. StoredOK(c, s) /\ MessagesOK(s) /\ UnreadOK(s) /\ EventsOK /\ next \in Nat /\ next' \in Nat
  BY <1>2, ChatStoreAssumption DEF ChatInv, RuntimeOK
<1>4. MessagesOK(s)'
  BY <1>3, MessagesStep
<1>5. UnreadOK(s)'
  BY <1>3, UnreadStep
<1>6. c = contacts' /\ s = chats'
  BY <1>2
<1>7. StoredOK(contacts, chats)' /\ MessagesOK(chats)' /\ UnreadOK(chats)'
  BY <1>3, <1>4, <1>5, <1>6
<1>8. ServiceOK' /\ DirtyIsScheduled'
  BY DEF ChatInv, ServiceOK, DirtyIsScheduled, Snapshot, Known
<1>9. QED  BY <1>1, <1>7, <1>8 DEF ChatInv

\* The runtime is as it was, and an event may be taken.
LEMMA TakeStep ==
  ASSUME ChatInv, UNCHANGED <<next, owner, out, wrote, acked, readBy, came>>,
         events' = events \/ (events # <<>> /\ events' = Tail(events))
  PROVE  RuntimeOK' /\ EventsOK' /\ Evolves /\ Fewer /\ next \in Nat /\ next' \in Nat
<1>1. RuntimeOK /\ EventsOK
  BY DEF ChatInv
<1>2. RuntimeOK'
  BY <1>1 DEF RuntimeOK
<1>3. EventsOK' /\ Fewer
  <2>1. events \in Seq(Event) /\ came \in 0 .. MaxIn /\ Waiting(events) <= came
        /\ \A i \in DOMAIN events : EventOK(events[i])
    BY <1>1 DEF EventsOK
  <2>2. Waiting(events) \in Nat /\ came \in Nat
    BY <2>1, InboundFinite, ChatStoreAssumption
  <2>3. CASE events' = events
    <3>1. \A i \in DOMAIN events' : EventOK(events[i])'
      BY <2>1, <2>3 DEF EventOK
    <3>2. QED  BY <2>1, <2>2, <2>3, <3>1 DEF EventsOK, Fewer
  <2>4. CASE events # <<>> /\ events' = Tail(events)
    <3>1. /\ events' \in Seq(Event)
          /\ Waiting(events) = IF Head(events).kind = "message" THEN Waiting(events') + 1
                               ELSE Waiting(events')
          /\ \A i \in DOMAIN events' : i + 1 \in DOMAIN events /\ events'[i] = events[i + 1]
      BY <2>1, <2>4, WaitingTake
    <3>2. Waiting(events') \in Nat
      BY <3>1, InboundFinite
    <3>3. \A i \in DOMAIN events' : EventOK(events[i])'
      <4>1. \A e : EventOK(e) => EventOK(e)'
        BY DEF EventOK
      <4>2. QED  BY <2>1, <3>1, <4>1
    <3>4. QED  BY <2>1, <2>2, <3>1, <3>2, <3>3 DEF EventsOK, Fewer
  <2>5. QED  BY <2>3, <2>4
<1>4. next \in Nat /\ next' \in Nat
  BY <1>1, ChatStoreAssumption DEF RuntimeOK
<1>5. Evolves
  BY <1>4 DEF Evolves
<1>6. QED  BY <1>2, <1>3, <1>4, <1>5

\* The store is changed, and listeners are told if it is.
LEMMA ChangeStep ==
  ASSUME ChatInv, UNCHANGED <<mode, disk, tried>>, RuntimeOK', EventsOK', Evolves, Fewer,
         Notify \/ UNCHANGED <<timer, contacts, chats>>,
         online' \subseteq {p \in Peers : contacts'[p] # NoContact},
         NEW t, t = chats', StoredOK(contacts', t), MessagesOK(t)', UnreadOK(t)'
  PROVE  ChatInv'
<1>1. ServiceOK /\ DirtyIsScheduled
  BY DEF ChatInv
<1>2. SavedOK(disk)' /\ SavedOK(tried)'
  BY DiskStep
<1>3. StoredOK(contacts, chats)' /\ MessagesOK(chats)' /\ UnreadOK(chats)'
  OBVIOUS
<1>4. ServiceOK'
  BY <1>1 DEF ServiceOK, Known, Notify
<1>5. DirtyIsScheduled'
  BY <1>1 DEF DirtyIsScheduled, Notify, Snapshot
<1>6. QED  BY <1>2, <1>3, <1>4, <1>5 DEF ChatInv

\* Both, where no count of unread messages rises.
LEMMA StoreStep ==
  ASSUME ChatInv, UNCHANGED <<mode, disk, tried, next, owner, out, wrote, acked, readBy, came>>,
         events' = events \/ (events # <<>> /\ events' = Tail(events)),
         Notify \/ UNCHANGED <<timer, contacts, chats>>,
         online' \subseteq {p \in Peers : contacts'[p] # NoContact},
         NEW t, t = chats', StoredOK(contacts', t), MessagesOK(t),
         \A j \in DOMAIN t : t[j].unread = 0 \/ \E k \in DOMAIN chats : t[j].unread = chats[k].unread
  PROVE  ChatInv'
<1>1. EventsOK /\ StoredOK(contacts, chats) /\ UnreadOK(chats)
  BY DEF ChatInv
<1>2. RuntimeOK' /\ EventsOK' /\ Evolves /\ Fewer /\ next \in Nat /\ next' \in Nat
  BY TakeStep
<1>3. MessagesOK(t)'
  BY <1>2, MessagesStep
<1>4. UnreadOK(t)'
  BY <1>1, <1>2, UnreadStep
<1>5. QED  BY <1>2, <1>3, <1>4, ChangeStep

-----------------------------------------------------------------------------
(* The user's actions.                                                     *)

\* The facts that the steps below start from.
LEMMA StoreFacts ==
  ASSUME ChatInv
  PROVE  /\ StoredOK(contacts, chats) /\ MessagesOK(chats)
         /\ chats \in Seq(Chat) /\ Len(chats) \in Nat /\ DOMAIN chats = 1 .. Len(chats)
         /\ \A j \in DOMAIN chats : /\ chats[j].peer \in Peers /\ chats[j].msgs \in Seq(Msg)
                                    /\ chats[j].unread \in Nat /\ chats[j] \in Chat
         /\ online \subseteq {p \in Peers : contacts[p] # NoContact}
         /\ contacts \in [Peers -> Contact \cup {NoContact}]
         /\ next \in Nat /\ MaxOut \in Nat
<1>1. StoredOK(contacts, chats) /\ MessagesOK(chats) /\ ServiceOK /\ RuntimeOK
  BY DEF ChatInv
<1>2. chats \in Seq(Chat) /\ contacts \in [Peers -> Contact \cup {NoContact}]
  BY <1>1 DEF StoredOK
<1>3. \A j \in DOMAIN chats : chats[j] \in Chat
  BY <1>2
<1>4. \A h \in Chat : h.peer \in Peers /\ h.msgs \in Seq(Msg) /\ h.unread \in Nat
  BY DEF Chat
<1>5. next \in Nat /\ MaxOut \in Nat
  BY <1>1, ChatStoreAssumption DEF RuntimeOK
<1>6. Len(chats) \in Nat /\ DOMAIN chats = 1 .. Len(chats)
  BY <1>2
<1>7. online \subseteq {p \in Peers : contacts[p] # NoContact}
  BY <1>1 DEF ServiceOK, Known
<1>8. QED  BY <1>1, <1>2, <1>3, <1>4, <1>5, <1>6, <1>7

\* addContact.
LEMMA AddContactKeeps ==
  ASSUME ChatInv, NEW p \in Peers, AddContact(p)
  PROVE  ChatInv'
<1>1. PICK code \in BOOLEAN : contacts' = Added(contacts, p, code)
  BY DEF AddContact
<1>2. chats' = chats /\ online' = online /\ Notify /\ events' = events
      /\ UNCHANGED <<mode, disk, tried, next, owner, out, wrote, acked, readBy, came>>
  BY DEF AddContact, runtimeVars
<1>3. PICK t : t = chats
  OBVIOUS
<1>4. StoredOK(contacts', t) /\ \A q \in Peers : contacts[q] # NoContact => contacts'[q] # NoContact
  BY <1>1, <1>3, StoreFacts, AddedIs
<1>5. online' \subseteq {q \in Peers : contacts'[q] # NoContact}
  BY <1>2, <1>4, StoreFacts
<1>6. MessagesOK(t) /\ \A j \in DOMAIN t : t[j].unread = 0 \/ \E k \in DOMAIN chats : t[j].unread = chats[k].unread
  BY <1>3, StoreFacts
<1>7. t = chats'
  BY <1>2, <1>3
<1>8. QED  BY <1>2, <1>4, <1>5, <1>6, <1>7, StoreStep

\* toggleMute and toggleBlock.
LEMMA ToggleKeeps ==
  ASSUME ChatInv, NEW p \in Peers, NEW f \in Flags, Toggle(p, f)
  PROVE  ChatInv'
<1>1. contacts' = [contacts EXCEPT ![p].flags = IF f \in @ THEN @ \ {f} ELSE @ \cup {f}]
      /\ contacts[p] # NoContact
  BY DEF Toggle, Known
<1>2. chats' = chats /\ online' = online /\ Notify /\ events' = events
      /\ UNCHANGED <<mode, disk, tried, next, owner, out, wrote, acked, readBy, came>>
  BY DEF Toggle, runtimeVars
<1>3. PICK t : t = chats
  OBVIOUS
<1>4. StoredOK(contacts', t) /\ \A q \in Peers : contacts[q] # NoContact => contacts'[q] # NoContact
  <2>1. StoredOK(contacts, t)
    BY <1>3, StoreFacts
  <2>2. PICK c, d : c = contacts /\ d = contacts'
    OBVIOUS
  <2>3. /\ StoredOK(c, t) /\ c[p] # NoContact
        /\ d = Toggled(c, p, f)
    BY <1>1, <2>1, <2>2 DEF Toggled
  <2>4. StoredOK(d, t) /\ \A q \in Peers : c[q] # NoContact => d[q] # NoContact
    BY <2>3, ToggledIs
  <2>5. QED  BY <2>2, <2>4
<1>5. online' \subseteq {q \in Peers : contacts'[q] # NoContact}
  BY <1>2, <1>4, StoreFacts
<1>6. MessagesOK(t) /\ \A j \in DOMAIN t : t[j].unread = 0 \/ \E k \in DOMAIN chats : t[j].unread = chats[k].unread
  BY <1>3, StoreFacts
<1>7. t = chats'
  BY <1>2, <1>3
<1>8. QED  BY <1>2, <1>4, <1>5, <1>6, <1>7, StoreStep

\* deleteContact: its conversation goes with it, so none is left without one.
LEMMA DeleteContactKeeps ==
  ASSUME ChatInv, NEW p \in Peers, DeleteContact(p)
  PROVE  ChatInv'
<1>1. /\ contacts' = [contacts EXCEPT ![p] = NoContact]
      /\ chats' \in Kept(chats, DOMAIN chats \ ChatsWith(chats, p))
      /\ online' = online \ {p} /\ Notify /\ events' = events
      /\ UNCHANGED <<mode, disk, tried, next, owner, out, wrote, acked, readBy, came>>
  BY DEF DeleteContact, runtimeVars
<1>2. PICK t, T : t = chats' /\ T = DOMAIN chats \ ChatsWith(chats, p)
  OBVIOUS
<1>3. t \in Seq(Chat) /\ Picks(t, chats) /\ \A j \in DOMAIN t : \E k \in T : t[j] = chats[k]
  <2>1. T \in SUBSET DOMAIN chats /\ t \in Kept(chats, T)
    BY <1>1, <1>2
  <2>2. QED  BY <2>1, StoreFacts, KeptPicks
<1>4. \A j \in DOMAIN t : t[j].peer # p
  BY <1>2, <1>3 DEF ChatsWith
<1>5. StoredOK(contacts, t)
  BY <1>3, StoreFacts, StoredPicks
<1>6. contacts' \in [Peers -> Contact \cup {NoContact}] /\ \A q \in Peers : q # p => contacts'[q] = contacts[q]
  BY <1>1, StoreFacts
<1>7. StoredOK(contacts', t)
  <2>1. \A j \in DOMAIN t : t[j].peer \in Peers
    BY <1>3, StoreFacts, PicksKeeps
  <2>2. \A j \in DOMAIN t : contacts'[t[j].peer] # NoContact
    BY <1>4, <1>5, <1>6, <2>1 DEF StoredOK
  <2>3. QED  BY <1>5, <1>6, <2>2 DEF StoredOK
<1>8. online' \subseteq {q \in Peers : contacts'[q] # NoContact}
  BY <1>1, <1>6, StoreFacts
<1>9. MessagesOK(t)
  BY <1>3, PicksKeeps, StoreFacts, MessagesFewer
<1>10. \A j \in DOMAIN t : t[j].unread = 0 \/ \E k \in DOMAIN chats : t[j].unread = chats[k].unread
  BY <1>3, PicksKeeps
<1>11. QED  BY <1>1, <1>2, <1>7, <1>8, <1>9, <1>10, StoreStep

\* startChatWith.
LEMMA StartChatKeeps ==
  ASSUME ChatInv, NEW p \in Peers, StartChatWith(p)
  PROVE  ChatInv'
<1>1. /\ chats' = Opened(chats, p) /\ contacts[p] # NoContact
      /\ contacts' = contacts /\ online' = online /\ Notify /\ events' = events
      /\ UNCHANGED <<mode, disk, tried, next, owner, out, wrote, acked, readBy, came>>
  BY DEF StartChatWith, runtimeVars, Known
<1>2. PICK t : t = chats'
  OBVIOUS
<1>3. /\ StoredOK(contacts, t) /\ \A q, m : Has(t, q, m) => Has(chats, q, m)
      /\ \A j \in DOMAIN t : t[j].unread = 0 \/ \E k \in DOMAIN chats : t[j] = chats[k]
  <2>1. StoredOK(contacts, chats)
    BY StoreFacts
  <2>2. PICK c, s : c = contacts /\ s = chats
    OBVIOUS
  <2>3. StoredOK(c, s) /\ c[p] # NoContact /\ t = Opened(s, p)
    BY <1>1, <1>2, <2>1, <2>2
  <2>4. /\ StoredOK(c, t) /\ \A q, m : Has(t, q, m) => Has(s, q, m)
        /\ \A j \in DOMAIN t : t[j].unread = 0 \/ \E k \in DOMAIN s : t[j] = s[k]
    BY <2>3, OpenedIs
  <2>5. QED  BY <2>2, <2>4
<1>4. MessagesOK(t)
  BY <1>3, StoreFacts, MessagesFewer
<1>5. StoredOK(contacts', t) /\ online' \subseteq {q \in Peers : contacts'[q] # NoContact}
  BY <1>1, <1>3, StoreFacts
<1>6. \A j \in DOMAIN t : t[j].unread = 0 \/ \E k \in DOMAIN chats : t[j].unread = chats[k].unread
  BY <1>3
<1>7. QED  BY <1>1, <1>2, <1>4, <1>5, <1>6, StoreStep

\* deleteChat.
LEMMA DeleteChatKeeps ==
  ASSUME ChatInv, NEW j \in DOMAIN chats, DeleteChat(j)
  PROVE  ChatInv'
<1>1. /\ chats' = RemoveAt(chats, j)
      /\ contacts' = contacts /\ online' = online /\ Notify /\ events' = events
      /\ UNCHANGED <<mode, disk, tried, next, owner, out, wrote, acked, readBy, came>>
  BY DEF DeleteChat, runtimeVars
<1>2. PICK t : t = chats'
  OBVIOUS
<1>3. t \in Seq(Chat) /\ Picks(t, chats)
  BY <1>1, <1>2, StoreFacts, RemoveAtPicks
<1>4. StoredOK(contacts, t)
  BY <1>3, StoreFacts, StoredPicks
<1>5. MessagesOK(t)
  BY <1>3, PicksKeeps, StoreFacts, MessagesFewer
<1>6. \A k \in DOMAIN t : t[k].unread = 0 \/ \E l \in DOMAIN chats : t[k].unread = chats[l].unread
  BY <1>3, PicksKeeps
<1>7. StoredOK(contacts', t) /\ online' \subseteq {q \in Peers : contacts'[q] # NoContact}
  BY <1>1, <1>4, StoreFacts
<1>8. QED  BY <1>1, <1>2, <1>5, <1>6, <1>7, StoreStep

\* deleteMessage.
LEMMA DeleteMessageKeeps ==
  ASSUME ChatInv, NEW j \in DOMAIN chats, NEW k \in DOMAIN chats[j].msgs, DeleteMessage(j, k)
  PROVE  ChatInv'
<1>1. /\ chats' = [chats EXCEPT ![j].msgs = RemoveAt(@, k)]
      /\ contacts' = contacts /\ online' = online /\ Notify /\ events' = events
      /\ UNCHANGED <<mode, disk, tried, next, owner, out, wrote, acked, readBy, came>>
  BY DEF DeleteMessage, runtimeVars
<1>2. PICK t, q, h : t = chats' /\ q = RemoveAt(chats[j].msgs, k) /\ h = [chats[j] EXCEPT !.msgs = q]
  OBVIOUS
<1>3. t = [chats EXCEPT ![j] = h]
  BY <1>1, <1>2
<1>4. q \in Seq(Msg) /\ Picks(q, chats[j].msgs)
  BY <1>2, StoreFacts, RemoveAtPicks
<1>5. chats[j] \in Chat
  BY StoreFacts
<1>6. h \in Chat /\ h.peer = chats[j].peer /\ h.msgs = q /\ h.unread = chats[j].unread
  BY <1>2, <1>4, <1>5 DEF Chat
<1>7. /\ StoredOK(contacts, t) /\ DOMAIN t = DOMAIN chats
      /\ t[j] = h /\ \A l \in DOMAIN chats : l # j => t[l] = chats[l]
      /\ \A p, m : Has(t, p, m) =>
           Has(chats, p, m) \/ (p = h.peer /\ \E l \in DOMAIN h.msgs : h.msgs[l] = m)
  <2>1. StoredOK(contacts, chats)
    BY StoreFacts
  <2>2. PICK c, s : c = contacts /\ s = chats
    OBVIOUS
  <2>3. StoredOK(c, s) /\ j \in DOMAIN s /\ h \in Chat /\ h.peer = s[j].peer /\ t = Replaced(s, j, h)
    BY <1>3, <1>6, <2>1, <2>2 DEF Replaced
  <2>4. /\ StoredOK(c, t) /\ DOMAIN t = DOMAIN s
        /\ t[j] = h /\ \A l \in DOMAIN s : l # j => t[l] = s[l]
        /\ \A p, m : Has(t, p, m) =>
             Has(s, p, m) \/ (p = h.peer /\ \E l \in DOMAIN h.msgs : h.msgs[l] = m)
    BY <2>3, OneReplaced
  <2>5. QED  BY <2>2, <2>4
<1>8. \A l \in DOMAIN q : \E i \in DOMAIN chats[j].msgs : q[l] = chats[j].msgs[i]
  BY <1>4 DEF Picks
<1>9. \A p, m : Has(t, p, m) => Has(chats, p, m)
  BY <1>6, <1>7, <1>8 DEF Has
<1>10. MessagesOK(t)
  BY <1>9, StoreFacts, MessagesFewer
<1>11. \A l \in DOMAIN t : t[l].unread = 0 \/ \E i \in DOMAIN chats : t[l].unread = chats[i].unread
  BY <1>6, <1>7
<1>12. StoredOK(contacts', t) /\ online' \subseteq {p \in Peers : contacts'[p] # NoContact}
  BY <1>1, <1>7, StoreFacts
<1>13. QED  BY <1>1, <1>2, <1>10, <1>11, <1>12, StoreStep

\* markRead.
LEMMA MarkReadKeeps ==
  ASSUME ChatInv, NEW j \in DOMAIN chats, MarkRead(j)
  PROVE  ChatInv'
<1>1. /\ chats' = [chats EXCEPT ![j].unread = 0]
      /\ contacts' = contacts /\ online' = online /\ Notify /\ events' = events
      /\ UNCHANGED <<mode, disk, tried, next, owner, out, wrote, acked, readBy, came>>
  BY DEF MarkRead, runtimeVars
<1>2. PICK t, h : t = chats' /\ h = [chats[j] EXCEPT !.unread = 0]
  OBVIOUS
<1>3. t = [chats EXCEPT ![j] = h]
  BY <1>1, <1>2
<1>4. chats[j] \in Chat
  BY StoreFacts
<1>5. h \in Chat /\ h.peer = chats[j].peer /\ h.msgs = chats[j].msgs /\ h.unread = 0
  BY <1>2, <1>4 DEF Chat
<1>6. /\ StoredOK(contacts, t) /\ DOMAIN t = DOMAIN chats
      /\ t[j] = h /\ \A l \in DOMAIN chats : l # j => t[l] = chats[l]
      /\ \A p, m : Has(t, p, m) =>
           Has(chats, p, m) \/ (p = h.peer /\ \E l \in DOMAIN h.msgs : h.msgs[l] = m)
  <2>1. StoredOK(contacts, chats)
    BY StoreFacts
  <2>2. PICK c, s : c = contacts /\ s = chats
    OBVIOUS
  <2>3. StoredOK(c, s) /\ j \in DOMAIN s /\ h \in Chat /\ h.peer = s[j].peer /\ t = Replaced(s, j, h)
    BY <1>3, <1>5, <2>1, <2>2 DEF Replaced
  <2>4. /\ StoredOK(c, t) /\ DOMAIN t = DOMAIN s
        /\ t[j] = h /\ \A l \in DOMAIN s : l # j => t[l] = s[l]
        /\ \A p, m : Has(t, p, m) =>
             Has(s, p, m) \/ (p = h.peer /\ \E l \in DOMAIN h.msgs : h.msgs[l] = m)
    BY <2>3, OneReplaced
  <2>5. QED  BY <2>2, <2>4
<1>7. \A p, m : Has(t, p, m) => Has(chats, p, m)
  BY <1>5, <1>6 DEF Has
<1>8. MessagesOK(t)
  BY <1>7, StoreFacts, MessagesFewer
<1>9. \A l \in DOMAIN t : t[l].unread = 0 \/ \E i \in DOMAIN chats : t[l].unread = chats[i].unread
  BY <1>5, <1>6
<1>10. StoredOK(contacts', t) /\ online' \subseteq {p \in Peers : contacts'[p] # NoContact}
  BY <1>1, <1>6, StoreFacts
<1>11. QED  BY <1>1, <1>2, <1>8, <1>9, <1>10, StoreStep

\* sendText and sendFile: the new message has a number that no other has.
LEMMA SendKeeps ==
  ASSUME ChatInv, NEW j \in DOMAIN chats, NEW file \in BOOLEAN, Send(j, file)
  PROVE  ChatInv'
<1>1. PICK i, p : i = next + 1 /\ p = chats[j].peer
  OBVIOUS
<1>2. PICK given : given = (mode \in {"live", "unsaved"} /\ contacts[p].code)
  OBVIOUS
<1>3. PICK m : m = [id |-> i, mine |-> TRUE, status |-> IF given THEN "sending" ELSE "failed"]
  OBVIOUS
<1>4. /\ next < MaxOut /\ next' = i /\ owner' = [owner EXCEPT ![i] = p]
      /\ out' = IF given THEN [out EXCEPT ![i] = "queued"] ELSE out
      /\ Notify /\ UNCHANGED <<contacts, online, mode, disk, tried, wrote, acked, readBy, events, came>>
  BY <1>1, <1>2 DEF Send
<1>5. PICK q, h, u, t : /\ q = Append(chats[j].msgs, m) /\ h = [chats[j] EXCEPT !.msgs = q]
                        /\ u = Replaced(chats, j, h) /\ t = MoveToTop(u, j)
  OBVIOUS
<1>6. t = chats'
  BY <1>1, <1>2, <1>3, <1>5 DEF Send, Replaced
<1>7. /\ RuntimeOK /\ EventsOK /\ UnreadOK(chats) /\ StoredOK(contacts, chats) /\ MessagesOK(chats)
      /\ next \in Nat /\ MaxOut \in Nat /\ chats[j] \in Chat /\ chats[j].msgs \in Seq(Msg)
      /\ p \in Peers /\ i \in Ids /\ i \in Nat
  BY <1>1, <1>4, StoreFacts DEF ChatInv, Ids
<1>8. m \in Msg /\ m.id = i /\ m.mine /\ m.status = IF given THEN "sending" ELSE "failed"
  BY <1>3, <1>7 DEF Msg, Statuses
<1>9. q \in Seq(Msg) /\ \A k \in DOMAIN q : q[k] = m \/ \E l \in DOMAIN chats[j].msgs : q[k] = chats[j].msgs[l]
  BY <1>5, <1>7, <1>8, AppendIs
<1>10. h \in Chat /\ h.peer = p /\ h.msgs = q /\ h.unread = chats[j].unread
  BY <1>1, <1>5, <1>7, <1>9 DEF Chat
<1>11. /\ StoredOK(contacts, u) /\ DOMAIN u = DOMAIN chats
       /\ u[j] = h /\ \A l \in DOMAIN chats : l # j => u[l] = chats[l]
       /\ \A r, n : Has(u, r, n) => Has(chats, r, n) \/ (r = h.peer /\ \E l \in DOMAIN h.msgs : h.msgs[l] = n)
  <2>1. PICK c, s : c = contacts /\ s = chats
    OBVIOUS
  <2>2. StoredOK(c, s) /\ j \in DOMAIN s /\ h \in Chat /\ h.peer = s[j].peer /\ u = Replaced(s, j, h)
    BY <1>1, <1>5, <1>7, <1>10, <2>1
  <2>3. /\ StoredOK(c, u) /\ DOMAIN u = DOMAIN s
        /\ u[j] = h /\ \A l \in DOMAIN s : l # j => u[l] = s[l]
        /\ \A r, n : Has(u, r, n) => Has(s, r, n) \/ (r = h.peer /\ \E l \in DOMAIN h.msgs : h.msgs[l] = n)
    BY <2>2, OneReplaced
  <2>4. QED  BY <2>1, <2>3
<1>12. t \in Seq(Chat) /\ Picks(t, u)
  <2>1. u \in Seq(Chat) /\ j \in DOMAIN u
    BY <1>11 DEF StoredOK
  <2>2. QED  BY <1>5, <2>1, MoveToTopPicks
<1>13. StoredOK(contacts', t)
  BY <1>4, <1>11, <1>12, StoredPicks
<1>14. \A r, n : Has(t, r, n) => Has(chats, r, n) \/ (r = p /\ n = m)
  <2>1. \A r, n : Has(t, r, n) => Has(u, r, n)
    BY <1>12, PicksKeeps
  <2>2. ASSUME NEW l \in DOMAIN h.msgs PROVE h.msgs[l] = m \/ Has(chats, p, h.msgs[l])
    BY <1>1, <1>9, <1>10 DEF Has
  <2>3. QED  BY <1>10, <1>11, <2>1, <2>2
<1>15. \A k \in DOMAIN t : t[k].unread = 0 \/ \E l \in DOMAIN chats : t[k].unread = chats[l].unread
  <2>1. \A k \in DOMAIN t : \E l \in DOMAIN u : t[k] = u[l]
    BY <1>12, PicksKeeps
  <2>2. \A l \in DOMAIN u : u[l].unread = chats[l].unread /\ l \in DOMAIN chats
    BY <1>10, <1>11
  <2>3. QED  BY <2>1, <2>2
<1>16. out[i] = "new" /\ i \notin wrote
  BY <1>1, <1>7 DEF RuntimeOK
<1>17. \A k \in Ids : k # i => out'[k] = out[k] /\ owner'[k] = owner[k]
  BY <1>4, <1>7 DEF RuntimeOK
<1>18. owner'[i] = p /\ out'[i] = (IF given THEN "queued" ELSE "new") /\ DOMAIN owner' = Ids
       /\ out' \in [Ids -> Outs]
  BY <1>4, <1>7, <1>16 DEF RuntimeOK, Outs
<1>19. \A k \in 1 .. next : k \in Ids /\ k # i
  BY <1>1, <1>4, <1>7 DEF Ids
<1>20. Evolves
  BY <1>1, <1>4, <1>7, <1>17, <1>19 DEF Evolves
<1>21. RuntimeOK'
  <2>1. next' \in 0 .. MaxOut
    BY <1>1, <1>4, <1>7
  <2>2. \A k \in 1 .. next' : k = i \/ k \in 1 .. next
    BY <1>1, <1>4, <1>7
  <2>3. \A k \in 1 .. next' : owner'[k] \in Peers
    BY <1>7, <1>17, <1>18, <1>19, <2>2 DEF RuntimeOK
  <2>4. ASSUME NEW k \in Ids
        PROVE  (out'[k] # "new" => k <= next') /\ (k \in wrote' => out'[k] \notin {"new", "queued"})
    <3>1. CASE k = i
      BY <1>1, <1>4, <1>7, <1>16, <3>1
    <3>2. CASE k # i
      <4>1. (out[k] # "new" => k <= next) /\ (k \in wrote => out[k] \notin {"new", "queued"}) /\ k \in Nat
        BY <1>7 DEF RuntimeOK, Ids
      <4>2. QED  BY <1>1, <1>4, <1>7, <1>17, <3>2, <4>1
    <3>3. QED  BY <3>1, <3>2
  <2>5. wrote' \subseteq Ids /\ acked' \subseteq wrote' /\ readBy' \subseteq wrote'
    BY <1>4, <1>7 DEF RuntimeOK
  <2>6. QED  BY <1>18, <2>1, <2>3, <2>4, <2>5 DEF RuntimeOK
<1>22. EventsOK' /\ Fewer
  <2>1. \A e : EventOK(e) => EventOK(e)'
    BY <1>4, <1>16, <1>17 DEF EventOK
  <2>2. \A k \in DOMAIN events' : EventOK(events[k])'
    BY <1>4, <1>7, <2>1 DEF EventsOK
  <2>3. events \in Seq(Event) /\ came \in 0 .. MaxIn /\ MaxIn \in Nat
    BY <1>7, ChatStoreAssumption DEF EventsOK
  <2>4. Waiting(events) \in Nat /\ came \in Nat
    BY <2>3, InboundFinite
  <2>5. QED  BY <1>4, <1>7, <2>2, <2>4 DEF EventsOK, Fewer
<1>23. MessagesOK(t)'
  <2>1. PICK s : s = chats
    OBVIOUS
  <2>2. MessagesOK(s)' /\ MessagesOK(s)
    BY <1>7, <1>20, <1>21, <2>1, MessagesStep, <1>1, <1>4
  <2>3. ASSUME NEW r, NEW n, Has(s, r, n), n.mine PROVE n.id # i
    <3>1. n.id \in 1 .. next
      BY <2>2, <2>3 DEF MessagesOK, MessageOK
    <3>2. QED  BY <1>19, <3>1
  <2>4. MessageOK(p, m)'
    <3>1. i \in 1 .. next' /\ owner'[i] = p
      BY <1>1, <1>4, <1>7, <1>18
    <3>2. m.status = "failed" => i \notin wrote' /\ out'[i] # "queued"
      BY <1>4, <1>8, <1>16, <1>18
    <3>3. QED  BY <1>8, <3>1, <3>2 DEF MessageOK
  <2>5. ASSUME NEW r, NEW n, Has(t, r, n) PROVE MessageOK(r, n)'
    BY <1>14, <2>1, <2>2, <2>4, <2>5 DEF MessagesOK
  <2>6. ASSUME NEW r, NEW v, NEW a, NEW b, Has(t, r, a), Has(t, v, b), a.mine, b.mine, a.id = b.id
        PROVE  a.status = b.status
    <3>1. CASE a = m \/ b = m
      BY <1>8, <1>14, <2>1, <2>3, <2>6, <3>1
    <3>2. CASE a # m /\ b # m
      <4>1. Has(s, r, a) /\ Has(s, v, b)
        BY <1>14, <2>1, <2>6, <3>2
      <4>2. Agree(s)
        BY <2>2 DEF MessagesOK
      <4>3. QED  BY <2>6, <4>1, <4>2 DEF Agree
    <3>3. QED  BY <3>1, <3>2
  <2>7. Agree(t)
    BY <2>6 DEF Agree
  <2>8. QED  BY <2>5, <2>7 DEF MessagesOK
<1>24. UnreadOK(t)'
  BY <1>7, <1>13, <1>15, <1>22, UnreadStep
<1>25. online' \subseteq {r \in Peers : contacts'[r] # NoContact}
  BY <1>4, StoreFacts
<1>26. QED  BY <1>4, <1>6, <1>13, <1>20, <1>21, <1>22, <1>23, <1>24, <1>25, ChangeStep

-----------------------------------------------------------------------------
(* Events applied.                                                         *)

\* What _drain starts from: the event is well formed and says what is so.
LEMMA DrainFacts ==
  ASSUME ChatInv, NEW kinds, Drained(kinds)
  PROVE  /\ events # <<>> /\ events' = Tail(events) /\ Head(events).kind \in kinds
         /\ Head(events) \in Event /\ EventOK(Head(events))
<1>1. events \in Seq(Event) /\ \A i \in DOMAIN events : EventOK(events[i])
  BY DEF ChatInv, EventsOK
<1>2. events # <<>> /\ events' = Tail(events) /\ Head(events).kind \in kinds
  BY DEF Drained, TakeEvent
<1>3. Head(events) \in Event /\ 1 \in DOMAIN events /\ Head(events) = events[1]
  BY <1>1, <1>2, WaitingTake
<1>4. EventOK(events[1])
  BY <1>1, <1>3
<1>5. PICK e : e = events[1]
  OBVIOUS
<1>6. EventOK(e) /\ e = Head(events)
  BY <1>3, <1>4, <1>5
<1>7. QED  BY <1>2, <1>3, <1>6

\* markSent and markFailed: a failure is reported of a message that was never
\* written, and one that no longer waits to be.
LEMMA DrainStatusKeeps ==
  ASSUME ChatInv, DrainStatus
  PROVE  ChatInv'
<1>1. PICK e, c, s, t : e = Head(events) /\ c = contacts /\ s = chats /\ t = chats'
  OBVIOUS
<1>2. PICK status : status = IF e.kind = "sent" THEN "sent" ELSE "failed"
  OBVIOUS
<1>3. /\ Drained({"sent", "sendFailed"}) /\ t = Restated(s, e.id, {}, status)
      /\ IF Present(s, e.id) THEN Notify ELSE UNCHANGED timer
      /\ UNCHANGED <<contacts, online, mode, disk, tried, next, owner, out, wrote, acked, readBy, came>>
  BY <1>1, <1>2 DEF DrainStatus, SetStatus
<1>4. /\ events # <<>> /\ events' = Tail(events) /\ e.kind \in {"sent", "sendFailed"}
      /\ EventOK(e)
  BY <1>1, <1>3, DrainFacts
<1>5. StoredOK(c, s) /\ MessagesOK(s) /\ next \in Nat /\ status \in Statuses
  BY <1>1, <1>2, StoreFacts DEF Statuses
<1>6. /\ StoredOK(c, t) /\ DOMAIN t = DOMAIN s
      /\ \A j \in DOMAIN s : t[j].unread = s[j].unread
      /\ ~Present(s, e.id) => t = s
  BY <1>3, <1>5, RestatedIs
<1>7. (status = "delivered" => e.id = 0 \/ e.id \in wrote)
      /\ (status = "failed" => e.id \notin wrote /\ out[e.id] # "queued")
  BY <1>2, <1>4 DEF EventOK
<1>8. MessagesOK(t)
  BY <1>3, <1>5, <1>7, RestatedMessages
<1>9. Notify \/ UNCHANGED <<timer, contacts, chats>>
  BY <1>1, <1>3, <1>6
<1>10. online' \subseteq {q \in Peers : contacts'[q] # NoContact}
  BY <1>3, StoreFacts
<1>11. \A j \in DOMAIN t : t[j].unread = 0 \/ \E k \in DOMAIN chats : t[j].unread = chats[k].unread
  BY <1>1, <1>6
<1>12. StoredOK(contacts', t)
  BY <1>1, <1>3, <1>6
<1>13. QED  BY <1>1, <1>3, <1>4, <1>8, <1>9, <1>10, <1>11, <1>12, StoreStep

\* markDelivered and markReadByPeer.
LEMMA DrainReceiptKeeps ==
  ASSUME ChatInv, DrainReceipt
  PROVE  ChatInv'
<1>1. PICK e, c, s, t : e = Head(events) /\ c = contacts /\ s = chats /\ t = chats'
  OBVIOUS
<1>2. /\ Drained({"DELIVERED", "READ"})
      /\ t = IF e.kind = "DELIVERED" THEN Restated(s, e.id, {"read"}, "delivered")
             ELSE MarkReadByPeer(s, e.peer)
      /\ IF t # s THEN Notify ELSE UNCHANGED timer
      /\ UNCHANGED <<contacts, online, mode, disk, tried, next, owner, out, wrote, acked, readBy, came>>
  BY <1>1 DEF DrainReceipt, MarkDelivered
<1>3. events # <<>> /\ events' = Tail(events) /\ EventOK(e)
  BY <1>1, <1>2, DrainFacts
<1>4. StoredOK(c, s) /\ MessagesOK(s) /\ next \in Nat /\ "delivered" \in Statuses
  BY <1>1, StoreFacts DEF Statuses
<1>5. StoredOK(c, t) /\ DOMAIN t = DOMAIN s /\ (\A j \in DOMAIN s : t[j].unread = s[j].unread)
      /\ MessagesOK(t)
  <2>1. CASE e.kind = "DELIVERED"
    <3>1. t = Restated(s, e.id, {"read"}, "delivered") /\ (e.id = 0 \/ e.id \in wrote)
      BY <1>2, <1>3, <2>1 DEF EventOK
    <3>2. StoredOK(c, t) /\ DOMAIN t = DOMAIN s /\ \A j \in DOMAIN s : t[j].unread = s[j].unread
      BY <1>4, <3>1, RestatedIs
    <3>3. MessagesOK(t)
      <4>1. "delivered" # "failed"
        OBVIOUS
      <4>2. QED  BY <1>4, <3>1, <4>1, RestatedMessages
    <3>4. QED  BY <3>2, <3>3
  <2>2. CASE e.kind # "DELIVERED"
    <3>1. t = MarkReadByPeer(s, e.peer)
      BY <1>2, <2>2
    <3>2. StoredOK(c, t) /\ DOMAIN t = DOMAIN s /\ \A j \in DOMAIN s : t[j].unread = s[j].unread
      BY <1>4, <3>1, MarkReadIs
    <3>3. MessagesOK(t)
      BY <1>4, <3>1, ReadMessages
    <3>4. QED  BY <3>2, <3>3
  <2>3. QED  BY <2>1, <2>2
<1>6. Notify \/ UNCHANGED <<timer, contacts, chats>>
  BY <1>1, <1>2
<1>7. online' \subseteq {q \in Peers : contacts'[q] # NoContact}
  BY <1>2, StoreFacts
<1>8. \A j \in DOMAIN t : t[j].unread = 0 \/ \E k \in DOMAIN chats : t[j].unread = chats[k].unread
  BY <1>1, <1>5
<1>9. StoredOK(contacts', t)
  BY <1>1, <1>2, <1>5
<1>10. QED  BY <1>1, <1>2, <1>3, <1>5, <1>6, <1>7, <1>8, <1>9, StoreStep

\* Presence is shown of known contacts only.
LEMMA DrainPresenceKeeps ==
  ASSUME ChatInv, DrainPresence
  PROVE  ChatInv'
<1>1. PICK e, t : e = Head(events) /\ t = chats
  OBVIOUS
<1>2. /\ Drained({"online", "offline"})
      /\ online' = IF contacts[e.peer] = NoContact THEN online
                   ELSE IF e.kind = "online" THEN online \cup {e.peer} ELSE online \ {e.peer}
      /\ Notify \/ UNCHANGED <<timer>>
      /\ UNCHANGED <<contacts, chats, mode, disk, tried, next, owner, out, wrote, acked, readBy, came>>
  BY <1>1 DEF DrainPresence, Known
<1>3. /\ events # <<>> /\ events' = Tail(events) /\ e.kind \in {"online", "offline"}
      /\ e \in Event
  BY <1>1, <1>2, DrainFacts
<1>4. e.peer \in Peers
  BY <1>3 DEF Event
<1>5. online' \subseteq {q \in Peers : contacts'[q] # NoContact}
  BY <1>2, <1>4, StoreFacts
<1>6. StoredOK(contacts', t) /\ MessagesOK(t) /\ t = chats'
      /\ \A j \in DOMAIN t : t[j].unread = 0 \/ \E k \in DOMAIN chats : t[j].unread = chats[k].unread
  BY <1>1, <1>2, StoreFacts
<1>7. Notify \/ UNCHANGED <<timer, contacts, chats>>
  BY <1>2
<1>8. QED  BY <1>2, <1>3, <1>5, <1>6, <1>7, StoreStep

\* receiveFromPeer: the message is counted as unread when it leaves the queue.
LEMMA DrainMessageKeeps ==
  ASSUME ChatInv, DrainMessage
  PROVE  ChatInv'
<1>1. PICK p, d, s, m : /\ p = Head(events).peer /\ d = Added(contacts, p, TRUE)
                        /\ s = Opened(chats, p) /\ m = [id |-> 0, mine |-> FALSE, status |-> "sent"]
  OBVIOUS
<1>2. PICK q, h, t : /\ q = Append(s[1].msgs, m)
                     /\ h = [s[1] EXCEPT !.msgs = q, !.unread = @ + 1] /\ t = Replaced(s, 1, h)
  OBVIOUS
<1>3. /\ Drained({"message"}) /\ contacts' = d
      /\ chats' = [s EXCEPT ![1].msgs = Append(@, m), ![1].unread = @ + 1]
      /\ Notify
      /\ UNCHANGED <<online, mode, disk, tried, next, owner, out, wrote, acked, readBy, came>>
  BY <1>1 DEF DrainMessage
<1>4. /\ events # <<>> /\ events' = Tail(events) /\ Head(events).kind = "message"
      /\ Head(events) \in Event
  BY <1>3, DrainFacts
<1>5. p \in Peers
  BY <1>1, <1>4 DEF Event
<1>6. StoredOK(d, chats) /\ d[p] # NoContact /\ \A r \in Peers : contacts[r] # NoContact => d[r] # NoContact
  <2>1. PICK c, u : c = contacts /\ u = chats
    OBVIOUS
  <2>2. StoredOK(c, u) /\ d = Added(c, p, TRUE) /\ TRUE \in BOOLEAN
    BY <1>1, <2>1, StoreFacts
  <2>3. StoredOK(d, u) /\ d[p] # NoContact /\ \A r \in Peers : c[r] # NoContact => d[r] # NoContact
    BY <1>5, <2>2, AddedIs
  <2>4. QED  BY <2>1, <2>3
<1>7. /\ StoredOK(d, s) /\ 1 \in DOMAIN s /\ s[1].peer = p
      /\ \A r, n : Has(s, r, n) => Has(chats, r, n)
      /\ \A j \in DOMAIN s : s[j].unread = 0 \/ \E k \in DOMAIN chats : s[j] = chats[k]
  <2>1. PICK u : u = chats
    OBVIOUS
  <2>2. StoredOK(d, u) /\ s = Opened(u, p)
    BY <1>1, <1>6, <2>1
  <2>3. /\ StoredOK(d, s) /\ 1 \in DOMAIN s /\ s[1].peer = p
        /\ \A r, n : Has(s, r, n) => Has(u, r, n)
        /\ \A j \in DOMAIN s : s[j].unread = 0 \/ \E k \in DOMAIN u : s[j] = u[k]
    BY <1>5, <1>6, <2>2, OpenedIs
  <2>4. QED  BY <2>1, <2>3
<1>8. s \in Seq(Chat) /\ s[1] \in Chat /\ \A j \in DOMAIN s : s[j] \in Chat
  <2>1. s \in Seq(Chat)
    BY <1>7 DEF StoredOK
  <2>2. QED  BY <1>7, <2>1
<1>9. \A j \in DOMAIN s : s[j].unread \in Nat
  BY <1>8 DEF Chat
<1>10. m \in Msg /\ ~m.mine
  BY <1>1 DEF Msg, Statuses
<1>11. s[1].msgs \in Seq(Msg)
  BY <1>8 DEF Chat
<1>12. q \in Seq(Msg) /\ \A k \in DOMAIN q : q[k] = m \/ \E l \in DOMAIN s[1].msgs : q[k] = s[1].msgs[l]
  BY <1>2, <1>10, <1>11, AppendIs
<1>13. h \in Chat /\ h.peer = p /\ h.msgs = q /\ h.unread = s[1].unread + 1
  <2>1. PICK g : g = s[1]
    OBVIOUS
  <2>2. g \in Chat /\ g.peer = p /\ q \in Seq(Msg) /\ h = [g EXCEPT !.msgs = q, !.unread = g.unread + 1]
    BY <1>2, <1>7, <1>8, <1>12, <2>1
  <2>3. g.unread + 1 \in Nat
    BY <2>2 DEF Chat
  <2>4. h \in Chat /\ h.peer = p /\ h.msgs = q /\ h.unread = g.unread + 1
    BY <2>2, <2>3 DEF Chat
  <2>5. QED  BY <2>1, <2>4
<1>14. t = chats'
  BY <1>2, <1>3, <1>7, <1>8 DEF Replaced, Chat
<1>15. /\ StoredOK(d, t) /\ DOMAIN t = DOMAIN s
       /\ t[1] = h /\ \A k \in DOMAIN s : k # 1 => t[k] = s[k]
       /\ \A r, n : Has(t, r, n) => Has(s, r, n) \/ (r = h.peer /\ \E k \in DOMAIN h.msgs : h.msgs[k] = n)
  <2>1. StoredOK(d, s) /\ 1 \in DOMAIN s /\ h \in Chat /\ h.peer = s[1].peer /\ t = Replaced(s, 1, h)
    BY <1>2, <1>7, <1>13
  <2>2. QED  BY <2>1, OneReplaced
<1>16. \A r, n : Has(t, r, n) => Has(chats, r, n) \/ n = m
  <2>1. ASSUME NEW l \in DOMAIN h.msgs PROVE h.msgs[l] = m \/ Has(s, p, h.msgs[l])
    BY <1>7, <1>12, <1>13 DEF Has
  <2>2. QED  BY <1>7, <1>13, <1>15, <2>1
<1>17. RuntimeOK' /\ EventsOK' /\ Evolves /\ Fewer /\ next \in Nat /\ next' \in Nat
  BY <1>3, <1>4, TakeStep
<1>18. MessagesOK(t)
  <2>1. MessagesOK(chats)
    BY StoreFacts
  <2>2. \A r, n : Has(t, r, n) => MessageOK(r, n)
    BY <1>10, <1>16, <2>1 DEF MessagesOK, MessageOK
  <2>3. ASSUME NEW r, NEW v, NEW a, NEW b, Has(t, r, a), Has(t, v, b), a.mine, b.mine, a.id = b.id
        PROVE  a.status = b.status
    <3>1. Has(chats, r, a) /\ Has(chats, v, b)
      BY <1>10, <1>16, <2>3
    <3>2. Agree(chats)
      BY <2>1 DEF MessagesOK
    <3>3. QED  BY <2>3, <3>1, <3>2 DEF Agree
  <2>4. Agree(t)
    BY <2>3 DEF Agree
  <2>5. QED  BY <2>2, <2>4 DEF MessagesOK
<1>19. MessagesOK(t)'
  BY <1>17, <1>18, MessagesStep
<1>20. /\ Waiting(events) = Waiting(events') + 1 /\ Waiting(events') \in Nat /\ Waiting(events) \in Nat
       /\ Waiting(events) <= came /\ came \in Nat
  <2>1. events \in Seq(Event) /\ Waiting(events) <= came /\ came \in Nat
    BY ChatStoreAssumption DEF ChatInv, EventsOK
  <2>2. Waiting(events) = Waiting(events') + 1 /\ events' \in Seq(Event)
    BY <1>4, <2>1, WaitingTake
  <2>3. QED  BY <2>1, <2>2, InboundFinite
<1>21. \A j \in DOMAIN s : s[j].unread + Waiting(events) <= came
  BY <1>7, <1>20 DEF ChatInv, UnreadOK
<1>22. ASSUME NEW j \in DOMAIN t PROVE t[j].unread + Waiting(events') <= came'
  <2>1. t[j].unread = s[j].unread \/ t[j].unread = s[j].unread + 1
    BY <1>13, <1>15
  <2>2. s[j].unread + Waiting(events) <= came /\ s[j].unread \in Nat
    BY <1>9, <1>15, <1>21
  <2>3. came' = came
    BY <1>3
  <2>4. QED  BY <1>20, <2>1, <2>2, <2>3
<1>23. UnreadOK(t)'
  BY <1>22 DEF UnreadOK
<1>24. online' \subseteq {r \in Peers : contacts'[r] # NoContact}
  BY <1>3, <1>6, StoreFacts
<1>25. StoredOK(contacts', t)
  BY <1>3, <1>15
<1>26. QED  BY <1>3, <1>14, <1>17, <1>19, <1>23, <1>24, <1>25, ChangeStep

-----------------------------------------------------------------------------
(* The runtime's steps.                                                    *)

\* An event that says what is so may be pushed.
LEMMA PushStep ==
  ASSUME EventsOK, \A e : EventOK(e) => EventOK(e)', came' = came,
         NEW e \in Event, EventOK(e)', e.kind # "message", events' = Append(events, e)
  PROVE  EventsOK' /\ Fewer
<1>1. events \in Seq(Event) /\ came \in 0 .. MaxIn /\ Waiting(events) <= came
      /\ \A i \in DOMAIN events : EventOK(events[i])
  BY DEF EventsOK
<1>2. Waiting(events) \in Nat /\ came \in Nat
  BY <1>1, InboundFinite, ChatStoreAssumption
<1>3. /\ events' \in Seq(Event) /\ Waiting(events') = Waiting(events)
      /\ \A i \in DOMAIN events' : events'[i] = e \/ (i \in DOMAIN events /\ events'[i] = events[i])
  BY <1>1, WaitingPush
<1>4. \A i \in DOMAIN events' : EventOK(events[i])'
  BY <1>1, <1>3
<1>5. QED  BY <1>1, <1>2, <1>3, <1>4 DEF EventsOK, Fewer

\* The queue is as it was.
LEMMA SameEvents ==
  ASSUME EventsOK, \A e : EventOK(e) => EventOK(e)', came' = came, events' = events
  PROVE  EventsOK' /\ Fewer
<1>1. events \in Seq(Event) /\ came \in 0 .. MaxIn /\ Waiting(events) <= came
      /\ \A i \in DOMAIN events : EventOK(events[i])
  BY DEF EventsOK
<1>2. Waiting(events) \in Nat /\ came \in Nat
  BY <1>1, InboundFinite, ChatStoreAssumption
<1>3. \A i \in DOMAIN events' : EventOK(events[i])'
  BY <1>1
<1>4. QED  BY <1>1, <1>2, <1>3 DEF EventsOK, Fewer

\* A message that is written was queued, so no failure was reported of it.
LEMMA RtWriteKeeps ==
  ASSUME ChatInv, NEW i \in Ids, RtWrite(i)
  PROVE  ChatInv'
<1>1. /\ out[i] = "queued" /\ out' = [out EXCEPT ![i] = "written"] /\ wrote' = wrote \cup {i}
      /\ UNCHANGED <<contacts, chats, online, mode, timer, disk, tried, next, owner, acked, readBy, events, came>>
  BY DEF RtWrite, storeVars
<1>2. RuntimeOK /\ EventsOK /\ next \in Nat
  BY StoreFacts DEF ChatInv
<1>3. out \in [Ids -> Outs] /\ out'[i] = "written" /\ \A k \in Ids : k # i => out'[k] = out[k]
  BY <1>1, <1>2 DEF RuntimeOK
<1>4. \A k \in 1 .. next : k \in Ids
  BY <1>2, StoreFacts DEF RuntimeOK, Ids
<1>5. Evolves
  BY <1>1, <1>2, <1>3, <1>4 DEF Evolves
<1>6. RuntimeOK'
  <2>1. out' \in [Ids -> Outs]
    BY <1>1, <1>3 DEF Outs
  <2>2. wrote' \subseteq Ids /\ acked' \subseteq wrote' /\ readBy' \subseteq wrote'
    BY <1>1, <1>2 DEF RuntimeOK
  <2>3. \A k \in Ids : (out'[k] # "new" => k <= next') /\ (k \in wrote' => out'[k] \notin {"new", "queued"})
    BY <1>1, <1>2, <1>3 DEF RuntimeOK
  <2>4. QED  BY <1>1, <1>2, <2>1, <2>2, <2>3 DEF RuntimeOK
<1>7. \A e : EventOK(e) => EventOK(e)'
  BY <1>1, <1>3 DEF EventOK
<1>8. EventsOK' /\ Fewer
  BY <1>1, <1>2, <1>7, SameEvents
<1>9. QED  BY <1>1, <1>5, <1>6, <1>8, RuntimeKeeps

\* "sent" and "sendFailed" end a message; the second one that was not written.
LEMMA RtAnswerKeeps ==
  ASSUME ChatInv, NEW i \in Ids, RtSent(i) \/ RtFail(i)
  PROVE  ChatInv'
<1>1. PICK e : e = [kind |-> IF out[i] = "written" THEN "sent" ELSE "sendFailed", id |-> i]
  OBVIOUS
<1>2. /\ out[i] \in {"queued", "written"} /\ out' = [out EXCEPT ![i] = "answered"]
      /\ events' = Append(events, e)
      /\ UNCHANGED <<contacts, chats, online, mode, timer, tried, next, owner, wrote, acked, readBy, came>>
      /\ disk' \in {disk, tried}
  BY <1>1 DEF RtSent, RtFail, storeVars, Push, Persist
<1>3. RuntimeOK /\ EventsOK /\ next \in Nat
  BY StoreFacts DEF ChatInv
<1>4. out \in [Ids -> Outs] /\ out'[i] = "answered" /\ \A k \in Ids : k # i => out'[k] = out[k]
  BY <1>2, <1>3 DEF RuntimeOK
<1>5. \A k \in 1 .. next : k \in Ids
  BY <1>3, StoreFacts DEF RuntimeOK, Ids
<1>6. Evolves
  BY <1>2, <1>3, <1>4, <1>5 DEF Evolves
<1>7. RuntimeOK'
  <2>1. out' \in [Ids -> Outs]
    BY <1>2, <1>4 DEF Outs
  <2>2. \A k \in Ids : (out'[k] # "new" => k <= next') /\ (k \in wrote' => out'[k] \notin {"new", "queued"})
    BY <1>2, <1>3, <1>4 DEF RuntimeOK
  <2>3. QED  BY <1>2, <1>3, <2>1, <2>2 DEF RuntimeOK
<1>8. \A f : EventOK(f) => EventOK(f)'
  BY <1>2, <1>4 DEF EventOK
<1>9. e \in Event /\ e.kind # "message" /\ e.kind # "DELIVERED" /\ e.id = i
      /\ (e.kind = "sendFailed" => out[i] # "written")
  BY <1>1, StoreFacts DEF Event, Ids
<1>10. EventOK(e)'
  <2>1. e.kind = "sendFailed" => i \notin wrote
    BY <1>2, <1>3, <1>9 DEF RuntimeOK
  <2>2. QED  BY <1>2, <1>4, <1>9, <2>1 DEF EventOK
<1>11. EventsOK' /\ Fewer
  BY <1>2, <1>3, <1>8, <1>9, <1>10, PushStep
<1>12. QED  BY <1>2, <1>6, <1>7, <1>11, RuntimeKeeps

\* Receipts come of messages that were written.
LEMMA RtReceiptKeeps ==
  ASSUME ChatInv, NEW i \in Ids, RtDelivered(i) \/ RtRead(i)
  PROVE  ChatInv'
<1>1. /\ i \in wrote /\ acked' \subseteq acked \cup {i} /\ readBy' \subseteq readBy \cup {i}
      /\ UNCHANGED <<contacts, chats, online, mode, timer, disk, tried, next, owner, out, wrote, came>>
      /\ \/ \E n \in {0, i} : events' = Append(events, [kind |-> "DELIVERED", id |-> n])
         \/ events' = Append(events, [kind |-> "READ", peer |-> owner[i]])
  BY DEF RtDelivered, RtRead, storeVars, Push
<1>2. RuntimeOK /\ EventsOK /\ next \in Nat
  BY StoreFacts DEF ChatInv
<1>3. Evolves
  BY <1>1, <1>2 DEF Evolves
<1>4. RuntimeOK'
  BY <1>1, <1>2 DEF RuntimeOK
<1>5. \A f : EventOK(f) => EventOK(f)'
  BY <1>1 DEF EventOK
<1>6. PICK e : /\ events' = Append(events, e)
               /\ \/ \E n \in {0, i} : e = [kind |-> "DELIVERED", id |-> n]
                  \/ e = [kind |-> "READ", peer |-> owner[i]]
  BY <1>1
<1>7. owner[i] \in Peers /\ i \in Nat
  BY <1>1, <1>2, StoreFacts DEF RuntimeOK, Ids
<1>8. e \in Event /\ e.kind \in {"DELIVERED", "READ"}
  BY <1>6, <1>7 DEF Event
<1>9. EventOK(e)'
  BY <1>1, <1>6 DEF EventOK
<1>10. EventsOK' /\ Fewer
  BY <1>1, <1>2, <1>5, <1>6, <1>8, <1>9, PushStep
<1>11. QED  BY <1>1, <1>3, <1>4, <1>10, RuntimeKeeps

\* A message that comes waits in the queue.
LEMMA RtMessageKeeps ==
  ASSUME ChatInv, NEW p \in Peers, RtMessage(p)
  PROVE  ChatInv'
<1>1. PICK k \in {"online", "offline"} :
        events' = events \o <<[kind |-> k, peer |-> p], [kind |-> "message", peer |-> p]>>
  BY DEF RtMessage
<1>2. /\ came < MaxIn /\ came' = came + 1
      /\ UNCHANGED <<contacts, chats, online, mode, timer, tried, next, owner, out, wrote, acked, readBy>>
      /\ disk' \in {disk, tried}
  BY DEF RtMessage, storeVars
<1>3. RuntimeOK /\ EventsOK /\ next \in Nat
  BY StoreFacts DEF ChatInv
<1>4. events \in Seq(Event) /\ came \in 0 .. MaxIn /\ Waiting(events) <= came
      /\ \A i \in DOMAIN events : EventOK(events[i])
  BY <1>3 DEF EventsOK
<1>5. Waiting(events) \in Nat /\ came \in Nat /\ MaxIn \in Nat
  BY <1>4, InboundFinite, ChatStoreAssumption
<1>6. PICK a, b, q : /\ a = [kind |-> k, peer |-> p] /\ b = [kind |-> "message", peer |-> p]
                     /\ q = Append(events, a)
  OBVIOUS
<1>7. a \in Event /\ b \in Event /\ a.kind \in {"online", "offline"} /\ b.kind = "message"
  BY <1>1, <1>6 DEF Event
<1>8. events' = Append(q, b)
  BY <1>1, <1>4, <1>6, <1>7
<1>9. /\ q \in Seq(Event) /\ Waiting(q) = Waiting(events)
      /\ \A i \in DOMAIN q : q[i] = a \/ (i \in DOMAIN events /\ q[i] = events[i])
  BY <1>4, <1>6, <1>7, WaitingPush
<1>10. /\ events' \in Seq(Event) /\ Waiting(events') = Waiting(q) + 1
       /\ \A i \in DOMAIN events' : events'[i] = b \/ (i \in DOMAIN q /\ events'[i] = q[i])
  BY <1>7, <1>8, <1>9, WaitingPush
<1>11. \A i \in DOMAIN events' : events'[i] = a \/ events'[i] = b \/ (i \in DOMAIN events /\ events'[i] = events[i])
  BY <1>9, <1>10
<1>12. (\A f : EventOK(f) => EventOK(f)') /\ EventOK(a)' /\ EventOK(b)'
  BY <1>2, <1>7 DEF EventOK
<1>13. \A i \in DOMAIN events' : EventOK(events[i])'
  BY <1>4, <1>11, <1>12
<1>14. EventsOK' /\ Fewer
  BY <1>2, <1>4, <1>5, <1>9, <1>10, <1>13 DEF EventsOK, Fewer
<1>15. Evolves
  BY <1>2, <1>3 DEF Evolves
<1>16. RuntimeOK'
  BY <1>2, <1>3 DEF RuntimeOK
<1>17. QED  BY <1>2, <1>14, <1>15, <1>16, RuntimeKeeps

-----------------------------------------------------------------------------
(* The life of the application.                                            *)

\* A store without conversations.
LEMMA EmptyStore ==
  /\ StoredOK([p \in Peers |-> NoContact], <<>>)
  /\ MessagesOK(<<>>) /\ UnreadOK(<<>>) /\ MessagesOK(<<>>)' /\ UnreadOK(<<>>)'
<1>1. <<>> \in Seq(Chat) /\ DOMAIN <<>> = {}
  OBVIOUS
<1>2. StoredOK([p \in Peers |-> NoContact], <<>>)
  BY <1>1 DEF StoredOK, Distinct
<1>3. \A p, m : ~Has(<<>>, p, m)
  BY <1>1 DEF Has
<1>4. Agree(<<>>)
  BY <1>3 DEF Agree
<1>5. MessagesOK(<<>>) /\ MessagesOK(<<>>)'
  BY <1>3, <1>4 DEF MessagesOK
<1>6. UnreadOK(<<>>) /\ UnreadOK(<<>>)'
  BY <1>1 DEF UnreadOK
<1>7. QED  BY <1>2, <1>5, <1>6

\* _saveNow.
LEMMA SaveNowKeeps ==
  ASSUME ChatInv, SaveNow
  PROVE  ChatInv'
<1>1. /\ tried' = [contacts |-> contacts, chats |-> chats] /\ timer' = FALSE
      /\ disk' \in {disk, [contacts |-> contacts, chats |-> chats]}
      /\ UNCHANGED <<contacts, chats, online, mode, next, owner, out, wrote, acked, readBy, events, came>>
  BY DEF SaveNow, Snapshot, storeVars, runtimeVars
<1>2. /\ StoredOK(contacts, chats) /\ MessagesOK(chats) /\ UnreadOK(chats)
      /\ RuntimeOK /\ EventsOK /\ ServiceOK
  BY DEF ChatInv
<1>3. RuntimeOK' /\ EventsOK' /\ Evolves /\ Fewer /\ next \in Nat /\ next' \in Nat
  BY <1>1, TakeStep
<1>4. PICK c, s : c = contacts /\ s = chats
  OBVIOUS
<1>5. StoredOK(c, s) /\ MessagesOK(s)' /\ UnreadOK(s)'
  <2>1. StoredOK(c, s) /\ MessagesOK(s) /\ UnreadOK(s)
    BY <1>2, <1>4
  <2>2. MessagesOK(s)'
    BY <1>3, <2>1, MessagesStep
  <2>3. UnreadOK(s)'
    BY <1>2, <1>3, <2>1, UnreadStep
  <2>4. QED  BY <2>1, <2>2, <2>3
<1>6. c = contacts' /\ s = chats'
  BY <1>1, <1>4
<1>7. ServiceOK' /\ DirtyIsScheduled'
  BY <1>1, <1>2 DEF ServiceOK, Known, DirtyIsScheduled, Snapshot
<1>8. StoredOK(contacts, chats)' /\ MessagesOK(chats)' /\ UnreadOK(chats)'
  BY <1>5, <1>6
<1>9. SavedOK(disk)' /\ SavedOK(tried)'
  <2>1. PICK d, e : d = disk /\ e = [contacts |-> c, chats |-> s]
    OBVIOUS
  <2>2. SavedOK(d)'
    <3>1. SavedOK(d)
      BY <2>1 DEF ChatInv
    <3>2. QED  BY <1>2, <1>3, <3>1, SavedStep
  <2>3. SavedOK(e)'
    <3>1. e.contacts = c /\ e.chats = s
      BY <2>1
    <3>2. QED  BY <1>5, <2>1, <3>1 DEF SavedOK
  <2>4. disk' \in {d, e} /\ tried' = e
    BY <1>1, <1>4, <2>1
  <2>5. QED  BY <2>2, <2>3, <2>4
<1>10. QED  BY <1>3, <1>7, <1>8, <1>9 DEF ChatInv

\* bootstrap: what is on disk is what is shown.
LEMMA BootstrapKeeps ==
  ASSUME ChatInv, Bootstrap
  PROVE  ChatInv'
<1>1. /\ \/ mode' = "live" /\ contacts' = disk.contacts /\ chats' = disk.chats
         \/ mode' = "degraded" /\ contacts' = [p \in Peers |-> NoContact] /\ chats' = <<>>
      /\ online' = {}
      /\ tried' = disk
      /\ UNCHANGED <<timer, disk, next, owner, out, wrote, acked, readBy, events, came>>
  BY DEF Bootstrap, runtimeVars
<1>2. RuntimeOK' /\ EventsOK' /\ Evolves /\ Fewer
  BY <1>1, TakeStep
<1>3. SavedOK(disk)' /\ SavedOK(tried)'
  BY <1>1, <1>2, DiskStep
<1>4. StoredOK(contacts, chats)' /\ MessagesOK(chats)' /\ UnreadOK(chats)'
  <2>1. PICK c, s : c = contacts' /\ s = chats'
    OBVIOUS
  <2>2. StoredOK(c, s) /\ MessagesOK(s)' /\ UnreadOK(s)'
    <3>1. CASE c = disk'.contacts /\ s = disk'.chats
      BY <1>3, <3>1 DEF SavedOK
    <3>2. CASE c = [p \in Peers |-> NoContact] /\ s = <<>>
      BY <3>2, EmptyStore
    <3>3. QED  BY <1>1, <2>1, <3>1, <3>2
  <2>3. QED  BY <2>1, <2>2
<1>5. ServiceOK /\ disk = [contacts |-> disk.contacts, chats |-> disk.chats] /\ timer \in BOOLEAN
  BY DEF ChatInv, ServiceOK, SavedOK
<1>6. ServiceOK'
  BY <1>1, <1>5 DEF ServiceOK
<1>7. DirtyIsScheduled'
  BY <1>1, <1>5 DEF DirtyIsScheduled, Snapshot
<1>8. QED  BY <1>2, <1>3, <1>4, <1>6, <1>7 DEF ChatInv

\* The onboarding screen's start.
LEMMA OnboardingKeeps ==
  ASSUME ChatInv, OnboardingStart
  PROVE  ChatInv'
<1>1. /\ mode' = "unsaved"
      /\ UNCHANGED <<contacts, chats, online, timer, disk, tried, next, owner, out, wrote, acked, readBy,
                     events, came>>
  BY DEF OnboardingStart, storeVars, runtimeVars
<1>2. RuntimeOK' /\ EventsOK' /\ Evolves /\ Fewer /\ next \in Nat /\ next' \in Nat
  BY <1>1, TakeStep
<1>3. SavedOK(disk)' /\ SavedOK(tried)'
  BY <1>1, <1>2, DiskStep
<1>4. PICK c, s : c = contacts /\ s = chats
  OBVIOUS
<1>5. StoredOK(c, s) /\ MessagesOK(s) /\ UnreadOK(s) /\ EventsOK /\ ServiceOK
  BY <1>4 DEF ChatInv
<1>6. MessagesOK(s)' /\ UnreadOK(s)'
  BY <1>2, <1>5, MessagesStep, UnreadStep
<1>7. StoredOK(contacts, chats)' /\ MessagesOK(chats)' /\ UnreadOK(chats)'
  <2>1. c = contacts' /\ s = chats'
    BY <1>1, <1>4
  <2>2. QED  BY <1>5, <1>6, <2>1
<1>8. ServiceOK' /\ DirtyIsScheduled'
  BY <1>1, <1>5 DEF ServiceOK, Known, DirtyIsScheduled
<1>9. QED  BY <1>2, <1>3, <1>7, <1>8 DEF ChatInv

\* The process ends.
LEMMA KillKeeps ==
  ASSUME ChatInv, Kill
  PROVE  ChatInv'
<1>1. /\ mode' = "down" /\ timer' = FALSE
      /\ contacts' = [p \in Peers |-> NoContact] /\ chats' = <<>> /\ online' = {}
      /\ out' = [i \in Ids |-> IF out[i] \in {"queued", "written"} THEN "lost" ELSE out[i]]
      /\ events' = <<>>
      /\ UNCHANGED <<disk, tried, next, owner, wrote, acked, readBy, came>>
  BY DEF Kill
<1>2. RuntimeOK /\ EventsOK /\ ServiceOK /\ next \in Nat
  BY StoreFacts DEF ChatInv
<1>3. \A k \in Ids : out'[k] = IF out[k] \in {"queued", "written"} THEN "lost" ELSE out[k]
  BY <1>1
<1>4. RuntimeOK'
  <2>1. out' \in [Ids -> Outs]
    BY <1>1, <1>2 DEF RuntimeOK, Outs
  <2>2. \A k \in Ids : (out'[k] # "new" => k <= next') /\ (k \in wrote' => out'[k] \notin {"new", "queued"})
    BY <1>1, <1>2, <1>3 DEF RuntimeOK
  <2>3. QED  BY <1>1, <1>2, <2>1, <2>2 DEF RuntimeOK
<1>5. \A k \in 1 .. next : k \in Ids
  BY <1>2, StoreFacts DEF RuntimeOK, Ids
<1>6. Evolves
  BY <1>1, <1>2, <1>3, <1>5 DEF Evolves
<1>7. EventsOK' /\ Fewer
  <2>1. events \in Seq(Event) /\ came \in 0 .. MaxIn
    BY <1>2 DEF EventsOK
  <2>2. Waiting(events) \in Nat /\ came \in Nat /\ Waiting(events') = 0
    BY <1>1, <2>1, InboundFinite, WaitingNone, ChatStoreAssumption
  <2>3. events' \in Seq(Event) /\ DOMAIN events' = {}
    BY <1>1
  <2>4. QED  BY <1>1, <2>1, <2>2, <2>3 DEF EventsOK, Fewer
<1>8. SavedOK(disk)' /\ SavedOK(tried)'
  BY <1>1, <1>4, <1>6, <1>7, DiskStep
<1>9. StoredOK(contacts, chats)' /\ MessagesOK(chats)' /\ UnreadOK(chats)'
  BY <1>1, EmptyStore
<1>10. ServiceOK' /\ DirtyIsScheduled'
  BY <1>1, <1>2 DEF ServiceOK, DirtyIsScheduled
<1>11. QED  BY <1>4, <1>7, <1>8, <1>9, <1>10 DEF ChatInv

-----------------------------------------------------------------------------
(* Theorems.                                                               *)

\* The application starts with an empty store and an empty disk.
LEMMA ChatInit == Init => ChatInv
<1> SUFFICES ASSUME Init PROVE ChatInv
  OBVIOUS
<1>1. PICK c : c = [p \in Peers |-> NoContact]
  OBVIOUS
<1>2. contacts = c /\ chats = <<>> /\ disk = [contacts |-> c, chats |-> <<>>]
      /\ disk.contacts = c /\ disk.chats = <<>> /\ tried = disk
  BY <1>1 DEF Init, Snapshot
<1>3. StoredOK(c, <<>>) /\ MessagesOK(<<>>) /\ UnreadOK(<<>>)
  BY <1>1, EmptyStore
<1>4. RuntimeOK
  BY ChatStoreAssumption DEF Init, RuntimeOK, Outs, Ids
<1>5. EventsOK
  <2>1. events \in Seq(Event) /\ DOMAIN events = {} /\ Waiting(events) = 0 /\ came = 0
    BY WaitingNone DEF Init
  <2>2. QED  BY <2>1, ChatStoreAssumption DEF EventsOK
<1>6. ServiceOK
  BY <1>2 DEF Init, ServiceOK
<1>7. DirtyIsScheduled
  BY DEF Init, DirtyIsScheduled
<1>8. SavedOK(disk) /\ SavedOK(tried)
  BY <1>2, <1>3 DEF SavedOK
<1>9. QED  BY <1>2, <1>3, <1>4, <1>5, <1>6, <1>7, <1>8 DEF ChatInv

\* Every step keeps ChatInv.
LEMMA ChatStep == ChatInv /\ [Next]_vars => ChatInv'
<1> SUFFICES ASSUME ChatInv, [Next]_vars PROVE ChatInv'
  OBVIOUS
<1>1. CASE UserStep
  <2>1. ASSUME NEW p \in Peers, AddContact(p) PROVE ChatInv'
    BY <2>1, AddContactKeeps
  <2>2. ASSUME NEW p \in Peers, DeleteContact(p) PROVE ChatInv'
    BY <2>2, DeleteContactKeeps
  <2>3. ASSUME NEW p \in Peers, StartChatWith(p) PROVE ChatInv'
    BY <2>3, StartChatKeeps
  <2>4. ASSUME NEW p \in Peers, NEW f \in Flags, Toggle(p, f) PROVE ChatInv'
    BY <2>4, ToggleKeeps
  <2>5. ASSUME NEW j \in DOMAIN chats, DeleteChat(j) PROVE ChatInv'
    BY <2>5, DeleteChatKeeps
  <2>6. ASSUME NEW j \in DOMAIN chats, MarkRead(j) PROVE ChatInv'
    BY <2>6, MarkReadKeeps
  <2>7. ASSUME NEW j \in DOMAIN chats, NEW file \in BOOLEAN, Send(j, file) PROVE ChatInv'
    BY <2>7, SendKeeps
  <2>8. ASSUME NEW j \in DOMAIN chats, NEW k \in DOMAIN chats[j].msgs, DeleteMessage(j, k)
        PROVE  ChatInv'
    BY <2>8, DeleteMessageKeeps
  <2>9. QED  BY <1>1, <2>1, <2>2, <2>3, <2>4, <2>5, <2>6, <2>7, <2>8 DEF UserStep
<1>2. CASE Drain
  BY <1>2, DrainStatusKeeps, DrainReceiptKeeps, DrainPresenceKeeps, DrainMessageKeeps DEF Drain
<1>3. CASE SaveNow \/ Bootstrap \/ OnboardingStart \/ Kill
  BY <1>3, SaveNowKeeps, BootstrapKeeps, OnboardingKeeps, KillKeeps
<1>4. ASSUME NEW i \in Ids, RuntimeStep(i) \/ RtDelivered(i) \/ RtRead(i) PROVE ChatInv'
  BY <1>4, RtWriteKeeps, RtAnswerKeeps, RtReceiptKeeps DEF RuntimeStep
<1>5. ASSUME NEW p \in Peers, RtMessage(p) PROVE ChatInv'
  BY <1>5, RtMessageKeeps
<1>6. CASE SetSettings \/ UNCHANGED vars
  <2>1. /\ UNCHANGED <<contacts, chats, online, mode, timer, tried, next, owner, out, wrote, acked,
                       readBy, events, came>>
        /\ disk' \in {disk, tried}
    BY <1>6 DEF SetSettings, Persist, vars, storeVars, runtimeVars
  <2>2. RuntimeOK' /\ EventsOK' /\ Evolves /\ Fewer
    BY <2>1, TakeStep
  <2>3. QED  BY <2>1, <2>2, RuntimeKeeps
<1>7. QED  BY <1>1, <1>2, <1>3, <1>4, <1>5, <1>6 DEF Next

\* The store, what is saved of it and the runtime's answers stay consistent,
\* whatever the user does while events are queued and whenever the process ends.
THEOREM ChatInvariance == Spec => []ChatInv
<1>1. Init => ChatInv
  BY ChatInit
<1>2. ChatInv /\ [Next]_vars => ChatInv'
  BY ChatStep
<1>3. QED  BY <1>1, <1>2, PTL DEF Spec

\* A message shown is a message of a conversation.
LEMMA MineHas ==
  ASSUME NEW s, NEW m \in Mine(s)
  PROVE  m.mine /\ \E p : Has(s, p, m)
<1>1. PICK j \in DOMAIN s : m \in {s[j].msgs[k] : k \in DOMAIN s[j].msgs}
  BY DEF Mine, Messages
<1>2. Has(s, s[j].peer, m)
  BY <1>1 DEF Has
<1>3. QED  BY <1>2 DEF Mine

\* A message of a stored conversation is one.
LEMMA StoredMsg ==
  ASSUME NEW c, NEW s, StoredOK(c, s), NEW p, NEW m, Has(s, p, m)
  PROVE  m \in Msg
<1>1. s \in Seq(Chat)
  BY DEF StoredOK
<1>2. \A j \in DOMAIN s : s[j] \in Chat
  BY <1>1
<1>3. \A h \in Chat : h.msgs \in Seq(Msg)
  BY DEF Chat
<1>4. PICK j \in DOMAIN s : \E k \in DOMAIN s[j].msgs : s[j].msgs[k] = m
  BY DEF Has
<1>5. s[j].msgs \in Seq(Msg)
  BY <1>2, <1>3
<1>6. QED  BY <1>4, <1>5

\* Contacts, conversations and messages are well formed (TypeOK), for every
\* number of contacts, messages and restarts.
THEOREM ChatTypes == Spec => []TypeOK
<1>1. ChatInv => TypeOK
  <2> SUFFICES ASSUME ChatInv PROVE TypeOK
    OBVIOUS
  <2>1. /\ StoredOK(contacts, chats) /\ MessagesOK(chats) /\ UnreadOK(chats)
        /\ RuntimeOK /\ EventsOK /\ ServiceOK
    BY DEF ChatInv
  <2>2. \A p \in Peers : Known(p) => contacts[p] \in [code : BOOLEAN, flags : SUBSET Flags]
    BY <2>1 DEF StoredOK, Known, Contact
  <2>3. ASSUME NEW j \in DOMAIN chats
        PROVE  chats[j] \in [peer : Peers, msgs : Seq(Messages(chats)), unread : 0 .. MaxIn]
    <3>1. chats[j] \in Chat
      BY StoreFacts
    <3>2. chats[j].peer \in Peers /\ chats[j].msgs \in Seq(Msg) /\ chats[j].unread \in Nat
          /\ chats[j] = [peer |-> chats[j].peer, msgs |-> chats[j].msgs, unread |-> chats[j].unread]
      BY <3>1 DEF Chat
    <3>3. \A k \in DOMAIN chats[j].msgs : chats[j].msgs[k] \in Messages(chats)
      BY DEF Messages
    <3>4. chats[j].msgs \in Seq(Messages(chats))
      <4>1. PICK q, M : q = chats[j].msgs /\ M = Messages(chats)
        OBVIOUS
      <4>2. q \in Seq(Msg) /\ \A k \in DOMAIN q : q[k] \in M
        BY <3>2, <3>3, <4>1
      <4>3. Len(q) \in Nat /\ DOMAIN q = 1 .. Len(q) /\ q = [k \in 1 .. Len(q) |-> q[k]]
        BY <4>2
      <4>4. q \in Seq(M)
        BY <4>2, <4>3
      <4>5. QED  BY <4>1, <4>4
    <3>5. chats[j].unread \in 0 .. MaxIn
      <4>1. events \in Seq(Event) /\ came \in 0 .. MaxIn /\ MaxIn \in Nat
        BY <2>1, ChatStoreAssumption DEF EventsOK
      <4>2. Waiting(events) \in Nat
        BY <4>1, InboundFinite
      <4>3. chats[j].unread + Waiting(events) <= came
        BY <2>1 DEF UnreadOK
      <4>4. QED  BY <3>2, <4>1, <4>2, <4>3
    <3>6. QED  BY <3>2, <3>4, <3>5
  <2>4. ASSUME NEW m \in Mine(chats) PROVE m.id \in 1 .. next /\ m.status \in Statuses
    <3>1. m.mine /\ \E p : Has(chats, p, m)
      BY <2>4, MineHas
    <3>2. PICK p : Has(chats, p, m)
      BY <3>1
    <3>3. m \in Msg
      BY <2>1, <3>2, StoredMsg
    <3>4. MessageOK(p, m)
      BY <2>1, <3>2 DEF MessagesOK
    <3>5. QED  BY <3>1, <3>3, <3>4 DEF MessageOK, Msg
  <2>5. out \in [Ids -> Outs] /\ readBy \cup acked \subseteq wrote
    BY <2>1 DEF RuntimeOK
  <2>6. QED  BY <2>1, <2>2, <2>3, <2>4, <2>5 DEF TypeOK, ServiceOK, Outs
<1>2. QED  BY <1>1, ChatInvariance, PTL

\* Every contact has one conversation at most and every conversation has its
\* contact, in memory and on disk (OneChatPerContact).
THEOREM OneChat == Spec => []OneChatPerContact
<1>1. ChatInv => OneChatPerContact
  <2> SUFFICES ASSUME ChatInv PROVE OneChatPerContact
    OBVIOUS
  <2>1. StoredOK(contacts, chats) /\ StoredOK(disk.contacts, disk.chats)
    BY DEF ChatInv, SavedOK
  <2>2. ASSUME NEW c, NEW s, StoredOK(c, s)
        PROVE  /\ \A i, j \in DOMAIN s : s[i].peer = s[j].peer => i = j
               /\ \A i \in DOMAIN s : c[s[i].peer] # NoContact
    BY <2>2 DEF StoredOK, Distinct
  <2>3. QED  BY <2>1, <2>2 DEF OneChatPerContact
<1>2. QED  BY <1>1, ChatInvariance, PTL

\* No handler changes persistent state beyond what the last save was given
\* without a save being scheduled, whether saves fail or not (DirtyIsScheduled).
THEOREM DirtyScheduled == Spec => []DirtyIsScheduled
<1>1. ChatInv => DirtyIsScheduled
  BY DEF ChatInv
<1>2. QED  BY <1>1, ChatInvariance, PTL

\* A message shown as delivered was written to a link, and one shown as failed
\* never was, in memory and on disk (StatusTruthful).
THEOREM StatusIsTrue == Spec => []StatusTruthful
<1>1. ChatInv => StatusTruthful
  <2> SUFFICES ASSUME ChatInv PROVE StatusTruthful
    OBVIOUS
  <2>1. MessagesOK(chats) /\ MessagesOK(disk.chats)
    BY DEF ChatInv, SavedOK
  <2>2. ASSUME NEW s, MessagesOK(s), NEW m \in Mine(s)
        PROVE  (m.status = "delivered" => m.id \in wrote) /\ (m.status = "failed" => m.id \notin wrote)
    <3>1. m.mine /\ \E p : Has(s, p, m)
      BY <2>2, MineHas
    <3>2. QED  BY <2>2, <3>1 DEF MessagesOK, MessageOK
  <2>3. QED  BY <2>1, <2>2 DEF StatusTruthful
<1>2. QED  BY <1>1, ChatInvariance, PTL

\* An event queue is not its own tail, however it grows.
LEMMA TailShorter ==
  ASSUME NEW q \in Seq(Event), q # <<>>
  PROVE  /\ q # Tail(q) /\ \A e : Append(q, e) # Tail(q)
         /\ \A a, b : q \o <<a, b>> # Tail(q)
<1>1. Len(q) \in Nat /\ Len(Tail(q)) = Len(q) - 1
  OBVIOUS
<1>2. \A e : Len(Append(q, e)) = Len(q) + 1
  OBVIOUS
<1>3. \A a, b : Len(q \o <<a, b>>) = Len(q) + 2
  OBVIOUS
<1>4. PICK n, r : n = Len(q) /\ r = Tail(q)
  OBVIOUS
<1>5. n \in Nat /\ Len(r) = n - 1 /\ Len(q) # Len(r)
  <2>1. n \in Nat /\ Len(r) = n - 1 /\ Len(q) = n
    BY <1>1, <1>4, Zenon
  <2>2. n # n - 1
    BY <2>1
  <2>3. QED  BY <2>1, <2>2, Zenon
<1>6. \A e : Len(Append(q, e)) # Len(r)
  <2>1. ASSUME NEW e, NEW z, z = Append(q, e) PROVE Len(z) # Len(r)
    <3>1. Len(z) = n + 1
      BY <1>2, <1>4, <2>1
    <3>2. QED  BY <1>5, <3>1
  <2>2. QED  BY <2>1
<1>7. \A a, b : Len(q \o <<a, b>>) # Len(r)
  <2>1. ASSUME NEW a, NEW b, NEW z, z = q \o <<a, b>> PROVE Len(z) # Len(r)
    <3>1. Len(z) = n + 2
      BY <1>3, <1>4, <2>1
    <3>2. QED  BY <1>5, <3>1
  <2>2. QED  BY <2>1
<1>8. (\A e : Append(q, e) # r) /\ \A a, b : q \o <<a, b>> # r
  BY <1>6, <1>7, Zenon
<1>9. QED  BY <1>4, <1>5, <1>8

\* Ranks are ordered as the screens show them.
LEMMA RankIs ==
  /\ Rank("sending") = 0 /\ Rank("failed") = 0 /\ Rank("sent") = 1
  /\ Rank("delivered") = 2 /\ Rank("read") = 3
BY DEF Rank

\* Only a receipt applied, or the end of the process, takes a receipt away.
LEMMA ReceiptTaken ==
  ASSUME ChatInv, Next, events # <<>>, Head(events).kind \in {"DELIVERED", "READ"},
         events' = Tail(events)
  PROVE  DrainReceipt \/ Kill
<1>1. events \in Seq(Event)
  BY DEF ChatInv, EventsOK
<1>2. /\ events' # events /\ \A e : events' # Append(events, e)
      /\ \A a, b : events' # events \o <<a, b>>
  BY <1>1, TailShorter
<1>3. ~UserStep
  BY <1>2 DEF UserStep, AddContact, DeleteContact, StartChatWith, Toggle, DeleteChat, MarkRead,
              Send, DeleteMessage, runtimeVars
<1>4. ~SaveNow /\ ~SetSettings /\ ~Bootstrap /\ ~OnboardingStart
  BY <1>2 DEF SaveNow, SetSettings, Bootstrap, OnboardingStart, runtimeVars
<1>5. ~DrainStatus /\ ~DrainPresence /\ ~DrainMessage
  BY DEF DrainStatus, DrainPresence, DrainMessage, Drained
<1>6. \A i \in Ids : ~RuntimeStep(i) /\ ~RtDelivered(i) /\ ~RtRead(i)
  BY <1>2 DEF RuntimeStep, RtWrite, RtSent, RtFail, RtDelivered, RtRead, Push
<1>7. \A p \in Peers : ~RtMessage(p)
  BY <1>2 DEF RtMessage
<1>8. QED  BY <1>3, <1>4, <1>5, <1>6, <1>7 DEF Next, Drain

\* Receipts never lower the status of a message, in whatever order they and the
\* verdicts of the send worker are applied (ReceiptsNeverRegress).
THEOREM ReceiptsRise == Spec => ReceiptsNeverRegress
<1>1. ASSUME ChatInv, DrainReceipt PROVE Rises
  <2>1. PICK e, c, s, t : e = Head(events) /\ c = contacts /\ s = chats /\ t = chats'
    OBVIOUS
  <2>2. t = IF e.kind = "DELIVERED" THEN Restated(s, e.id, {"read"}, "delivered")
            ELSE MarkReadByPeer(s, e.peer)
    BY <1>1, <2>1 DEF DrainReceipt, MarkDelivered
  <2>3. StoredOK(c, s) /\ MessagesOK(s) /\ "delivered" \in Statuses
    BY <1>1, <2>1, StoreFacts DEF Statuses
  <2>4. Agree(s)
    BY <2>3 DEF MessagesOK
  <2>5. ASSUME NEW m \in Mine(s), NEW n \in Mine(t), m.id = n.id
        PROVE  Rank(m.status) <= Rank(n.status)
    <3>1. PICK p : m.mine /\ Has(s, p, m)
      BY MineHas
    <3>2. PICK q : n.mine /\ Has(t, q, n)
      BY MineHas
    <3>3. PICK o \in Msg : /\ Has(s, q, o) /\ o.mine /\ o.id = n.id
                           /\ n.status = o.status \/ n.status = "read"
                                \/ (n.status = "delivered" /\ o.status # "read")
      <4>1. CASE e.kind = "DELIVERED"
        <5>1. t = Restated(s, e.id, {"read"}, "delivered")
          BY <2>2, <4>1
        <5>2. \A r, x : Has(t, r, x) =>
                \E o \in Msg : Has(s, r, o) /\ x = Upd(o, e.id, {"read"}, "delivered")
          BY <2>3, <5>1, RestatedIs
        <5>3. PICK o \in Msg : Has(s, q, o) /\ n = Upd(o, e.id, {"read"}, "delivered")
          BY <3>2, <5>2
        <5>4. o.mine /\ o.id = n.id
          BY <3>2, <5>3 DEF Upd, Msg
        <5>5. n.status = o.status \/ (n.status = "delivered" /\ o.status # "read")
          BY <5>3 DEF Upd, Msg
        <5>6. QED  BY <5>3, <5>4, <5>5
      <4>2. CASE e.kind # "DELIVERED"
        <5>1. t = MarkReadByPeer(s, e.peer)
          BY <2>2, <4>2
        <5>2. \A r, x : Has(t, r, x) =>
                \E o \in Msg : Has(s, r, o) /\ x = IF r = e.peer THEN Seen(o) ELSE o
          BY <2>3, <5>1, MarkReadIs
        <5>3. PICK o \in Msg : Has(s, q, o) /\ n = IF q = e.peer THEN Seen(o) ELSE o
          BY <3>2, <5>2
        <5>4. o.mine /\ o.id = n.id
          BY <3>2, <5>3 DEF Seen, Msg
        <5>5. n.status = o.status \/ n.status = "read"
          BY <5>3 DEF Seen, Msg
        <5>6. QED  BY <5>3, <5>4, <5>5
      <4>3. QED  BY <4>1, <4>2
    <3>4. o.status = m.status
      BY <2>4, <2>5, <3>1, <3>3 DEF Agree
    <3>5. o.status \in Statuses
      BY <3>3 DEF Msg
    <3>6. QED  BY <3>3, <3>4, <3>5, RankIs DEF Statuses
  <2>6. QED  BY <2>1, <2>5 DEF Rises
<1>2. ASSUME Kill PROVE Rises
  <2>1. chats' = <<>>
    BY <1>2 DEF Kill
  <2>2. Mine(chats') = {}
    BY <2>1 DEF Mine, Messages
  <2>3. QED  BY <2>2 DEF Rises
<1>3. ChatInv /\ [Next]_vars =>
        [events # <<>> /\ Head(events).kind \in {"DELIVERED", "READ"}
           /\ events' = Tail(events) => Rises]_vars
  BY <1>1, <1>2, ReceiptTaken
<1>4. QED  BY <1>3, ChatInvariance, PTL DEF Spec, ReceiptsNeverRegress

=============================================================================
