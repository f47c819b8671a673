--------------------------- MODULE RatchetProofs ---------------------------
(***************************************************************************)
(* Theorems about the session of core/pkg/crypto, for any number of        *)
(* messages, any order and any duplication of their arrival, and any       *)
(* maxSkip: a message key seals one message, a message opens once, and     *)
(* until a message is refused the two sides hold the same chains and open  *)
(* whatever order the network delivers in.                                 *)
(*                                                                         *)
(* The argument for sealing: every sending chain but the responder's first *)
(* is rooted in a key pair generated for it, so its root differs from      *)
(* every root there is, and within a chain the step is the counter.        *)
(* The argument for opening: root keys only grow, so a receiving chain is  *)
(* never entered twice; within a chain a key is either still ahead, or set *)
(* aside once, or spent.                                                   *)
(* The argument for agreeing: one party leads, by one DH ratchet step, and *)
(* only the other can open with a new chain; a key it sets aside is the    *)
(* key of a message that was sealed, because chains are counted without    *)
(* gaps and a header carries the length of the chain before.               *)
(***************************************************************************)
EXTENDS Ratchet, SequenceTheorems, TLAPS

-----------------------------------------------------------------------------
(* What the state is made of *)

Uses == {"identity", "signed", "ephemeral", "onetime", "ratchet"}
Keys == Parties \X Uses \X Nat
RootKeys == Seq(SUBSET Keys)
ChainKeys == [root : RootKeys, step : Nat]
Headers == (Keys \cup {NoKey}) \X Nat
SkippedKeys == UNION {[D -> ChainKeys] : D \in SUBSET Headers}
Sessions == [dhs : Keys, dhr : Keys \cup {NoKey}, rk : RootKeys, cks : ChainKeys,
             ckr : ChainKeys, ns : Nat, nr : Nat, pn : Nat, skipped : SkippedKeys]
Handshakes == [identity : Keys, ephemeral : Keys, usedOTP : BOOLEAN]
Messages == [from : Parties, id : Nat, dh : Keys, pn : Nat, n : Nat, key : ChainKeys]

StateOK ==
  /\ gen \in [Parties -> Nat]
  /\ sess \in [Parties -> Sessions \cup {NoSession}]
  /\ hs \in Handshakes \cup {NoHandshake}
  /\ net \in [Parties -> SUBSET Messages]
  /\ sent \in [Parties -> Seq(Messages)]
  /\ got \in [Parties -> Seq(Nat)]
  /\ refused \in [Parties -> SUBSET Messages]
  /\ dups \in 0 .. MaxDups

\* A message is the one its sender numbered so, whether on the way or refused.
FromPeer(p, w) ==
  /\ w.from = PeerOf(p)
  /\ w.id \in DOMAIN sent[PeerOf(p)] /\ sent[PeerOf(p)][w.id] = w
BookOK ==
  \A p \in Parties :
    /\ \A i \in DOMAIN sent[p] : sent[p][i].from = p /\ sent[p][i].id = i
    /\ \A w \in net[p] \cup refused[p] : FromPeer(p, w)
    /\ \A i \in DOMAIN got[p] : got[p][i] \in DOMAIN sent[PeerOf(p)]
    /\ sent[p] # <<>> => Live(p)
    /\ Live(p) => sess[p].ns + sess[p].pn <= Len(sent[p])

-----------------------------------------------------------------------------
(* Sealing *)

\* A ratchet key pair that has been generated, and a root made of such.
Made(k) == k[2] = "ratchet" => k[3] <= gen[k[1]]
MadeOf(root) == \A i \in DOMAIN root : \A k \in root[i] : Made(k)

\* No key is known before its pair is generated.
KeysMade ==
  /\ hs # NoHandshake => Made(hs.identity) /\ Made(hs.ephemeral)
  /\ \A p \in Parties :
       /\ \A i \in DOMAIN sent[p] : Made(sent[p][i].dh) /\ MadeOf(sent[p][i].key.root)
       /\ Live(p) => /\ Made(sess[p].dhs)
                     /\ MadeOf(sess[p].rk) /\ MadeOf(sess[p].cks.root)
  /\ ~Live(Initiator) => gen[Initiator] = 0

\* What p has sealed with the root of its sending chain is behind the chain,
\* and nobody else has sealed with it or is going to.
SealInv ==
  /\ KeysFresh
  /\ \A p \in Parties, q \in Parties : \A i \in DOMAIN sent[p] :
       Live(q) /\ sent[p][i].key.root = sess[q].cks.root
         => p = q /\ sent[p][i].key.step < sess[q].cks.step
  /\ \A p \in Parties, q \in Parties :
       Live(p) /\ Live(q) /\ sess[p].cks.root = sess[q].cks.root => p = q
  /\ \A i \in DOMAIN sent[Initiator] : sent[Initiator][i].key.root # <<>>
  /\ Live(Initiator) => sess[Initiator].cks.root # <<>>

-----------------------------------------------------------------------------
(* Opening *)

\* A key of the receiving chains that the chain r.ckr has passed.
Passed(r, k) ==
  /\ Len(k.root) <= Len(r.rk)
  /\ k.root = r.ckr.root => k.step < r.ckr.step

\* The keys spent are behind the receiving chain and not set aside; a key is
\* set aside for one header.
ReceivesOnce(r, spent) ==
  /\ Len(r.ckr.root) <= Len(r.rk)
  /\ \A k \in spent : Passed(r, k)
  /\ \A h \in DOMAIN r.skipped : Passed(r, r.skipped[h]) /\ r.skipped[h] \notin spent
  /\ \A g, h \in DOMAIN r.skipped : r.skipped[g] = r.skipped[h] => g = h

\* The keys of the messages that p has opened.
Spent(p) == {sent[PeerOf(p)][got[p][i]].key : i \in DOMAIN got[p]}

OpenInv ==
  /\ \A p \in Parties : Live(p) => ReceivesOnce(sess[p], Spent(p))
  /\ \A p \in Parties : ~Live(p) => got[p] = <<>>
  /\ OpensOnce

RatchetInv == StateOK /\ BookOK /\ KeysMade /\ SealInv /\ OpenInv

-----------------------------------------------------------------------------
(* The operators of the ratchet *)

\* A map of set-aside keys has headers for arguments and chain keys for values.
LEMMA SkippedType ==
  ASSUME NEW f \in SkippedKeys
  PROVE  DOMAIN f \subseteq Headers /\ \A h \in DOMAIN f : f[h] \in ChainKeys
BY DEF SkippedKeys

\* What skip does when it sets keys aside: one for every header from r.nr on,
\* each the key of its own step, and the chain is at the first one not set aside.
LEMMA SkipAdds ==
  ASSUME NEW r \in Sessions, NEW until \in Nat, r.ckr # NilChain, r.nr < until
  PROVE  LET s == Skip(r, until)
             new == {<<r.dhr, i>> : i \in r.nr .. until - 1} IN
         /\ s \in Sessions
         /\ s.dhs = r.dhs /\ s.dhr = r.dhr /\ s.rk = r.rk /\ s.cks = r.cks
         /\ s.ns = r.ns /\ s.pn = r.pn /\ s.nr = until
         /\ s.ckr.root = r.ckr.root /\ s.ckr.step = r.ckr.step + (until - r.nr)
         /\ DOMAIN s.skipped = new \cup DOMAIN r.skipped
         /\ \A i \in r.nr .. until - 1 :
              /\ s.skipped[<<r.dhr, i>>].root = r.ckr.root
              /\ s.skipped[<<r.dhr, i>>].step = r.ckr.step + (i - r.nr)
         /\ \A h \in DOMAIN r.skipped \ new : s.skipped[h] = r.skipped[h]
<1> DEFINE new == {<<r.dhr, i>> : i \in r.nr .. until - 1}
           key(h) == [root |-> r.ckr.root, step |-> r.ckr.step + (h[2] - r.nr)]
           map == [h \in new \cup DOMAIN r.skipped |->
                     IF h \in new THEN key(h) ELSE r.skipped[h]]
           ckr == [root |-> r.ckr.root, step |-> r.ckr.step + (until - r.nr)]
           s == [r EXCEPT !.skipped = map, !.ckr = ckr, !.nr = until]
<1>1. /\ r.ckr \in ChainKeys /\ r.nr \in Nat /\ r.skipped \in SkippedKeys
      /\ r.dhr \in Keys \cup {NoKey}
  BY DEF Sessions
<1>2. /\ r.ckr.root \in RootKeys /\ r.ckr.step \in Nat
      /\ r.ckr = [root |-> r.ckr.root, step |-> r.ckr.step]
  BY <1>1 DEF ChainKeys
<1>3. \A n : Stepped(r.ckr, n) = [root |-> r.ckr.root, step |-> r.ckr.step + n]
  BY <1>2 DEF Stepped
<1>4. [h \in new \cup DOMAIN r.skipped |->
         IF h \in new THEN MessageKey(Stepped(r.ckr, h[2] - r.nr)) ELSE r.skipped[h]] = map
  BY <1>3 DEF MessageKey
<1>5. Skip(r, until) = s
  <2>1. ~(r.ckr = NilChain \/ r.nr >= until)
    BY <1>1
  <2> DEFINE map0 == [h \in new \cup DOMAIN r.skipped |->
                IF h \in new THEN MessageKey(Stepped(r.ckr, h[2] - r.nr)) ELSE r.skipped[h]]
  <2>2. Skip(r, until) =
          [r EXCEPT !.skipped = map0, !.ckr = Stepped(@, until - r.nr), !.nr = until]
    BY <2>1, Zenon DEF Skip
  <2>3. map0 = map
    BY <1>4
  <2> HIDE DEF map0, map
  <2>4. QED  BY <2>2, <2>3, <1>3
<1>6. /\ DOMAIN r.skipped \subseteq Headers /\ \A h \in DOMAIN r.skipped : r.skipped[h] \in ChainKeys
  BY <1>1, SkippedType
<1>7. new \subseteq Headers
  BY <1>1 DEF Headers
<1>8. ASSUME NEW h \in new PROVE h[2] \in r.nr .. until - 1 /\ key(h) \in ChainKeys
  BY <1>1, <1>2 DEF ChainKeys
<1>9. map \in [new \cup DOMAIN r.skipped -> ChainKeys]
  BY <1>6, <1>8
<1>10. map \in SkippedKeys
  BY <1>6, <1>7, <1>9 DEF SkippedKeys
<1>11. ckr \in ChainKeys
  BY <1>1, <1>2 DEF ChainKeys
<1> HIDE DEF map, ckr, new, key
<1>12. s \in Sessions
  BY <1>10, <1>11 DEF Sessions
<1>13. /\ s.dhs = r.dhs /\ s.dhr = r.dhr /\ s.rk = r.rk /\ s.cks = r.cks
       /\ s.ns = r.ns /\ s.pn = r.pn /\ s.nr = until /\ s.ckr = ckr /\ s.skipped = map
  BY DEF Sessions
<1>14. ckr.root = r.ckr.root /\ ckr.step = r.ckr.step + (until - r.nr)
  BY DEF ckr
<1>15. DOMAIN map = new \cup DOMAIN r.skipped
  BY DEF map
<1>16. \A i \in r.nr .. until - 1 :
         /\ map[<<r.dhr, i>>].root = r.ckr.root
         /\ map[<<r.dhr, i>>].step = r.ckr.step + (i - r.nr)
  <2> SUFFICES ASSUME NEW i \in r.nr .. until - 1
               PROVE  map[<<r.dhr, i>>] = key(<<r.dhr, i>>)
                      /\ key(<<r.dhr, i>>).root = r.ckr.root
                      /\ key(<<r.dhr, i>>).step = r.ckr.step + (i - r.nr)
    OBVIOUS
  <2>1. <<r.dhr, i>> \in new
    BY DEF new
  <2>2. QED  BY <2>1 DEF map, key
<1>17. \A h \in DOMAIN r.skipped \ new : map[h] = r.skipped[h]
  BY DEF map
<1> HIDE DEF s
<1>18. QED  BY <1>5, <1>12, <1>13, <1>14, <1>15, <1>16, <1>17 DEF new

\* skip never undoes what it relies on: every key it sets aside is ahead of the
\* receiving chain before and behind it after.
LEMMA SkipKeeps ==
  ASSUME NEW r \in Sessions, NEW until \in Nat, NEW spent \in SUBSET ChainKeys,
         ReceivesOnce(r, spent)
  PROVE  LET s == Skip(r, until) IN
         /\ s \in Sessions /\ ReceivesOnce(s, spent)
         /\ s.dhs = r.dhs /\ s.dhr = r.dhr /\ s.rk = r.rk /\ s.cks = r.cks
         /\ s.ns = r.ns /\ s.pn = r.pn
<1>1. CASE r.ckr = NilChain \/ r.nr >= until
  BY <1>1 DEF Skip
<1>2. CASE r.ckr # NilChain /\ r.nr < until
  <2> DEFINE s == Skip(r, until)
             new == {<<r.dhr, i>> : i \in r.nr .. until - 1}
  <2>1. /\ s \in Sessions
        /\ s.dhs = r.dhs /\ s.dhr = r.dhr /\ s.rk = r.rk /\ s.cks = r.cks
        /\ s.ns = r.ns /\ s.pn = r.pn
    BY <1>2, SkipAdds
  <2>2. /\ s.ckr.root = r.ckr.root /\ s.ckr.step = r.ckr.step + (until - r.nr)
        /\ DOMAIN s.skipped = new \cup DOMAIN r.skipped
        /\ \A h \in DOMAIN r.skipped \ new : s.skipped[h] = r.skipped[h]
    BY <1>2, SkipAdds
  <2>3. \A i \in r.nr .. until - 1 :
          /\ s.skipped[<<r.dhr, i>>].root = r.ckr.root
          /\ s.skipped[<<r.dhr, i>>].step = r.ckr.step + (i - r.nr)
    BY <1>2, SkipAdds
  <2>4. r.ckr.step \in Nat /\ r.nr \in Nat
    BY DEF Sessions, ChainKeys
  <2>5. r.skipped \in SkippedKeys
    BY DEF Sessions
  <2> HIDE DEF s
  <2>6. \A k \in ChainKeys : Passed(r, k) => Passed(s, k)
    BY <1>2, <2>1, <2>2, <2>4 DEF Passed, ChainKeys
  <2>7. ASSUME NEW i \in r.nr .. until - 1
        PROVE  /\ Passed(s, s.skipped[<<r.dhr, i>>])
               /\ s.skipped[<<r.dhr, i>>] \notin spent
               /\ \A h \in DOMAIN r.skipped : s.skipped[<<r.dhr, i>>] # r.skipped[h]
               /\ \A j \in r.nr .. until - 1 :
                    s.skipped[<<r.dhr, i>>] = s.skipped[<<r.dhr, j>>] => i = j
    <3> DEFINE k == s.skipped[<<r.dhr, i>>]
    <3>1. k.root = r.ckr.root /\ k.step = r.ckr.step + (i - r.nr)
      BY <2>3
    <3>2. Passed(s, k)
      BY <3>1, <2>1, <2>2, <2>4, <1>2 DEF Passed, ReceivesOnce
    <3>3. ~Passed(r, k)
      BY <3>1, <2>4 DEF Passed
    <3>4. k \notin spent /\ \A h \in DOMAIN r.skipped : k # r.skipped[h]
      BY <3>3 DEF ReceivesOnce
    <3>5. \A j \in r.nr .. until - 1 : k = s.skipped[<<r.dhr, j>>] => i = j
      BY <3>1, <2>3, <2>4
    <3>6. QED  BY <3>2, <3>4, <3>5
  <2>8. ASSUME NEW h \in DOMAIN r.skipped \ new
        PROVE  /\ s.skipped[h] = r.skipped[h]
               /\ Passed(s, r.skipped[h]) /\ r.skipped[h] \notin spent
    BY <2>2, <2>5, <2>6, SkippedType DEF ReceivesOnce
  <2>9. \A k \in spent : Passed(s, k)
    BY <2>6 DEF ReceivesOnce
  <2>10. ASSUME NEW h \in DOMAIN s.skipped
         PROVE  Passed(s, s.skipped[h]) /\ s.skipped[h] \notin spent
    BY <2>2, <2>7, <2>8
  <2>11. ASSUME NEW g \in DOMAIN s.skipped, NEW h \in DOMAIN s.skipped,
                s.skipped[g] = s.skipped[h]
         PROVE  g = h
    <3>1. CASE g \in new /\ h \in new
      BY <3>1, <2>7, <2>11
    <3>2. CASE g \notin new /\ h \notin new
      BY <3>2, <2>2, <2>8, <2>11 DEF ReceivesOnce
    <3>3. CASE g \in new /\ h \notin new
      BY <3>3, <2>2, <2>7, <2>8, <2>11
    <3>4. CASE g \notin new /\ h \in new
      BY <3>4, <2>2, <2>7, <2>8, <2>11
    <3>5. QED  BY <3>1, <3>2, <3>3, <3>4
  <2>12. Len(s.ckr.root) <= Len(s.rk)
    BY <2>1, <2>2 DEF ReceivesOnce
  <2>13. ReceivesOnce(s, spent)
    BY <2>9, <2>10, <2>11, <2>12 DEF ReceivesOnce
  <2>14. QED  BY <2>1, <2>13 DEF s
<1>3. QED  BY <1>1, <1>2 DEF Sessions
\* Append to a root key makes it longer and keeps it a root key.
LEMMA RootGrows ==
  ASSUME NEW rk \in RootKeys, NEW a \in Keys, NEW b \in Keys
  PROVE  /\ KdfRoot(rk, DH(a, b)) \in RootKeys /\ KdfRoot(rk, DH(a, b)) # <<>>
         /\ Len(KdfRoot(rk, DH(a, b))) = Len(rk) + 1 /\ Len(rk) \in Nat
         /\ DOMAIN KdfRoot(rk, DH(a, b)) = 1 .. Len(rk) + 1 /\ DOMAIN rk = 1 .. Len(rk)
         /\ KdfRoot(rk, DH(a, b))[Len(rk) + 1] = {a, b}
         /\ \A i \in 1 .. Len(rk) : KdfRoot(rk, DH(a, b))[i] = rk[i]
<1> DEFINE S == SUBSET Keys
           e == {a, b}
           k == KdfRoot(rk, DH(a, b))
<1>1. e \in S /\ k = Append(rk, e) /\ rk \in Seq(S)
  BY DEF DH, KdfRoot, RootKeys
<1> HIDE DEF S, e, k
<1>2. k \in Seq(S) /\ Len(k) = Len(rk) + 1 /\ Len(rk) \in Nat
  BY <1>1
<1>3. DOMAIN k = 1 .. Len(rk) + 1 /\ DOMAIN rk = 1 .. Len(rk)
  BY <1>1
<1>4. k[Len(rk) + 1] = e /\ \A i \in 1 .. Len(rk) : k[i] = rk[i]
  BY <1>1
<1>5. k # <<>>
  BY <1>2
<1>6. QED  BY <1>2, <1>3, <1>4, <1>5 DEF S, e, k, RootKeys

\* dhRatchet: the fields of the session it makes.
LEMMA DhRatchetFields ==
  ASSUME NEW r \in Sessions, NEW remote \in Keys, NEW fresh \in Keys
  PROVE  LET s == DhRatchet(r, remote, fresh)
             rk1 == KdfRoot(r.rk, DH(r.dhs, remote))
             rk2 == KdfRoot(rk1, DH(fresh, remote)) IN
         /\ s \in Sessions /\ rk1 \in RootKeys
         /\ s.dhs = fresh /\ s.dhr = remote /\ s.rk = rk2 /\ s.cks = Chain(rk2)
         /\ s.ckr = Chain(rk1) /\ s.ns = 0 /\ s.nr = 0 /\ s.pn = r.ns
         /\ s.skipped = r.skipped
<1> DEFINE rk1 == KdfRoot(r.rk, DH(r.dhs, remote))
           rk2 == KdfRoot(rk1, DH(fresh, remote))
<1>1. rk1 \in RootKeys /\ rk2 \in RootKeys
  <2>1. r.rk \in RootKeys /\ r.dhs \in Keys
    BY DEF Sessions
  <2>2. rk1 \in RootKeys
    BY <2>1, RootGrows
  <2>3. QED  BY <2>2, RootGrows
<1>2. Chain(rk1) \in ChainKeys /\ Chain(rk2) \in ChainKeys
  BY <1>1 DEF Chain, ChainKeys
<1>3. DhRatchet(r, remote, fresh) =
        [r EXCEPT !.pn = r.ns, !.ns = 0, !.nr = 0, !.dhr = remote, !.dhs = fresh,
                  !.rk = rk2, !.ckr = Chain(rk1), !.cks = Chain(rk2)]
  BY DEF DhRatchet
<1> HIDE DEF rk1, rk2
<1>4. DhRatchet(r, remote, fresh) \in Sessions
  <2>1. r.ns \in Nat
    BY DEF Sessions
  <2>2. DhRatchet(r, remote, fresh) =
          [dhs |-> fresh, dhr |-> remote, rk |-> rk2, cks |-> Chain(rk2), ckr |-> Chain(rk1),
           ns |-> 0, nr |-> 0, pn |-> r.ns, skipped |-> r.skipped]
    BY <1>3 DEF Sessions
  <2>3. r.skipped \in SkippedKeys
    BY DEF Sessions
  <2>4. QED  BY <2>1, <2>2, <2>3, <1>1, <1>2 DEF Sessions
<1>5. QED  BY <1>1, <1>3, <1>4 DEF Sessions, rk1, rk2

\* The receiving chain that dhRatchet enters has a root longer than every root
\* seen before: no key of it is spent or set aside.
LEMMA DhRatchetKeeps ==
  ASSUME NEW r \in Sessions, NEW remote \in Keys, NEW fresh \in Keys,
         NEW spent \in SUBSET ChainKeys, ReceivesOnce(r, spent)
  PROVE  ReceivesOnce(DhRatchet(r, remote, fresh), spent)
<1> DEFINE s == DhRatchet(r, remote, fresh)
           rk1 == KdfRoot(r.rk, DH(r.dhs, remote))
           rk2 == KdfRoot(rk1, DH(fresh, remote))
<1>1. s.rk = rk2 /\ s.ckr = Chain(rk1) /\ s.skipped = r.skipped
  BY DhRatchetFields
<1>2. r.rk \in RootKeys /\ r.dhs \in Keys /\ r.skipped \in SkippedKeys
  BY DEF Sessions
<1>a. rk1 = KdfRoot(r.rk, DH(r.dhs, remote)) /\ rk2 = KdfRoot(rk1, DH(fresh, remote))
  OBVIOUS
<1> HIDE DEF s, rk1, rk2
<1>3. Len(rk1) = Len(r.rk) + 1 /\ Len(r.rk) \in Nat /\ rk1 \in RootKeys
  <2>1. PICK old, own : old = r.rk /\ own = r.dhs
    OBVIOUS
  <2>a. old \in RootKeys /\ own \in Keys /\ rk1 = KdfRoot(old, DH(own, remote))
    BY <2>1, <1>a, <1>2
  <2>2. Len(rk1) = Len(old) + 1 /\ Len(old) \in Nat /\ rk1 \in RootKeys
    BY <2>a, RootGrows
  <2>3. QED  BY <2>1, <2>2
<1>4. Len(rk2) = Len(r.rk) + 2
  BY <1>a, <1>3, RootGrows
<1>5. \A k \in ChainKeys : Len(k.root) \in Nat
  BY DEF ChainKeys, RootKeys
<1>6. \A k \in ChainKeys : Passed(r, k) => Passed(s, k)
  BY <1>1, <1>3, <1>4, <1>5 DEF Passed, Chain
<1>7. \A h \in DOMAIN r.skipped : r.skipped[h] \in ChainKeys
  BY <1>2, SkippedType
<1>8. Len(s.ckr.root) <= Len(s.rk)
  BY <1>1, <1>3, <1>4 DEF Chain
<1>9. QED  BY <1>1, <1>6, <1>7, <1>8 DEF ReceivesOnce, s

\* A key that was set aside is the key of its message and no other header's:
\* once used it is removed, and stays out.
LEMMA TrySkippedSpends ==
  ASSUME NEW r \in Sessions, NEW w \in Messages, NEW spent \in SUBSET ChainKeys,
         ReceivesOnce(r, spent), <<w.dh, w.n>> \in DOMAIN r.skipped
  PROVE  LET d == TrySkipped(r, w) IN
         /\ d.r \in Sessions /\ d.ok \in BOOLEAN
         /\ d.ok => w.key \notin spent /\ ReceivesOnce(d.r, spent \cup {w.key})
         /\ ~d.ok => d.r = r
         /\ d.r.dhs = r.dhs /\ d.r.rk = r.rk /\ d.r.cks = r.cks
         /\ d.r.ns = r.ns /\ d.r.pn = r.pn
<1> DEFINE k == <<w.dh, w.n>>
           rest == DOMAIN r.skipped \ {k}
           map == [h \in rest |-> r.skipped[h]]
           s == [r EXCEPT !.skipped = map]
<1>1. CASE r.skipped[k] # w.key
  BY <1>1 DEF TrySkipped
<1>2. CASE r.skipped[k] = w.key
  <2>1. TrySkipped(r, w) = [r |-> s, ok |-> TRUE]
    BY <1>2 DEF TrySkipped, Restrict
  <2>2. r.skipped \in SkippedKeys /\ DOMAIN r.skipped \subseteq Headers
        /\ \A h \in DOMAIN r.skipped : r.skipped[h] \in ChainKeys
    BY SkippedType DEF Sessions
  <2>3. map \in [rest -> ChainKeys] /\ rest \in SUBSET Headers
    BY <2>2
  <2>4. map \in SkippedKeys /\ DOMAIN map = rest /\ \A h \in rest : map[h] = r.skipped[h]
    BY <2>3 DEF SkippedKeys
  <2>5. k \in DOMAIN r.skipped /\ k \notin rest /\ rest \subseteq DOMAIN r.skipped
    OBVIOUS
  <2> HIDE DEF map, rest, k
  <2>6. /\ s \in Sessions /\ s.skipped = map
        /\ s.dhs = r.dhs /\ s.rk = r.rk /\ s.cks = r.cks /\ s.ckr = r.ckr
        /\ s.ns = r.ns /\ s.pn = r.pn
    BY <2>4 DEF Sessions
  <2> HIDE DEF s
  <2>7. \A x : Passed(s, x) <=> Passed(r, x)
    BY <2>6 DEF Passed
  <2>8. w.key \notin spent /\ Passed(s, w.key)
    BY <1>2, <2>5, <2>7 DEF ReceivesOnce
  <2>9. \A h \in DOMAIN s.skipped : Passed(s, s.skipped[h]) /\ s.skipped[h] \notin spent \cup {w.key}
    BY <1>2, <2>4, <2>5, <2>6, <2>7 DEF ReceivesOnce
  <2>10. \A g, h \in DOMAIN s.skipped : s.skipped[g] = s.skipped[h] => g = h
    BY <2>4, <2>5, <2>6 DEF ReceivesOnce
  <2>11. ReceivesOnce(s, spent \cup {w.key})
    BY <2>6, <2>7, <2>8, <2>9, <2>10 DEF ReceivesOnce
  <2>12. QED  BY <2>1, <2>6, <2>8, <2>11
<1>3. QED  BY <1>1, <1>2

\* The key of the next step is not spent; taking it puts it behind the chain.
LEMMA StepSpends ==
  ASSUME NEW r \in Sessions, NEW spent \in SUBSET ChainKeys, ReceivesOnce(r, spent)
  PROVE  LET s == [r EXCEPT !.ckr = Stepped(@, 1), !.nr = @ + 1] IN
         /\ s \in Sessions
         /\ MessageKey(r.ckr) \notin spent
         /\ ReceivesOnce(s, spent) /\ ReceivesOnce(s, spent \cup {MessageKey(r.ckr)})
         /\ s.dhs = r.dhs /\ s.rk = r.rk /\ s.cks = r.cks
         /\ s.ns = r.ns /\ s.pn = r.pn
<1> DEFINE ckr == Stepped(r.ckr, 1)
           nr == r.nr + 1
           s == [r EXCEPT !.ckr = ckr, !.nr = nr]
<1>1. r.ckr \in ChainKeys /\ r.nr \in Nat /\ r.skipped \in SkippedKeys
  BY DEF Sessions
<1>2. ckr \in ChainKeys /\ ckr.root = r.ckr.root /\ ckr.step = r.ckr.step + 1
  BY <1>1 DEF Stepped, ChainKeys
<1>3. r.ckr.step \in Nat
  BY <1>1 DEF ChainKeys
<1>a. nr \in Nat
  BY <1>1
<1> HIDE DEF ckr, nr
<1>4. /\ s \in Sessions /\ s.skipped = r.skipped /\ s.ckr = ckr
      /\ s.dhs = r.dhs /\ s.rk = r.rk /\ s.cks = r.cks
      /\ s.ns = r.ns /\ s.pn = r.pn
  BY <1>a, <1>1, <1>2 DEF Sessions
<1>5. s = [r EXCEPT !.ckr = Stepped(@, 1), !.nr = @ + 1]
  BY DEF ckr, nr
<1> HIDE DEF s
<1>6. \A k \in ChainKeys : Passed(r, k) => Passed(s, k)
  BY <1>2, <1>3, <1>4 DEF Passed, ChainKeys
<1>7. ~Passed(r, r.ckr) /\ Passed(s, r.ckr)
  BY <1>2, <1>3, <1>4 DEF Passed, ReceivesOnce
<1>8. \A h \in DOMAIN r.skipped : r.skipped[h] \in ChainKeys
  BY <1>1, SkippedType
<1>9. r.ckr \notin spent /\ \A h \in DOMAIN r.skipped : r.skipped[h] # r.ckr
  BY <1>7 DEF ReceivesOnce
<1>10. ReceivesOnce(s, spent)
  BY <1>2, <1>4, <1>6, <1>8 DEF ReceivesOnce
<1>11. ReceivesOnce(s, spent \cup {r.ckr})
  BY <1>4, <1>7, <1>9, <1>10 DEF ReceivesOnce
<1>12. MessageKey(r.ckr) = r.ckr
  BY DEF MessageKey
<1>13. QED  BY <1>4, <1>5, <1>9, <1>10, <1>11, <1>12, Zenon

\* decrypt: a message opens with a key that is not spent, which is spent then;
\* a message that does not open spends nothing.  Our sending side stays as it
\* is, or it has a new key pair, a root that ends with it and its chain.
LEMMA DecryptSpends ==
  ASSUME NEW r \in Sessions, NEW w \in Messages, NEW fresh \in Keys,
         NEW spent \in SUBSET ChainKeys, ReceivesOnce(r, spent)
  PROVE  LET d == Decrypt(r, w, fresh) IN
         /\ d.r \in Sessions /\ d.ok \in BOOLEAN
         /\ d.ok => w.key \notin spent /\ ReceivesOnce(d.r, spent \cup {w.key})
         /\ ~d.ok => ReceivesOnce(d.r, spent)
         /\ \/ /\ d.r.dhs = r.dhs /\ d.r.rk = r.rk /\ d.r.cks = r.cks
               /\ d.r.ns = r.ns /\ d.r.pn = r.pn
            \/ /\ d.r.dhs = fresh /\ d.r.ns = 0 /\ d.r.pn = r.ns
               /\ d.r.rk = KdfRoot(KdfRoot(r.rk, DH(r.dhs, w.dh)), DH(fresh, w.dh))
               /\ d.r.cks = Chain(d.r.rk)
<1> DEFINE moved == r.dhr = NoKey \/ w.dh # r.dhr
           r0 == Skip(r, w.pn)
           r1 == IF moved THEN DhRatchet(r0, w.dh, fresh) ELSE r
           r2 == Skip(r1, w.n)
           r3 == [r2 EXCEPT !.ckr = Stepped(@, 1), !.nr = @ + 1]
           d == Decrypt(r, w, fresh)
           Kept(s) == /\ s.dhs = r.dhs /\ s.rk = r.rk /\ s.cks = r.cks
                      /\ s.ns = r.ns /\ s.pn = r.pn
           Turned(s) ==
             /\ s.dhs = fresh /\ s.ns = 0 /\ s.pn = r.ns
             /\ s.rk = KdfRoot(KdfRoot(r.rk, DH(r.dhs, w.dh)), DH(fresh, w.dh))
             /\ s.cks = Chain(s.rk)
           Good(s) == s \in Sessions /\ (Kept(s) \/ Turned(s))
<1>1. w.dh \in Keys /\ w.pn \in Nat /\ w.n \in Nat /\ w.key \in ChainKeys
  BY DEF Messages
<1>2. r0 \in Sessions /\ ReceivesOnce(r0, spent) /\ Kept(r0)
  BY <1>1, SkipKeeps
<1>3. CASE <<w.dh, w.n>> \in DOMAIN r.skipped
  <2>1. d = TrySkipped(r, w)
    BY <1>3 DEF Decrypt
  <2>2. QED  BY <1>3, <2>1, TrySkippedSpends
<1>4. Good(r1) /\ ReceivesOnce(r1, spent)
  <2>1. CASE ~moved
    BY <2>1
  <2>2. CASE moved
    <3>1. r1 = DhRatchet(r0, w.dh, fresh)
      BY <2>2
    <3> HIDE DEF r1, r0
    <3>2. r1 \in Sessions /\ ReceivesOnce(r1, spent)
      BY <3>1, <1>1, <1>2, DhRatchetKeeps, DhRatchetFields
    <3>3. Turned(r1)
      BY <3>1, <1>1, <1>2, DhRatchetFields
    <3>4. QED  BY <3>2, <3>3
  <2>3. QED  BY <2>1, <2>2
<1> HIDE DEF r1
<1>5. Good(r2) /\ ReceivesOnce(r2, spent)
  <2>1. /\ r2 \in Sessions /\ ReceivesOnce(r2, spent)
        /\ r2.dhs = r1.dhs /\ r2.rk = r1.rk /\ r2.cks = r1.cks
        /\ r2.ns = r1.ns /\ r2.pn = r1.pn
    BY <1>1, <1>4, SkipKeeps
  <2> HIDE DEF r2
  <2>2. QED  BY <2>1, <1>4
<1> HIDE DEF r2
<1>6. Good(r3) /\ ReceivesOnce(r3, spent) /\ ReceivesOnce(r3, spent \cup {MessageKey(r2.ckr)})
      /\ MessageKey(r2.ckr) \notin spent
  <2>1. /\ r3 \in Sessions
        /\ r3.dhs = r2.dhs /\ r3.rk = r2.rk /\ r3.cks = r2.cks
        /\ r3.ns = r2.ns /\ r3.pn = r2.pn
    BY <1>5, StepSpends
  <2>2. /\ ReceivesOnce(r3, spent) /\ ReceivesOnce(r3, spent \cup {MessageKey(r2.ckr)})
        /\ MessageKey(r2.ckr) \notin spent
    BY <1>5, StepSpends
  <2> HIDE DEF r3
  <2>3. QED  BY <1>5, <2>1, <2>2
<1>7. \/ d = [r |-> r, ok |-> FALSE]
      \/ d = [r |-> r1, ok |-> FALSE]
      \/ d = [r |-> r3, ok |-> MessageKey(r2.ckr) = w.key]
      \/ <<w.dh, w.n>> \in DOMAIN r.skipped
  BY DEF Decrypt, r1, r2
<1> HIDE DEF r3, d
<1>8. Good(r) /\ ReceivesOnce(r, spent)
  OBVIOUS
<1>9. CASE d = [r |-> r, ok |-> FALSE]
  BY <1>8, <1>9 DEF d
<1>10. CASE d = [r |-> r1, ok |-> FALSE]
  BY <1>4, <1>10 DEF d
<1>11. CASE d = [r |-> r3, ok |-> MessageKey(r2.ckr) = w.key]
  <2>1. d.r = r3 /\ d.ok = (MessageKey(r2.ckr) = w.key)
    BY <1>11
  <2>2. d.ok \in BOOLEAN
    BY <2>1
  <2>3. d.ok => MessageKey(r2.ckr) = w.key
    BY <2>1
  <2>4. QED  BY <1>6, <2>1, <2>2, <2>3 DEF d
<1>12. QED  BY <1>3, <1>7, <1>9, <1>10, <1>11

-----------------------------------------------------------------------------
(* The state *)

\* A session has a key pair, so a party with one is Live.
LEMMA HasSession ==
  ASSUME NEW p \in Parties, StateOK
  PROVE  /\ Live(p) <=> sess[p] \in Sessions
         /\ PeerOf(p) \in Parties /\ PeerOf(p) # p /\ PeerOf(PeerOf(p)) = p
<1>1. NoSession \notin Sessions
  <2>1. NoKey \notin Keys
    BY DEF NoKey, Keys, Uses
  <2>2. NoSession.dhs = NoKey
    BY DEF NoSession
  <2>3. QED  BY <2>1, <2>2 DEF Sessions
<1>2. Live(p) <=> sess[p] \in Sessions
  BY <1>1 DEF StateOK, Live
<1>3. QED  BY <1>2, RatchetAssumption DEF PeerOf, Parties

\* The sessions that Initiate and Accept make, and the keys they are made of.
LEMMA FirstSessions ==
  /\ X3dhInitiate(Initiator, Responder) \in RootKeys
  /\ \A i \in DOMAIN X3dhInitiate(Initiator, Responder) :
       \A k \in X3dhInitiate(Initiator, Responder)[i] : k[2] # "ratchet"
  /\ \A h \in Handshakes :
       /\ X3dhRespond(Responder, h) \in RootKeys
       /\ \A i \in DOMAIN X3dhRespond(Responder, h) :
            \A k \in X3dhRespond(Responder, h)[i] :
              k[2] # "ratchet" \/ k \in {h.identity, h.ephemeral}
<1>1. \A u \in Uses : \A p \in Parties, i \in Nat :
        Key(p, u, i) \in Keys /\ Key(p, u, i)[2] = u
  BY DEF Key, Keys
<1>2. \A a, b \in Keys : DH(a, b) \in SUBSET Keys /\ \A k \in DH(a, b) : k = a \/ k = b
  BY DEF DH
<1>3. Initiator \in Parties /\ Responder \in Parties
  BY DEF Parties
<1>4. ASSUME NEW a \in SUBSET Keys, NEW b \in SUBSET Keys, NEW c \in SUBSET Keys,
             NEW e \in SUBSET Keys, NEW s, s \in {<<a, b, c>>, <<a, b, c>> \o <<e>>}
      PROVE  s \in RootKeys /\ \A i \in DOMAIN s : s[i] \in {a, b, c, e}
  <2> DEFINE S == SUBSET Keys
             t == <<a, b, c>>
             u == <<e>>
  <2>1. t \in Seq(S) /\ Len(t) = 3 /\ \A i \in 1 .. 3 : t[i] \in {a, b, c}
    OBVIOUS
  <2>2. u \in Seq(S) /\ Len(u) = 1 /\ u[1] = e
    OBVIOUS
  <2>3. s = t \/ s = t \o u
    BY <1>4
  <2> HIDE DEF t, u, S
  <2>4. CASE s = t
    BY <2>1, <2>4 DEF RootKeys, S
  <2>5. CASE s = t \o u
    <3>1. /\ s \in Seq(S) /\ Len(s) = 4
          /\ \A i \in 1 .. 4 : s[i] = IF i <= 3 THEN t[i] ELSE u[i - 3]
      <4>1. /\ t \o u \in Seq(S)
            /\ Len(t \o u) = Len(t) + Len(u)
            /\ \A i \in 1 .. Len(t) + Len(u) :
                 (t \o u)[i] = IF i <= Len(t) THEN t[i] ELSE u[i - Len(t)]
        BY <2>1, <2>2, ConcatProperties, Zenon
      <4>2. Len(t) = 3 /\ Len(t) + Len(u) = 4
        BY <2>1, <2>2
      <4>3. QED  BY <2>5, <4>1, <4>2, Zenon
    <3>2. \A i \in 1 .. 4 : i \in 1 .. 3 \/ i = 4
      OBVIOUS
    <3>3. \A i \in 1 .. 4 : s[i] \in {a, b, c, e}
      BY <2>1, <2>2, <3>1, <3>2
    <3>4. QED  BY <3>1, <3>3 DEF RootKeys, S
  <2>6. QED  BY <2>3, <2>4, <2>5
<1>5. /\ X3dhInitiate(Initiator, Responder) \in RootKeys
      /\ \A i \in DOMAIN X3dhInitiate(Initiator, Responder) :
           \A k \in X3dhInitiate(Initiator, Responder)[i] : k[2] # "ratchet"
  <2> DEFINE p == Initiator
             q == Responder
             s == X3dhInitiate(p, q)
             a == DH(Key(p, "identity", 0), Key(q, "signed", 0))
             b == DH(Key(p, "ephemeral", 0), Key(q, "identity", 0))
             c == DH(Key(p, "ephemeral", 0), Key(q, "signed", 0))
             e == DH(Key(p, "ephemeral", 0), Key(q, "onetime", 0))
  <2>1. s = <<a, b, c>> \o IF OneTime THEN <<e>> ELSE <<>>
    BY DEF X3dhInitiate
  <2>2. \A x \in {a, b, c, e} : x \in SUBSET Keys /\ \A k \in x : k[2] # "ratchet"
    <3>1. \A u \in Uses \ {"ratchet"} : \A n \in {p, q} :
            Key(n, u, 0) \in Keys /\ Key(n, u, 0)[2] # "ratchet"
      BY <1>1, <1>3
    <3>2. {"identity", "signed", "ephemeral", "onetime"} \subseteq Uses \ {"ratchet"}
      BY DEF Uses
    <3>3. \A v, u \in Uses \ {"ratchet"} :
            /\ DH(Key(p, v, 0), Key(q, u, 0)) \in SUBSET Keys
            /\ \A k \in DH(Key(p, v, 0), Key(q, u, 0)) : k[2] # "ratchet"
      BY <3>1, <1>2
    <3>4. QED  BY <3>2, <3>3
  <2> HIDE DEF a, b, c, e, s
  <2>3. OneTime \in BOOLEAN
    BY RatchetAssumption
  <2>4. s \in RootKeys /\ \A i \in DOMAIN s : s[i] \in {a, b, c, e}
    <3>1. a \in SUBSET Keys /\ b \in SUBSET Keys /\ c \in SUBSET Keys /\ e \in SUBSET Keys
      BY <2>2
    <3>2. s \in {<<a, b, c>>, <<a, b, c>> \o <<e>>}
      <4>1. <<a, b, c>> \o <<>> = <<a, b, c>>
        BY <3>1, ConcatEmptySeq
      <4>2. QED  BY <2>1, <2>3, <4>1
    <3>3. QED  BY <3>1, <3>2, <1>4
  <2>5. QED  BY <2>2, <2>4 DEF s
<1>6. ASSUME NEW h \in Handshakes
      PROVE  /\ X3dhRespond(Responder, h) \in RootKeys
             /\ \A i \in DOMAIN X3dhRespond(Responder, h) :
                  \A k \in X3dhRespond(Responder, h)[i] :
                    k[2] # "ratchet" \/ k \in {h.identity, h.ephemeral}
  <2> DEFINE q == Responder
             s == X3dhRespond(q, h)
             a == DH(Key(q, "signed", 0), h.identity)
             b == DH(Key(q, "identity", 0), h.ephemeral)
             c == DH(Key(q, "signed", 0), h.ephemeral)
             e == DH(Key(q, "onetime", 0), h.ephemeral)
  <2>1. s = <<a, b, c>> \o IF h.usedOTP THEN <<e>> ELSE <<>>
    BY DEF X3dhRespond
  <2>a. h.identity \in Keys /\ h.ephemeral \in Keys /\ h.usedOTP \in BOOLEAN
    BY DEF Handshakes
  <2>2. \A x \in {a, b, c, e} : x \in SUBSET Keys
         /\ \A k \in x : k[2] # "ratchet" \/ k \in {h.identity, h.ephemeral}
    <3>1. \A u \in Uses \ {"ratchet"} : Key(q, u, 0) \in Keys /\ Key(q, u, 0)[2] # "ratchet"
      BY <1>1, <1>3
    <3>2. {"identity", "signed", "onetime"} \subseteq Uses \ {"ratchet"}
      BY DEF Uses
    <3>3. \A u \in Uses \ {"ratchet"} : \A x \in {h.identity, h.ephemeral} :
            /\ DH(Key(q, u, 0), x) \in SUBSET Keys
            /\ \A k \in DH(Key(q, u, 0), x) : k[2] # "ratchet" \/ k = x
      BY <3>1, <1>2, <2>a
    <3>4. QED  BY <3>2, <3>3
  <2> HIDE DEF a, b, c, e, s
  <2>4. s \in RootKeys /\ \A i \in DOMAIN s : s[i] \in {a, b, c, e}
    <3>1. a \in SUBSET Keys /\ b \in SUBSET Keys /\ c \in SUBSET Keys /\ e \in SUBSET Keys
      BY <2>2
    <3>2. s \in {<<a, b, c>>, <<a, b, c>> \o <<e>>}
      <4>1. <<a, b, c>> \o <<>> = <<a, b, c>>
        BY <3>1, ConcatEmptySeq
      <4>2. QED  BY <2>1, <2>a, <4>1
    <3>3. QED  BY <3>1, <3>2, <1>4
  <2>5. QED  BY <2>2, <2>4 DEF s
<1>7. QED  BY <1>5, <1>6

\* Initiate: the initiator's session, rooted in its first ratchet key.
LEMMA InitiateMakes ==
  ASSUME StateOK, KeysMade, Initiate
  PROVE  /\ ~Live(Initiator) /\ gen[Initiator] = 0
         /\ \E s \in Sessions :
              /\ sess' = [sess EXCEPT ![Initiator] = s]
              /\ s.ckr = NilChain /\ s.skipped = <<>> /\ s.ns = 0 /\ s.nr = 0 /\ s.pn = 0
              /\ s.dhs = Key(Initiator, "ratchet", 1) /\ s.dhr = Key(Responder, "signed", 0)
              /\ s.rk = KdfRoot(X3dhInitiate(Initiator, Responder), DH(s.dhs, s.dhr))
              /\ s.cks = Chain(s.rk) /\ s.rk # <<>>
              /\ s.dhs \in s.rk[Len(s.rk)]
              /\ \A i \in DOMAIN s.rk : \A k \in s.rk[i] :
                   k[2] # "ratchet" \/ k = s.dhs
         /\ gen' = [gen EXCEPT ![Initiator] = 1]
         /\ hs' \in Handshakes /\ hs'.identity[2] # "ratchet" /\ hs'.ephemeral[2] # "ratchet"
         /\ hs' = [identity |-> Key(Initiator, "identity", 0),
                   ephemeral |-> Key(Initiator, "ephemeral", 0), usedOTP |-> OneTime]
         /\ UNCHANGED <<net, sent, got, refused, dups>>
<1> DEFINE p == Initiator
           q == Responder
           k0 == Key(p, "ratchet", 1)
           remote == Key(q, "signed", 0)
           sk == X3dhInitiate(p, q)
           rk == KdfRoot(sk, DH(k0, remote))
           s == NewRatchetInitiator(sk, remote, k0)
<1>1. ~Live(p) /\ gen[p] = 0
  BY DEF Initiate, KeysMade, Live
<1>2. p \in Parties /\ q \in Parties
  BY DEF Parties
<1>3. k0 \in Keys /\ remote \in Keys /\ remote[2] = "signed"
  BY <1>2 DEF Key, Keys, Uses
<1>4. sk \in RootKeys /\ \A i \in DOMAIN sk : \A k \in sk[i] : k[2] # "ratchet"
  BY FirstSessions
<1>5. rk = KdfRoot(sk, DH(k0, remote))
  OBVIOUS
<1>6. s = [dhs |-> k0, dhr |-> remote, rk |-> rk, cks |-> Chain(rk), ckr |-> NilChain,
           ns |-> 0, nr |-> 0, pn |-> 0, skipped |-> <<>>]
  BY DEF NewRatchetInitiator
<1>7. sess' = [sess EXCEPT ![p] = s] /\ gen' = [gen EXCEPT ![p] = 1]
      /\ UNCHANGED <<net, sent, got, refused, dups>>
  BY DEF Initiate
<1>8. /\ hs' \in Handshakes /\ hs'.identity[2] # "ratchet" /\ hs'.ephemeral[2] # "ratchet"
      /\ hs' = [identity |-> Key(p, "identity", 0), ephemeral |-> Key(p, "ephemeral", 0),
                usedOTP |-> OneTime]
  <2>1. hs' = [identity |-> Key(p, "identity", 0), ephemeral |-> Key(p, "ephemeral", 0),
               usedOTP |-> OneTime]
    BY DEF Initiate
  <2>2. /\ Key(p, "identity", 0) \in Keys /\ Key(p, "ephemeral", 0) \in Keys
        /\ Key(p, "identity", 0)[2] # "ratchet" /\ Key(p, "ephemeral", 0)[2] # "ratchet"
    BY <1>2 DEF Key, Keys, Uses
  <2>3. QED  BY <2>1, <2>2, RatchetAssumption DEF Handshakes
<1> HIDE DEF sk, remote, k0, rk, s
<1>9. /\ rk \in RootKeys /\ rk # <<>> /\ rk[Len(rk)] = {k0, remote} /\ Len(rk) = Len(sk) + 1
      /\ Len(sk) \in Nat /\ DOMAIN rk = 1 .. Len(sk) + 1 /\ DOMAIN sk = 1 .. Len(sk)
      /\ \A i \in 1 .. Len(sk) : rk[i] = sk[i]
  <2>1. sk \in RootKeys
    BY <1>4
  <2>2. QED  BY <1>3, <1>5, <2>1, RootGrows
<1>10. \A i \in DOMAIN rk : \A k \in rk[i] : k[2] # "ratchet" \/ k = k0
  <2>1. \A i \in DOMAIN rk : i \in DOMAIN sk \/ i = Len(rk)
    BY <1>9
  <2>2. QED  BY <1>3, <1>4, <1>9, <2>1
<1>11. Chain(rk) \in ChainKeys /\ NilChain \in ChainKeys
  BY <1>9 DEF Chain, NilChain, ChainKeys, RootKeys
<1>12. <<>> \in SkippedKeys
  <2>1. <<>> \in [{} -> ChainKeys]
    OBVIOUS
  <2>2. QED  BY <2>1 DEF SkippedKeys
<1>13. s \in Sessions
  BY <1>3, <1>6, <1>9, <1>11, <1>12 DEF Sessions
<1>14. /\ s.ckr = NilChain /\ s.skipped = <<>> /\ s.ns = 0 /\ s.nr = 0 /\ s.pn = 0
       /\ s.dhs = k0 /\ s.dhr = remote /\ s.cks = Chain(rk) /\ s.rk = rk
  BY <1>6
<1>15. s.rk = KdfRoot(sk, DH(s.dhs, s.dhr))
  BY <1>5, <1>14
<1>16. QED  BY <1>1, <1>7, <1>8, <1>9, <1>10, <1>13, <1>14, <1>15 DEF k0, remote, sk

\* Accept: the responder's session, whose sending chain is not rooted yet.
LEMMA AcceptMakes ==
  ASSUME StateOK, KeysMade, Accept
  PROVE  /\ ~Live(Responder)
         /\ \E s \in Sessions :
              /\ sess' = [sess EXCEPT ![Responder] = s]
              /\ s.ckr = NilChain /\ s.skipped = <<>> /\ s.ns = 0 /\ s.nr = 0 /\ s.pn = 0
              /\ s.dhs[2] # "ratchet" /\ s.cks = NilChain
              /\ s.dhs = Key(Responder, "signed", 0) /\ s.dhr = NoKey
              /\ s.rk = X3dhRespond(Responder, hs) /\ MadeOf(s.rk)
         /\ hs # NoHandshake
         /\ UNCHANGED <<gen, hs, net, sent, got, refused, dups>>
<1> DEFINE q == Responder
           sk == X3dhRespond(q, hs)
           k0 == Key(q, "signed", 0)
           s == NewRatchetResponder(sk, k0)
<1>1. q \in Parties
  BY DEF Parties
<1>2. k0 \in Keys /\ k0[2] # "ratchet"
  BY <1>1 DEF Key, Keys, Uses
<1>3. hs \in Handshakes /\ Made(hs.identity) /\ Made(hs.ephemeral)
  BY DEF Accept, StateOK, KeysMade
<1>4. sk \in RootKeys /\ MadeOf(sk)
  <2>1. /\ sk \in RootKeys
        /\ \A i \in DOMAIN sk : \A k \in sk[i] :
             k[2] # "ratchet" \/ k \in {hs.identity, hs.ephemeral}
    BY <1>3, FirstSessions
  <2> HIDE DEF sk
  <2>2. QED  BY <2>1, <1>3 DEF Made, MadeOf
<1>5. NilChain \in ChainKeys
  BY DEF Chain, NilChain, ChainKeys, RootKeys
<1>6. <<>> \in SkippedKeys
  <2>1. <<>> \in [{} -> ChainKeys]
    OBVIOUS
  <2>2. QED  BY <2>1 DEF SkippedKeys
<1>7. s = [dhs |-> k0, dhr |-> NoKey, rk |-> sk, cks |-> NilChain, ckr |-> NilChain,
           ns |-> 0, nr |-> 0, pn |-> 0, skipped |-> <<>>]
  BY DEF NewRatchetResponder
<1>8. /\ ~Live(q) /\ sess' = [sess EXCEPT ![q] = s] /\ hs # NoHandshake
      /\ UNCHANGED <<gen, hs, net, sent, got, refused, dups>>
  BY DEF Accept, Live
<1> HIDE DEF sk, k0, s
<1>9. s \in Sessions
  BY <1>2, <1>4, <1>5, <1>6, <1>7 DEF Sessions
<1>10. /\ s.ckr = NilChain /\ s.skipped = <<>> /\ s.ns = 0 /\ s.nr = 0 /\ s.pn = 0
       /\ s.dhs = k0 /\ s.dhr = NoKey /\ s.cks = NilChain /\ s.rk = sk
  BY <1>7
<1>11. QED  BY <1>2, <1>4, <1>8, <1>9, <1>10 DEF sk, k0

\* Encrypt: the sending chain takes a step and its key seals the message.
LEMMA EncryptMakes ==
  ASSUME StateOK, NEW p \in Parties, Encrypt(p)
  PROVE  /\ Live(p) /\ sess[p] \in Sessions
         /\ \E s \in Sessions, w \in Messages :
              /\ sess' = [sess EXCEPT ![p] = s]
              /\ s.dhs = sess[p].dhs /\ s.rk = sess[p].rk /\ s.ckr = sess[p].ckr
              /\ s.dhr = sess[p].dhr /\ s.nr = sess[p].nr
              /\ s.skipped = sess[p].skipped /\ s.pn = sess[p].pn
              /\ s.ns = sess[p].ns + 1
              /\ s.cks.root = sess[p].cks.root /\ s.cks.step = sess[p].cks.step + 1
              /\ w.from = p /\ w.id = Len(sent[p]) + 1
              /\ w.dh = sess[p].dhs /\ w.key = sess[p].cks
              /\ w.pn = sess[p].pn /\ w.n = sess[p].ns
              /\ sent' = [sent EXCEPT ![p] = Append(@, w)]
              /\ net' = [net EXCEPT ![PeerOf(p)] = @ \cup {w}]
         /\ UNCHANGED <<gen, hs, got, refused, dups>>
<1> DEFINE r == sess[p]
           w == [from |-> p, id |-> Len(sent[p]) + 1,
                 dh |-> r.dhs, pn |-> r.pn, n |-> r.ns, key |-> MessageKey(r.cks)]
           cks == Stepped(r.cks, 1)
           ns == r.ns + 1
           s == [r EXCEPT !.ns = ns, !.cks = cks]
<1>1. Live(p) /\ r \in Sessions
  BY HasSession DEF Encrypt, Live
<1>2. /\ r.cks \in ChainKeys /\ r.ns \in Nat /\ r.pn \in Nat /\ r.dhs \in Keys
  BY <1>1 DEF Sessions
<1>3. cks \in ChainKeys /\ cks.root = r.cks.root /\ cks.step = r.cks.step + 1
  BY <1>2 DEF Stepped, ChainKeys
<1>4. ns \in Nat /\ Len(sent[p]) \in Nat
  BY <1>2 DEF StateOK
<1>5. w \in Messages /\ w.key = r.cks
  BY <1>2, <1>4 DEF Messages, MessageKey
<1>6. sess' = [sess EXCEPT ![p] = s]
  <2>1. sess' = [sess EXCEPT ![p].ns = @ + 1, ![p].cks = Stepped(@, 1)]
    BY DEF Encrypt
  <2>2. p \in DOMAIN sess /\ DOMAIN r = {"dhs", "dhr", "rk", "cks", "ckr", "ns", "nr", "pn", "skipped"}
    BY <1>1 DEF StateOK, Sessions
  <2>3. QED  BY <2>1, <2>2
<1>7. /\ sent' = [sent EXCEPT ![p] = Append(@, w)]
      /\ net' = [net EXCEPT ![PeerOf(p)] = @ \cup {w}]
      /\ UNCHANGED <<gen, hs, got, refused, dups>>
  BY DEF Encrypt
<1>8. w.from = p /\ w.id = Len(sent[p]) + 1 /\ w.dh = r.dhs /\ w.pn = r.pn /\ w.n = r.ns
  OBVIOUS
<1> HIDE DEF cks, ns, w
<1>9. /\ s \in Sessions
      /\ s.dhs = r.dhs /\ s.rk = r.rk /\ s.ckr = r.ckr
      /\ s.skipped = r.skipped /\ s.pn = r.pn /\ s.ns = ns /\ s.cks = cks
      /\ s.dhr = r.dhr /\ s.nr = r.nr
  BY <1>1, <1>3, <1>4 DEF Sessions
<1> HIDE DEF s
<1>10. QED  BY <1>1, <1>3, <1>5, <1>6, <1>7, <1>8, <1>9 DEF ns

\* The spent keys are keys of messages the peer sealed.
LEMMA SpentKeys ==
  ASSUME StateOK, BookOK, NEW p \in Parties
  PROVE  Spent(p) \in SUBSET ChainKeys
<1>1. PeerOf(p) \in Parties
  BY HasSession
<1>2. sent[PeerOf(p)] \in Seq(Messages) /\ got[p] \in Seq(Nat)
  BY <1>1 DEF StateOK
<1>3. \A i \in DOMAIN got[p] : got[p][i] \in DOMAIN sent[PeerOf(p)]
  BY DEF BookOK
<1>4. \A i \in DOMAIN got[p] : sent[PeerOf(p)][got[p][i]] \in Messages
  BY <1>2, <1>3
<1>5. QED  BY <1>4 DEF Spent, Messages

\* Arrive: what decrypt returns becomes the session, and its sending side stays
\* or turns to a key pair generated in this step.
LEMMA ArriveMakes ==
  ASSUME StateOK, BookOK, OpenInv, NEW p \in Parties, NEW w \in net[p], Arrive(p, w)
  PROVE  /\ Live(p) /\ sess[p] \in Sessions /\ w \in Messages /\ FromPeer(p, w)
         /\ \E s \in Sessions :
              /\ sess' = [sess EXCEPT ![p] = s]
              /\ \/ /\ got' = [got EXCEPT ![p] = Append(@, w.id)] /\ UNCHANGED refused
                    /\ w.key \notin Spent(p) /\ ReceivesOnce(s, Spent(p) \cup {w.key})
                 \/ /\ refused' = [refused EXCEPT ![p] = @ \cup {w}] /\ UNCHANGED got
                    /\ ReceivesOnce(s, Spent(p))
              /\ \/ /\ s.dhs = sess[p].dhs /\ s.rk = sess[p].rk /\ s.cks = sess[p].cks
                    /\ s.ns = sess[p].ns /\ s.pn = sess[p].pn
                 \/ /\ s.dhs = Key(p, "ratchet", gen[p] + 1) /\ s.ns = 0 /\ s.pn = sess[p].ns
                    /\ s.rk = KdfRoot(KdfRoot(sess[p].rk, DH(sess[p].dhs, w.dh)), DH(s.dhs, w.dh))
                    /\ s.cks = Chain(s.rk)
              /\ gen' = [gen EXCEPT ![p] =
                           IF s.dhs = Key(p, "ratchet", gen[p] + 1) THEN @ + 1 ELSE @]
         /\ \/ net' = [net EXCEPT ![p] = @ \ {w}] /\ UNCHANGED dups
            \/ dups < MaxDups /\ dups' = dups + 1 /\ UNCHANGED net
         /\ UNCHANGED gen \/ gen' = [gen EXCEPT ![p] = @ + 1]
         /\ UNCHANGED <<hs, sent>>
<1> DEFINE r == sess[p]
           k == Key(p, "ratchet", gen[p] + 1)
           d == Decrypt(r, w, k)
<1>1. Live(p) /\ r \in Sessions
  BY HasSession DEF Arrive, Live
<1>2. w \in Messages /\ FromPeer(p, w)
  BY DEF StateOK, BookOK
<1>3. k \in Keys
  BY DEF StateOK, Key, Keys, Uses
<1>4. Spent(p) \in SUBSET ChainKeys /\ ReceivesOnce(r, Spent(p))
  BY <1>1, SpentKeys DEF OpenInv
<1>5. /\ sess' = [sess EXCEPT ![p] = d.r]
      /\ gen' = [gen EXCEPT ![p] = IF d.r.dhs = k THEN @ + 1 ELSE @]
      /\ got' = IF d.ok THEN [got EXCEPT ![p] = Append(@, w.id)] ELSE got
      /\ refused' = IF d.ok THEN refused ELSE [refused EXCEPT ![p] = @ \cup {w}]
      /\ \/ net' = [net EXCEPT ![p] = @ \ {w}] /\ UNCHANGED dups
         \/ dups < MaxDups /\ dups' = dups + 1 /\ UNCHANGED net
      /\ UNCHANGED <<hs, sent>>
  BY DEF Arrive
<1> HIDE DEF k
<1>6. /\ d.r \in Sessions /\ d.ok \in BOOLEAN
      /\ d.ok => w.key \notin Spent(p) /\ ReceivesOnce(d.r, Spent(p) \cup {w.key})
      /\ ~d.ok => ReceivesOnce(d.r, Spent(p))
  BY <1>1, <1>2, <1>3, <1>4, DecryptSpends
<1>7. \/ /\ d.r.dhs = r.dhs /\ d.r.rk = r.rk /\ d.r.cks = r.cks
         /\ d.r.ns = r.ns /\ d.r.pn = r.pn
      \/ /\ d.r.dhs = k /\ d.r.ns = 0 /\ d.r.pn = r.ns
         /\ d.r.rk = KdfRoot(KdfRoot(r.rk, DH(r.dhs, w.dh)), DH(k, w.dh))
         /\ d.r.cks = Chain(d.r.rk)
  BY <1>1, <1>2, <1>3, <1>4, DecryptSpends
<1> HIDE DEF d
<1>8. PICK s : s = d.r
  OBVIOUS
<1>9. /\ s \in Sessions /\ sess' = [sess EXCEPT ![p] = s]
      /\ gen' = [gen EXCEPT ![p] = IF s.dhs = k THEN @ + 1 ELSE @]
  BY <1>5, <1>6, <1>8
<1>10. \/ /\ got' = [got EXCEPT ![p] = Append(@, w.id)] /\ UNCHANGED refused
          /\ w.key \notin Spent(p) /\ ReceivesOnce(s, Spent(p) \cup {w.key})
       \/ /\ refused' = [refused EXCEPT ![p] = @ \cup {w}] /\ UNCHANGED got
          /\ ReceivesOnce(s, Spent(p))
  BY <1>5, <1>6, <1>8
<1>11. \/ /\ s.dhs = r.dhs /\ s.rk = r.rk /\ s.cks = r.cks
          /\ s.ns = r.ns /\ s.pn = r.pn
       \/ /\ s.dhs = k /\ s.ns = 0 /\ s.pn = r.ns
          /\ s.rk = KdfRoot(KdfRoot(r.rk, DH(r.dhs, w.dh)), DH(s.dhs, w.dh))
          /\ s.cks = Chain(s.rk)
  BY <1>7, <1>8
<1>12. UNCHANGED gen \/ gen' = [gen EXCEPT ![p] = @ + 1]
  <2>1. gen = [gen EXCEPT ![p] = @]
    BY DEF StateOK
  <2>2. QED  BY <1>5, <2>1
<1>13. QED  BY <1>1, <1>2, <1>5, <1>9, <1>10, <1>11, <1>12 DEF k

-----------------------------------------------------------------------------
(* The invariant, part by part *)

\* The types of the state hold in every step.
LEMMA StateKept ==
  ASSUME RatchetInv, [Next]_vars
  PROVE  StateOK'
<1>1. StateOK /\ BookOK /\ KeysMade /\ OpenInv
  BY DEF RatchetInv
<1>2. Initiator \in Parties /\ Responder \in Parties
  BY DEF Parties
<1>3. CASE Initiate
  <2>1. PICK s \in Sessions : sess' = [sess EXCEPT ![Initiator] = s]
    BY <1>1, <1>3, InitiateMakes
  <2>2. /\ gen' = [gen EXCEPT ![Initiator] = 1] /\ hs' \in Handshakes
        /\ UNCHANGED <<net, sent, got, refused, dups>>
    BY <1>1, <1>3, InitiateMakes
  <2>3. sess' \in [Parties -> Sessions \cup {NoSession}]
    BY <1>1, <2>1 DEF StateOK
  <2>4. gen' \in [Parties -> Nat]
    BY <1>1, <2>2 DEF StateOK
  <2>5. QED  BY <1>1, <2>2, <2>3, <2>4 DEF StateOK
<1>4. CASE Accept
  <2>1. PICK s \in Sessions : sess' = [sess EXCEPT ![Responder] = s]
    BY <1>1, <1>4, AcceptMakes
  <2>2. UNCHANGED <<gen, hs, net, sent, got, refused, dups>>
    BY <1>1, <1>4, AcceptMakes
  <2>3. QED  BY <1>1, <2>1, <2>2 DEF StateOK
<1>5. ASSUME NEW p \in Parties, Encrypt(p) PROVE StateOK'
  <2>1. PICK s \in Sessions, w \in Messages :
          /\ sess' = [sess EXCEPT ![p] = s]
          /\ sent' = [sent EXCEPT ![p] = Append(@, w)]
          /\ net' = [net EXCEPT ![PeerOf(p)] = @ \cup {w}]
    BY <1>1, <1>5, EncryptMakes
  <2>2. UNCHANGED <<gen, hs, got, refused, dups>>
    BY <1>1, <1>5, EncryptMakes
  <2>3. sess' \in [Parties -> Sessions \cup {NoSession}]
    BY <1>1, <2>1 DEF StateOK
  <2>4. net' \in [Parties -> SUBSET Messages]
    BY <1>1, <2>1 DEF StateOK
  <2>5. sent' \in [Parties -> Seq(Messages)]
    BY <1>1, <2>1 DEF StateOK
  <2>6. QED  BY <1>1, <2>2, <2>3, <2>4, <2>5 DEF StateOK
<1>6. ASSUME NEW p \in Parties, NEW w \in net[p], Arrive(p, w) PROVE StateOK'
  <2>1. w \in Messages /\ w.id \in Nat
    BY <1>1, <1>6, ArriveMakes DEF Messages
  <2>2. PICK s \in Sessions :
          /\ sess' = [sess EXCEPT ![p] = s]
          /\ \/ got' = [got EXCEPT ![p] = Append(@, w.id)] /\ UNCHANGED refused
             \/ refused' = [refused EXCEPT ![p] = @ \cup {w}] /\ UNCHANGED got
    BY <1>1, <1>6, ArriveMakes
  <2>3. /\ \/ net' = [net EXCEPT ![p] = @ \ {w}] /\ UNCHANGED dups
           \/ dups < MaxDups /\ dups' = dups + 1 /\ UNCHANGED net
        /\ UNCHANGED gen \/ gen' = [gen EXCEPT ![p] = @ + 1]
        /\ UNCHANGED <<hs, sent>>
    BY <1>1, <1>6, ArriveMakes
  <2>4. sess' \in [Parties -> Sessions \cup {NoSession}]
    BY <1>1, <2>2 DEF StateOK
  <2>a. got \in [Parties -> Seq(Nat)] /\ refused \in [Parties -> SUBSET Messages]
    BY <1>1 DEF StateOK
  <2>b. [got EXCEPT ![p] = Append(@, w.id)] \in [Parties -> Seq(Nat)]
    BY <2>1, <2>a
  <2>c. [refused EXCEPT ![p] = @ \cup {w}] \in [Parties -> SUBSET Messages]
    BY <2>1, <2>a
  <2>5. got' \in [Parties -> Seq(Nat)]
    BY <2>2, <2>a, <2>b
  <2>6. refused' \in [Parties -> SUBSET Messages]
    BY <2>2, <2>a, <2>c
  <2>7. gen' \in [Parties -> Nat]
    <3>1. gen \in [Parties -> Nat]
      BY <1>1 DEF StateOK
    <3>2. [gen EXCEPT ![p] = @ + 1] \in [Parties -> Nat]
      BY <3>1
    <3>3. QED  BY <2>3, <3>1, <3>2
  <2>8. net' \in [Parties -> SUBSET Messages]
    BY <1>1, <2>3 DEF StateOK
  <2>9. dups' \in 0 .. MaxDups
    BY <1>1, <2>3, RatchetAssumption DEF StateOK
  <2>10. QED  BY <1>1, <2>3, <2>4, <2>5, <2>6, <2>7, <2>8, <2>9 DEF StateOK
<1>7. CASE UNCHANGED vars
  BY <1>1, <1>7 DEF StateOK, vars
<1>8. QED  BY <1>3, <1>4, <1>5, <1>6, <1>7 DEF Next

\* The book of messages: what is numbered, in flight or opened.
LEMMA BookKept ==
  ASSUME RatchetInv, [Next]_vars
  PROVE  BookOK'
<1>1. StateOK /\ BookOK /\ KeysMade /\ OpenInv /\ StateOK'
  BY StateKept DEF RatchetInv
<1>2. Initiator \in Parties /\ Responder \in Parties
  BY DEF Parties
<1>3. \A p \in Parties : PeerOf(p) \in Parties /\ PeerOf(p) # p
  BY <1>1, HasSession
<1>4. \A p \in Parties : Live(p) <=> sess[p] \in Sessions
  BY <1>1, HasSession
<1>5. \A p \in Parties : Live(p)' <=> sess'[p] \in Sessions
  <2>1. NoSession \notin Sessions
    BY <1>1, <1>2, HasSession DEF NoSession, NoKey, Sessions, Keys, Uses
  <2>2. QED  BY <1>1, <2>1 DEF StateOK, Live
<1>6. ASSUME NEW q \in Parties, NEW s \in Sessions, sess' = [sess EXCEPT ![q] = s],
             s.ns + s.pn <= Len(sent[q]), UNCHANGED sent
      PROVE  \A p \in Parties :
               /\ sent'[p] # <<>> => Live(p)'
               /\ Live(p)' => sess'[p].ns + sess'[p].pn <= Len(sent'[p])
  BY <1>1, <1>4, <1>5, <1>6 DEF StateOK, BookOK
<1>7. CASE Initiate
  <2>1. PICK s \in Sessions : sess' = [sess EXCEPT ![Initiator] = s] /\ s.ns = 0 /\ s.pn = 0
    BY <1>1, <1>7, InitiateMakes
  <2>2. UNCHANGED <<net, sent, got, refused, dups>>
    BY <1>1, <1>7, InitiateMakes
  <2>3. s.ns + s.pn <= Len(sent[Initiator])
    BY <1>1, <1>2, <2>1 DEF StateOK
  <2>4. \A p \in Parties : /\ sent'[p] # <<>> => Live(p)'
                           /\ Live(p)' => sess'[p].ns + sess'[p].pn <= Len(sent'[p])
    BY <1>2, <1>6, <2>1, <2>2, <2>3
  <2>5. QED  BY <1>1, <2>2, <2>4 DEF BookOK, FromPeer
<1>8. CASE Accept
  <2>1. PICK s \in Sessions : sess' = [sess EXCEPT ![Responder] = s] /\ s.ns = 0 /\ s.pn = 0
    BY <1>1, <1>8, AcceptMakes
  <2>2. UNCHANGED <<net, sent, got, refused, dups>>
    BY <1>1, <1>8, AcceptMakes
  <2>3. s.ns + s.pn <= Len(sent[Responder])
    BY <1>1, <1>2, <2>1 DEF StateOK
  <2>4. \A p \in Parties : /\ sent'[p] # <<>> => Live(p)'
                           /\ Live(p)' => sess'[p].ns + sess'[p].pn <= Len(sent'[p])
    BY <1>2, <1>6, <2>1, <2>2, <2>3
  <2>5. QED  BY <1>1, <2>2, <2>4 DEF BookOK, FromPeer
<1>9. ASSUME NEW p \in Parties, Encrypt(p) PROVE BookOK'
  <2>1. Live(p) /\ sess[p] \in Sessions
    BY <1>1, <1>9, EncryptMakes
  <2>2. PICK s \in Sessions, w \in Messages :
          /\ sess' = [sess EXCEPT ![p] = s]
          /\ s.ns = sess[p].ns + 1 /\ s.pn = sess[p].pn
          /\ w.from = p /\ w.id = Len(sent[p]) + 1
          /\ sent' = [sent EXCEPT ![p] = Append(@, w)]
          /\ net' = [net EXCEPT ![PeerOf(p)] = @ \cup {w}]
    BY <1>1, <1>9, EncryptMakes
  <2>3. UNCHANGED <<gen, hs, got, refused, dups>>
    BY <1>1, <1>9, EncryptMakes
  <2>4. /\ sent[p] \in Seq(Messages) /\ sent'[p] = Append(sent[p], w) /\ Len(sent[p]) \in Nat
        /\ \A q \in Parties : q # p => sent'[q] = sent[q] /\ sess'[q] = sess[q]
        /\ sess'[p] = s
    BY <1>1, <2>2 DEF StateOK
  <2>5. /\ DOMAIN sent[p] = 1 .. Len(sent[p]) /\ DOMAIN sent'[p] = 1 .. Len(sent[p]) + 1
        /\ Len(sent'[p]) = Len(sent[p]) + 1
        /\ sent'[p][w.id] = w /\ \A i \in DOMAIN sent[p] : sent'[p][i] = sent[p][i]
    BY <2>2, <2>4
  <2>6. \A q \in Parties : DOMAIN sent[q] \subseteq DOMAIN sent'[q]
                           /\ \A i \in DOMAIN sent[q] : sent'[q][i] = sent[q][i]
    BY <2>4, <2>5
  <2>7. ASSUME NEW q \in Parties, NEW i \in DOMAIN sent'[q]
        PROVE  sent'[q][i].from = q /\ sent'[q][i].id = i
    <3>1. CASE i \in DOMAIN sent[q]
      BY <1>1, <2>6, <3>1 DEF BookOK
    <3>2. CASE i \notin DOMAIN sent[q]
      <4>1. q = p /\ i = w.id
        BY <2>2, <2>4, <2>5, <2>7, <3>2
      <4>2. QED  BY <2>2, <2>5, <4>1
    <3>3. QED  BY <3>1, <3>2
  <2>8. ASSUME NEW q \in Parties, NEW v \in net'[q] \cup refused'[q]
        PROVE  /\ v.from = PeerOf(q) /\ v.id \in DOMAIN sent'[PeerOf(q)]
               /\ sent'[PeerOf(q)][v.id] = v
    <3>1. CASE v \in net[q] \cup refused[q]
      BY <1>1, <1>3, <2>6, <3>1 DEF BookOK, FromPeer
    <3>2. CASE v \notin net[q] \cup refused[q]
      <4>1. v = w /\ q = PeerOf(p)
        BY <1>1, <2>2, <2>3, <2>8, <3>2 DEF StateOK
      <4>2. PeerOf(q) = p
        BY <1>1, <4>1, HasSession
      <4>3. QED  BY <2>2, <2>4, <2>5, <4>1, <4>2
    <3>3. QED  BY <3>1, <3>2
  <2>9. \A q \in Parties : \A i \in DOMAIN got'[q] : got'[q][i] \in DOMAIN sent'[PeerOf(q)]
    BY <1>1, <1>3, <2>3, <2>6 DEF BookOK
  <2>10. ASSUME NEW q \in Parties
         PROVE  /\ sent'[q] # <<>> => Live(q)'
                /\ Live(q)' => sess'[q].ns + sess'[q].pn <= Len(sent'[q])
    <3>1. CASE q = p
      <4>1. sess[p].ns + sess[p].pn <= Len(sent[p]) /\ sess[p].ns \in Nat /\ sess[p].pn \in Nat
        BY <1>1, <2>1 DEF BookOK, Sessions
      <4>2. sess'[p].ns + sess'[p].pn <= Len(sent'[p])
        BY <2>2, <2>4, <2>5, <4>1
      <4>3. QED  BY <1>5, <2>4, <3>1, <4>2
    <3>2. CASE q # p
      BY <1>1, <1>4, <1>5, <2>4, <3>2 DEF BookOK
    <3>3. QED  BY <3>1, <3>2
  <2>11. QED  BY <2>7, <2>8, <2>9, <2>10 DEF BookOK, FromPeer
<1>10. ASSUME NEW p \in Parties, NEW w \in net[p], Arrive(p, w) PROVE BookOK'
  <2>1. Live(p) /\ sess[p] \in Sessions /\ w \in Messages /\ FromPeer(p, w)
    BY <1>1, <1>10, ArriveMakes
  <2>2. PICK s \in Sessions :
          /\ sess' = [sess EXCEPT ![p] = s]
          /\ \/ got' = [got EXCEPT ![p] = Append(@, w.id)] /\ UNCHANGED refused
             \/ refused' = [refused EXCEPT ![p] = @ \cup {w}] /\ UNCHANGED got
          /\ \/ s.ns = sess[p].ns /\ s.pn = sess[p].pn
             \/ s.ns = 0 /\ s.pn = sess[p].ns
    BY <1>1, <1>10, ArriveMakes
  <2>3. /\ net' = [net EXCEPT ![p] = @ \ {w}] \/ net' = net
        /\ UNCHANGED <<hs, sent>>
    BY <1>1, <1>10, ArriveMakes
  <2>4. s.ns + s.pn <= Len(sent[p])
    <3>1. /\ sess[p].ns + sess[p].pn <= Len(sent[p]) /\ sess[p].ns \in Nat /\ sess[p].pn \in Nat
          /\ Len(sent[p]) \in Nat
      BY <1>1, <2>1 DEF BookOK, Sessions, StateOK
    <3>2. QED  BY <2>2, <3>1
  <2>5. \A q \in Parties : /\ sent'[q] # <<>> => Live(q)'
                           /\ Live(q)' => sess'[q].ns + sess'[q].pn <= Len(sent'[q])
    BY <1>6, <2>2, <2>3, <2>4
  <2>6. \A q \in Parties : \A v \in net'[q] \cup refused'[q] : v \in net[q] \cup refused[q]
    <3>1. \A q \in Parties : net'[q] \subseteq net[q]
      BY <1>1, <2>3 DEF StateOK
    <3>2. \A q \in Parties : refused'[q] \subseteq refused[q] \cup (net[q] \cup refused[q])
      <4>1. refused \in [Parties -> SUBSET Messages]
        BY <1>1 DEF StateOK
      <4>2. \A q \in Parties : [refused EXCEPT ![p] = @ \cup {w}][q] \subseteq net[q] \cup refused[q]
        BY <4>1
      <4>3. QED  BY <2>2, <4>2
    <3>3. QED  BY <3>1, <3>2
  <2>7. \A q \in Parties : \A i \in DOMAIN got'[q] : got'[q][i] \in DOMAIN sent[PeerOf(q)]
    <3>1. CASE UNCHANGED got
      BY <1>1, <3>1 DEF BookOK
    <3>2. CASE got' = [got EXCEPT ![p] = Append(@, w.id)]
      <4>1. w.id \in DOMAIN sent[PeerOf(p)] /\ w.id \in Nat
        BY <2>1 DEF FromPeer, Messages
      <4>2. /\ got[p] \in Seq(Nat) /\ got'[p] = Append(got[p], w.id)
            /\ \A q \in Parties : q # p => got'[q] = got[q]
        BY <1>1, <3>2 DEF StateOK
      <4>3. \A i \in DOMAIN got'[p] : (i \in DOMAIN got[p] /\ got'[p][i] = got[p][i]) \/ got'[p][i] = w.id
        BY <4>1, <4>2
      <4>4. QED  BY <1>1, <4>1, <4>2, <4>3 DEF BookOK
    <3>3. QED  BY <2>2, <3>1, <3>2
  <2>8. QED  BY <1>1, <2>3, <2>5, <2>6, <2>7 DEF BookOK, FromPeer
<1>11. CASE UNCHANGED vars
  BY <1>1, <1>11 DEF BookOK, FromPeer, vars, Live
<1>12. QED  BY <1>7, <1>8, <1>9, <1>10, <1>11 DEF Next

\* Generating a pair leaves every known key known.
LEMMA MadeStays ==
  ASSUME \A p \in Parties : gen[p] \in Nat /\ gen'[p] \in Nat /\ gen[p] <= gen'[p]
  PROVE  /\ \A k \in Keys : Made(k) => Made(k)'
         /\ \A rk \in RootKeys : MadeOf(rk) => MadeOf(rk)'
<1>1. \A k \in Keys : k[1] \in Parties /\ k[3] \in Nat
  BY DEF Keys
<1>2. \A k \in Keys : Made(k) => Made(k)'
  BY <1>1 DEF Made
<1>3. \A rk \in RootKeys : \A i \in DOMAIN rk : \A k \in rk[i] : k \in Keys
  BY DEF RootKeys
<1>4. QED  BY <1>2, <1>3 DEF MadeOf

\* The root after a DH ratchet step: the old one and the two new outputs.
Turned(rk, own, dh, fresh) == KdfRoot(KdfRoot(rk, DH(own, dh)), DH(fresh, dh))

Entries(root, rk, own, dh, fresh) ==
  /\ root \in RootKeys /\ root # <<>>
  /\ \E i \in DOMAIN root : root[i] = {fresh, dh}
  /\ \A i \in DOMAIN root :
       \/ root[i] = {fresh, dh} \/ root[i] = {own, dh}
       \/ \E j \in DOMAIN rk : root[i] = rk[j]

\* Its entries are the old ones and the two outputs.
LEMMA TurnedEntries ==
  ASSUME NEW rk \in RootKeys, NEW own \in Keys, NEW dh \in Keys, NEW fresh \in Keys
  PROVE  Entries(Turned(rk, own, dh, fresh), rk, own, dh, fresh)
<1> DEFINE mid == KdfRoot(rk, DH(own, dh))
           root == KdfRoot(mid, DH(fresh, dh))
<1>1. /\ mid \in RootKeys /\ DOMAIN mid = 1 .. Len(rk) + 1 /\ DOMAIN rk = 1 .. Len(rk)
      /\ Len(mid) = Len(rk) + 1 /\ Len(rk) \in Nat /\ mid[Len(rk) + 1] = {own, dh}
      /\ \A i \in 1 .. Len(rk) : mid[i] = rk[i]
  BY RootGrows
<1> HIDE DEF mid
<1>3. /\ root \in RootKeys /\ root # <<>>
      /\ DOMAIN root = 1 .. Len(mid) + 1 /\ DOMAIN mid = 1 .. Len(mid)
      /\ root[Len(mid) + 1] = {fresh, dh} /\ Len(mid) \in Nat
      /\ \A i \in 1 .. Len(mid) : root[i] = mid[i]
  <2>1. mid \in RootKeys
    BY <1>1
  <2>2. QED  BY <2>1, RootGrows
<1>2. root = Turned(rk, own, dh, fresh)
  BY DEF Turned, mid
<1> HIDE DEF root
<1>4. \A i \in DOMAIN root : i \in DOMAIN mid \/ i = Len(mid) + 1
  BY <1>3
<1>5. \A i \in DOMAIN mid : i \in DOMAIN rk \/ i = Len(rk) + 1
  BY <1>1
<1>6. Len(mid) + 1 \in DOMAIN root
  BY <1>3
<1>7. Entries(root, rk, own, dh, fresh)
  BY <1>1, <1>3, <1>4, <1>5, <1>6 DEF Entries
<1>8. QED  BY <1>2, <1>7

\* A root that ends with a pair generated in this step is new.
LEMMA FreshRoot ==
  ASSUME StateOK, NEW p \in Parties, NEW rk \in RootKeys, NEW own \in Keys, NEW dh \in Keys,
         NEW fresh \in Keys, fresh[1] = p, fresh[2] = "ratchet", fresh[3] = gen[p] + 1,
         MadeOf(rk), Made(own), Made(dh), gen' = [gen EXCEPT ![p] = @ + 1]
  PROVE  LET root == Turned(rk, own, dh, fresh) IN
         root \in RootKeys /\ ~MadeOf(root) /\ MadeOf(root)' /\ Made(fresh)' /\ root # <<>>
<1> DEFINE root == Turned(rk, own, dh, fresh)
<1>1. gen \in [Parties -> Nat]
  BY DEF StateOK
<1>2. /\ gen[p] \in Nat /\ gen'[p] = gen[p] + 1
      /\ \A q \in Parties : gen[q] \in Nat /\ gen'[q] \in Nat /\ gen[q] <= gen'[q]
  BY <1>1
<1>4. ~Made(fresh) /\ Made(fresh)'
  BY <1>2 DEF Made
<1>5. MadeOf(rk)' /\ Made(own)' /\ Made(dh)'
  BY <1>2, MadeStays
<1>6. Entries(root, rk, own, dh, fresh)
  BY TurnedEntries
<1> HIDE DEF root
<1>7. MadeOf(root)'
  BY <1>4, <1>5, <1>6 DEF MadeOf, Entries
<1>8. ~MadeOf(root)
  BY <1>4, <1>6 DEF MadeOf, Entries
<1>9. QED  BY <1>4, <1>6, <1>7, <1>8 DEF root, Entries

\* What a step does to the sending side of its party: it keeps its root, or
\* takes a new one, or the responder has its first session.
Sends(p, s) ==
  /\ sess' = [sess EXCEPT ![p] = s]
  /\ Made(s.dhs)' /\ MadeOf(s.rk)' /\ MadeOf(s.cks.root)'
  /\ \/ /\ Live(p) /\ s.cks = sess[p].cks
     \/ /\ ~MadeOf(s.cks.root) /\ s.cks.root # <<>>
     \/ /\ ~Live(p) /\ p = Responder /\ s.cks = NilChain

\* Every step but encrypt is such a step, generates no pair twice and seals
\* nothing.
LEMMA SendsStep ==
  ASSUME RatchetInv, Next, ~ \E p \in Parties : Encrypt(p)
  PROVE  /\ \E p \in Parties, s \in Sessions : Sends(p, s)
         /\ UNCHANGED sent
         /\ \A p \in Parties : gen[p] \in Nat /\ gen'[p] \in Nat /\ gen[p] <= gen'[p]
         /\ hs' = hs \/ (Made(hs.identity) /\ Made(hs.ephemeral))'
         /\ (~Live(Initiator))' => gen'[Initiator] = 0
<1>1. StateOK /\ BookOK /\ KeysMade /\ OpenInv /\ gen \in [Parties -> Nat]
  BY DEF RatchetInv, StateOK
<1>2. Initiator \in Parties /\ Responder \in Parties /\ Initiator # Responder
  BY RatchetAssumption DEF Parties
<1>3. \A p \in Parties : gen[p] \in Nat
  BY <1>1
<1>4. DOMAIN sess = Parties
  BY <1>1 DEF StateOK
<1>5. CASE Initiate
  <2>1. PICK s \in Sessions :
          /\ sess' = [sess EXCEPT ![Initiator] = s]
          /\ s.dhs = Key(Initiator, "ratchet", 1)
          /\ s.cks = Chain(s.rk) /\ s.rk # <<>>
          /\ s.dhs \in s.rk[Len(s.rk)]
          /\ \A i \in DOMAIN s.rk : \A k \in s.rk[i] : k[2] # "ratchet" \/ k = s.dhs
    BY <1>1, <1>5, InitiateMakes
  <2>2. /\ gen[Initiator] = 0 /\ gen' = [gen EXCEPT ![Initiator] = 1]
        /\ hs'.identity[2] # "ratchet" /\ hs'.ephemeral[2] # "ratchet"
        /\ UNCHANGED sent
    BY <1>1, <1>5, InitiateMakes
  <2>3. gen'[Initiator] = 1 /\ \A p \in Parties : gen'[p] \in Nat /\ gen[p] <= gen'[p]
    BY <1>1, <1>2, <2>2
  <2>4. s.dhs[1] = Initiator /\ s.dhs[2] = "ratchet" /\ s.dhs[3] = 1
    BY <2>1 DEF Key
  <2>5. ~Made(s.dhs) /\ Made(s.dhs)'
    BY <2>2, <2>3, <2>4 DEF Made
  <2>6. s.rk \in RootKeys /\ Len(s.rk) \in DOMAIN s.rk
    <3>1. s.rk \in RootKeys
      BY DEF Sessions
    <3>2. QED  BY <2>1, <3>1 DEF RootKeys
  <2>7. ~MadeOf(s.rk)
    BY <2>1, <2>5, <2>6 DEF MadeOf
  <2>8. MadeOf(s.rk)'
    BY <2>1, <2>5 DEF MadeOf, Made
  <2>9. s.cks.root = s.rk
    BY <2>1 DEF Chain
  <2>10. Sends(Initiator, s)
    BY <2>1, <2>5, <2>7, <2>8, <2>9 DEF Sends
  <2>11. (Made(hs.identity) /\ Made(hs.ephemeral))'
    BY <2>2 DEF Made
  <2>12. Live(Initiator)'
    <3>1. sess'[Initiator] = s
      BY <1>2, <1>4, <2>1
    <3>2. NoSession.dhs = NoKey /\ NoKey \notin Keys /\ s.dhs \in Keys
      BY DEF NoSession, NoKey, Keys, Uses, Sessions
    <3>3. QED  BY <3>1, <3>2 DEF Live
  <2>13. QED  BY <1>2, <1>3, <2>2, <2>3, <2>10, <2>11, <2>12
<1>6. CASE Accept
  <2>1. PICK s \in Sessions :
          /\ sess' = [sess EXCEPT ![Responder] = s]
          /\ s.dhs[2] # "ratchet" /\ s.cks = NilChain /\ MadeOf(s.rk)
    BY <1>1, <1>6, AcceptMakes
  <2>2. ~Live(Responder) /\ UNCHANGED <<gen, hs, sent>>
    BY <1>1, <1>6, AcceptMakes
  <2>3. Made(s.dhs)' /\ MadeOf(s.rk)' /\ MadeOf(s.cks.root)'
    BY <2>1, <2>2 DEF Made, MadeOf, NilChain, Chain
  <2>4. Sends(Responder, s)
    BY <2>1, <2>2, <2>3 DEF Sends
  <2>5. Live(Initiator)' <=> Live(Initiator)
    BY <1>2, <1>4, <2>1 DEF Live
  <2>6. QED  BY <1>1, <1>2, <1>3, <2>2, <2>4, <2>5 DEF KeysMade
<1>7. ASSUME NEW p \in Parties, NEW w \in net[p], Arrive(p, w)
      PROVE  /\ \E s \in Sessions : Sends(p, s)
             /\ UNCHANGED <<hs, sent>>
             /\ \A q \in Parties : gen'[q] \in Nat /\ gen[q] <= gen'[q]
             /\ (~Live(Initiator))' => gen'[Initiator] = 0
  <2>1. /\ Live(p) /\ sess[p] \in Sessions /\ w \in Messages /\ FromPeer(p, w)
        /\ UNCHANGED gen \/ gen' = [gen EXCEPT ![p] = @ + 1]
        /\ UNCHANGED <<hs, sent>>
    BY <1>1, <1>7, ArriveMakes
  <2>2. PICK s \in Sessions :
          /\ sess' = [sess EXCEPT ![p] = s]
          /\ \/ /\ got' = [got EXCEPT ![p] = Append(@, w.id)] /\ UNCHANGED refused
                /\ w.key \notin Spent(p) /\ ReceivesOnce(s, Spent(p) \cup {w.key})
             \/ /\ refused' = [refused EXCEPT ![p] = @ \cup {w}] /\ UNCHANGED got
                /\ ReceivesOnce(s, Spent(p))
          /\ \/ /\ s.dhs = sess[p].dhs /\ s.rk = sess[p].rk /\ s.cks = sess[p].cks
                /\ s.ns = sess[p].ns /\ s.pn = sess[p].pn
             \/ /\ s.dhs = Key(p, "ratchet", gen[p] + 1) /\ s.ns = 0 /\ s.pn = sess[p].ns
                /\ s.rk = KdfRoot(KdfRoot(sess[p].rk, DH(sess[p].dhs, w.dh)), DH(s.dhs, w.dh))
                /\ s.cks = Chain(s.rk)
          /\ gen' = [gen EXCEPT ![p] =
                       IF s.dhs = Key(p, "ratchet", gen[p] + 1) THEN @ + 1 ELSE @]
    BY <1>1, <1>7, ArriveMakes, Zenon
  <2>3. \A q \in Parties : gen[q] \in Nat /\ gen'[q] \in Nat /\ gen[q] <= gen'[q]
    <3>1. CASE UNCHANGED gen
      BY <1>3, <3>1
    <3>2. CASE gen' = [gen EXCEPT ![p] = @ + 1]
      BY <1>1, <3>2
    <3>3. QED  BY <2>1, <3>1, <3>2
  <2>4. /\ Made(sess[p].dhs) /\ MadeOf(sess[p].rk) /\ MadeOf(sess[p].cks.root)
        /\ sess[p].dhs \in Keys /\ sess[p].rk \in RootKeys /\ sess[p].cks.root \in RootKeys
    BY <1>1, <2>1 DEF KeysMade, Sessions, ChainKeys
  <2>5. w.dh \in Keys /\ Made(w.dh)
    <3>1. PeerOf(p) \in Parties
      BY <1>1, HasSession
    <3>2. QED  BY <1>1, <2>1, <3>1 DEF FromPeer, KeysMade, Messages
  <2>6. ASSUME s.dhs = sess[p].dhs /\ s.rk = sess[p].rk /\ s.cks = sess[p].cks
        PROVE  Sends(p, s)
    <3>1. Made(s.dhs)' /\ MadeOf(s.rk)' /\ MadeOf(s.cks.root)'
      BY <2>3, <2>4, <2>6, MadeStays
    <3>2. QED  BY <2>1, <2>2, <2>6, <3>1 DEF Sends
  <2>7. ASSUME
             /\ s.dhs = Key(p, "ratchet", gen[p] + 1)
             /\ s.rk = KdfRoot(KdfRoot(sess[p].rk, DH(sess[p].dhs, w.dh)), DH(s.dhs, w.dh))
             /\ s.cks = Chain(s.rk)
        PROVE  Sends(p, s)
    <3>1. gen' = [gen EXCEPT ![p] = @ + 1]
      BY <2>2, <2>7
    <3>2. PICK own, rk, root, fresh :
            own = sess[p].dhs /\ rk = sess[p].rk /\ root = s.rk /\ fresh = s.dhs
      OBVIOUS
    <3>a. /\ own \in Keys /\ rk \in RootKeys /\ MadeOf(rk) /\ Made(own)
          /\ fresh = Key(p, "ratchet", gen[p] + 1)
          /\ root = Turned(rk, own, w.dh, fresh)
      BY <2>4, <2>7, <3>2 DEF Turned
    <3>b. PICK dh : dh = w.dh
      OBVIOUS
    <3>c. fresh \in Keys /\ fresh[1] = p /\ fresh[2] = "ratchet" /\ fresh[3] = gen[p] + 1
      BY <1>3, <3>a DEF Key, Keys, Uses
    <3>3. ~MadeOf(root) /\ MadeOf(root)' /\ Made(fresh)' /\ root # <<>>
      BY <1>1, <2>5, <3>1, <3>a, <3>b, <3>c, FreshRoot
    <3>4. s.cks.root = s.rk
      BY <2>7 DEF Chain
    <3>5. QED  BY <2>2, <3>2, <3>3, <3>4 DEF Sends
  <2>8. \E t \in Sessions : Sends(p, t)
    BY <2>2, <2>6, <2>7
  <2>9. (~Live(Initiator))' => gen'[Initiator] = 0
    <3>1. CASE p = Initiator
      <4>1. sess'[Initiator] = s
        BY <1>2, <1>4, <2>2, <3>1
      <4>2. NoSession.dhs = NoKey /\ NoKey \notin Keys /\ s.dhs \in Keys
        BY DEF NoSession, NoKey, Keys, Uses, Sessions
      <4>3. QED  BY <4>1, <4>2 DEF Live
    <3>2. CASE p # Initiator
      <4>1. sess'[Initiator] = sess[Initiator] /\ gen'[Initiator] = gen[Initiator]
        BY <1>1, <1>2, <1>4, <2>1, <2>2, <3>2
      <4>2. QED  BY <1>1, <4>1 DEF KeysMade, Live
    <3>3. QED  BY <3>1, <3>2
  <2>10. QED  BY <2>1, <2>3, <2>8, <2>9
<1>8. CASE \E p \in Parties : \E w \in net[p] : Arrive(p, w)
  BY <1>3, <1>7, <1>8
<1>9. QED  BY <1>5, <1>6, <1>8 DEF Next

\* The message that encrypt appends is the only new one.
LEMMA Appended ==
  ASSUME StateOK, NEW p \in Parties, NEW w \in Messages,
         sent' = [sent EXCEPT ![p] = Append(@, w)]
  PROVE  /\ \A q \in Parties : /\ DOMAIN sent[q] \subseteq DOMAIN sent'[q]
                               /\ \A i \in DOMAIN sent[q] : sent'[q][i] = sent[q][i]
         /\ \A q \in Parties : \A i \in DOMAIN sent'[q] :
              i \in DOMAIN sent[q] \/ (q = p /\ sent'[q][i] = w)
<1>1. sent[p] \in Seq(Messages) /\ sent \in [Parties -> Seq(Messages)]
  BY DEF StateOK
<1>2. sent'[p] = Append(sent[p], w) /\ \A q \in Parties : q # p => sent'[q] = sent[q]
  BY <1>1
<1>3. /\ DOMAIN sent[p] \subseteq DOMAIN sent'[p]
      /\ \A i \in DOMAIN sent[p] : sent'[p][i] = sent[p][i]
      /\ \A i \in DOMAIN sent'[p] : i \in DOMAIN sent[p] \/ sent'[p][i] = w
  BY <1>1, <1>2
<1>4. QED  BY <1>2, <1>3

\* No key is known before its pair is generated.
LEMMA KeysKept ==
  ASSUME RatchetInv, [Next]_vars
  PROVE  KeysMade'
<1>1. StateOK /\ KeysMade /\ StateOK' /\ DOMAIN sess = Parties
  BY StateKept DEF RatchetInv, StateOK
<1>2. \A p \in Parties : \A i \in DOMAIN sent[p] :
        sent[p][i].dh \in Keys /\ sent[p][i].key.root \in RootKeys
  <2>1. \A p \in Parties : \A i \in DOMAIN sent[p] : sent[p][i] \in Messages
    BY <1>1 DEF StateOK
  <2>2. QED  BY <2>1 DEF Messages, ChainKeys
<1>3. \A p \in Parties : Live(p) => sess[p] \in Sessions
  BY <1>1, HasSession
<1>4. CASE UNCHANGED vars
  BY <1>1, <1>4 DEF KeysMade, Made, MadeOf, Live, vars
<1>5. ASSUME NEW p \in Parties, Encrypt(p) PROVE KeysMade'
  <2>1. Live(p) /\ sess[p] \in Sessions /\ UNCHANGED <<gen, hs>>
    BY <1>1, <1>5, EncryptMakes
  <2>2. PICK s \in Sessions, w \in Messages :
          /\ sess' = [sess EXCEPT ![p] = s]
          /\ s.dhs = sess[p].dhs /\ s.rk = sess[p].rk
          /\ s.cks.root = sess[p].cks.root
          /\ w.dh = sess[p].dhs /\ w.key = sess[p].cks
          /\ sent' = [sent EXCEPT ![p] = Append(@, w)]
    BY <1>1, <1>5, EncryptMakes
  <2>3. Made(w.dh) /\ MadeOf(w.key.root)
    BY <1>1, <2>1, <2>2 DEF KeysMade
  <2>4. \A q \in Parties : \A i \in DOMAIN sent'[q] :
          Made(sent'[q][i].dh) /\ MadeOf(sent'[q][i].key.root)
    BY <1>1, <2>2, <2>3, Appended DEF KeysMade
  <2>5. /\ sess'[p] = s /\ \A q \in Parties : q # p => sess'[q] = sess[q]
    BY <1>1, <2>2
  <2>6. \A q \in Parties : Live(q)' => /\ Live(q) /\ sess'[q].dhs = sess[q].dhs
                                       /\ sess'[q].rk = sess[q].rk
                                       /\ sess'[q].cks.root = sess[q].cks.root
    BY <2>1, <2>2, <2>5 DEF Live
  <2>7. Live(Initiator)' \/ ~Live(Initiator)
    <3>1. CASE p = Initiator
      <4>1. NoSession.dhs = NoKey /\ NoKey \notin Keys /\ s.dhs \in Keys
        BY DEF NoSession, NoKey, Keys, Uses, Sessions
      <4>2. QED  BY <2>5, <3>1, <4>1 DEF Live
    <3>2. CASE p # Initiator
      BY <2>5, <3>2 DEF Live, Parties
    <3>3. QED  BY <3>1, <3>2
  <2>8. /\ hs' # NoHandshake => (Made(hs.identity) /\ Made(hs.ephemeral))'
        /\ (~Live(Initiator))' => gen'[Initiator] = 0
    BY <1>1, <2>1, <2>7 DEF KeysMade, Made
  <2>9. \A q \in Parties : \A i \in DOMAIN sent'[q] :
          (Made(sent[q][i].dh) /\ MadeOf(sent[q][i].key.root))'
    BY <2>1, <2>4 DEF Made, MadeOf
  <2>10. ASSUME NEW q \in Parties, Live(q)'
         PROVE  (Made(sess[q].dhs) /\ MadeOf(sess[q].rk) /\ MadeOf(sess[q].cks.root))'
    <3>1. Made(sess[q].dhs) /\ MadeOf(sess[q].rk) /\ MadeOf(sess[q].cks.root)
      BY <1>1, <2>6, <2>10 DEF KeysMade
    <3>2. QED  BY <2>1, <2>6, <2>10, <3>1 DEF Made, MadeOf
  <2>11. QED  BY <2>8, <2>9, <2>10 DEF KeysMade
<1>6. ASSUME Next, ~ \E p \in Parties : Encrypt(p) PROVE KeysMade'
  <2>1. /\ UNCHANGED sent
        /\ \A p \in Parties : gen[p] \in Nat /\ gen'[p] \in Nat /\ gen[p] <= gen'[p]
        /\ hs' = hs \/ (Made(hs.identity) /\ Made(hs.ephemeral))'
        /\ (~Live(Initiator))' => gen'[Initiator] = 0
    BY <1>6, SendsStep
  <2>2. PICK p \in Parties, s \in Sessions : Sends(p, s)
    BY <1>6, SendsStep
  <2>3. sess'[p] = s /\ \A q \in Parties : q # p => sess'[q] = sess[q]
    BY <1>1, <2>2 DEF Sends
  <2>4. /\ \A k \in Keys : Made(k) => Made(k)'
        /\ \A rk \in RootKeys : MadeOf(rk) => MadeOf(rk)'
    BY <2>1, MadeStays
  <2>5. hs' # NoHandshake => (Made(hs.identity) /\ Made(hs.ephemeral))'
    <3>1. CASE hs' = hs /\ hs # NoHandshake
      <4>1. hs.identity \in Keys /\ hs.ephemeral \in Keys /\ Made(hs.identity) /\ Made(hs.ephemeral)
        BY <1>1, <3>1 DEF StateOK, KeysMade, Handshakes
      <4>2. PICK a, b : a = hs.identity /\ b = hs.ephemeral
        OBVIOUS
      <4>3. Made(a)' /\ Made(b)' /\ hs'.identity = a /\ hs'.ephemeral = b
        BY <2>4, <3>1, <4>1, <4>2
      <4>4. QED  BY <4>3 DEF Made
    <3>2. QED  BY <2>1, <3>1
  <2>6. ASSUME NEW q \in Parties, NEW i \in DOMAIN sent'[q]
        PROVE  (Made(sent[q][i].dh) /\ MadeOf(sent[q][i].key.root))'
    <3>1. PICK a, b : a = sent[q][i].dh /\ b = sent[q][i].key.root
      OBVIOUS
    <3>2. /\ Made(a)' /\ MadeOf(b)' /\ sent'[q][i].dh = a /\ sent'[q][i].key.root = b
      BY <1>1, <1>2, <2>1, <2>4, <2>6, <3>1 DEF KeysMade
    <3>3. QED  BY <3>2 DEF Made, MadeOf
  <2>7. ASSUME NEW q \in Parties, Live(q)'
        PROVE  (Made(sess[q].dhs) /\ MadeOf(sess[q].rk) /\ MadeOf(sess[q].cks.root))'
    <3>1. CASE q = p
      BY <2>2, <2>3, <3>1 DEF Sends, Made, MadeOf
    <3>2. CASE q # p
      <4>1. Live(q) /\ sess[q] \in Sessions
        BY <1>3, <2>3, <2>7, <3>2 DEF Live
      <4>2. /\ sess[q].dhs \in Keys /\ sess[q].rk \in RootKeys /\ sess[q].cks.root \in RootKeys
            /\ Made(sess[q].dhs) /\ MadeOf(sess[q].rk) /\ MadeOf(sess[q].cks.root)
        BY <1>1, <4>1 DEF Sessions, ChainKeys, KeysMade
      <4>3. PICK a, b, c : a = sess[q].dhs /\ b = sess[q].rk /\ c = sess[q].cks.root
        OBVIOUS
      <4>4. /\ Made(a)' /\ MadeOf(b)' /\ MadeOf(c)'
            /\ a = sess'[q].dhs /\ b = sess'[q].rk /\ c = sess'[q].cks.root
        BY <2>3, <2>4, <3>2, <4>2, <4>3
      <4>5. QED  BY <4>4 DEF Made, MadeOf
    <3>3. QED  BY <3>1, <3>2
  <2>8. QED  BY <2>1, <2>5, <2>6, <2>7 DEF KeysMade
<1>7. QED  BY <1>4, <1>5, <1>6

\* What was sealed, by whom and where.
LEMMA SealedMessages ==
  \A w : w \in Sealed <=> \E p \in Parties : \E i \in DOMAIN sent[p] : w = sent[p][i]
BY DEF Sealed

\* Sending roots stay apart and counters ahead of what was sealed.
LEMMA SealKept ==
  ASSUME RatchetInv, [Next]_vars
  PROVE  SealInv'
<1>1. StateOK /\ BookOK /\ KeysMade /\ SealInv /\ StateOK' /\ DOMAIN sess = Parties
  BY StateKept DEF RatchetInv, StateOK
<1>2. Initiator \in Parties /\ Responder \in Parties /\ Initiator # Responder
  BY RatchetAssumption DEF Parties
<1>3. CASE UNCHANGED vars
  BY <1>1, <1>3 DEF SealInv, KeysFresh, Sealed, Live, vars
<1>4. ASSUME Next, ~ \E p \in Parties : Encrypt(p) PROVE SealInv'
  <2>1. UNCHANGED sent
    BY <1>4, SendsStep
  <2>2. PICK p \in Parties, s \in Sessions : Sends(p, s)
    BY <1>4, SendsStep
  <2>3. sess'[p] = s /\ \A q \in Parties : q # p => sess'[q] = sess[q]
    BY <1>1, <2>2 DEF Sends
  <2>4. \A q \in Parties : q # p => (Live(q)' <=> Live(q))
    BY <2>3 DEF Live
  <2>5. KeysFresh'
    BY <1>1, <2>1 DEF SealInv, KeysFresh, Sealed
  <2>6. \A q \in Parties : \A i \in DOMAIN sent[q] : MadeOf(sent[q][i].key.root)
    BY <1>1 DEF KeysMade
  <2>7. \A q \in Parties : Live(q) => MadeOf(sess[q].cks.root)
    BY <1>1 DEF KeysMade
  <2>8. CASE Live(p) /\ s.cks = sess[p].cks
    <3>1. \A q \in Parties : Live(q)' => Live(q) /\ sess'[q].cks = sess[q].cks
      BY <2>3, <2>4, <2>8
    <3>2. QED  BY <1>1, <1>2, <2>1, <2>5, <3>1 DEF SealInv
  <2>9. CASE ~MadeOf(s.cks.root) /\ s.cks.root # <<>>
    <3>1. \A q \in Parties : \A i \in DOMAIN sent[q] : sent[q][i].key.root # s.cks.root
      BY <2>6, <2>9
    <3>2. \A q \in Parties : q # p /\ Live(q)' =>
            /\ Live(q) /\ sess'[q] = sess[q] /\ sess[q].cks.root # s.cks.root
      BY <2>3, <2>4, <2>7, <2>9
    <3>3. \A q \in Parties, t \in Parties : \A i \in DOMAIN sent'[q] :
            Live(t)' /\ sent'[q][i].key.root = sess'[t].cks.root
              => q = t /\ sent'[q][i].key.step < sess'[t].cks.step
      BY <1>1, <2>1, <2>3, <3>1, <3>2 DEF SealInv
    <3>4. \A q \in Parties, t \in Parties :
            Live(q)' /\ Live(t)' /\ sess'[q].cks.root = sess'[t].cks.root => q = t
      BY <1>1, <2>3, <3>2 DEF SealInv
    <3>5. Live(Initiator)' => sess'[Initiator].cks.root # <<>>
      BY <1>1, <1>2, <2>3, <2>9, <3>2 DEF SealInv
    <3>6. QED  BY <1>1, <2>1, <2>5, <3>3, <3>4, <3>5 DEF SealInv
  <2>10. CASE ~Live(p) /\ p = Responder /\ s.cks = NilChain
    <3>1. sent[p] = <<>> /\ DOMAIN sent[p] = {}
      BY <1>1, <2>10 DEF BookOK
    <3>2. s.cks.root = <<>>
      BY <2>10 DEF NilChain, Chain
    <3>3. \A q \in Parties : q = p \/ q = Initiator
      BY <2>10 DEF Parties
    <3>4. /\ \A i \in DOMAIN sent[Initiator] : sent[Initiator][i].key.root # <<>>
          /\ Live(Initiator)' => /\ Live(Initiator) /\ sess'[Initiator] = sess[Initiator]
                                 /\ sess[Initiator].cks.root # <<>>
      BY <1>1, <1>2, <2>3, <2>4, <2>10 DEF SealInv
    <3>5. \A q \in Parties, t \in Parties : \A i \in DOMAIN sent'[q] :
            Live(t)' /\ sent'[q][i].key.root = sess'[t].cks.root
              => q = t /\ sent'[q][i].key.step < sess'[t].cks.step
      BY <1>1, <1>2, <2>1, <2>3, <3>1, <3>2, <3>3, <3>4 DEF SealInv
    <3>6. \A q \in Parties, t \in Parties :
            Live(q)' /\ Live(t)' /\ sess'[q].cks.root = sess'[t].cks.root => q = t
      BY <2>3, <3>2, <3>3, <3>4
    <3>7. QED  BY <1>1, <2>1, <2>5, <3>4, <3>5, <3>6 DEF SealInv
  <2>11. QED  BY <2>2, <2>8, <2>9, <2>10 DEF Sends
<1>5. ASSUME NEW p \in Parties, Encrypt(p) PROVE SealInv'
  <2>1. Live(p) /\ sess[p] \in Sessions
    BY <1>1, <1>5, EncryptMakes
  <2>2. PICK s \in Sessions, w \in Messages :
          /\ sess' = [sess EXCEPT ![p] = s]
          /\ s.cks.root = sess[p].cks.root /\ s.cks.step = sess[p].cks.step + 1
          /\ w.key = sess[p].cks
          /\ sent' = [sent EXCEPT ![p] = Append(@, w)]
    BY <1>1, <1>5, EncryptMakes
  <2>3. sess'[p] = s /\ \A q \in Parties : q # p => sess'[q] = sess[q]
    BY <1>1, <2>2
  <2>4. sess[p].cks.step \in Nat
    BY <2>1 DEF Sessions, ChainKeys
  <2>5. \A q \in Parties : Live(q)' => /\ Live(q) /\ sess'[q].cks.root = sess[q].cks.root
                                       /\ q # p => sess'[q] = sess[q]
    BY <2>1, <2>2, <2>3 DEF Live
  <2>6. /\ \A q \in Parties : /\ DOMAIN sent[q] \subseteq DOMAIN sent'[q]
                              /\ \A i \in DOMAIN sent[q] : sent'[q][i] = sent[q][i]
        /\ \A q \in Parties : \A i \in DOMAIN sent'[q] :
             i \in DOMAIN sent[q] \/ (q = p /\ sent'[q][i] = w)
    BY <1>1, <2>2, Appended
  <2>7. \A q \in Parties : \A i \in DOMAIN sent[q] :
          /\ sent[q][i].key.step \in Nat
          /\ sent[q][i].key.root = sess[p].cks.root => q = p /\ sent[q][i].key.step < sess[p].cks.step
    <3>1. \A q \in Parties : \A i \in DOMAIN sent[q] : sent[q][i] \in Messages
      BY <1>1 DEF StateOK
    <3>2. \A q \in Parties : \A i \in DOMAIN sent[q] : sent[q][i].key.step \in Nat
      BY <3>1 DEF Messages, ChainKeys
    <3>3. QED  BY <1>1, <2>1, <3>2 DEF SealInv
  <2>8. ASSUME NEW q \in Parties, NEW t \in Parties, NEW i \in DOMAIN sent'[q], Live(t)',
               sent'[q][i].key.root = sess'[t].cks.root
        PROVE  q = t /\ sent'[q][i].key.step < sess'[t].cks.step
    <3>1. CASE i \in DOMAIN sent[q]
      <4>1. sent'[q][i] = sent[q][i] /\ Live(t) /\ sent[q][i].key.root = sess[t].cks.root
        BY <2>5, <2>6, <2>8, <3>1
      <4>2. q = t /\ sent[q][i].key.step < sess[t].cks.step
        BY <1>1, <3>1, <4>1 DEF SealInv
      <4>3. CASE t = p
        BY <2>2, <2>3, <2>4, <2>7, <3>1, <4>1, <4>2, <4>3
      <4>4. CASE t # p
        BY <2>3, <4>1, <4>2, <4>4
      <4>5. QED  BY <4>3, <4>4
    <3>2. CASE i \notin DOMAIN sent[q]
      <4>1. q = p /\ sent'[q][i] = w
        BY <2>6, <2>8, <3>2
      <4>2. Live(t) /\ sess[p].cks.root = sess[t].cks.root
        BY <2>2, <2>5, <2>8, <4>1
      <4>3. t = p
        BY <1>1, <2>1, <4>2 DEF SealInv
      <4>4. QED  BY <2>2, <2>3, <2>4, <4>1, <4>3
    <3>3. QED  BY <3>1, <3>2
  <2>9. \A q \in Parties, t \in Parties :
          Live(q)' /\ Live(t)' /\ sess'[q].cks.root = sess'[t].cks.root => q = t
    BY <1>1, <2>5 DEF SealInv
  <2>10. /\ \A i \in DOMAIN sent'[Initiator] : sent'[Initiator][i].key.root # <<>>
         /\ Live(Initiator)' => sess'[Initiator].cks.root # <<>>
    BY <1>1, <1>2, <2>1, <2>2, <2>5, <2>6 DEF SealInv
  <2>11. \A q \in Parties : \A i \in DOMAIN sent[q] : sent[q][i].key # w.key
    BY <2>2, <2>4, <2>7
  <2>12. \A v : v \in Sealed' => v \in Sealed \/ v = w
    <3>1. \A v : v \in Sealed' <=> \E q \in Parties : \E i \in DOMAIN sent'[q] : v = sent'[q][i]
      BY DEF Sealed
    <3>2. QED  BY <2>6, <3>1, SealedMessages
  <2>13. \A v \in Sealed : v.key # w.key
    BY <2>11, SealedMessages
  <2>14. KeysFresh'
    BY <1>1, <2>12, <2>13 DEF SealInv, KeysFresh
  <2>15. QED  BY <2>8, <2>9, <2>10, <2>14 DEF SealInv
<1>6. QED  BY <1>3, <1>4, <1>5

\* The set of spent keys, in a step that opens nothing and in one that opens w.
LEMMA SpentSame ==
  ASSUME BookOK, NEW p \in Parties, got'[p] = got[p],
         \A q \in Parties : \A i \in DOMAIN sent[q] : sent'[q][i] = sent[q][i],
         PeerOf(p) \in Parties
  PROVE  Spent(p)' = Spent(p)
<1>1. \A i \in DOMAIN got[p] : sent'[PeerOf(p)][got[p][i]] = sent[PeerOf(p)][got[p][i]]
  BY DEF BookOK
<1>2. QED  BY <1>1 DEF Spent

\* Opening w spends its key.
LEMMA SpentMore ==
  ASSUME StateOK, NEW p \in Parties, NEW w \in Messages, FromPeer(p, w), UNCHANGED sent,
         got' = [got EXCEPT ![p] = Append(@, w.id)]
  PROVE  /\ Spent(p)' = Spent(p) \cup {w.key}
         /\ DOMAIN got[p] \subseteq DOMAIN got'[p]
         /\ \A i \in DOMAIN got[p] : got'[p][i] = got[p][i]
         /\ \A i \in DOMAIN got'[p] :
              i \in DOMAIN got[p] \/ (i = Len(got[p]) + 1 /\ got'[p][i] = w.id)
         /\ \A q \in Parties : q # p => got'[q] = got[q]
<1>1. /\ got \in [Parties -> Seq(Nat)] /\ got[p] \in Seq(Nat)
      /\ w.id \in Nat /\ sent[PeerOf(p)][w.id] = w
  BY DEF StateOK, Messages, FromPeer
<1>2. got'[p] = Append(got[p], w.id) /\ \A q \in Parties : q # p => got'[q] = got[q]
  BY <1>1
<1>3. /\ DOMAIN got[p] \subseteq DOMAIN got'[p]
      /\ \A i \in DOMAIN got[p] : got'[p][i] = got[p][i]
      /\ \A i \in DOMAIN got'[p] :
           i \in DOMAIN got[p] \/ (i = Len(got[p]) + 1 /\ got'[p][i] = w.id)
      /\ Len(got[p]) + 1 \in DOMAIN got'[p] /\ got'[p][Len(got[p]) + 1] = w.id
  BY <1>1, <1>2
<1>4. \A k : k \in Spent(p)' <=> \E i \in DOMAIN got'[p] : k = sent[PeerOf(p)][got'[p][i]].key
  BY DEF Spent
<1>5. \A k : k \in Spent(p) <=> \E i \in DOMAIN got[p] : k = sent[PeerOf(p)][got[p][i]].key
  BY DEF Spent
<1>6. \A k : k \in Spent(p)' <=> k \in Spent(p) \/ k = w.key
  <2>1. sent[PeerOf(p)][got'[p][Len(got[p]) + 1]].key = w.key
    BY <1>1, <1>3
  <2>2. \A k : k = w.key => k \in Spent(p)'
    BY <1>3, <1>4, <2>1
  <2>3. \A k \in Spent(p) : k \in Spent(p)'
    BY <1>3, <1>4, <1>5
  <2>4. ASSUME NEW k, k \in Spent(p)' PROVE k \in Spent(p) \/ k = w.key
    <3>1. PICK i \in DOMAIN got'[p] : k = sent[PeerOf(p)][got'[p][i]].key
      BY <1>4, <2>4
    <3>2. CASE i \in DOMAIN got[p]
      BY <1>3, <1>5, <3>1, <3>2
    <3>3. CASE got'[p][i] = w.id
      BY <1>1, <3>1, <3>3
    <3>4. QED  BY <1>3, <3>2, <3>3
  <2>5. QED  BY <2>2, <2>3, <2>4
<1>7. QED  BY <1>2, <1>3, <1>6

\* A party that has just got its session has spent nothing.
LEMMA NothingSpent ==
  ASSUME NEW s \in Sessions, s.ckr = NilChain, s.skipped = <<>>
  PROVE  ReceivesOnce(s, {})
<1>1. Len(s.rk) \in Nat
  BY DEF Sessions, RootKeys
<1>2. Len(s.ckr.root) = 0
  BY DEF NilChain, Chain
<1>3. DOMAIN s.skipped = {}
  OBVIOUS
<1>4. QED  BY <1>1, <1>2, <1>3 DEF ReceivesOnce

\* A message opens once.
LEMMA OpenKept ==
  ASSUME RatchetInv, [Next]_vars
  PROVE  OpenInv'
<1>1. StateOK /\ BookOK /\ KeysMade /\ OpenInv /\ StateOK' /\ DOMAIN sess = Parties
  BY StateKept DEF RatchetInv, StateOK
<1>2. Initiator \in Parties /\ Responder \in Parties
  BY DEF Parties
<1>3. \A p \in Parties : PeerOf(p) \in Parties
  BY <1>1, HasSession
<1>4. CASE UNCHANGED vars
  <2>1. \A p \in Parties : Spent(p)' = Spent(p) /\ (Live(p)' <=> Live(p)) /\ sess'[p] = sess[p]
    BY <1>4 DEF Spent, vars, Live
  <2>2. QED  BY <1>1, <1>4, <2>1 DEF OpenInv, OpensOnce, vars
<1>5. ASSUME NEW p \in Parties, NEW s \in Sessions, ~Live(p),
             sess' = [sess EXCEPT ![p] = s], s.ckr = NilChain, s.skipped = <<>>,
             UNCHANGED <<got, sent>>
      PROVE  OpenInv'
  <2>1. got[p] = <<>> /\ DOMAIN got[p] = {}
    BY <1>1, <1>5 DEF OpenInv
  <2>2. Spent(p) = {}
    BY <2>1 DEF Spent
  <2>3. \A q \in Parties : Spent(q)' = Spent(q)
    BY <1>1, <1>3, <1>5, SpentSame
  <2>4. sess'[p] = s /\ \A q \in Parties : q # p => sess'[q] = sess[q]
    BY <1>1, <1>5
  <2>5. ReceivesOnce(s, Spent(p))
    BY <1>5, <2>2, NothingSpent
  <2>6. \A q \in Parties : Live(q)' => ReceivesOnce(sess'[q], Spent(q)')
    BY <1>1, <2>3, <2>4, <2>5 DEF OpenInv, Live
  <2>7. \A q \in Parties : (~Live(q))' => got'[q] = <<>>
    BY <1>1, <1>5, <2>1, <2>4 DEF OpenInv, Live
  <2>8. OpensOnce'
    BY <1>1, <1>5 DEF OpenInv, OpensOnce
  <2>9. QED  BY <2>6, <2>7, <2>8 DEF OpenInv
<1>6. CASE Initiate
  BY <1>1, <1>2, <1>5, <1>6, InitiateMakes
<1>7. CASE Accept
  BY <1>1, <1>2, <1>5, <1>7, AcceptMakes
<1>8. ASSUME NEW p \in Parties, Encrypt(p) PROVE OpenInv'
  <2>1. Live(p) /\ UNCHANGED got
    BY <1>1, <1>8, EncryptMakes
  <2>2. PICK s \in Sessions, w \in Messages :
          /\ sess' = [sess EXCEPT ![p] = s]
          /\ s.rk = sess[p].rk /\ s.ckr = sess[p].ckr /\ s.skipped = sess[p].skipped
          /\ sent' = [sent EXCEPT ![p] = Append(@, w)]
    BY <1>1, <1>8, EncryptMakes
  <2>3. \A q \in Parties : \A i \in DOMAIN sent[q] : sent'[q][i] = sent[q][i]
    BY <1>1, <2>2, Appended
  <2>4. \A q \in Parties : Spent(q)' = Spent(q)
    BY <1>1, <1>3, <2>1, <2>3, SpentSame
  <2>5. sess'[p] = s /\ \A q \in Parties : q # p => sess'[q] = sess[q]
    BY <1>1, <2>2
  <2>6. ReceivesOnce(sess[p], Spent(p))
    BY <1>1, <2>1 DEF OpenInv
  <2>7. \A k : Passed(sess[p], k) => Passed(s, k)
    BY <2>2 DEF Passed
  <2>8. ReceivesOnce(s, Spent(p))
    BY <2>2, <2>6, <2>7 DEF ReceivesOnce
  <2>9. \A q \in Parties : Live(q)' => ReceivesOnce(sess'[q], Spent(q)')
    BY <1>1, <2>4, <2>5, <2>8 DEF OpenInv, Live
  <2>10. \A q \in Parties : (~Live(q))' => got'[q] = <<>>
    <3>1. Live(p)'
      <4>1. NoSession.dhs = NoKey /\ NoKey \notin Keys /\ s.dhs \in Keys
        BY DEF NoSession, NoKey, Keys, Uses, Sessions
      <4>2. QED  BY <2>5, <4>1 DEF Live
    <3>2. QED  BY <1>1, <2>1, <2>5, <3>1 DEF OpenInv, Live
  <2>11. OpensOnce'
    BY <1>1, <2>1 DEF OpenInv, OpensOnce
  <2>12. QED  BY <2>9, <2>10, <2>11 DEF OpenInv
<1>9. ASSUME NEW p \in Parties, NEW w \in net[p], Arrive(p, w) PROVE OpenInv'
  <2>1. w \in Messages /\ FromPeer(p, w) /\ UNCHANGED sent
    BY <1>1, <1>9, ArriveMakes
  <2>2. PICK s \in Sessions :
          /\ sess' = [sess EXCEPT ![p] = s]
          /\ \/ /\ got' = [got EXCEPT ![p] = Append(@, w.id)] /\ UNCHANGED refused
                /\ w.key \notin Spent(p) /\ ReceivesOnce(s, Spent(p) \cup {w.key})
             \/ /\ refused' = [refused EXCEPT ![p] = @ \cup {w}] /\ UNCHANGED got
                /\ ReceivesOnce(s, Spent(p))
    BY <1>1, <1>9, ArriveMakes
  <2>3. sess'[p] = s /\ \A q \in Parties : q # p => sess'[q] = sess[q]
    BY <1>1, <2>2
  <2>4. Live(p)'
    <3>1. NoSession.dhs = NoKey /\ NoKey \notin Keys /\ s.dhs \in Keys
      BY DEF NoSession, NoKey, Keys, Uses, Sessions
    <3>2. QED  BY <2>3, <3>1 DEF Live
  <2>5. CASE UNCHANGED got /\ ReceivesOnce(s, Spent(p))
    <3>1. \A q \in Parties : Spent(q)' = Spent(q)
      BY <1>1, <1>3, <2>1, <2>5, SpentSame
    <3>2. \A q \in Parties : Live(q)' => ReceivesOnce(sess'[q], Spent(q)')
      BY <1>1, <2>3, <2>5, <3>1 DEF OpenInv, Live
    <3>3. \A q \in Parties : (~Live(q))' => got'[q] = <<>>
      BY <1>1, <2>3, <2>4, <2>5 DEF OpenInv, Live
    <3>4. OpensOnce'
      BY <1>1, <2>5 DEF OpenInv, OpensOnce
    <3>5. QED  BY <3>2, <3>3, <3>4 DEF OpenInv
  <2>6. CASE /\ got' = [got EXCEPT ![p] = Append(@, w.id)]
             /\ w.key \notin Spent(p) /\ ReceivesOnce(s, Spent(p) \cup {w.key})
    <3>1. /\ Spent(p)' = Spent(p) \cup {w.key}
          /\ \A i \in DOMAIN got[p] : got'[p][i] = got[p][i]
          /\ \A i \in DOMAIN got'[p] :
               i \in DOMAIN got[p] \/ (i = Len(got[p]) + 1 /\ got'[p][i] = w.id)
          /\ \A q \in Parties : q # p => got'[q] = got[q]
      BY <1>1, <2>1, <2>6, SpentMore
    <3>2. \A q \in Parties : q # p => Spent(q)' = Spent(q)
      BY <1>1, <1>3, <2>1, <3>1, SpentSame
    <3>3. \A q \in Parties : Live(q)' => ReceivesOnce(sess'[q], Spent(q)')
      BY <1>1, <2>3, <2>6, <3>1, <3>2 DEF OpenInv, Live
    <3>4. \A q \in Parties : (~Live(q))' => got'[q] = <<>>
      BY <1>1, <2>3, <2>4, <3>1 DEF OpenInv, Live
    <3>5. \A i \in DOMAIN got[p] : got[p][i] # w.id
      <4>1. sent[PeerOf(p)][w.id].key \notin Spent(p)
        BY <2>1, <2>6 DEF FromPeer
      <4>2. QED  BY <4>1 DEF Spent
    <3>6. ASSUME NEW q \in Parties, NEW i \in DOMAIN got'[q], NEW j \in DOMAIN got'[q],
                 got'[q][i] = got'[q][j]
          PROVE  i = j
      <4>1. CASE q # p
        BY <1>1, <3>1, <3>6, <4>1 DEF OpenInv, OpensOnce
      <4>2. CASE q = p /\ i \in DOMAIN got[p] /\ j \in DOMAIN got[p]
        BY <1>1, <3>1, <3>6, <4>2 DEF OpenInv, OpensOnce
      <4>3. CASE q = p /\ (i \notin DOMAIN got[p] \/ j \notin DOMAIN got[p])
        BY <3>1, <3>5, <3>6, <4>3
      <4>4. QED  BY <4>1, <4>2, <4>3
    <3>7. OpensOnce'
      BY <3>6 DEF OpensOnce
    <3>8. QED  BY <3>3, <3>4, <3>7 DEF OpenInv
  <2>7. QED  BY <2>2, <2>5, <2>6
<1>10. QED  BY <1>4, <1>6, <1>7, <1>8, <1>9 DEF Next

-----------------------------------------------------------------------------
(* The theorems *)

\* Before the first dial there are no sessions, messages or keys.
LEMMA RatchetBegins == Init => RatchetInv
<1> SUFFICES ASSUME Init PROVE RatchetInv
  OBVIOUS
<1>1. \A p \in Parties : /\ sess[p] = NoSession /\ sent[p] = <<>> /\ got[p] = <<>>
                         /\ net[p] = {} /\ refused[p] = {} /\ gen[p] = 0 /\ ~Live(p)
  BY DEF Init, Live
<1>2. Initiator \in Parties /\ Responder \in Parties
  BY DEF Parties
<1>3. StateOK
  BY RatchetAssumption DEF Init, StateOK
<1>4. BookOK
  BY <1>1 DEF BookOK
<1>5. KeysMade
  BY <1>1, <1>2 DEF KeysMade, Init
<1>6. \A w : w \notin Sealed
  <2>1. \A p \in Parties : PeerOf(p) \in Parties
    BY DEF PeerOf, Parties
  <2>2. QED  BY <1>1 DEF Sealed
<1>7. SealInv
  BY <1>1, <1>2, <1>6 DEF SealInv, KeysFresh
<1>8. OpenInv
  BY <1>1 DEF OpenInv, OpensOnce
<1>9. QED  BY <1>3, <1>4, <1>5, <1>7, <1>8 DEF RatchetInv

\* The inductive invariant holds of every session, whatever the network does.
THEOREM RatchetInvariance == Spec => []RatchetInv
<1>1. RatchetInv /\ [Next]_vars => RatchetInv'
  BY StateKept, BookKept, KeysKept, SealKept, OpenKept DEF RatchetInv
<1>2. QED  BY <1>1, RatchetBegins, PTL DEF Spec

\* What is in flight or refused was sealed by the peer, only sealed messages
\* open, and the counters of the two last chains count different messages.
THEOREM SessionTypes == Spec => []TypeOK
<1>1. RatchetInv => TypeOK
  <2> SUFFICES ASSUME RatchetInv PROVE TypeOK
    OBVIOUS
  <2>1. StateOK /\ BookOK
    BY DEF RatchetInv
  <2>2. ASSUME NEW p \in Parties
        PROVE  /\ net[p] \cup refused[p] \subseteq Sealed
               /\ \A w \in net[p] \cup refused[p] : w.from = PeerOf(p)
               /\ \A i \in DOMAIN got[p] : got[p][i] \in 1 .. Len(sent[PeerOf(p)])
               /\ Live(p) => sess[p].ns + sess[p].pn <= Len(sent[p])
    <3>1. PeerOf(p) \in Parties
      BY <2>1, HasSession
    <3>2. \A w \in net[p] \cup refused[p] : FromPeer(p, w)
      BY <2>1 DEF BookOK
    <3>3. net[p] \cup refused[p] \subseteq Sealed
      BY <3>1, <3>2, SealedMessages DEF FromPeer
    <3>4. sent[PeerOf(p)] \in Seq(Messages)
      BY <2>1, <3>1 DEF StateOK
    <3>5. \A i \in DOMAIN got[p] : got[p][i] \in 1 .. Len(sent[PeerOf(p)])
      BY <2>1, <3>4 DEF BookOK
    <3>6. QED  BY <2>1, <3>2, <3>3, <3>5 DEF BookOK, FromPeer
  <2>3. QED  BY <2>1, <2>2 DEF TypeOK, StateOK
<1>2. QED  BY <1>1, RatchetInvariance, PTL

\* No message key seals two messages, on either side: the nonce derived from it
\* is never used twice.
THEOREM KeysSealOnce == Spec => []KeysFresh
<1>1. RatchetInv => KeysFresh
  BY DEF RatchetInv, SealInv
<1>2. QED  BY <1>1, RatchetInvariance, PTL

\* No message opens twice, in whatever order and however often it arrives.
THEOREM MessagesOpenOnce == Spec => []OpensOnce
<1>1. RatchetInv => OpensOnce
  BY DEF RatchetInv, OpenInv
<1>2. QED  BY <1>1, RatchetInvariance, PTL

-----------------------------------------------------------------------------
(* Agreeing *)

\* The key of a step of a chain.
KeyAt(root, i) == [root |-> root, step |-> i]

\* Some message of q has the header h and is sealed with the key k; and every
\* one of the first n messages of a chain of q is such a message.
Backs(q, h, k) ==
  \E i \in DOMAIN sent[q] :
    sent[q][i].dh = h[1] /\ sent[q][i].n = h[2] /\ sent[q][i].key = k
Full(q, dh, root, n) ==
  \A i \in 0 .. n - 1 : Backs(q, <<dh, i>>, KeyAt(root, i))

\* The sending side of p is s: headers name chains one to one, the current chain
\* is counted and complete, and every other root is shorter than the root key.
Writes(p, s) ==
  /\ s.cks.step = s.ns
  /\ Len(s.cks.root) <= Len(s.rk)
  /\ Full(p, s.dhs, s.cks.root, s.ns)
  /\ \A i \in DOMAIN sent[p] :
       /\ sent[p][i].key.step = sent[p][i].n
       /\ sent[p][i].dh = s.dhs <=> sent[p][i].key.root = s.cks.root
       /\ sent[p][i].dh = s.dhs => sent[p][i].pn = s.pn
       /\ sent[p][i].key.root = s.cks.root \/ Len(sent[p][i].key.root) < Len(s.rk)
  /\ \A i, j \in DOMAIN sent[p] :
       sent[p][i].dh = sent[p][j].dh => sent[p][i].key.root = sent[p][j].key.root

\* The session that dialled, before the other side has one.
Dialled(s) ==
  /\ s.dhs = Key(Initiator, "ratchet", 1) /\ s.dhr = Key(Responder, "signed", 0)
  /\ s.rk = KdfRoot(X3dhInitiate(Initiator, Responder), DH(s.dhs, s.dhr))
  /\ s.cks.root = s.rk /\ s.ckr = NilChain /\ s.nr = 0 /\ s.pn = 0 /\ s.skipped = <<>>
  /\ \A i \in DOMAIN sent[Initiator] : sent[Initiator][i].dh = s.dhs

OpeningInv ==
  /\ \A p \in Parties : Live(p) => Writes(p, sess[p])
  /\ hs # NoHandshake =>
       /\ Live(Initiator)
       /\ hs = [identity |-> Key(Initiator, "identity", 0),
                ephemeral |-> Key(Initiator, "ephemeral", 0), usedOTP |-> OneTime]
  /\ Live(Responder) => Live(Initiator)
  /\ Live(Initiator) /\ ~Live(Responder) => Dialled(sess[Initiator])

\* p made the last DH ratchet step, from the root key of its peer, and the peer
\* has not seen its new key: with the session r it receives on the chain the peer
\* sends on, and the peer with its session s on the chain p left.
Leads(p, r, s) ==
  /\ r.rk = KdfRoot(s.rk, DH(r.dhs, s.dhs)) /\ r.cks.root = r.rk
  /\ r.dhr = s.dhs /\ s.dhr # r.dhs
  /\ r.ckr.root = s.cks.root /\ r.nr <= s.ns
  /\ Full(p, s.dhr, s.ckr.root, r.pn)
  /\ \A i \in DOMAIN sent[p] :
       sent[p][i].key.root = s.ckr.root
         => sent[p][i].dh = s.dhr /\ sent[p][i].key.step < r.pn

\* A message of the peer that p has opened, or whose key it set aside or is
\* still to derive, or that was written before its writer had a chain.
Accounted(p, r, s, w) ==
  \/ \E j \in DOMAIN got[p] : got[p][j] = w.id
  \/ <<w.dh, w.n>> \in DOMAIN r.skipped
  \/ w.key.root = r.ckr.root /\ w.dh = r.dhr /\ w.n >= r.nr
  \/ w.key.root = s.cks.root /\ w.dh = s.dhs /\ r.dhr # s.dhs
  \/ w.key.root = <<>> /\ w.dh # r.dhr

\* The receiving side of p is r: the keys set aside are keys its peer q used,
\* and every message of q is accounted for.
Reads(p, r, q, s) ==
  /\ r.ckr.step = r.nr
  /\ \A h \in DOMAIN r.skipped : Backs(q, h, r.skipped[h])
  /\ \A i \in DOMAIN sent[q] : Accounted(p, r, s, sent[q][i])

Calm == \A p \in Parties : refused[p] = {}

CalmInv ==
  Calm /\ Live(Responder) =>
    /\ \E p \in Parties : Leads(p, sess[p], sess[PeerOf(p)])
    /\ \A p \in Parties : Reads(p, sess[p], PeerOf(p), sess[PeerOf(p)])

AgreeInv == RatchetInv /\ OpeningInv /\ CalmInv

-----------------------------------------------------------------------------
(* What decrypt opens *)

\* skip, whichever way it goes: what it sets aside is the keys of their own
\* steps, and nothing set aside before is lost.
LEMMA SkipSets ==
  ASSUME NEW r \in Sessions, NEW until \in Nat, r.ckr.step = r.nr
  PROVE  LET s == Skip(r, until) IN
         /\ s \in Sessions
         /\ s.dhs = r.dhs /\ s.dhr = r.dhr /\ s.rk = r.rk /\ s.cks = r.cks
         /\ s.ns = r.ns /\ s.pn = r.pn
         /\ s.ckr.root = r.ckr.root /\ s.ckr.step = s.nr
         /\ s.nr = IF r.ckr = NilChain \/ r.nr >= until THEN r.nr ELSE until
         /\ DOMAIN r.skipped \subseteq DOMAIN s.skipped
         /\ \A h \in DOMAIN s.skipped :
              \/ h \in DOMAIN r.skipped /\ s.skipped[h] = r.skipped[h]
              \/ \E i \in r.nr .. until - 1 :
                   h = <<r.dhr, i>> /\ s.skipped[h] = KeyAt(r.ckr.root, i)
         /\ r.ckr # NilChain => \A i \in r.nr .. until - 1 : <<r.dhr, i>> \in DOMAIN s.skipped
<1>0. r.nr \in Nat /\ r.ckr \in ChainKeys /\ r.skipped \in SkippedKeys
  BY DEF Sessions
<1>1. CASE r.ckr = NilChain \/ r.nr >= until
  <2>1. Skip(r, until) = r
    BY <1>1 DEF Skip
  <2>2. r.nr >= until => r.nr .. until - 1 = {}
    BY <1>0
  <2>3. QED  BY <1>1, <2>1, <2>2
<1>2. CASE r.ckr # NilChain /\ r.nr < until
  <2> DEFINE s == Skip(r, until)
             new == {<<r.dhr, i>> : i \in r.nr .. until - 1}
  <2>1. /\ s \in Sessions
        /\ s.dhs = r.dhs /\ s.dhr = r.dhr /\ s.rk = r.rk /\ s.cks = r.cks
        /\ s.ns = r.ns /\ s.pn = r.pn /\ s.nr = until
    BY <1>2, SkipAdds
  <2>2. /\ s.ckr.root = r.ckr.root /\ s.ckr.step = r.ckr.step + (until - r.nr)
        /\ DOMAIN s.skipped = new \cup DOMAIN r.skipped
        /\ \A h \in DOMAIN r.skipped \ new : s.skipped[h] = r.skipped[h]
    BY <1>2, SkipAdds
  <2>3. \A i \in r.nr .. until - 1 :
          /\ s.skipped[<<r.dhr, i>>].root = r.ckr.root
          /\ s.skipped[<<r.dhr, i>>].step = r.ckr.step + (i - r.nr)
    BY <1>2, SkipAdds
  <2> HIDE DEF s
  <2>4. s.ckr.step = s.nr
    BY <1>0, <2>1, <2>2
  <2>5. s.skipped \in SkippedKeys /\ \A h \in DOMAIN s.skipped : s.skipped[h] \in ChainKeys
    <3>1. s.skipped \in SkippedKeys
      BY <2>1 DEF Sessions
    <3>2. QED  BY <3>1, SkippedType
  <2>6. ASSUME NEW i \in r.nr .. until - 1 PROVE s.skipped[<<r.dhr, i>>] = KeyAt(r.ckr.root, i)
    <3>1. <<r.dhr, i>> \in new
      OBVIOUS
    <3>2. <<r.dhr, i>> \in DOMAIN s.skipped
      BY <2>2, <3>1
    <3>3. PICK k : k = s.skipped[<<r.dhr, i>>]
      OBVIOUS
    <3>4. k \in ChainKeys /\ k.root = r.ckr.root /\ k.step = i
      BY <1>0, <2>3, <2>5, <3>2, <3>3
    <3>5. QED  BY <3>3, <3>4 DEF ChainKeys, KeyAt
  <2>7. ASSUME NEW h \in DOMAIN s.skipped
        PROVE  \/ h \in DOMAIN r.skipped /\ s.skipped[h] = r.skipped[h]
               \/ \E i \in r.nr .. until - 1 :
                    h = <<r.dhr, i>> /\ s.skipped[h] = KeyAt(r.ckr.root, i)
    <3>1. CASE h \in new
      BY <2>6, <3>1
    <3>2. CASE h \notin new
      BY <2>2, <3>2
    <3>3. QED  BY <3>1, <3>2
  <2>8. \A i \in r.nr .. until - 1 : <<r.dhr, i>> \in DOMAIN s.skipped
    BY <2>2
  <2>9. s.nr = IF r.ckr = NilChain \/ r.nr >= until THEN r.nr ELSE until
    BY <1>0, <1>2, <2>1
  <2>10. DOMAIN r.skipped \subseteq DOMAIN s.skipped
    BY <2>2
  <2>11. QED  BY <2>1, <2>2, <2>4, <2>7, <2>8, <2>9, <2>10 DEF s
<1>3. QED  BY <1>0, <1>1, <1>2

\* h is set aside in s for a step from lo on and before hi of the chain.
StepAside(s, h, dh, root, lo, hi) ==
  \E i \in lo .. hi - 1 : h = <<dh, i>> /\ s.skipped[h] = KeyAt(root, i)

SendsAs(s, r) ==
  s.dhs = r.dhs /\ s.rk = r.rk /\ s.cks = r.cks /\ s.ns = r.ns /\ s.pn = r.pn

\* The three ways a message w opens, from the session r to the session s: with
\* the key set aside for it; with a key of the receiving chain; with a key of
\* the chain that its new ratchet key starts.
OpensAside(r, w, s) ==
  LET h == <<w.dh, w.n>> IN
  /\ h \in DOMAIN r.skipped /\ r.skipped[h] = w.key
  /\ SendsAs(s, r) /\ s.dhr = r.dhr /\ s.ckr = r.ckr /\ s.nr = r.nr
  /\ DOMAIN s.skipped = DOMAIN r.skipped \ {h}
  /\ \A g \in DOMAIN s.skipped : s.skipped[g] = r.skipped[g]

OpensNext(r, w, s) ==
  /\ w.dh = r.dhr /\ w.key.root = r.ckr.root /\ w.n >= r.nr
  /\ SendsAs(s, r) /\ s.dhr = r.dhr
  /\ s.ckr.root = r.ckr.root /\ s.ckr.step = w.n + 1 /\ s.nr = w.n + 1
  /\ DOMAIN r.skipped \subseteq DOMAIN s.skipped
  /\ \A i \in r.nr .. w.n - 1 : <<r.dhr, i>> \in DOMAIN s.skipped
  /\ \A h \in DOMAIN s.skipped :
       \/ h \in DOMAIN r.skipped /\ s.skipped[h] = r.skipped[h]
       \/ StepAside(s, h, r.dhr, r.ckr.root, r.nr, w.n)

OpensTurn(r, w, fresh, s) ==
  /\ w.dh # r.dhr /\ w.key.root = KdfRoot(r.rk, DH(r.dhs, w.dh))
  /\ s.dhs = fresh /\ s.ns = 0 /\ s.pn = r.ns
  /\ s.rk = KdfRoot(w.key.root, DH(fresh, w.dh)) /\ s.cks = Chain(s.rk)
  /\ s.dhr = w.dh
  /\ s.ckr.root = w.key.root /\ s.ckr.step = w.n + 1 /\ s.nr = w.n + 1
  /\ DOMAIN r.skipped \subseteq DOMAIN s.skipped
  /\ r.ckr # NilChain => \A i \in r.nr .. w.pn - 1 : <<r.dhr, i>> \in DOMAIN s.skipped
  /\ \A i \in 0 .. w.n - 1 : <<w.dh, i>> \in DOMAIN s.skipped
  /\ \A h \in DOMAIN s.skipped :
       \/ h \in DOMAIN r.skipped /\ s.skipped[h] = r.skipped[h]
       \/ StepAside(s, h, r.dhr, r.ckr.root, r.nr, w.pn)
       \/ StepAside(s, h, w.dh, w.key.root, 0, w.n)

\* A step of the receiving chain touches nothing else.
LEMMA StepFields ==
  ASSUME NEW r \in Sessions, r.ckr.step = r.nr
  PROVE  LET s == [r EXCEPT !.ckr = Stepped(@, 1), !.nr = @ + 1] IN
         /\ s \in Sessions /\ SendsAs(s, r) /\ s.dhr = r.dhr /\ s.skipped = r.skipped
         /\ s.ckr.root = r.ckr.root /\ s.ckr.step = r.nr + 1 /\ s.nr = r.nr + 1
         /\ MessageKey(r.ckr) = KeyAt(r.ckr.root, r.nr)
<1> DEFINE ckr == Stepped(r.ckr, 1)
           nr == r.nr + 1
           s == [r EXCEPT !.ckr = ckr, !.nr = nr]
<1>1. r.ckr \in ChainKeys /\ r.nr \in Nat
  BY DEF Sessions
<1>2. ckr \in ChainKeys /\ ckr.root = r.ckr.root /\ ckr.step = r.nr + 1
  BY <1>1 DEF Stepped, ChainKeys
<1>3. nr \in Nat
  BY <1>1
<1>4. r.ckr = KeyAt(r.ckr.root, r.nr)
  BY <1>1 DEF ChainKeys, KeyAt
<1> HIDE DEF ckr, nr
<1>5. /\ s \in Sessions /\ s.skipped = r.skipped /\ s.ckr = ckr /\ s.nr = nr /\ s.dhr = r.dhr
      /\ s.dhs = r.dhs /\ s.rk = r.rk /\ s.cks = r.cks /\ s.ns = r.ns /\ s.pn = r.pn
  BY <1>1, <1>2, <1>3 DEF Sessions
<1>6. s = [r EXCEPT !.ckr = Stepped(@, 1), !.nr = @ + 1]
  BY DEF ckr, nr
<1> HIDE DEF s
<1>7. MessageKey(r.ckr) = r.ckr
  BY DEF MessageKey
<1>8. nr = r.nr + 1
  BY DEF nr
<1>9. QED  BY <1>2, <1>4, <1>5, <1>6, <1>7, <1>8, Zenon DEF SendsAs

\* The session after a DH ratchet step, at the start of both of its chains.
LEMMA TurnedSession ==
  ASSUME NEW r \in Sessions, NEW w \in Messages, NEW fresh \in Keys, r.ckr.step = r.nr
  PROVE  LET t == DhRatchet(Skip(r, w.pn), w.dh, fresh)
             rk1 == KdfRoot(r.rk, DH(r.dhs, w.dh)) IN
         /\ t \in Sessions /\ t.ckr.step = t.nr /\ t.nr = 0
         /\ t.dhs = fresh /\ t.ns = 0 /\ t.pn = r.ns /\ t.dhr = w.dh
         /\ t.rk = KdfRoot(rk1, DH(fresh, w.dh)) /\ t.cks = Chain(t.rk)
         /\ t.ckr.root = rk1 /\ t.ckr # NilChain
         /\ DOMAIN r.skipped \subseteq DOMAIN t.skipped
         /\ r.ckr # NilChain => \A i \in r.nr .. w.pn - 1 : <<r.dhr, i>> \in DOMAIN t.skipped
         /\ \A h \in DOMAIN t.skipped :
              \/ h \in DOMAIN r.skipped /\ t.skipped[h] = r.skipped[h]
              \/ StepAside(t, h, r.dhr, r.ckr.root, r.nr, w.pn)
<1> DEFINE s == Skip(r, w.pn)
           t == DhRatchet(s, w.dh, fresh)
           rk1 == KdfRoot(r.rk, DH(r.dhs, w.dh))
<1>1. w.dh \in Keys /\ w.pn \in Nat
  BY DEF Messages
<1>2. /\ s \in Sessions /\ s.dhs = r.dhs /\ s.rk = r.rk /\ s.ns = r.ns
      /\ DOMAIN r.skipped \subseteq DOMAIN s.skipped
      /\ r.ckr # NilChain => \A i \in r.nr .. w.pn - 1 : <<r.dhr, i>> \in DOMAIN s.skipped
  BY <1>1, SkipSets
<1>3. \A h \in DOMAIN s.skipped :
        \/ h \in DOMAIN r.skipped /\ s.skipped[h] = r.skipped[h]
        \/ \E i \in r.nr .. w.pn - 1 : h = <<r.dhr, i>> /\ s.skipped[h] = KeyAt(r.ckr.root, i)
  BY <1>1, SkipSets
<1> HIDE DEF s
<1>4. /\ t \in Sessions /\ t.dhs = fresh /\ t.dhr = w.dh
      /\ t.rk = KdfRoot(KdfRoot(s.rk, DH(s.dhs, w.dh)), DH(fresh, w.dh)) /\ t.cks = Chain(t.rk)
      /\ t.ckr = Chain(KdfRoot(s.rk, DH(s.dhs, w.dh))) /\ t.ns = 0 /\ t.nr = 0 /\ t.pn = s.ns
      /\ t.skipped = s.skipped
  BY <1>1, <1>2, DhRatchetFields
<1> HIDE DEF t
<1>5. KdfRoot(s.rk, DH(s.dhs, w.dh)) = rk1
  BY <1>2
<1>6. rk1 # <<>>
  <2>1. PICK old, own : old = r.rk /\ own = r.dhs
    OBVIOUS
  <2>2. old \in RootKeys /\ own \in Keys
    BY <2>1 DEF Sessions
  <2>3. KdfRoot(old, DH(own, w.dh)) # <<>>
    BY <1>1, <2>2, RootGrows
  <2>4. QED  BY <2>1, <2>3
<1> HIDE DEF rk1
<1>7. t.ckr.root = rk1 /\ t.ckr.step = 0 /\ t.ckr # NilChain
  BY <1>4, <1>5, <1>6 DEF Chain, NilChain
<1>8. QED  BY <1>2, <1>3, <1>4, <1>5, <1>7 DEF StepAside, s, t, rk1

\* decrypt opens a message in one of the three ways.
LEMMA DecryptOpens ==
  ASSUME NEW r \in Sessions, NEW w \in Messages, NEW fresh \in Keys, r.ckr.step = r.nr,
         w.key.step = w.n, Decrypt(r, w, fresh).ok
  PROVE  LET s == Decrypt(r, w, fresh).r IN
         OpensAside(r, w, s) \/ OpensNext(r, w, s) \/ OpensTurn(r, w, fresh, s)
<1> DEFINE moved == r.dhr = NoKey \/ w.dh # r.dhr
           t == DhRatchet(Skip(r, w.pn), w.dh, fresh)
           r1 == IF moved THEN t ELSE r
           r2 == Skip(r1, w.n)
           r3 == [r2 EXCEPT !.ckr = Stepped(@, 1), !.nr = @ + 1]
           d == Decrypt(r, w, fresh)
<1>0. w.dh \in Keys /\ w.n \in Nat /\ w.pn \in Nat /\ w.key \in ChainKeys /\ r.nr \in Nat
  BY DEF Messages, Sessions
<1>1. CASE <<w.dh, w.n>> \in DOMAIN r.skipped
  <2> DEFINE h == <<w.dh, w.n>>
             rest == DOMAIN r.skipped \ {h}
             map == [g \in rest |-> r.skipped[g]]
             s == [r EXCEPT !.skipped = map]
  <2>1. d = TrySkipped(r, w)
    BY <1>1 DEF Decrypt
  <2>2. r.skipped[h] = w.key
    BY <2>1 DEF TrySkipped
  <2>3. d.r = s
    BY <2>1, <2>2 DEF TrySkipped, Restrict
  <2>4. DOMAIN map = rest /\ \A g \in rest : map[g] = r.skipped[g]
    OBVIOUS
  <2> HIDE DEF map
  <2>5. /\ s.skipped = map /\ s.dhr = r.dhr /\ s.ckr = r.ckr /\ s.nr = r.nr /\ SendsAs(s, r)
    BY DEF Sessions, SendsAs
  <2> HIDE DEF s, d
  <2>6. OpensAside(r, w, s)
    BY <1>1, <2>2, <2>4, <2>5 DEF OpensAside
  <2>7. QED  BY <2>3, <2>6 DEF d
<1>2. CASE <<w.dh, w.n>> \notin DOMAIN r.skipped
  <2>1. d.r = r3 /\ w.key = MessageKey(r2.ckr)
    BY <1>2 DEF Decrypt
  <2>a. NoKey \notin Keys
    BY DEF NoKey, Keys, Uses
  <2>b. moved <=> w.dh # r.dhr
    BY <1>0, <2>a
  <2>2. CASE ~moved
    <3>1. r1 = r
      BY <2>2
    <3>a. r2 = Skip(r, w.n) /\ r3 = [r2 EXCEPT !.ckr = Stepped(@, 1), !.nr = @ + 1]
      BY <3>1
    <3> HIDE DEF r2, r1, moved, t, d
    <3>2. /\ r2 \in Sessions /\ SendsAs(r2, r) /\ r2.dhr = r.dhr
          /\ r2.ckr.root = r.ckr.root /\ r2.ckr.step = r2.nr
          /\ r2.nr = IF r.ckr = NilChain \/ r.nr >= w.n THEN r.nr ELSE w.n
          /\ DOMAIN r.skipped \subseteq DOMAIN r2.skipped
      BY <1>0, <3>a, SkipSets DEF SendsAs
    <3>3. /\ \A h \in DOMAIN r2.skipped :
               \/ h \in DOMAIN r.skipped /\ r2.skipped[h] = r.skipped[h]
               \/ StepAside(r2, h, r.dhr, r.ckr.root, r.nr, w.n)
          /\ r.ckr # NilChain => \A i \in r.nr .. w.n - 1 : <<r.dhr, i>> \in DOMAIN r2.skipped
      BY <1>0, <3>a, SkipSets DEF StepAside
    <3>4. /\ r3 \in Sessions /\ SendsAs(r3, r2) /\ r3.dhr = r2.dhr /\ r3.skipped = r2.skipped
          /\ r3.ckr.root = r2.ckr.root /\ r3.ckr.step = r2.nr + 1 /\ r3.nr = r2.nr + 1
          /\ MessageKey(r2.ckr) = KeyAt(r2.ckr.root, r2.nr)
      BY <3>a, <3>2, StepFields
    <3>5. w.key.root = r.ckr.root /\ w.n = r2.nr
      BY <2>1, <3>2, <3>4 DEF KeyAt
    <3> HIDE DEF r3
    <3>6. w.n >= r.nr /\ (r.ckr = NilChain => w.n = r.nr)
      BY <1>0, <3>2, <3>5
    <3>7. \A i \in r.nr .. w.n - 1 : <<r.dhr, i>> \in DOMAIN r3.skipped
      BY <1>0, <3>3, <3>4, <3>6
    <3>8. \A h \in DOMAIN r3.skipped :
            \/ h \in DOMAIN r.skipped /\ r3.skipped[h] = r.skipped[h]
            \/ StepAside(r3, h, r.dhr, r.ckr.root, r.nr, w.n)
      BY <3>3, <3>4 DEF StepAside
    <3>9. SendsAs(r3, r) /\ r3.dhr = r.dhr /\ w.dh = r.dhr
          /\ r3.ckr.root = r.ckr.root /\ r3.ckr.step = w.n + 1 /\ r3.nr = w.n + 1
      BY <2>2, <2>b, <3>2, <3>4, <3>5 DEF SendsAs, moved
    <3>10. OpensNext(r, w, r3)
      BY <3>2, <3>4, <3>5, <3>6, <3>7, <3>8, <3>9 DEF OpensNext
    <3>11. QED  BY <2>1, <3>10 DEF d
  <2>3. CASE moved
    <3> DEFINE rk1 == KdfRoot(r.rk, DH(r.dhs, w.dh))
    <3>1. r1 = t
      BY <2>3
    <3>2. /\ t \in Sessions /\ t.ckr.step = t.nr /\ t.nr = 0
          /\ t.dhs = fresh /\ t.ns = 0 /\ t.pn = r.ns /\ t.dhr = w.dh
          /\ t.rk = KdfRoot(rk1, DH(fresh, w.dh)) /\ t.cks = Chain(t.rk)
          /\ t.ckr.root = rk1 /\ t.ckr # NilChain
      BY TurnedSession
    <3>3. /\ DOMAIN r.skipped \subseteq DOMAIN t.skipped
          /\ r.ckr # NilChain => \A i \in r.nr .. w.pn - 1 : <<r.dhr, i>> \in DOMAIN t.skipped
          /\ \A h \in DOMAIN t.skipped :
              \/ h \in DOMAIN r.skipped /\ t.skipped[h] = r.skipped[h]
              \/ StepAside(t, h, r.dhr, r.ckr.root, r.nr, w.pn)
      BY TurnedSession
    <3>a. r2 = Skip(t, w.n) /\ r3 = [r2 EXCEPT !.ckr = Stepped(@, 1), !.nr = @ + 1]
      BY <3>1
    <3> HIDE DEF t, rk1, r2, r1, moved, d
    <3>4. /\ r2 \in Sessions /\ SendsAs(r2, t) /\ r2.dhr = t.dhr
          /\ r2.ckr.root = t.ckr.root /\ r2.ckr.step = r2.nr
          /\ r2.nr = IF t.ckr = NilChain \/ t.nr >= w.n THEN t.nr ELSE w.n
          /\ DOMAIN t.skipped \subseteq DOMAIN r2.skipped
      BY <1>0, <3>a, <3>2, SkipSets DEF SendsAs
    <3>5. /\ \A h \in DOMAIN r2.skipped :
               \/ h \in DOMAIN t.skipped /\ r2.skipped[h] = t.skipped[h]
               \/ StepAside(r2, h, t.dhr, t.ckr.root, t.nr, w.n)
          /\ t.ckr # NilChain => \A i \in t.nr .. w.n - 1 : <<t.dhr, i>> \in DOMAIN r2.skipped
      <4>1. t \in Sessions /\ t.ckr.step = t.nr /\ w.n \in Nat
        BY <1>0, <3>2
      <4>2. \A h \in DOMAIN r2.skipped :
              \/ h \in DOMAIN t.skipped /\ r2.skipped[h] = t.skipped[h]
              \/ \E i \in t.nr .. w.n - 1 :
                   h = <<t.dhr, i>> /\ r2.skipped[h] = KeyAt(t.ckr.root, i)
        BY <3>a, <4>1, SkipSets
      <4>3. t.ckr # NilChain => \A i \in t.nr .. w.n - 1 : <<t.dhr, i>> \in DOMAIN r2.skipped
        BY <3>a, <4>1, SkipSets
      <4>4. QED  BY <4>2, <4>3 DEF StepAside
    <3>6. /\ r3 \in Sessions /\ SendsAs(r3, r2) /\ r3.dhr = r2.dhr /\ r3.skipped = r2.skipped
          /\ r3.ckr.root = r2.ckr.root /\ r3.ckr.step = r2.nr + 1 /\ r3.nr = r2.nr + 1
          /\ MessageKey(r2.ckr) = KeyAt(r2.ckr.root, r2.nr)
      BY <3>a, <3>4, StepFields
    <3>7. w.key.root = rk1 /\ w.n = r2.nr
      BY <2>1, <3>2, <3>4, <3>6 DEF KeyAt
    <3> HIDE DEF r3
    <3>8. /\ DOMAIN r.skipped \subseteq DOMAIN r3.skipped
          /\ r.ckr # NilChain => \A i \in r.nr .. w.pn - 1 : <<r.dhr, i>> \in DOMAIN r3.skipped
          /\ \A i \in 0 .. w.n - 1 : <<w.dh, i>> \in DOMAIN r3.skipped
      BY <3>2, <3>3, <3>4, <3>5, <3>6
    <3>9. ASSUME NEW h \in DOMAIN r3.skipped
          PROVE  \/ h \in DOMAIN r.skipped /\ r3.skipped[h] = r.skipped[h]
                 \/ StepAside(r3, h, r.dhr, r.ckr.root, r.nr, w.pn)
                 \/ StepAside(r3, h, w.dh, w.key.root, 0, w.n)
      <4>1. h \in DOMAIN r2.skipped /\ r3.skipped[h] = r2.skipped[h]
        BY <3>6
      <4>2. CASE StepAside(r2, h, t.dhr, t.ckr.root, t.nr, w.n)
        BY <3>2, <3>7, <4>1, <4>2 DEF StepAside
      <4>3. CASE h \in DOMAIN t.skipped /\ r2.skipped[h] = t.skipped[h]
        <5>1. CASE h \in DOMAIN r.skipped /\ t.skipped[h] = r.skipped[h]
          BY <4>1, <4>3, <5>1
        <5>2. CASE StepAside(t, h, r.dhr, r.ckr.root, r.nr, w.pn)
          BY <4>1, <4>3, <5>2 DEF StepAside
        <5>3. QED  BY <3>3, <4>3, <5>1, <5>2
      <4>4. QED  BY <3>5, <4>1, <4>2, <4>3
    <3>10. /\ r3.dhs = fresh /\ r3.ns = 0 /\ r3.pn = r.ns /\ r3.dhr = w.dh /\ w.dh # r.dhr
           /\ r3.rk = KdfRoot(rk1, DH(fresh, w.dh)) /\ r3.cks = Chain(r3.rk)
           /\ r3.ckr.root = rk1 /\ r3.ckr.step = w.n + 1 /\ r3.nr = w.n + 1
      BY <2>3, <2>b, <3>2, <3>4, <3>6, <3>7 DEF SendsAs, moved
    <3>11. OpensTurn(r, w, fresh, r3)
      BY <3>7, <3>8, <3>9, <3>10 DEF OpensTurn, rk1
    <3>12. QED  BY <2>1, <3>11 DEF d
  <2>4. QED  BY <2>2, <2>3
<1>3. QED  BY <1>1, <1>2

\* decrypt opens a message whose key is where it looks, unless the message is
\* too far ahead of the chain.
LEMMA DecryptTakes ==
  ASSUME NEW r \in Sessions, NEW w \in Messages, NEW fresh \in Keys, r.ckr.step = r.nr,
         w.key.step = w.n, ~TooFar(r, w),
         \/ <<w.dh, w.n>> \in DOMAIN r.skipped /\ r.skipped[<<w.dh, w.n>>] = w.key
         \/ /\ <<w.dh, w.n>> \notin DOMAIN r.skipped
            /\ w.dh = r.dhr /\ w.key.root = r.ckr.root /\ w.n >= r.nr
            /\ r.ckr = NilChain => w.n = r.nr
         \/ /\ <<w.dh, w.n>> \notin DOMAIN r.skipped
            /\ w.dh # r.dhr /\ w.key.root = KdfRoot(r.rk, DH(r.dhs, w.dh))
  PROVE  Decrypt(r, w, fresh).ok
<1> DEFINE moved == r.dhr = NoKey \/ w.dh # r.dhr
           t == DhRatchet(Skip(r, w.pn), w.dh, fresh)
           r1 == IF moved THEN t ELSE r
           r2 == Skip(r1, w.n)
           d == Decrypt(r, w, fresh)
<1>0. w.dh \in Keys /\ w.n \in Nat /\ w.pn \in Nat /\ w.key \in ChainKeys /\ r.nr \in Nat
      /\ MaxSkip \in Nat
  BY RatchetAssumption DEF Messages, Sessions
<1>a. moved <=> w.dh # r.dhr
  BY <1>0 DEF NoKey, Keys, Uses
<1>b. w.key = KeyAt(w.key.root, w.n)
  BY <1>0 DEF ChainKeys, KeyAt
<1>1. CASE <<w.dh, w.n>> \in DOMAIN r.skipped /\ r.skipped[<<w.dh, w.n>>] = w.key
  BY <1>1 DEF Decrypt, TrySkipped
<1>2. ASSUME <<w.dh, w.n>> \notin DOMAIN r.skipped, ~(moved /\ SkipRefused(r, w.pn)),
             ~SkipRefused(r1, w.n), r2.ckr = w.key
      PROVE  d.ok
  BY <1>2 DEF Decrypt, MessageKey
<1>3. CASE /\ <<w.dh, w.n>> \notin DOMAIN r.skipped
           /\ w.dh = r.dhr /\ w.key.root = r.ckr.root /\ w.n >= r.nr
           /\ r.ckr = NilChain => w.n = r.nr
  <2>1. ~moved /\ r1 = r
    BY <1>3, <1>a
  <2>2. ~SkipRefused(r, w.n)
    BY <1>0, <1>a, <2>1 DEF TooFar, SkipRefused
  <2>3. /\ r2 \in Sessions /\ r2.ckr.root = r.ckr.root /\ r2.ckr.step = r2.nr
        /\ r2.nr = IF r.ckr = NilChain \/ r.nr >= w.n THEN r.nr ELSE w.n
    BY <1>0, <2>1, SkipSets
  <2> HIDE DEF r2, d
  <2>4. r2.nr = w.n
    BY <1>0, <1>3, <2>3
  <2>5. r2.ckr \in ChainKeys
    BY <2>3 DEF Sessions
  <2>6. r2.ckr = w.key
    BY <1>3, <1>b, <2>3, <2>4, <2>5 DEF ChainKeys, KeyAt
  <2>7. QED  BY <1>2, <1>3, <2>1, <2>2, <2>6 DEF d
<1>4. CASE /\ <<w.dh, w.n>> \notin DOMAIN r.skipped
           /\ w.dh # r.dhr /\ w.key.root = KdfRoot(r.rk, DH(r.dhs, w.dh))
  <2>1. moved /\ r1 = t
    BY <1>4, <1>a
  <2>2. /\ t \in Sessions /\ t.ckr.step = t.nr /\ t.nr = 0 /\ t.ckr # NilChain
        /\ t.ckr.root = KdfRoot(r.rk, DH(r.dhs, w.dh))
    BY TurnedSession
  <2> HIDE DEF t
  <2>3. ~SkipRefused(r, w.pn) /\ ~SkipRefused(t, w.n)
    BY <1>0, <1>a, <2>1, <2>2 DEF TooFar, SkipRefused
  <2>4. /\ r2 \in Sessions /\ r2.ckr.root = t.ckr.root /\ r2.ckr.step = r2.nr
        /\ r2.nr = IF t.ckr = NilChain \/ t.nr >= w.n THEN t.nr ELSE w.n
    BY <1>0, <2>1, <2>2, SkipSets
  <2>5. ~SkipRefused(r1, w.n)
    BY <2>1, <2>3
  <2> HIDE DEF r2, d, r1
  <2>6. r2.nr = w.n
    BY <1>0, <2>2, <2>4
  <2>7. r2.ckr \in ChainKeys
    BY <2>4 DEF Sessions
  <2>8. r2.ckr = w.key
    BY <1>4, <1>b, <2>2, <2>4, <2>6, <2>7 DEF ChainKeys, KeyAt
  <2>9. QED  BY <1>2, <1>4, <2>3, <2>5, <2>8 DEF d
<1>5. QED  BY <1>1, <1>3, <1>4

-----------------------------------------------------------------------------
(* The sending sides *)

\* What was sealed stays sealed.
LEMMA BacksStays ==
  ASSUME NEW q \in Parties, NEW h, NEW k, Backs(q, h, k),
         DOMAIN sent[q] \subseteq DOMAIN sent'[q],
         \A i \in DOMAIN sent[q] : sent'[q][i] = sent[q][i]
  PROVE  Backs(q, h, k)'
BY DEF Backs

\* So does a complete chain.
LEMMA FullStays ==
  ASSUME NEW q \in Parties, NEW dh, NEW root, NEW n, Full(q, dh, root, n),
         DOMAIN sent[q] \subseteq DOMAIN sent'[q],
         \A i \in DOMAIN sent[q] : sent'[q][i] = sent[q][i]
  PROVE  Full(q, dh, root, n)'
BY BacksStays DEF Full

\* A step that leaves a sending side alone.
LEMMA WritesSame ==
  ASSUME NEW p \in Parties, NEW r, NEW s, Writes(p, r), SendsAs(s, r), sent'[p] = sent[p]
  PROVE  Writes(p, s)'
<1>1. PICK dhs, root, ns : dhs = r.dhs /\ root = r.cks.root /\ ns = r.ns
  OBVIOUS
<1>2. Full(p, dhs, root, ns)
  BY <1>1 DEF Writes
<1>3. Full(p, dhs, root, ns)'
  BY <1>2, FullStays
<1>4. Full(p, s.dhs, s.cks.root, s.ns)'
  BY <1>1, <1>3 DEF SendsAs, Full, Backs
<1>5. QED  BY <1>4 DEF Writes, SendsAs

\* A sending side that starts with a key pair nobody has seen.
LEMMA WritesFresh ==
  ASSUME StateOK, NEW p \in Parties, NEW s \in Sessions, s.ns = 0, sent'[p] = sent[p],
         s.cks.step = 0, Len(s.cks.root) <= Len(s.rk),
         \A i \in DOMAIN sent[p] :
            /\ sent[p][i].key.step = sent[p][i].n
            /\ sent[p][i].dh # s.dhs /\ sent[p][i].key.root # s.cks.root
            /\ Len(sent[p][i].key.root) < Len(s.rk),
         \A i, j \in DOMAIN sent[p] :
            sent[p][i].dh = sent[p][j].dh => sent[p][i].key.root = sent[p][j].key.root
  PROVE  Writes(p, s)'
<1>1. \A dh, root : Full(p, dh, root, 0)'
  BY DEF Full
<1>2. QED  BY <1>1 DEF Writes

\* encrypt: the message it seals is the next of the chain.
LEMMA WritesMore ==
  ASSUME StateOK, NEW p \in Parties, NEW r \in Sessions, NEW s \in Sessions, NEW w \in Messages,
         Writes(p, r), sent' = [sent EXCEPT ![p] = Append(@, w)],
         s.dhs = r.dhs, s.rk = r.rk, s.pn = r.pn, s.ns = r.ns + 1,
         s.cks.root = r.cks.root, s.cks.step = r.cks.step + 1,
         w.dh = r.dhs, w.key = r.cks, w.pn = r.pn, w.n = r.ns
  PROVE  Writes(p, s)'
<1>1. /\ DOMAIN sent[p] \subseteq DOMAIN sent'[p]
      /\ \A i \in DOMAIN sent[p] : sent'[p][i] = sent[p][i]
      /\ \A i \in DOMAIN sent'[p] : i \in DOMAIN sent[p] \/ sent'[p][i] = w
  BY Appended
<1>2. \E j \in DOMAIN sent'[p] : sent'[p][j] = w
  <2>1. sent[p] \in Seq(Messages) /\ sent'[p] = Append(sent[p], w)
    BY DEF StateOK
  <2>2. Len(sent[p]) + 1 \in DOMAIN sent'[p] /\ sent'[p][Len(sent[p]) + 1] = w
    BY <2>1
  <2>3. QED  BY <2>2
<1>3. r.ns \in Nat /\ r.cks \in ChainKeys /\ r.cks.step = r.ns
  BY DEF Sessions, Writes
<1>4. PICK dhs, root, ns : dhs = r.dhs /\ root = r.cks.root /\ ns = r.ns
  OBVIOUS
<1>5. Full(p, dhs, root, ns)'
  <2>1. Full(p, dhs, root, ns)
    BY <1>4 DEF Writes
  <2>2. QED  BY <1>1, <2>1, FullStays
<1>6. Backs(p, <<dhs, ns>>, KeyAt(root, ns))'
  <2>1. w.dh = dhs /\ w.n = ns /\ w.key = KeyAt(root, ns)
    BY <1>3, <1>4 DEF ChainKeys, KeyAt
  <2>2. QED  BY <1>2, <2>1 DEF Backs
<1>7. Full(p, dhs, root, ns + 1)'
  <2>1. \A i \in 0 .. (ns + 1) - 1 : i \in 0 .. ns - 1 \/ i = ns
    BY <1>3, <1>4
  <2>2. QED  BY <1>5, <1>6, <2>1 DEF Full
<1>8. Full(p, s.dhs, s.cks.root, s.ns)'
  BY <1>4, <1>7 DEF Full, Backs
<1>9. \A i \in DOMAIN sent'[p] :
        /\ sent'[p][i].key.step = sent'[p][i].n
        /\ sent'[p][i].dh = s.dhs <=> sent'[p][i].key.root = s.cks.root
        /\ sent'[p][i].dh = s.dhs => sent'[p][i].pn = s.pn
        /\ sent'[p][i].key.root = s.cks.root \/ Len(sent'[p][i].key.root) < Len(s.rk)
  BY <1>1, <1>3 DEF Writes
<1>10. \A i \in DOMAIN sent'[p] : i \in DOMAIN sent[p]
          \/ (sent'[p][i].dh = s.dhs /\ sent'[p][i].key.root = s.cks.root)
  BY <1>1
<1>11. ASSUME NEW i \in DOMAIN sent'[p], NEW j \in DOMAIN sent'[p],
              sent'[p][i].dh = sent'[p][j].dh
       PROVE  sent'[p][i].key.root = sent'[p][j].key.root
  <2>1. CASE i \in DOMAIN sent[p] /\ j \in DOMAIN sent[p]
    BY <1>1, <1>11, <2>1 DEF Writes
  <2>2. CASE ~(i \in DOMAIN sent[p] /\ j \in DOMAIN sent[p])
    BY <1>9, <1>10, <1>11, <2>2
  <2>3. QED  BY <2>1, <2>2
<1>12. s.cks.step = s.ns /\ Len(s.cks.root) <= Len(s.rk)
  BY <1>3 DEF Writes
<1>13. QED  BY <1>8, <1>9, <1>11, <1>12 DEF Writes

\* The session of the next state, by name.
LEMMA WritesIs ==
  ASSUME NEW p \in Parties, NEW s, Writes(p, s)', sess'[p] = s
  PROVE  Writes(p, sess[p])'
<1>1. Full(p, s.dhs, s.cks.root, s.ns)' <=> Full(p, sess[p].dhs, sess[p].cks.root, sess[p].ns)'
  BY DEF Full, Backs
<1>2. QED  BY <1>1 DEF Writes

\* Decrypting a message leaves our sending side alone or starts it anew.
LEMMA WritesArrive ==
  ASSUME RatchetInv, OpeningInv, NEW p \in Parties, NEW w \in net[p], Arrive(p, w)
  PROVE  Writes(p, sess[p])'
<1>1. StateOK /\ BookOK /\ KeysMade /\ OpenInv
  BY DEF RatchetInv
<1>2. Live(p) /\ sess[p] \in Sessions /\ w \in Messages /\ FromPeer(p, w)
  BY <1>1, ArriveMakes
<1>3. PICK s \in Sessions :
        /\ sess' = [sess EXCEPT ![p] = s]
        /\ \/ /\ got' = [got EXCEPT ![p] = Append(@, w.id)] /\ UNCHANGED refused
              /\ w.key \notin Spent(p) /\ ReceivesOnce(s, Spent(p) \cup {w.key})
           \/ /\ refused' = [refused EXCEPT ![p] = @ \cup {w}] /\ UNCHANGED got
              /\ ReceivesOnce(s, Spent(p))
        /\ \/ /\ s.dhs = sess[p].dhs /\ s.rk = sess[p].rk /\ s.cks = sess[p].cks
              /\ s.ns = sess[p].ns /\ s.pn = sess[p].pn
           \/ /\ s.dhs = Key(p, "ratchet", gen[p] + 1) /\ s.ns = 0 /\ s.pn = sess[p].ns
              /\ s.rk = KdfRoot(KdfRoot(sess[p].rk, DH(sess[p].dhs, w.dh)), DH(s.dhs, w.dh))
              /\ s.cks = Chain(s.rk)
        /\ gen' = [gen EXCEPT ![p] =
                     IF s.dhs = Key(p, "ratchet", gen[p] + 1) THEN @ + 1 ELSE @]
  BY <1>1, ArriveMakes, Zenon
<1>4. UNCHANGED sent
  BY <1>1, ArriveMakes
<1>5. sess'[p] = s
  BY <1>1, <1>3 DEF StateOK
<1>6. PICK r : r = sess[p]
  OBVIOUS
<1>7. r \in Sessions /\ Writes(p, r)
  BY <1>2, <1>6 DEF OpeningInv
<1>8. CASE SendsAs(s, r)
  <2>1. Writes(p, s)'
    BY <1>4, <1>7, <1>8, WritesSame
  <2>2. QED  BY <1>5, <2>1, WritesIs
<1>9. CASE /\ s.dhs = Key(p, "ratchet", gen[p] + 1) /\ s.ns = 0
           /\ s.rk = KdfRoot(KdfRoot(r.rk, DH(r.dhs, w.dh)), DH(s.dhs, w.dh))
           /\ s.cks = Chain(s.rk)
  <2>1. PICK fresh, own, rk, dh : fresh = s.dhs /\ own = r.dhs /\ rk = r.rk /\ dh = w.dh
    OBVIOUS
  <2>2. rk \in RootKeys /\ own \in Keys /\ dh \in Keys /\ fresh \in Keys
    BY <1>2, <1>7, <2>1 DEF Sessions, Messages
  <2>3. /\ fresh = Key(p, "ratchet", gen[p] + 1) /\ fresh[1] = p /\ fresh[2] = "ratchet"
        /\ fresh[3] = gen[p] + 1
    BY <1>9, <2>1 DEF Key
  <2>4. MadeOf(rk) /\ Made(own) /\ Made(dh)
    <3>1. MadeOf(sess[p].rk) /\ Made(sess[p].dhs)
      BY <1>1, <1>2 DEF KeysMade
    <3>2. PeerOf(p) \in Parties
      BY <1>1, HasSession
    <3>3. Made(sent[PeerOf(p)][w.id].dh) /\ sent[PeerOf(p)][w.id] = w
      BY <1>1, <1>2, <3>2 DEF KeysMade, FromPeer
    <3>4. QED  BY <1>6, <2>1, <3>1, <3>3
  <2>5. gen' = [gen EXCEPT ![p] = @ + 1]
    BY <1>3, <1>9
  <2>6. PICK root : root = Turned(rk, own, dh, fresh)
    OBVIOUS
  <2>7. root \in RootKeys /\ ~MadeOf(root)
    BY <1>1, <2>2, <2>3, <2>4, <2>5, <2>6, FreshRoot
  <2>8. s.rk = root /\ s.cks.root = root /\ s.cks.step = 0
    BY <1>9, <2>1, <2>6 DEF Turned, Chain
  <2>9. Len(root) = Len(rk) + 2 /\ Len(rk) \in Nat
    <3>1. PICK mid : mid = KdfRoot(rk, DH(own, dh))
      OBVIOUS
    <3>2. mid \in RootKeys /\ Len(mid) = Len(rk) + 1 /\ Len(rk) \in Nat
      BY <2>2, <3>1, RootGrows
    <3>3. root = KdfRoot(mid, DH(fresh, dh))
      BY <2>6, <3>1 DEF Turned
    <3>4. Len(root) = Len(mid) + 1
      BY <2>2, <3>2, <3>3, RootGrows
    <3>5. QED  BY <3>2, <3>4
  <2>10. ASSUME NEW i \in DOMAIN sent[p]
         PROVE  /\ sent[p][i].key.step = sent[p][i].n
                /\ sent[p][i].dh # s.dhs /\ sent[p][i].key.root # s.cks.root
                /\ Len(sent[p][i].key.root) < Len(s.rk)
    <3>1. Made(sent[p][i].dh) /\ MadeOf(sent[p][i].key.root)
      BY <1>1 DEF KeysMade
    <3>2. ~Made(fresh)
      BY <1>1, <2>3 DEF Made, StateOK
    <3>3. sent[p][i].dh # s.dhs /\ sent[p][i].key.root # s.cks.root
      BY <2>1, <2>7, <2>8, <3>1, <3>2
    <3>4. Len(r.cks.root) \in Nat /\ Len(r.cks.root) <= Len(rk)
      BY <1>7, <2>1 DEF Writes, Sessions, ChainKeys, RootKeys
    <3>5. sent[p][i].key.root = r.cks.root \/ Len(sent[p][i].key.root) < Len(rk)
      BY <1>7, <2>1 DEF Writes
    <3>6. sent[p][i].key.root \in RootKeys
      <4>1. sent[p][i] \in Messages
        BY <1>1 DEF StateOK
      <4>2. QED  BY <4>1 DEF Messages, ChainKeys
    <3>7. Len(sent[p][i].key.root) \in Nat
      BY <3>6 DEF RootKeys
    <3>8. Len(sent[p][i].key.root) < Len(s.rk)
      BY <2>8, <2>9, <3>4, <3>5, <3>7
    <3>9. sent[p][i].key.step = sent[p][i].n
      BY <1>7 DEF Writes
    <3>10. QED  BY <3>3, <3>8, <3>9
  <2>11. \A i, j \in DOMAIN sent[p] :
           sent[p][i].dh = sent[p][j].dh => sent[p][i].key.root = sent[p][j].key.root
    BY <1>7 DEF Writes
  <2>12. Len(s.cks.root) <= Len(s.rk)
    BY <2>8, <2>9
  <2>13. sent'[p] = sent[p] /\ s.ns = 0 /\ s.cks.step = 0
    BY <1>4, <1>9, <2>8
  <2>14. Writes(p, s)'
    BY <1>1, <2>10, <2>11, <2>12, <2>13, WritesFresh
  <2>15. QED  BY <1>5, <2>14, WritesIs
<1>10. QED  BY <1>3, <1>6, <1>8, <1>9 DEF SendsAs

\* A party the step does not touch writes as it did.
LEMMA WritesOther ==
  ASSUME OpeningInv, NEW p \in Parties, Live(p), sess'[p] = sess[p], sent'[p] = sent[p]
  PROVE  Writes(p, sess[p])'
<1>1. Writes(p, sess[p])
  BY DEF OpeningInv
<1>2. PICK s : s = sess[p]
  OBVIOUS
<1>3. Writes(p, s) /\ SendsAs(s, s)
  BY <1>1, <1>2 DEF SendsAs
<1>4. Writes(p, s)'
  BY <1>3, WritesSame
<1>5. QED  BY <1>2, <1>4, WritesIs

\* The sending sides, and how the sessions begin, in every step.
LEMMA OpeningKept ==
  ASSUME RatchetInv, OpeningInv, [Next]_vars
  PROVE  OpeningInv'
<1>1. StateOK /\ BookOK /\ KeysMade /\ OpenInv /\ StateOK' /\ DOMAIN sess = Parties
  BY StateKept DEF RatchetInv, StateOK
<1>2. Initiator \in Parties /\ Responder \in Parties /\ Initiator # Responder
      /\ \A p \in Parties : p = Initiator \/ p = Responder
  BY RatchetAssumption DEF Parties
<1>3. \A p \in Parties : Live(p)' <=> sess'[p] \in Sessions
  <2>1. NoSession \notin Sessions
    BY DEF NoSession, NoKey, Sessions, Keys, Uses
  <2>2. QED  BY <1>1, <2>1 DEF StateOK, Live
<1>4. CASE Initiate
  <2>1. ~Live(Initiator) /\ ~Live(Responder)
    BY <1>1, <1>4, InitiateMakes DEF OpeningInv
  <2>2. PICK s \in Sessions :
          /\ sess' = [sess EXCEPT ![Initiator] = s]
          /\ s.ckr = NilChain /\ s.skipped = <<>> /\ s.ns = 0 /\ s.nr = 0 /\ s.pn = 0
          /\ s.dhs = Key(Initiator, "ratchet", 1) /\ s.dhr = Key(Responder, "signed", 0)
          /\ s.rk = KdfRoot(X3dhInitiate(Initiator, Responder), DH(s.dhs, s.dhr))
          /\ s.cks = Chain(s.rk)
    BY <1>1, <1>4, InitiateMakes
  <2>3. /\ hs' = [identity |-> Key(Initiator, "identity", 0),
                  ephemeral |-> Key(Initiator, "ephemeral", 0), usedOTP |-> OneTime]
        /\ UNCHANGED sent
    BY <1>1, <1>4, InitiateMakes
  <2>4. sess'[Initiator] = s /\ sess'[Responder] = sess[Responder]
    BY <1>1, <1>2, <2>2
  <2>5. Live(Initiator)' /\ ~Live(Responder)'
    BY <1>2, <1>3, <2>1, <2>4 DEF Live
  <2>6. sent[Initiator] = <<>> /\ DOMAIN sent[Initiator] = {}
    BY <1>1, <1>2, <2>1 DEF BookOK
  <2>7. s.cks.root = s.rk /\ s.cks.step = 0 /\ Len(s.rk) \in Nat
    BY <2>2 DEF Chain, Sessions, RootKeys
  <2>8. Writes(Initiator, s)'
    BY <1>1, <1>2, <2>2, <2>3, <2>6, <2>7, WritesFresh
  <2>9. Writes(Initiator, sess[Initiator])'
    BY <1>2, <2>4, <2>8, WritesIs
  <2>10. Dialled(sess[Initiator])'
    BY <2>2, <2>3, <2>4, <2>6, <2>7 DEF Dialled
  <2>11. QED  BY <1>2, <2>3, <2>5, <2>9, <2>10 DEF OpeningInv
<1>5. CASE Accept
  <2>1. ~Live(Responder) /\ hs # NoHandshake
    BY <1>1, <1>5, AcceptMakes
  <2>2. PICK s \in Sessions :
          /\ sess' = [sess EXCEPT ![Responder] = s]
          /\ s.ns = 0 /\ s.cks = NilChain
    BY <1>1, <1>5, AcceptMakes
  <2>3. UNCHANGED <<hs, sent>>
    BY <1>1, <1>5, AcceptMakes
  <2>4. sess'[Responder] = s /\ sess'[Initiator] = sess[Initiator]
    BY <1>1, <1>2, <2>2
  <2>5. Live(Initiator) /\ Live(Initiator)' /\ Live(Responder)'
    BY <1>2, <1>3, <2>1, <2>4 DEF Live, OpeningInv
  <2>6. sent[Responder] = <<>> /\ DOMAIN sent[Responder] = {}
    BY <1>1, <1>2, <2>1 DEF BookOK
  <2>7. s.cks.step = 0 /\ Len(s.cks.root) <= Len(s.rk)
    BY <2>2 DEF Chain, NilChain, Sessions, RootKeys
  <2>8. Writes(Responder, s)'
    BY <1>1, <1>2, <2>2, <2>3, <2>6, <2>7, WritesFresh
  <2>9. Writes(Responder, sess[Responder])'
    BY <1>2, <2>4, <2>8, WritesIs
  <2>10. Writes(Initiator, sess[Initiator])'
    BY <1>2, <2>3, <2>4, <2>5, WritesOther
  <2>11. QED  BY <1>2, <2>3, <2>5, <2>9, <2>10 DEF OpeningInv
<1>6. ASSUME NEW p \in Parties, Encrypt(p) PROVE OpeningInv'
  <2>1. Live(p) /\ sess[p] \in Sessions
    BY <1>1, <1>6, EncryptMakes
  <2>2. PICK s \in Sessions, w \in Messages :
          /\ sess' = [sess EXCEPT ![p] = s]
          /\ s.dhs = sess[p].dhs /\ s.rk = sess[p].rk /\ s.ckr = sess[p].ckr
          /\ s.dhr = sess[p].dhr /\ s.nr = sess[p].nr
          /\ s.skipped = sess[p].skipped /\ s.pn = sess[p].pn
          /\ s.ns = sess[p].ns + 1
          /\ s.cks.root = sess[p].cks.root /\ s.cks.step = sess[p].cks.step + 1
          /\ w.dh = sess[p].dhs /\ w.key = sess[p].cks
          /\ w.pn = sess[p].pn /\ w.n = sess[p].ns
          /\ sent' = [sent EXCEPT ![p] = Append(@, w)]
    BY <1>1, <1>6, EncryptMakes
  <2>3. UNCHANGED hs
    BY <1>1, <1>6, EncryptMakes
  <2>4. /\ sess'[p] = s
        /\ \A q \in Parties : q # p => sess'[q] = sess[q] /\ sent'[q] = sent[q]
    BY <1>1, <2>2 DEF StateOK
  <2>5. Writes(p, sess[p])
    BY <2>1 DEF OpeningInv
  <2>6. Writes(p, s)'
    <3>1. PICK r : r = sess[p]
      OBVIOUS
    <3>2. r \in Sessions /\ Writes(p, r)
      BY <2>1, <2>5, <3>1
    <3>3. /\ s.dhs = r.dhs /\ s.rk = r.rk /\ s.pn = r.pn /\ s.ns = r.ns + 1
          /\ s.cks.root = r.cks.root /\ s.cks.step = r.cks.step + 1
          /\ w.dh = r.dhs /\ w.key = r.cks /\ w.pn = r.pn /\ w.n = r.ns
      BY <2>2, <3>1
    <3>4. QED  BY <1>1, <2>2, <3>2, <3>3, WritesMore
  <2>7. \A q \in Parties : Live(q)' <=> Live(q)
    BY <1>3, <2>1, <2>4 DEF Live
  <2>8. ASSUME NEW q \in Parties, Live(q)' PROVE Writes(q, sess[q])'
    <3>1. CASE q = p
      BY <2>4, <2>6, <3>1, WritesIs
    <3>2. CASE q # p
      BY <2>4, <2>7, <2>8, <3>2, WritesOther
    <3>3. QED  BY <3>1, <3>2
  <2>9. Live(Initiator)' /\ ~Live(Responder)' => Dialled(sess[Initiator])'
    <3> SUFFICES ASSUME Live(Initiator)', ~Live(Responder)' PROVE Dialled(sess[Initiator])'
      OBVIOUS
    <3>1. p = Initiator /\ Dialled(sess[p])
      BY <1>2, <2>1, <2>7 DEF OpeningInv
    <3>2. \A i \in DOMAIN sent'[p] : sent'[p][i].dh = s.dhs
      <4>1. \A i \in DOMAIN sent'[p] :
              (i \in DOMAIN sent[p] /\ sent'[p][i] = sent[p][i]) \/ sent'[p][i] = w
        BY <1>1, <2>2, Appended
      <4>2. QED  BY <2>2, <3>1, <4>1 DEF Dialled
    <3>3. QED  BY <2>2, <2>4, <3>1, <3>2 DEF Dialled
  <2>10. QED  BY <1>2, <2>3, <2>7, <2>8, <2>9 DEF OpeningInv
<1>7. ASSUME NEW p \in Parties, NEW w \in net[p], Arrive(p, w) PROVE OpeningInv'
  <2>1. Live(p) /\ FromPeer(p, w)
    BY <1>1, <1>7, ArriveMakes
  <2>2. PICK s \in Sessions : sess' = [sess EXCEPT ![p] = s]
    BY <1>1, <1>7, ArriveMakes
  <2>3. UNCHANGED <<hs, sent>>
    BY <1>1, <1>7, ArriveMakes
  <2>4. sess'[p] = s /\ \A q \in Parties : q # p => sess'[q] = sess[q]
    BY <1>1, <2>2
  <2>5. \A q \in Parties : Live(q)' <=> Live(q)
    BY <1>3, <2>1, <2>4 DEF Live
  <2>6. Live(Initiator) /\ Live(Responder)
    <3>1. PeerOf(p) \in Parties /\ PeerOf(p) # p
      BY <1>1, HasSession
    <3>2. sent[PeerOf(p)] # <<>>
      <4>1. w.id \in DOMAIN sent[PeerOf(p)]
        BY <2>1 DEF FromPeer
      <4>2. QED  BY <4>1
    <3>3. Live(PeerOf(p))
      BY <1>1, <3>1, <3>2 DEF BookOK
    <3>4. QED  BY <1>2, <2>1, <3>1, <3>3
  <2>7. ASSUME NEW q \in Parties, Live(q)' PROVE Writes(q, sess[q])'
    <3>1. CASE q = p
      BY <1>7, <3>1, WritesArrive
    <3>2. CASE q # p
      BY <2>3, <2>4, <2>5, <2>7, <3>2, WritesOther
    <3>3. QED  BY <3>1, <3>2
  <2>8. QED  BY <1>2, <2>3, <2>5, <2>6, <2>7 DEF OpeningInv
<1>8. CASE UNCHANGED vars
  <2>1. UNCHANGED <<sess, sent, hs>>
    BY <1>8 DEF vars
  <2>2. \A p \in Parties : Live(p)' <=> Live(p)
    BY <2>1 DEF Live
  <2>3. ASSUME NEW p \in Parties, Live(p)' PROVE Writes(p, sess[p])'
    BY <2>1, <2>2, <2>3, WritesOther
  <2>4. Dialled(sess[Initiator])' <=> Dialled(sess[Initiator])
    BY <2>1 DEF Dialled
  <2>5. QED  BY <1>2, <2>1, <2>2, <2>3, <2>4 DEF OpeningInv
<1>9. QED  BY <1>4, <1>5, <1>6, <1>7, <1>8 DEF Next

-----------------------------------------------------------------------------
(* The two sides of the session *)

\* The order of the keys makes no difference to a DH output, so that the two
\* parties of X3DH derive the same root.
LEMMA X3dhAgrees ==
  ASSUME NEW h, h = [identity |-> Key(Initiator, "identity", 0),
                     ephemeral |-> Key(Initiator, "ephemeral", 0), usedOTP |-> OneTime]
  PROVE  X3dhRespond(Responder, h) = X3dhInitiate(Initiator, Responder)
<1>1. \A a, b : DH(a, b) = DH(b, a)
  BY DEF DH
<1>2. /\ h.identity = Key(Initiator, "identity", 0)
      /\ h.ephemeral = Key(Initiator, "ephemeral", 0) /\ h.usedOTP = OneTime
  OBVIOUS
<1>3. /\ DH(Key(Responder, "signed", 0), h.identity)
           = DH(Key(Initiator, "identity", 0), Key(Responder, "signed", 0))
      /\ DH(Key(Responder, "identity", 0), h.ephemeral)
           = DH(Key(Initiator, "ephemeral", 0), Key(Responder, "identity", 0))
      /\ DH(Key(Responder, "signed", 0), h.ephemeral)
           = DH(Key(Initiator, "ephemeral", 0), Key(Responder, "signed", 0))
      /\ DH(Key(Responder, "onetime", 0), h.ephemeral)
           = DH(Key(Initiator, "ephemeral", 0), Key(Responder, "onetime", 0))
  BY <1>1, <1>2
<1>4. QED  BY <1>2, <1>3, Zenon DEF X3dhRespond, X3dhInitiate

\* A header names one message.
LEMMA HeaderUnique ==
  ASSUME StateOK, SealInv, NEW q \in Parties, NEW s, Writes(q, s),
         NEW i \in DOMAIN sent[q], NEW j \in DOMAIN sent[q],
         sent[q][i].dh = sent[q][j].dh, sent[q][i].n = sent[q][j].n
  PROVE  sent[q][i] = sent[q][j]
<1>1. sent[q][i] \in Messages /\ sent[q][j] \in Messages
  BY DEF StateOK
<1>2. sent[q][i].key \in ChainKeys /\ sent[q][j].key \in ChainKeys
  BY <1>1 DEF Messages
<1>3. sent[q][i].key.root = sent[q][j].key.root /\ sent[q][i].key.step = sent[q][j].key.step
  BY DEF Writes
<1>4. sent[q][i].key = sent[q][j].key
  BY <1>2, <1>3 DEF ChainKeys
<1>5. sent[q][i] \in Sealed /\ sent[q][j] \in Sealed
  BY SealedMessages
<1>6. QED  BY <1>4, <1>5 DEF SealInv, KeysFresh

\* The sessions of the next state, by name.
LEMMA LeadsIs ==
  ASSUME NEW p \in Parties, NEW q \in Parties, NEW r, NEW s, Leads(p, r, s)',
         sess'[p] = r, sess'[q] = s
  PROVE  Leads(p, sess[p], sess[q])'
<1>1. Full(p, s.dhr, s.ckr.root, r.pn)' <=> Full(p, sess[q].dhr, sess[q].ckr.root, sess[p].pn)'
  BY DEF Full, Backs
<1>2. QED  BY <1>1 DEF Leads

\* Likewise for the receiving side.
LEMMA ReadsIs ==
  ASSUME NEW p \in Parties, NEW q \in Parties, NEW r, NEW s, Reads(p, r, q, s)',
         sess'[p] = r, sess'[q] = s
  PROVE  Reads(p, sess[p], q, sess[q])'
<1>1. \A h \in DOMAIN r.skipped : Backs(q, h, r.skipped[h])' => Backs(q, h, sess[p].skipped[h])'
  BY DEF Backs
<1>2. ASSUME NEW i \in DOMAIN sent'[q], Accounted(p, r, s, sent[q][i])'
      PROVE  Accounted(p, sess[p], sess[q], sent[q][i])'
  BY <1>2 DEF Accounted
<1>3. QED  BY <1>1, <1>2 DEF Reads

\* Accept: the initiator is ahead by its first ratchet key.
LEMMA AcceptAgrees ==
  ASSUME RatchetInv, OpeningInv, Accept
  PROVE  /\ Leads(Initiator, sess[Initiator], sess[Responder])'
         /\ Reads(Initiator, sess[Initiator], Responder, sess[Responder])'
         /\ Reads(Responder, sess[Responder], Initiator, sess[Initiator])'
<1> DEFINE I == Initiator
           R == Responder
<1>1. StateOK /\ BookOK /\ KeysMade /\ SealInv /\ OpenInv
  BY DEF RatchetInv
<1>2. I \in Parties /\ R \in Parties /\ I # R
  BY RatchetAssumption DEF Parties
<1>3. PICK s \in Sessions :
        /\ sess' = [sess EXCEPT ![R] = s]
        /\ s.ckr = NilChain /\ s.skipped = <<>> /\ s.ns = 0 /\ s.nr = 0 /\ s.pn = 0
        /\ s.cks = NilChain /\ s.dhs = Key(R, "signed", 0) /\ s.dhr = NoKey
        /\ s.rk = X3dhRespond(R, hs)
  BY <1>1, AcceptMakes
<1>4. hs # NoHandshake /\ ~Live(R) /\ UNCHANGED <<sent, got>>
  BY <1>1, AcceptMakes
<1>5. PICK r : r = sess[I]
  OBVIOUS
<1>6. sess'[I] = r /\ sess'[R] = s
  BY <1>1, <1>2, <1>3, <1>5 DEF StateOK
<1>7. Live(I) /\ Dialled(r)
  BY <1>4, <1>5 DEF OpeningInv
<1>8. r \in Sessions /\ Writes(I, r)
  BY <1>1, <1>2, <1>5, <1>7, HasSession DEF OpeningInv
<1>9. s.rk = X3dhInitiate(I, R)
  BY <1>3, <1>4, X3dhAgrees DEF OpeningInv
<1>10. r.rk = KdfRoot(s.rk, DH(r.dhs, s.dhs)) /\ r.dhr = s.dhs
  BY <1>3, <1>7, <1>9 DEF Dialled
<1>11. s.dhr # r.dhs
  <2>1. r.dhs \in Keys
    BY <1>8 DEF Sessions
  <2>2. NoKey \notin Keys
    BY DEF NoKey, Keys, Uses
  <2>3. QED  BY <1>3, <2>1, <2>2
<1>12. /\ r.cks.root = r.rk /\ r.ckr = NilChain /\ r.nr = 0 /\ r.pn = 0 /\ r.skipped = <<>>
       /\ \A i \in DOMAIN sent[I] : sent[I][i].dh = r.dhs
  BY <1>7 DEF Dialled
<1>13. NilChain.root = <<>> /\ NilChain.step = 0
  BY DEF NilChain, Chain
<1>14. \A i \in DOMAIN sent[I] : sent[I][i].key.root # <<>> /\ sent[I][i].key.root = r.cks.root
  BY <1>1, <1>8, <1>12 DEF SealInv, Writes
<1>15. sent[R] = <<>> /\ DOMAIN sent[R] = {}
  BY <1>1, <1>2, <1>4 DEF BookOK
<1>16. Leads(I, r, s)'
  <2>1. \A dh, root : Full(I, dh, root, 0)'
    BY DEF Full
  <2>2. QED
    BY <1>3, <1>4, <1>10, <1>11, <1>12, <1>13, <1>14, <2>1 DEF Leads
<1>17. Reads(I, r, R, s)'
  <2>1. DOMAIN r.skipped = {} /\ DOMAIN sent'[R] = {}
    BY <1>4, <1>12, <1>15
  <2>2. QED  BY <1>12, <1>13, <2>1 DEF Reads
<1>18. Reads(R, s, I, r)'
  <2>1. DOMAIN s.skipped = {}
    BY <1>3
  <2>2. \A i \in DOMAIN sent'[I] : Accounted(R, s, r, sent[I][i])'
    BY <1>4, <1>11, <1>12, <1>14 DEF Accounted
  <2>3. QED  BY <1>3, <1>13, <2>1, <2>2 DEF Reads
<1>19. QED  BY <1>2, <1>6, <1>16, <1>17, <1>18, LeadsIs, ReadsIs

\* encrypt: whoever leads still leads, and the new message is accounted for.
LEMMA EncryptAgrees ==
  ASSUME RatchetInv, OpeningInv, NEW p \in Parties, NEW q \in Parties, q = PeerOf(p), Encrypt(p),
         Live(q),
         Leads(p, sess[p], sess[q]) \/ Leads(q, sess[q], sess[p]),
         Reads(p, sess[p], q, sess[q]), Reads(q, sess[q], p, sess[p])
  PROVE  /\ Leads(p, sess[p], sess[q])' \/ Leads(q, sess[q], sess[p])'
         /\ Reads(p, sess[p], q, sess[q])' /\ Reads(q, sess[q], p, sess[p])'
<1>1. StateOK /\ BookOK /\ KeysMade /\ SealInv /\ OpenInv
  BY DEF RatchetInv
<1>2. q # p
  BY <1>1, HasSession
<1>3. Live(p) /\ sess[p] \in Sessions
  BY <1>1, EncryptMakes
<1>4. PICK t \in Sessions, w \in Messages :
        /\ sess' = [sess EXCEPT ![p] = t]
        /\ t.dhs = sess[p].dhs /\ t.rk = sess[p].rk /\ t.ckr = sess[p].ckr
        /\ t.dhr = sess[p].dhr /\ t.nr = sess[p].nr
        /\ t.skipped = sess[p].skipped /\ t.pn = sess[p].pn
        /\ t.ns = sess[p].ns + 1
        /\ t.cks.root = sess[p].cks.root /\ t.cks.step = sess[p].cks.step + 1
        /\ w.dh = sess[p].dhs /\ w.key = sess[p].cks
        /\ w.pn = sess[p].pn /\ w.n = sess[p].ns
        /\ sent' = [sent EXCEPT ![p] = Append(@, w)]
  BY <1>1, EncryptMakes
<1>5. UNCHANGED got
  BY <1>1, EncryptMakes
<1>6. PICK r, s : r = sess[p] /\ s = sess[q]
  OBVIOUS
<1>7. /\ t.dhs = r.dhs /\ t.rk = r.rk /\ t.ckr = r.ckr /\ t.dhr = r.dhr /\ t.nr = r.nr
      /\ t.skipped = r.skipped /\ t.pn = r.pn /\ t.ns = r.ns + 1 /\ t.cks.root = r.cks.root
      /\ w.dh = r.dhs /\ w.key = r.cks /\ w.n = r.ns
  BY <1>4, <1>6
<1>8. sess'[p] = t /\ sess'[q] = s /\ sent'[q] = sent[q]
  BY <1>1, <1>2, <1>4, <1>6 DEF StateOK
<1>9. r \in Sessions /\ s \in Sessions /\ Writes(p, r)
  BY <1>1, <1>3, <1>6, HasSession DEF OpeningInv
<1>10. /\ DOMAIN sent[p] \subseteq DOMAIN sent'[p]
       /\ \A i \in DOMAIN sent[p] : sent'[p][i] = sent[p][i]
       /\ \A i \in DOMAIN sent'[p] : i \in DOMAIN sent[p] \/ sent'[p][i] = w
  BY <1>1, <1>4, Appended
<1>11. r.ns \in Nat /\ r.nr \in Nat /\ s.nr \in Nat
  BY <1>9 DEF Sessions
<1>12. ASSUME Leads(p, r, s) PROVE Leads(p, t, s)'
  <2>1. PICK dh, root, n : dh = s.dhr /\ root = s.ckr.root /\ n = r.pn
    OBVIOUS
  <2>2. Full(p, dh, root, n)
    BY <1>12, <2>1 DEF Leads
  <2>3. Full(p, dh, root, n)'
    BY <1>10, <2>2, FullStays
  <2>4. Full(p, s.dhr, s.ckr.root, t.pn)'
    BY <1>7, <2>1, <2>3 DEF Full, Backs
  <2>5. w.key.root # s.ckr.root
    <3>1. Len(s.ckr.root) <= Len(s.rk) /\ Len(s.ckr.root) \in Nat
      <4>1. ReceivesOnce(sess[q], Spent(q))
        BY <1>1 DEF OpenInv
      <4>2. Len(s.ckr.root) <= Len(s.rk)
        BY <1>6, <4>1 DEF ReceivesOnce
      <4>3. s.ckr.root \in RootKeys
        BY <1>9 DEF Sessions, ChainKeys
      <4>4. QED  BY <4>2, <4>3 DEF RootKeys
    <3>2. PICK a, b, k : a = r.dhs /\ b = s.dhs /\ k = s.rk
      OBVIOUS
    <3>3. a \in Keys /\ b \in Keys /\ k \in RootKeys
      BY <1>9, <3>2 DEF Sessions
    <3>4. Len(KdfRoot(k, DH(a, b))) = Len(k) + 1 /\ Len(k) \in Nat
      BY <3>3, RootGrows
    <3>5. w.key.root = KdfRoot(k, DH(a, b))
      BY <1>7, <1>12, <3>2 DEF Leads
    <3>6. QED  BY <3>1, <3>2, <3>4, <3>5
  <2>6. \A i \in DOMAIN sent'[p] :
          sent'[p][i].key.root = s.ckr.root
            => sent'[p][i].dh = s.dhr /\ sent'[p][i].key.step < t.pn
    BY <1>7, <1>10, <1>12, <2>5 DEF Leads
  <2>7. QED  BY <1>7, <1>12, <2>4, <2>6 DEF Leads
<1>13. ASSUME Leads(q, s, r) PROVE Leads(q, s, t)'
  <2>1. PICK dh, root, n : dh = r.dhr /\ root = r.ckr.root /\ n = s.pn
    OBVIOUS
  <2>2. Full(q, dh, root, n)
    BY <1>13, <2>1 DEF Leads
  <2>3. Full(q, dh, root, n)'
    BY <1>8, <2>2, FullStays
  <2>4. Full(q, t.dhr, t.ckr.root, s.pn)'
    BY <1>7, <2>1, <2>3 DEF Full, Backs
  <2>5. s.nr <= t.ns
    BY <1>7, <1>11, <1>13 DEF Leads
  <2>6. QED  BY <1>7, <1>8, <1>13, <2>4, <2>5 DEF Leads
<1>14. Leads(p, r, s) \/ Leads(q, s, r)
  BY <1>6
<1>15. Reads(p, r, q, s) /\ Reads(q, s, p, r)
  BY <1>6
<1>16. Reads(p, t, q, s)'
  <2>1. ASSUME NEW h \in DOMAIN t.skipped PROVE Backs(q, h, t.skipped[h])'
    BY <1>7, <1>8, <1>15 DEF Reads, Backs
  <2>2. ASSUME NEW i \in DOMAIN sent[q] PROVE Accounted(p, t, s, sent[q][i])'
    BY <1>5, <1>7, <1>8, <1>15 DEF Reads, Accounted
  <2>3. QED  BY <1>7, <1>8, <1>15, <2>1, <2>2 DEF Reads
<1>17. Reads(q, s, p, t)'
  <2>1. ASSUME NEW h \in DOMAIN s.skipped PROVE Backs(p, h, s.skipped[h])'
    <3>1. PICK k : k = s.skipped[h]
      OBVIOUS
    <3>2. Backs(p, h, k)
      BY <1>15, <3>1 DEF Reads
    <3>3. Backs(p, h, k)'
      BY <1>10, <3>2, BacksStays
    <3>4. QED  BY <3>1, <3>3
  <2>2. ASSUME NEW i \in DOMAIN sent'[p] PROVE Accounted(q, s, t, sent[p][i])'
    <3>1. CASE i \in DOMAIN sent[p]
      BY <1>5, <1>7, <1>10, <1>15, <3>1 DEF Reads, Accounted
    <3>2. CASE sent'[p][i] = w
      <4>1. CASE Leads(p, r, s)
        BY <1>7, <3>2, <4>1 DEF Leads, Accounted
      <4>2. CASE Leads(q, s, r)
        BY <1>7, <1>11, <3>2, <4>2 DEF Leads, Accounted
      <4>3. QED  BY <1>14, <4>1, <4>2
    <3>3. QED  BY <1>10, <3>1, <3>2
  <2>3. QED  BY <1>15, <2>1, <2>2 DEF Reads
<1>18. QED  BY <1>8, <1>12, <1>13, <1>14, <1>16, <1>17, LeadsIs, ReadsIs

\* A message that is not refused opens in one of the three ways.
LEMMA ArriveOpens ==
  ASSUME RatchetInv, OpeningInv, NEW p \in Parties, NEW w \in net[p], Arrive(p, w),
         refused'[p] = {}, sess[p].ckr.step = sess[p].nr
  PROVE  /\ Live(PeerOf(p)) /\ w \in Messages /\ w.key.step = w.n
         /\ w.id \in DOMAIN sent[PeerOf(p)] /\ sent[PeerOf(p)][w.id] = w
         /\ UNCHANGED sent /\ got' = [got EXCEPT ![p] = Append(@, w.id)]
         /\ \E t \in Sessions :
              /\ sess' = [sess EXCEPT ![p] = t]
              /\ \/ OpensAside(sess[p], w, t)
                 \/ OpensNext(sess[p], w, t)
                 \/ OpensTurn(sess[p], w, Key(p, "ratchet", gen[p] + 1), t)
<1>1. StateOK /\ BookOK /\ KeysMade /\ OpenInv
  BY DEF RatchetInv
<1>2. Live(p) /\ sess[p] \in Sessions /\ w \in Messages /\ FromPeer(p, w) /\ UNCHANGED sent
  BY <1>1, ArriveMakes
<1>3. PeerOf(p) \in Parties /\ w.id \in DOMAIN sent[PeerOf(p)] /\ sent[PeerOf(p)][w.id] = w
  BY <1>1, <1>2, HasSession DEF FromPeer
<1>4. Live(PeerOf(p))
  <2>1. sent[PeerOf(p)] # <<>>
    BY <1>3
  <2>2. QED  BY <1>1, <1>3, <2>1 DEF BookOK
<1>5. w.key.step = w.n
  <2>1. sent[PeerOf(p)][w.id].key.step = sent[PeerOf(p)][w.id].n
    BY <1>3, <1>4 DEF OpeningInv, Writes
  <2>2. QED  BY <1>3, <2>1
<1>6. PICK r, k, d : r = sess[p] /\ k = Key(p, "ratchet", gen[p] + 1) /\ d = Decrypt(r, w, k)
  OBVIOUS
<1>7. /\ sess' = [sess EXCEPT ![p] = d.r]
      /\ got' = IF d.ok THEN [got EXCEPT ![p] = Append(@, w.id)] ELSE got
      /\ refused' = IF d.ok THEN refused ELSE [refused EXCEPT ![p] = @ \cup {w}]
  BY <1>6 DEF Arrive
<1>8. k \in Keys
  BY <1>1, <1>6 DEF StateOK, Key, Keys, Uses
<1>9. r \in Sessions /\ r.ckr.step = r.nr /\ ReceivesOnce(r, Spent(p)) /\ Spent(p) \in SUBSET ChainKeys
  BY <1>1, <1>2, <1>6, SpentKeys DEF OpenInv
<1>10. d.ok
  <2>1. w \in [refused EXCEPT ![p] = @ \cup {w}][p]
    BY <1>1 DEF StateOK
  <2>2. QED  BY <1>7, <2>1
<1>11. d.r \in Sessions
  BY <1>2, <1>6, <1>8, <1>9, DecryptSpends
<1>12. OpensAside(r, w, d.r) \/ OpensNext(r, w, d.r) \/ OpensTurn(r, w, k, d.r)
  BY <1>2, <1>5, <1>6, <1>8, <1>9, <1>10, DecryptOpens
<1>13. QED  BY <1>2, <1>3, <1>4, <1>5, <1>6, <1>7, <1>10, <1>11, <1>12

\* What a step that opens a message of q leaves alone on the side of q.
LEMMA PeerReads ==
  ASSUME NEW p \in Parties, NEW q \in Parties, NEW r, NEW s, NEW t, Reads(q, s, p, r),
         t.cks.root = r.cks.root, t.dhs = r.dhs, UNCHANGED sent, got'[q] = got[q]
  PROVE  Reads(q, s, p, t)'
<1>1. ASSUME NEW i \in DOMAIN sent[p], Accounted(q, s, r, sent[p][i])
      PROVE  Accounted(q, s, t, sent[p][i])'
  BY <1>1 DEF Accounted
<1>2. ASSUME NEW h \in DOMAIN s.skipped PROVE Backs(p, h, s.skipped[h])'
  BY DEF Reads, Backs
<1>3. QED  BY <1>1, <1>2 DEF Reads

\* What was accounted for as opened stays so, and so does w from now on.
LEMMA OpenedStays ==
  ASSUME StateOK, NEW p \in Parties, NEW id \in Nat, got' = [got EXCEPT ![p] = Append(@, id)]
  PROVE  /\ \A n : (\E j \in DOMAIN got[p] : got[p][j] = n)
                      => (\E j \in DOMAIN got'[p] : got'[p][j] = n)
         /\ \E j \in DOMAIN got'[p] : got'[p][j] = id
         /\ \A q \in Parties : q # p => got'[q] = got[q]
<1>1. got \in [Parties -> Seq(Nat)] /\ got[p] \in Seq(Nat)
  BY DEF StateOK
<1>2. got'[p] = Append(got[p], id) /\ \A q \in Parties : q # p => got'[q] = got[q]
  BY <1>1
<1>3. /\ DOMAIN got[p] \subseteq DOMAIN got'[p] /\ \A j \in DOMAIN got[p] : got'[p][j] = got[p][j]
      /\ Len(got[p]) + 1 \in DOMAIN got'[p] /\ got'[p][Len(got[p]) + 1] = id
  BY <1>1, <1>2
<1>4. QED  BY <1>2, <1>3

\* Opening with a key set aside changes neither the lead nor what is ahead.
LEMMA AsideAgrees ==
  ASSUME StateOK, SealInv, NEW p \in Parties, NEW q \in Parties,
         NEW r \in Sessions, NEW s \in Sessions, NEW t \in Sessions, NEW w \in Messages,
         Writes(q, s), w.id \in DOMAIN sent[q], sent[q][w.id] = w,
         UNCHANGED sent, got' = [got EXCEPT ![p] = Append(@, w.id)],
         Reads(p, r, q, s), OpensAside(r, w, t)
  PROVE  /\ Leads(p, r, s) => Leads(p, t, s)'
         /\ Leads(q, s, r) => Leads(q, s, t)'
         /\ Reads(p, t, q, s)'
<1>1. SendsAs(t, r) /\ t.dhr = r.dhr /\ t.ckr = r.ckr /\ t.nr = r.nr
  BY DEF OpensAside
<1>2. Leads(p, r, s) => Leads(p, t, s)'
  BY <1>1 DEF Leads, SendsAs, Full, Backs
<1>3. Leads(q, s, r) => Leads(q, s, t)'
  BY <1>1 DEF Leads, SendsAs, Full, Backs
<1>4. ASSUME NEW h \in DOMAIN t.skipped PROVE Backs(q, h, t.skipped[h])'
  <2>1. h \in DOMAIN r.skipped /\ t.skipped[h] = r.skipped[h]
    BY DEF OpensAside
  <2>2. QED  BY <2>1 DEF Reads, Backs
<1>5. w.id \in Nat
  BY DEF Messages
<1>6. ASSUME NEW i \in DOMAIN sent[q] PROVE Accounted(p, t, s, sent[q][i])'
  <2>1. PICK v : v = sent[q][i]
    OBVIOUS
  <2>2. Accounted(p, r, s, v)
    BY <2>1 DEF Reads
  <2>3. CASE \E j \in DOMAIN got[p] : got[p][j] = v.id
    <3>1. \E j \in DOMAIN got'[p] : got'[p][j] = v.id
      BY <1>5, <2>3, OpenedStays
    <3>2. QED  BY <2>1, <3>1 DEF Accounted
  <2>4. CASE <<v.dh, v.n>> \in DOMAIN r.skipped
    <3>1. CASE <<v.dh, v.n>> \in DOMAIN t.skipped
      BY <2>1, <3>1 DEF Accounted
    <3>2. CASE <<v.dh, v.n>> \notin DOMAIN t.skipped
      <4>1. <<v.dh, v.n>> = <<w.dh, w.n>>
        BY <2>4, <3>2 DEF OpensAside
      <4>2. sent[q][i].dh = sent[q][w.id].dh /\ sent[q][i].n = sent[q][w.id].n
        BY <2>1, <4>1
      <4>3. v = w
        BY <2>1, <4>2, HeaderUnique
      <4>4. \E j \in DOMAIN got'[p] : got'[p][j] = v.id
        BY <1>5, <4>3, OpenedStays
      <4>5. QED  BY <2>1, <4>4 DEF Accounted
    <3>3. QED  BY <3>1, <3>2
  <2>5. CASE \/ v.key.root = r.ckr.root /\ v.dh = r.dhr /\ v.n >= r.nr
             \/ v.key.root = s.cks.root /\ v.dh = s.dhs /\ r.dhr # s.dhs
             \/ v.key.root = <<>> /\ v.dh # r.dhr
    BY <1>1, <2>1, <2>5 DEF Accounted
  <2>6. QED  BY <2>2, <2>3, <2>4, <2>5 DEF Accounted
<1>7. t.ckr.step = t.nr
  BY <1>1 DEF Reads
<1>8. QED  BY <1>2, <1>3, <1>4, <1>6, <1>7 DEF Reads

\* The keys of a complete stretch of a chain are keys of messages.
LEMMA AsideBacked ==
  ASSUME NEW q \in Parties, NEW t, NEW h, NEW dh, NEW root, NEW lo \in Nat, NEW hi \in Nat,
         NEW n \in Nat, StepAside(t, h, dh, root, lo, hi), Full(q, dh, root, n), hi <= n,
         UNCHANGED sent
  PROVE  Backs(q, h, t.skipped[h])'
<1>1. PICK i \in lo .. hi - 1 : h = <<dh, i>> /\ t.skipped[h] = KeyAt(root, i)
  BY DEF StepAside
<1>2. i \in 0 .. n - 1
  OBVIOUS
<1>3. Backs(q, h, t.skipped[h])
  BY <1>1, <1>2 DEF Full
<1>4. QED  BY <1>3 DEF Backs

\* Opening with a key of the receiving chain: everything before it is set aside,
\* and everything after it is still ahead.
LEMMA NextAgrees ==
  ASSUME StateOK, SealInv, NEW p \in Parties, NEW q \in Parties, Live(q),
         NEW r \in Sessions, NEW s \in Sessions, NEW t \in Sessions, NEW w \in Messages,
         s = sess[q], Writes(q, s), w.id \in DOMAIN sent[q], sent[q][w.id] = w, w.key.step = w.n,
         UNCHANGED sent, got' = [got EXCEPT ![p] = Append(@, w.id)],
         Reads(p, r, q, s), OpensNext(r, w, t), Leads(p, r, s) \/ Leads(q, s, r)
  PROVE  /\ Leads(p, r, s) => Leads(p, t, s)'
         /\ Leads(q, s, r) => Leads(q, s, t)'
         /\ Reads(p, t, q, s)'
<1>1. /\ SendsAs(t, r) /\ t.dhr = r.dhr /\ t.ckr.root = r.ckr.root
      /\ t.ckr.step = w.n + 1 /\ t.nr = w.n + 1
      /\ w.dh = r.dhr /\ w.key.root = r.ckr.root /\ w.n >= r.nr
  BY DEF OpensNext
<1>2. /\ w.id \in Nat /\ w.n \in Nat /\ r.nr \in Nat /\ s.ns \in Nat /\ s.pn \in Nat
  BY DEF Messages, Sessions
<1>3. ASSUME Leads(p, r, s)
      PROVE  w.n < s.ns /\ r.dhr = s.dhs /\ Full(q, r.dhr, r.ckr.root, s.ns)
  <2>1. r.dhr = s.dhs /\ r.ckr.root = s.cks.root
    BY <1>3 DEF Leads
  <2>2. sent[q][w.id].key.root = sess[q].cks.root
    BY <1>1, <2>1
  <2>3. sent[q][w.id].key.step < sess[q].cks.step
    BY <2>2 DEF SealInv
  <2>4. s.cks.step = s.ns /\ Full(q, s.dhs, s.cks.root, s.ns)
    BY DEF Writes
  <2>5. QED  BY <2>1, <2>3, <2>4
<1>4. ASSUME Leads(q, s, r)
      PROVE  w.n < s.pn /\ Full(q, r.dhr, r.ckr.root, s.pn)
  <2>1. sent[q][w.id].key.root = r.ckr.root
    BY <1>1
  <2>2. sent[q][w.id].key.step < s.pn
    BY <1>4, <2>1 DEF Leads
  <2>3. QED  BY <1>4, <2>2 DEF Leads
<1>5. PICK n \in Nat : w.n < n /\ Full(q, r.dhr, r.ckr.root, n)
  BY <1>2, <1>3, <1>4
<1>6. Leads(p, r, s) => Leads(p, t, s)'
  <2> SUFFICES ASSUME Leads(p, r, s) PROVE Leads(p, t, s)'
    OBVIOUS
  <2>1. t.nr <= s.ns
    BY <1>1, <1>2, <1>3
  <2>2. QED  BY <1>1, <2>1 DEF Leads, SendsAs, Full, Backs
<1>7. Leads(q, s, r) => Leads(q, s, t)'
  BY <1>1 DEF Leads, SendsAs, Full, Backs
<1>8. ASSUME NEW h \in DOMAIN t.skipped PROVE Backs(q, h, t.skipped[h])'
  <2>1. CASE h \in DOMAIN r.skipped /\ t.skipped[h] = r.skipped[h]
    BY <2>1 DEF Reads, Backs
  <2>2. CASE StepAside(t, h, r.dhr, r.ckr.root, r.nr, w.n)
    <3>1. PICK dh, root : dh = r.dhr /\ root = r.ckr.root
      OBVIOUS
    <3>2. StepAside(t, h, dh, root, r.nr, w.n) /\ Full(q, dh, root, n)
      BY <1>5, <2>2, <3>1
    <3>3. w.n <= n
      BY <1>2, <1>5
    <3>4. QED  BY <1>2, <3>2, <3>3, AsideBacked
  <2>3. QED  BY <2>1, <2>2 DEF OpensNext
<1>9. ASSUME NEW i \in DOMAIN sent[q] PROVE Accounted(p, t, s, sent[q][i])'
  <2>1. PICK v : v = sent[q][i]
    OBVIOUS
  <2>2. Accounted(p, r, s, v) /\ v \in Messages
    BY <2>1 DEF Reads, StateOK
  <2>3. CASE \E j \in DOMAIN got[p] : got[p][j] = v.id
    <3>1. \E j \in DOMAIN got'[p] : got'[p][j] = v.id
      BY <1>2, <2>3, OpenedStays
    <3>2. QED  BY <2>1, <3>1 DEF Accounted
  <2>4. CASE <<v.dh, v.n>> \in DOMAIN r.skipped
    <3>1. <<v.dh, v.n>> \in DOMAIN t.skipped
      BY <2>4 DEF OpensNext
    <3>2. QED  BY <2>1, <3>1 DEF Accounted
  <2>5. CASE v.key.root = r.ckr.root /\ v.dh = r.dhr /\ v.n >= r.nr
    <3>1. v.n \in Nat
      BY <2>2 DEF Messages
    <3>2. CASE v.n < w.n
      <4>1. <<r.dhr, v.n>> \in DOMAIN t.skipped
        <5>1. v.n \in r.nr .. w.n - 1
          BY <1>2, <2>5, <3>1, <3>2
        <5>2. QED  BY <5>1 DEF OpensNext
      <4>2. QED  BY <2>1, <2>5, <4>1 DEF Accounted
    <3>3. CASE v.n = w.n
      <4>1. sent[q][i].dh = sent[q][w.id].dh /\ sent[q][i].n = sent[q][w.id].n
        BY <1>1, <2>1, <2>5, <3>3
      <4>2. v = w
        BY <2>1, <4>1, HeaderUnique
      <4>3. \E j \in DOMAIN got'[p] : got'[p][j] = v.id
        BY <1>2, <4>2, OpenedStays
      <4>4. QED  BY <2>1, <4>3 DEF Accounted
    <3>4. CASE v.n > w.n
      <4>1. v.key.root = t.ckr.root /\ v.dh = t.dhr /\ v.n >= t.nr
        BY <1>1, <1>2, <2>5, <3>1, <3>4
      <4>2. QED  BY <2>1, <4>1 DEF Accounted
    <3>5. QED  BY <1>2, <3>1, <3>2, <3>3, <3>4
  <2>6. CASE \/ v.key.root = s.cks.root /\ v.dh = s.dhs /\ r.dhr # s.dhs
             \/ v.key.root = <<>> /\ v.dh # r.dhr
    BY <1>1, <2>1, <2>6 DEF Accounted
  <2>7. QED  BY <2>2, <2>3, <2>4, <2>5, <2>6 DEF Accounted
<1>10. QED  BY <1>1, <1>6, <1>7, <1>8, <1>9 DEF Reads

\* Only the party that is behind can open with a new chain, and only the chain
\* its peer sends on: the two roots after it are the two of the peer's last step.
LEMMA TurnFollows ==
  ASSUME StateOK, NEW p \in Parties, NEW q \in Parties, NEW fresh \in Keys,
         NEW r \in Sessions, NEW s \in Sessions, NEW t \in Sessions, NEW w \in Messages,
         Writes(q, s), w.id \in DOMAIN sent[q], sent[q][w.id] = w,
         OpensTurn(r, w, fresh, t), Leads(p, r, s) \/ Leads(q, s, r)
  PROVE  /\ Leads(q, s, r) /\ w.dh = s.dhs /\ w.key.root = s.cks.root /\ s.cks.root = s.rk
         /\ w.pn = s.pn /\ s.rk # <<>>
<1>1. w.key.root = KdfRoot(r.rk, DH(r.dhs, w.dh))
  BY DEF OpensTurn
<1>2. PICK own, rk, dh, far, base : own = r.dhs /\ rk = r.rk /\ dh = w.dh /\ far = s.dhs /\ base = s.rk
  OBVIOUS
<1>3. rk \in RootKeys /\ own \in Keys /\ dh \in Keys /\ far \in Keys /\ base \in RootKeys
  BY <1>2 DEF Sessions, Messages
<1>4. Len(KdfRoot(rk, DH(own, dh))) = Len(rk) + 1 /\ Len(rk) \in Nat /\ Len(base) \in Nat
  BY <1>3, RootGrows
<1>5. Len(w.key.root) = Len(rk) + 1
  BY <1>1, <1>2, <1>4
<1>6. w.key.root = s.cks.root \/ Len(w.key.root) < Len(base)
  BY <1>2 DEF Writes
<1>7. Len(s.cks.root) <= Len(base)
  BY <1>2 DEF Writes
<1>8. ~Leads(p, r, s)
  <2>1. SUFFICES ASSUME Leads(p, r, s) PROVE FALSE
    OBVIOUS
  <2>2. rk = KdfRoot(base, DH(own, far))
    BY <1>2, <2>1 DEF Leads
  <2>3. Len(rk) = Len(base) + 1
    BY <1>3, <2>2, RootGrows
  <2>4. QED  BY <1>4, <1>5, <1>6, <1>7, <2>3
<1>9. Leads(q, s, r)
  BY <1>8
<1>10. base = KdfRoot(rk, DH(far, own)) /\ s.cks.root = base
  BY <1>2, <1>9 DEF Leads
<1>11. Len(base) = Len(rk) + 1 /\ base # <<>>
  BY <1>3, <1>10, RootGrows
<1>12. w.key.root = s.cks.root
  BY <1>4, <1>5, <1>6, <1>11
<1>13. w.dh = s.dhs /\ w.pn = s.pn
  BY <1>12 DEF Writes
<1>14. QED  BY <1>2, <1>9, <1>10, <1>11, <1>12, <1>13

\* Opening with a new chain: the party that was behind leads.
LEMMA TurnAgrees ==
  ASSUME StateOK, SealInv, NEW p \in Parties, NEW q \in Parties, Live(p), Live(q), NEW fresh \in Keys,
         NEW r \in Sessions, NEW s \in Sessions, NEW t \in Sessions, NEW w \in Messages,
         r = sess[p], s = sess[q], Writes(p, r), Writes(q, s), w.id \in DOMAIN sent[q],
         sent[q][w.id] = w, w.key.step = w.n, q # p,
         UNCHANGED sent, got' = [got EXCEPT ![p] = Append(@, w.id)],
         Reads(p, r, q, s), Reads(q, s, p, r), r.dhs # fresh,
         OpensTurn(r, w, fresh, t), Leads(p, r, s) \/ Leads(q, s, r)
  PROVE  Leads(p, t, s)' /\ Reads(p, t, q, s)' /\ Reads(q, s, p, t)'
<1>1. /\ Leads(q, s, r) /\ w.dh = s.dhs /\ w.key.root = s.cks.root /\ s.cks.root = s.rk
      /\ w.pn = s.pn /\ s.rk # <<>>
  BY TurnFollows
<1>2. /\ w.id \in Nat /\ w.n \in Nat /\ r.nr \in Nat /\ s.ns \in Nat /\ s.pn \in Nat /\ r.ns \in Nat
  BY DEF Messages, Sessions
<1>3. /\ w.dh # r.dhr /\ t.dhs = fresh /\ t.ns = 0 /\ t.pn = r.ns
      /\ t.rk = KdfRoot(w.key.root, DH(fresh, w.dh)) /\ t.cks = Chain(t.rk)
      /\ t.dhr = w.dh /\ t.ckr.root = w.key.root /\ t.ckr.step = w.n + 1 /\ t.nr = w.n + 1
  BY DEF OpensTurn
<1>4. w.n < s.ns
  <2>1. sent[q][w.id].key.root = sess[q].cks.root
    BY <1>1
  <2>2. sent[q][w.id].key.step < sess[q].cks.step
    BY <2>1 DEF SealInv
  <2>3. s.cks.step = s.ns
    BY DEF Writes
  <2>4. QED  BY <2>2, <2>3
<1>5. s.dhr = r.dhs /\ s.ckr.root = r.cks.root
  BY <1>1 DEF Leads
<1>6. Leads(p, t, s)'
  <2>1. PICK dh, root, n : dh = r.dhs /\ root = r.cks.root /\ n = r.ns
    OBVIOUS
  <2>2. Full(p, dh, root, n)
    BY <2>1 DEF Writes
  <2>3. Full(p, dh, root, n)'
    BY <2>2, FullStays
  <2>4. Full(p, s.dhr, s.ckr.root, t.pn)'
    BY <1>3, <1>5, <2>1, <2>3 DEF Full, Backs
  <2>5. ASSUME NEW i \in DOMAIN sent[p], sent[p][i].key.root = s.ckr.root
        PROVE  sent[p][i].dh = s.dhr /\ sent[p][i].key.step < t.pn
    <3>1. sent[p][i].key.root = sess[p].cks.root
      BY <1>5, <2>5
    <3>2. sent[p][i].key.step < sess[p].cks.step
      BY <3>1 DEF SealInv
    <3>3. sent[p][i].dh = r.dhs /\ r.cks.step = r.ns
      BY <3>1 DEF Writes
    <3>4. QED  BY <1>3, <1>5, <3>2, <3>3
  <2>6. t.rk = KdfRoot(s.rk, DH(t.dhs, s.dhs)) /\ t.cks.root = t.rk
    BY <1>1, <1>3 DEF Chain
  <2>7. t.nr <= s.ns /\ t.dhr = s.dhs /\ s.dhr # t.dhs /\ t.ckr.root = s.cks.root
    BY <1>1, <1>2, <1>3, <1>4, <1>5
  <2>8. QED  BY <2>4, <2>5, <2>6, <2>7 DEF Leads
<1>7. ASSUME NEW h \in DOMAIN t.skipped PROVE Backs(q, h, t.skipped[h])'
  <2>1. CASE h \in DOMAIN r.skipped /\ t.skipped[h] = r.skipped[h]
    BY <2>1 DEF Reads, Backs
  <2>2. CASE StepAside(t, h, r.dhr, r.ckr.root, r.nr, w.pn)
    <3>1. PICK dh, root, n : dh = r.dhr /\ root = r.ckr.root /\ n = s.pn
      OBVIOUS
    <3>2. StepAside(t, h, dh, root, r.nr, n) /\ Full(q, dh, root, n)
      BY <1>1, <2>2, <3>1 DEF Leads
    <3>3. n \in Nat /\ n <= n
      BY <1>2, <3>1
    <3>4. QED  BY <1>2, <3>2, <3>3, AsideBacked
  <2>3. CASE StepAside(t, h, w.dh, w.key.root, 0, w.n)
    <3>1. PICK dh, root, n : dh = s.dhs /\ root = s.cks.root /\ n = s.ns
      OBVIOUS
    <3>2. StepAside(t, h, dh, root, 0, w.n) /\ Full(q, dh, root, n)
      BY <1>1, <2>3, <3>1 DEF Writes
    <3>3. n \in Nat /\ w.n <= n /\ 0 \in Nat
      BY <1>2, <1>4, <3>1
    <3>4. QED  BY <1>2, <3>2, <3>3, AsideBacked
  <2>4. QED  BY <2>1, <2>2, <2>3 DEF OpensTurn
<1>8. ASSUME NEW i \in DOMAIN sent[q] PROVE Accounted(p, t, s, sent[q][i])'
  <2>1. PICK v : v = sent[q][i]
    OBVIOUS
  <2>2. Accounted(p, r, s, v) /\ v \in Messages /\ v.n \in Nat
    <3>1. sent[q][i] \in Messages
      BY DEF StateOK
    <3>2. QED  BY <2>1, <3>1 DEF Reads, Messages
  <2>3. CASE \E j \in DOMAIN got[p] : got[p][j] = v.id
    <3>1. \E j \in DOMAIN got'[p] : got'[p][j] = v.id
      BY <1>2, <2>3, OpenedStays
    <3>2. QED  BY <2>1, <3>1 DEF Accounted
  <2>4. CASE <<v.dh, v.n>> \in DOMAIN r.skipped
    <3>1. <<v.dh, v.n>> \in DOMAIN t.skipped
      BY <2>4 DEF OpensTurn
    <3>2. QED  BY <2>1, <3>1 DEF Accounted
  <2>5. CASE v.key.root = r.ckr.root /\ v.dh = r.dhr /\ v.n >= r.nr
    <3>1. CASE r.ckr # NilChain
      <4>1. v.key.step < s.pn /\ v.key.step = v.n
        BY <1>1, <2>1, <2>5 DEF Leads, Writes
      <4>2. v.n \in r.nr .. w.pn - 1
        BY <1>1, <1>2, <2>2, <2>5, <4>1
      <4>3. <<r.dhr, v.n>> \in DOMAIN t.skipped
        BY <3>1, <4>2 DEF OpensTurn
      <4>4. QED  BY <2>1, <2>5, <4>3 DEF Accounted
    <3>2. CASE r.ckr = NilChain
      <4>1. v.key.root = <<>> /\ v.dh # t.dhr
        BY <1>3, <2>5, <3>2 DEF NilChain, Chain
      <4>2. QED  BY <2>1, <4>1 DEF Accounted
    <3>3. QED  BY <3>1, <3>2
  <2>6. CASE v.key.root = s.cks.root /\ v.dh = s.dhs /\ r.dhr # s.dhs
    <3>1. CASE v.n < w.n
      <4>1. v.n \in 0 .. w.n - 1
        BY <1>2, <2>2, <3>1
      <4>2. <<w.dh, v.n>> \in DOMAIN t.skipped
        BY <4>1 DEF OpensTurn
      <4>3. QED  BY <1>1, <2>1, <2>6, <4>2 DEF Accounted
    <3>2. CASE v.n = w.n
      <4>1. sent[q][i].dh = sent[q][w.id].dh /\ sent[q][i].n = sent[q][w.id].n
        BY <1>1, <2>1, <2>6, <3>2
      <4>2. v = w
        BY <2>1, <4>1, HeaderUnique
      <4>3. \E j \in DOMAIN got'[p] : got'[p][j] = v.id
        BY <1>2, <4>2, OpenedStays
      <4>4. QED  BY <2>1, <4>3 DEF Accounted
    <3>3. CASE v.n > w.n
      <4>1. v.key.root = t.ckr.root /\ v.dh = t.dhr /\ v.n >= t.nr
        BY <1>1, <1>2, <1>3, <2>2, <2>6, <3>3
      <4>2. QED  BY <2>1, <4>1 DEF Accounted
    <3>4. QED  BY <1>2, <2>2, <3>1, <3>2, <3>3
  <2>7. CASE v.key.root = <<>> /\ v.dh # r.dhr
    <3>1. v.dh # s.dhs
      BY <1>1, <2>1, <2>7 DEF Writes
    <3>2. v.dh # t.dhr
      BY <1>1, <1>3, <3>1
    <3>3. QED  BY <2>1, <2>7, <3>2 DEF Accounted
  <2>8. QED  BY <2>2, <2>3, <2>4, <2>5, <2>6, <2>7 DEF Accounted
<1>9. Reads(p, t, q, s)'
  BY <1>3, <1>7, <1>8 DEF Reads
<1>10. Reads(q, s, p, t)'
  <2>1. got'[q] = got[q]
    BY <1>2, OpenedStays
  <2>2. ASSUME NEW i \in DOMAIN sent[p] PROVE Accounted(q, s, t, sent[p][i])'
    <3>1. Accounted(q, s, r, sent[p][i])
      BY DEF Reads
    <3>2. QED  BY <1>5, <2>1, <3>1 DEF Accounted
  <2>3. ASSUME NEW h \in DOMAIN s.skipped PROVE Backs(p, h, s.skipped[h])'
    BY DEF Reads, Backs
  <2>4. QED  BY <2>2, <2>3 DEF Reads
<1>11. QED  BY <1>6, <1>9, <1>10

\* As long as nothing is refused the two sides agree, in every step.
LEMMA CalmKept ==
  ASSUME RatchetInv, OpeningInv, CalmInv, [Next]_vars
  PROVE  CalmInv'
<1>1. StateOK /\ BookOK /\ KeysMade /\ SealInv /\ OpenInv /\ StateOK' /\ DOMAIN sess = Parties
  BY StateKept DEF RatchetInv, StateOK
<1>2. /\ Initiator \in Parties /\ Responder \in Parties /\ Initiator # Responder
      /\ \A p \in Parties : p = Initiator \/ p = Responder
      /\ PeerOf(Initiator) = Responder /\ PeerOf(Responder) = Initiator
  BY RatchetAssumption DEF Parties, PeerOf
<1>3. \A p \in Parties : PeerOf(p) \in Parties /\ PeerOf(p) # p /\ PeerOf(PeerOf(p)) = p
  BY <1>1, HasSession
<1>4. SUFFICES ASSUME Calm', Live(Responder)'
               PROVE  /\ (\E p \in Parties : Leads(p, sess[p], sess[PeerOf(p)]))'
                      /\ (\A p \in Parties : Reads(p, sess[p], PeerOf(p), sess[PeerOf(p)]))'
  BY DEF CalmInv
<1> DEFINE Agrees(p, q) == /\ Leads(p, sess[p], sess[q]) \/ Leads(q, sess[q], sess[p])
                           /\ Reads(p, sess[p], q, sess[q]) /\ Reads(q, sess[q], p, sess[p])
<1>5. ASSUME NEW p \in Parties, NEW q \in Parties, q = PeerOf(p), Agrees(p, q)'
      PROVE  /\ (\E o \in Parties : Leads(o, sess[o], sess[PeerOf(o)]))'
             /\ (\A o \in Parties : Reads(o, sess[o], PeerOf(o), sess[PeerOf(o)]))'
  <2>1. p = PeerOf(q) /\ q # p /\ \A o \in Parties : o = p \/ o = q
    BY <1>2, <1>3, <1>5
  <2>2. PeerOf(p)' = PeerOf(p) /\ PeerOf(q)' = PeerOf(q)
    BY DEF PeerOf
  <2>3. QED  BY <1>5, <2>1, <2>2
<1>6. ASSUME Calm, Live(Responder), NEW p \in Parties, NEW q \in Parties, q = PeerOf(p)
      PROVE  Agrees(p, q) /\ Live(p) /\ Live(q)
  <2>1. p = PeerOf(q) /\ \A o \in Parties : o = p \/ o = q
    BY <1>2, <1>3, <1>6
  <2>2. Live(p) /\ Live(q)
    BY <1>2, <1>6 DEF OpeningInv
  <2>3. QED  BY <1>6, <2>1, <2>2 DEF CalmInv
<1> HIDE DEF Agrees
<1>7. CASE Initiate
  <2>1. ~Live(Initiator) /\ ~Live(Responder)
    BY <1>1, <1>7, InitiateMakes DEF OpeningInv
  <2>2. sess'[Responder] = sess[Responder]
    BY <1>1, <1>2, <1>7 DEF Initiate
  <2>3. QED  BY <1>4, <2>1, <2>2 DEF Live
<1>8. CASE Accept
  <2>1. Agrees(Initiator, Responder)'
    BY <1>8, AcceptAgrees DEF Agrees
  <2>2. QED  BY <1>2, <1>5, <2>1
<1>9. ASSUME NEW p \in Parties, Encrypt(p)
      PROVE  \E q \in Parties : q = PeerOf(p) /\ Agrees(p, q)'
  <2>1. PICK q \in Parties : q = PeerOf(p)
    BY <1>3
  <2>2. UNCHANGED refused /\ Live(p)
    BY <1>1, <1>9, EncryptMakes
  <2>3. PICK s : sess' = [sess EXCEPT ![p] = s]
    BY <1>1, <1>9, EncryptMakes
  <2>4. Calm /\ Live(Responder)
    <3>1. Calm
      BY <1>4, <2>2 DEF Calm
    <3>2. Live(Responder)
      BY <1>1, <1>2, <1>4, <2>2, <2>3 DEF Live
    <3>3. QED  BY <3>1, <3>2
  <2>5. Agrees(p, q) /\ Live(q)
    BY <1>6, <2>1, <2>4
  <2>6. Agrees(p, q)'
    BY <1>9, <2>1, <2>5, EncryptAgrees DEF Agrees
  <2>7. QED  BY <2>1, <2>6
<1>10. ASSUME NEW p \in Parties, NEW w \in net[p], Arrive(p, w)
       PROVE  \E q \in Parties : q = PeerOf(p) /\ Agrees(p, q)'
  <2>1. PICK q \in Parties : q = PeerOf(p)
    BY <1>3
  <2>2. /\ refused' = refused \/ refused' = [refused EXCEPT ![p] = @ \cup {w}]
        /\ sess[p] # NoSession /\ refused \in [Parties -> SUBSET Messages]
    BY <1>1, <1>10 DEF Arrive, StateOK
  <2>3. \A o \in Parties : refused[o] \subseteq refused'[o]
    BY <2>2
  <2>4. Calm /\ refused'[p] = {}
    BY <1>4, <2>3 DEF Calm
  <2>5. Live(p) /\ FromPeer(p, w)
    BY <1>1, <1>10, ArriveMakes
  <2>6. Live(q)
    <3>1. w.id \in DOMAIN sent[q]
      BY <2>1, <2>5 DEF FromPeer
    <3>2. sent[q] # <<>>
      BY <3>1
    <3>3. QED  BY <1>1, <3>2 DEF BookOK
  <2>7. Live(Responder)
    BY <1>2, <1>3, <2>1, <2>5, <2>6
  <2>8. Agrees(p, q)
    BY <1>6, <2>1, <2>4, <2>7
  <2>9. PICK r, s, fresh :
          r = sess[p] /\ s = sess[q] /\ fresh = Key(p, "ratchet", gen[p] + 1)
    OBVIOUS
  <2>10. /\ r \in Sessions /\ s \in Sessions /\ Writes(p, r) /\ Writes(q, s) /\ q # p
    BY <1>1, <1>3, <2>1, <2>5, <2>6, <2>9, HasSession DEF OpeningInv
  <2>11. /\ Leads(p, r, s) \/ Leads(q, s, r)
         /\ Reads(p, r, q, s) /\ Reads(q, s, p, r)
    BY <2>8, <2>9 DEF Agrees
  <2>12. sess[p].ckr.step = sess[p].nr
    BY <2>9, <2>11 DEF Reads
  <2>13. /\ w \in Messages /\ w.key.step = w.n /\ w.id \in DOMAIN sent[q] /\ sent[q][w.id] = w
         /\ UNCHANGED sent /\ got' = [got EXCEPT ![p] = Append(@, w.id)]
    BY <1>10, <2>1, <2>4, <2>12, ArriveOpens
  <2>14. PICK t \in Sessions :
           /\ sess' = [sess EXCEPT ![p] = t]
           /\ \/ OpensAside(sess[p], w, t)
              \/ OpensNext(sess[p], w, t)
              \/ OpensTurn(sess[p], w, Key(p, "ratchet", gen[p] + 1), t)
    BY <1>10, <2>4, <2>12, ArriveOpens
  <2>15. OpensAside(r, w, t) \/ OpensNext(r, w, t) \/ OpensTurn(r, w, fresh, t)
    BY <2>9, <2>14
  <2>16. sess'[p] = t /\ sess'[q] = s
    BY <1>1, <2>9, <2>10, <2>14
  <2>17. w.id \in Nat /\ got'[q] = got[q]
    BY <1>1, <2>10, <2>13, OpenedStays DEF Messages
  <2>18. /\ Leads(p, t, s)' \/ Leads(q, s, t)'
         /\ Reads(p, t, q, s)' /\ Reads(q, s, p, t)'
    <3>1. CASE OpensAside(r, w, t)
      <4>1. t.cks.root = r.cks.root /\ t.dhs = r.dhs
        BY <3>1 DEF OpensAside, SendsAs
      <4>2. Reads(q, s, p, t)'
        BY <2>11, <2>13, <2>17, <4>1, PeerReads
      <4>3. /\ Leads(p, r, s) => Leads(p, t, s)'
            /\ Leads(q, s, r) => Leads(q, s, t)'
            /\ Reads(p, t, q, s)'
        BY <1>1, <2>10, <2>11, <2>13, <3>1, AsideAgrees
      <4>4. QED  BY <2>11, <4>2, <4>3
    <3>2. CASE OpensNext(r, w, t)
      <4>1. t.cks.root = r.cks.root /\ t.dhs = r.dhs
        BY <3>2 DEF OpensNext, SendsAs
      <4>2. Reads(q, s, p, t)'
        BY <2>11, <2>13, <2>17, <4>1, PeerReads
      <4>3. /\ Leads(p, r, s) => Leads(p, t, s)'
            /\ Leads(q, s, r) => Leads(q, s, t)'
            /\ Reads(p, t, q, s)'
        BY <1>1, <2>6, <2>9, <2>10, <2>11, <2>13, <3>2, NextAgrees
      <4>4. QED  BY <2>11, <4>2, <4>3
    <3>3. CASE OpensTurn(r, w, fresh, t)
      <4>1. fresh \in Keys
        BY <1>1, <2>9 DEF StateOK, Key, Keys, Uses
      <4>2. r.dhs # fresh
        <5>1. Made(sess[p].dhs)
          BY <1>1, <2>5 DEF KeysMade
        <5>2. ~Made(fresh)
          BY <1>1, <2>9 DEF Made, Key, StateOK
        <5>3. QED  BY <2>9, <5>1, <5>2
      <4>3. Leads(p, t, s)' /\ Reads(p, t, q, s)' /\ Reads(q, s, p, t)'
        BY <1>1, <2>5, <2>6, <2>9, <2>10, <2>11, <2>13, <3>3, <4>1, <4>2, TurnAgrees
      <4>4. QED  BY <4>3
    <3>4. QED  BY <2>15, <3>1, <3>2, <3>3
  <2>19. Agrees(p, q)'
    BY <2>16, <2>18, LeadsIs, ReadsIs DEF Agrees
  <2>20. QED  BY <2>1, <2>19
<1>11. CASE UNCHANGED vars
  <2>1. UNCHANGED <<sess, sent, got, refused>>
    BY <1>11 DEF vars
  <2>2. Calm /\ Live(Responder)
    BY <1>4, <2>1 DEF Calm, Live
  <2>3. Agrees(Initiator, Responder)
    BY <1>2, <1>6, <2>2
  <2>4. Agrees(Initiator, Responder)'
    BY <2>1, <2>3 DEF Agrees, Leads, Reads, Full, Backs, Accounted
  <2>5. QED  BY <1>2, <1>5, <2>4
<1>12. QED  BY <1>5, <1>7, <1>8, <1>9, <1>10, <1>11 DEF Next

\* The session agrees with itself: the invariant of the sending sides, of how
\* sessions begin and of what the two sides know of each other.
THEOREM AgreementInvariance == Spec => []AgreeInv
<1>1. Init => AgreeInv
  <2> SUFFICES ASSUME Init PROVE AgreeInv
    OBVIOUS
  <2>1. \A p \in Parties : ~Live(p)
    BY DEF Init, Live
  <2>2. hs = NoHandshake /\ Initiator \in Parties /\ Responder \in Parties
    BY DEF Init, Parties
  <2>3. OpeningInv /\ CalmInv
    BY <2>1, <2>2 DEF OpeningInv, CalmInv
  <2>4. QED  BY <2>3, RatchetBegins DEF AgreeInv
<1>2. AgreeInv /\ [Next]_vars => AgreeInv'
  BY StateKept, BookKept, KeysKept, SealKept, OpenKept, OpeningKept, CalmKept
  DEF AgreeInv, RatchetInv
<1>3. QED  BY <1>1, <1>2, PTL DEF Spec

\* As long as nothing was refused, the receiving chain a party keeps for its
\* peer's current key is the peer's sending chain, and the keys it set aside are
\* the ones the peer used: for any number of messages and DH ratchet steps.
THEOREM ChainsStayTogether == Spec => []ChainsAgree
<1>1. AgreeInv => ChainsAgree
  <2> SUFFICES ASSUME AgreeInv, NEW p \in Parties, Live(p), Live(PeerOf(p)),
                      refused[p] = {}, refused[PeerOf(p)] = {},
                      sess[p].dhr = sess[PeerOf(p)].dhs, sess[p].ckr # NilChain
               PROVE  /\ sess[p].ckr.root = sess[PeerOf(p)].cks.root
                      /\ sess[p].ckr.step = sess[p].nr /\ sess[p].nr <= sess[PeerOf(p)].ns
                      /\ \A k \in DOMAIN sess[p].skipped :
                           \E w \in Sealed : <<w.dh, w.n>> = k /\ w.key = sess[p].skipped[k]
    BY DEF ChainsAgree
  <2>1. StateOK
    BY DEF AgreeInv, RatchetInv
  <2>2. PICK q \in Parties : q = PeerOf(p)
    BY <2>1, HasSession
  <2>3. p = PeerOf(q) /\ \A o \in Parties : o = p \/ o = q
    BY <2>1, <2>2, HasSession DEF Parties
  <2>4. Calm /\ Live(Responder)
    BY <2>2, <2>3 DEF Calm, Parties
  <2>5. /\ Leads(p, sess[p], sess[q]) \/ Leads(q, sess[q], sess[p])
        /\ Reads(p, sess[p], q, sess[q])
    BY <2>2, <2>3, <2>4 DEF AgreeInv, CalmInv
  <2>6. Leads(p, sess[p], sess[q])
    BY <2>2, <2>5 DEF Leads
  <2>7. ASSUME NEW k \in DOMAIN sess[p].skipped
        PROVE  \E w \in Sealed : <<w.dh, w.n>> = k /\ w.key = sess[p].skipped[k]
    <3>1. PICK i \in DOMAIN sent[q] :
            /\ sent[q][i].dh = k[1] /\ sent[q][i].n = k[2]
            /\ sent[q][i].key = sess[p].skipped[k]
      BY <2>5 DEF Reads, Backs
    <3>2. k \in Headers
      <4>1. sess[p] \in Sessions
        BY <2>1, HasSession
      <4>2. sess[p].skipped \in SkippedKeys
        BY <4>1 DEF Sessions
      <4>3. QED  BY <4>2, SkippedType
    <3>3. k = <<k[1], k[2]>>
      BY <3>2 DEF Headers
    <3>4. sent[q][i] \in Sealed
      BY SealedMessages
    <3>5. QED  BY <3>1, <3>3, <3>4
  <2>8. QED  BY <2>2, <2>5, <2>6, <2>7 DEF Leads, Reads
<1>2. QED  BY <1>1, AgreementInvariance, PTL

\* Messages open in whatever order the network lets them arrive: the first one
\* refused was opened before, is too far ahead, or was written before the
\* responder had a chain and comes out of its turn.
THEOREM OrderIsFree == Spec => OpensInAnyOrder
<1> DEFINE Excused(p, w) == \/ w.id \in Range(got[p])
                            \/ TooFar(sess[p], w)
                            \/ EarlyOutOfTurn(sess[p], w)
           Step == (\A p \in Parties : refused[p] = {}) =>
                     \A p \in Parties : \A w \in refused'[p] : Excused(p, w)
<1>1. AgreeInv /\ [Next]_vars => [Step]_vars
  <2> SUFFICES ASSUME AgreeInv, Next, \A p \in Parties : refused[p] = {},
                      NEW p \in Parties, NEW w \in refused'[p]
               PROVE  Excused(p, w)
    OBVIOUS
  <2> HIDE DEF Step
  <2>1. StateOK /\ BookOK /\ KeysMade /\ SealInv /\ OpenInv
    BY DEF AgreeInv, RatchetInv
  <2>2. w \in net[p] /\ Arrive(p, w)
    <3>1. refused' # refused
      OBVIOUS
    <3>2. PICK o \in Parties : \E v \in net[o] : Arrive(o, v)
      BY <3>1 DEF Next, Initiate, Accept, Encrypt
    <3>a. PICK v \in net[o] : Arrive(o, v)
      BY <3>2
    <3>3. refused' = [refused EXCEPT ![o] = @ \cup {v}]
      BY <3>1, <3>a DEF Arrive
    <3>4. o = p /\ v = w
      BY <2>1, <3>3 DEF StateOK
    <3>5. QED  BY <3>a, <3>4
  <2>3. PICK q \in Parties : q = PeerOf(p) /\ q # p
    BY <2>1, HasSession
  <2>4. Live(p) /\ w \in Messages /\ FromPeer(p, w)
    BY <2>1, <2>2, ArriveMakes
  <2>5. w.id \in DOMAIN sent[q] /\ sent[q][w.id] = w
    BY <2>3, <2>4 DEF FromPeer
  <2>6. Live(q)
    <3>1. sent[q] # <<>>
      BY <2>5
    <3>2. QED  BY <2>1, <3>1 DEF BookOK
  <2>7. p = PeerOf(q) /\ (Responder = p \/ Responder = q)
    BY <2>1, <2>3, HasSession DEF Parties
  <2>8. PICK r, s, fresh, d :
          /\ r = sess[p] /\ s = sess[q] /\ fresh = Key(p, "ratchet", gen[p] + 1)
          /\ d = Decrypt(r, w, fresh)
    OBVIOUS
  <2>9. /\ Leads(p, r, s) \/ Leads(q, s, r)
        /\ Reads(p, r, q, s)
    <3>1. Calm /\ Live(Responder)
      BY <2>4, <2>6, <2>7 DEF Calm
    <3>2. \A o \in Parties : o = p \/ o = q
      BY <2>3 DEF Parties
    <3>3. QED  BY <2>3, <2>7, <2>8, <3>1, <3>2 DEF AgreeInv, CalmInv
  <2>10. r \in Sessions /\ s \in Sessions /\ Writes(q, s) /\ r.ckr.step = r.nr
    BY <2>1, <2>4, <2>6, <2>8, <2>9, HasSession DEF AgreeInv, OpeningInv, Reads
  <2>11. fresh \in Keys
    BY <2>1, <2>8 DEF StateOK, Key, Keys, Uses
  <2>12. ~d.ok
    <3>1. refused' = IF d.ok THEN refused ELSE [refused EXCEPT ![p] = @ \cup {w}]
      BY <2>2, <2>8 DEF Arrive
    <3>2. QED  BY <3>1
  <2>13. w.key.step = w.n /\ w.n \in Nat /\ w.dh \in Keys /\ r.nr \in Nat
    BY <2>4, <2>5, <2>10 DEF Writes, Messages, Sessions
  <2>14. SUFFICES ASSUME ~TooFar(r, w), ~EarlyOutOfTurn(r, w) PROVE w.id \in Range(got[p])
    BY <2>8
  <2>15. Accounted(p, r, s, w)
    BY <2>5, <2>9 DEF Reads
  <2>16. CASE \E j \in DOMAIN got[p] : got[p][j] = w.id
    BY <2>16 DEF Range
  <2>17. CASE <<w.dh, w.n>> \in DOMAIN r.skipped
    <3>1. PICK h : h = <<w.dh, w.n>>
      OBVIOUS
    <3>2. h \in DOMAIN r.skipped /\ h[1] = w.dh /\ h[2] = w.n
      BY <2>17, <3>1
    <3>3. PICK i \in DOMAIN sent[q] :
            sent[q][i].dh = h[1] /\ sent[q][i].n = h[2] /\ sent[q][i].key = r.skipped[h]
      BY <2>9, <3>2 DEF Reads, Backs
    <3>4. sent[q][i] = sent[q][w.id]
      BY <2>1, <2>5, <2>10, <3>2, <3>3, HeaderUnique
    <3>5. r.skipped[<<w.dh, w.n>>] = w.key
      BY <2>5, <3>1, <3>3, <3>4
    <3>6. d.ok
      BY <2>4, <2>8, <2>10, <2>11, <2>13, <2>14, <2>17, <3>5, DecryptTakes
    <3>7. QED  BY <2>12, <3>6
  <2>18. CASE <<w.dh, w.n>> \notin DOMAIN r.skipped
              /\ w.key.root = r.ckr.root /\ w.dh = r.dhr /\ w.n >= r.nr
    <3>1. r.ckr = NilChain => w.n = r.nr
      BY <2>14, <2>18 DEF EarlyOutOfTurn, NilChain, Chain
    <3>2. d.ok
      BY <2>4, <2>8, <2>10, <2>11, <2>13, <2>14, <2>18, <3>1, DecryptTakes
    <3>3. QED  BY <2>12, <3>2
  <2>19. CASE <<w.dh, w.n>> \notin DOMAIN r.skipped
              /\ w.key.root = s.cks.root /\ w.dh = s.dhs /\ r.dhr # s.dhs
    <3>1. Leads(q, s, r)
      BY <2>9, <2>19 DEF Leads
    <3>2. s.cks.root = KdfRoot(r.rk, DH(s.dhs, r.dhs))
      BY <3>1 DEF Leads
    <3>3. \A a, b : DH(a, b) = DH(b, a)
      BY DEF DH
    <3>4. DH(s.dhs, r.dhs) = DH(r.dhs, s.dhs)
      BY <3>3
    <3>5. w.dh # r.dhr /\ w.key.root = KdfRoot(r.rk, DH(r.dhs, w.dh))
      BY <2>19, <3>2, <3>4
    <3>6. d.ok
      BY <2>4, <2>8, <2>10, <2>11, <2>13, <2>14, <2>19, <3>5, DecryptTakes
    <3>7. QED  BY <2>12, <3>6
  <2>20. CASE w.key.root = <<>> /\ w.dh # r.dhr
    BY <2>14, <2>20 DEF EarlyOutOfTurn
  <2>21. QED  BY <2>15, <2>16, <2>17, <2>18, <2>19, <2>20 DEF Accounted
<1>2. [][Step]_vars <=> OpensInAnyOrder
  BY PTL DEF OpensInAnyOrder
<1>3. QED  BY <1>1, <1>2, AgreementInvariance, PTL DEF Spec

=============================================================================
