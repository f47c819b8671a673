------------------------------ MODULE Ratchet ------------------------------
(***************************************************************************)
(* The session of core/pkg/crypto: the X3DH agreement of x3dh.go, the      *)
(* SessionStore calls of session.go that set a session up, and the Double  *)
(* Ratchet of ratchet.go that encrypts and decrypts over it.               *)
(*                                                                         *)
(* Keys are symbolic.  A key pair is the triple of its owner, its use and  *)
(* a number; the Diffie-Hellman output of two pairs is the set of both;    *)
(* kdfRoot appends an output to a root key, so a root key is the history   *)
(* it was derived from; a chain key is its root and the number of steps    *)
(* taken; the message key of a step is the chain key it was taken from.    *)
(* aeadOpen succeeds exactly with the key and the associated data of       *)
(* aeadSeal.  The network may reorder messages and, within a bound,        *)
(* deliver one again.                                                      *)
(***************************************************************************)
EXTENDS Naturals, Sequences, Functions

CONSTANTS
  Initiator,    \* the party that dialled
  Responder,    \* the party that listened
  MaxSkip,      \* maxSkip (1000 in the code)
  MaxSend,      \* messages the initiator sends (bound)
  MaxReply,     \* messages the responder sends (bound)
  MaxDups,      \* messages the network delivers again (bound)
  OneTime       \* the responder's bundle carries a one-time prekey

ASSUME RatchetAssumption ==
  /\ Initiator # Responder
  /\ MaxSkip \in Nat \ {0} /\ MaxSend \in Nat /\ MaxReply \in Nat /\ MaxDups \in Nat
  /\ OneTime \in BOOLEAN

Parties == {Initiator, Responder}
PeerOf(p) == IF p = Initiator THEN Responder ELSE Initiator

VARIABLES
  gen,      \* gen[p]: ratchet key pairs p has generated
  sess,     \* sess[p]: p's session, or NoSession
  hs,       \* the handshake on its way to the responder, or NoHandshake
  net,      \* net[p]: messages on their way to p
  sent,     \* sent[p]: messages p has sealed, oldest first
  got,      \* got[p]: plaintexts p has opened, oldest first
  refused,  \* refused[p]: messages p failed to open
  dups      \* messages delivered again so far

vars == <<gen, sess, hs, net, sent, got, refused, dups>>

-----------------------------------------------------------------------------
(* Key agreement *)

Key(p, use, i) == <<p, use, i>>
NoKey == <<"none", "none", 0>>
DH(a, b) == {a, b}

\* X3DH's concatenation of outputs: the root of everything else.
X3dhInitiate(p, q) ==
  <<DH(Key(p, "identity", 0), Key(q, "signed", 0)),
    DH(Key(p, "ephemeral", 0), Key(q, "identity", 0)),
    DH(Key(p, "ephemeral", 0), Key(q, "signed", 0))>>
  \o IF OneTime THEN <<DH(Key(p, "ephemeral", 0), Key(q, "onetime", 0))>> ELSE <<>>

X3dhRespond(q, h) ==
  <<DH(Key(q, "signed", 0), h.identity),
    DH(Key(q, "identity", 0), h.ephemeral),
    DH(Key(q, "signed", 0), h.ephemeral)>>
  \o IF h.usedOTP THEN <<DH(Key(q, "onetime", 0), h.ephemeral)>> ELSE <<>>

\* kdfRoot: the new root key, and the chain key that comes with it.
KdfRoot(rk, out) == Append(rk, out)
Chain(rk) == [root |-> rk, step |-> 0]
NilChain == Chain(<<>>)

\* chainStep: the message key of a step, and the chain after it.
MessageKey(ck) == ck
Stepped(ck, n) == [ck EXCEPT !.step = @ + n]

-----------------------------------------------------------------------------
(* The ratchet *)

NoSession == [dhs |-> NoKey]
NoHandshake == [ephemeral |-> NoKey]

NewRatchetInitiator(sk, remote, dhs) ==
  LET rk == KdfRoot(sk, DH(dhs, remote)) IN
  [dhs |-> dhs, dhr |-> remote, rk |-> rk, cks |-> Chain(rk), ckr |-> NilChain,
   ns |-> 0, nr |-> 0, pn |-> 0, skipped |-> <<>>]

NewRatchetResponder(sk, signedPre) ==
  [dhs |-> signedPre, dhr |-> NoKey, rk |-> sk, cks |-> NilChain, ckr |-> NilChain,
   ns |-> 0, nr |-> 0, pn |-> 0, skipped |-> <<>>]

\* Variants: the previous chain's length is not recorded; the send counter
\* survives the step.
DhRatchetNoPN(r, remote, fresh) ==
  LET rk1 == KdfRoot(r.rk, DH(r.dhs, remote))
      rk2 == KdfRoot(rk1, DH(fresh, remote)) IN
  [r EXCEPT !.ns = 0, !.nr = 0, !.dhr = remote, !.dhs = fresh,
            !.rk = rk2, !.ckr = Chain(rk1), !.cks = Chain(rk2)]
DhRatchetKeepsNS(r, remote, fresh) ==
  LET rk1 == KdfRoot(r.rk, DH(r.dhs, remote))
      rk2 == KdfRoot(rk1, DH(fresh, remote)) IN
  [r EXCEPT !.pn = r.ns, !.nr = 0, !.dhr = remote, !.dhs = fresh,
            !.rk = rk2, !.ckr = Chain(rk1), !.cks = Chain(rk2)]

\* dhRatchet: a receiving chain for the peer's new key, then a new key pair of
\* our own and its sending chain.
DhRatchet(r, remote, fresh) ==
  LET rk1 == KdfRoot(r.rk, DH(r.dhs, remote))
      rk2 == KdfRoot(rk1, DH(fresh, remote)) IN
  [r EXCEPT !.pn = r.ns, !.ns = 0, !.nr = 0, !.dhr = remote, !.dhs = fresh,
            !.rk = rk2, !.ckr = Chain(rk1), !.cks = Chain(rk2)]

SkipRefused(r, until) == r.ckr # NilChain /\ until > r.nr + MaxSkip

\* Variant: the key of a step is taken from the chain after it.
SkipTakesNext(r, until) ==
  LET new == {<<r.dhr, i>> : i \in r.nr .. until - 1} IN
  IF r.ckr = NilChain \/ r.nr >= until THEN r
  ELSE [r EXCEPT
          !.skipped = [k \in new \cup DOMAIN r.skipped |->
                         IF k \in new THEN MessageKey(Stepped(r.ckr, k[2] + 1 - r.nr))
                         ELSE r.skipped[k]],
          !.ckr = Stepped(@, until - r.nr),
          !.nr = until]

\* skip: the keys of the messages up to until are set aside.
Skip(r, until) ==
  LET new == {<<r.dhr, i>> : i \in r.nr .. until - 1} IN
  IF r.ckr = NilChain \/ r.nr >= until THEN r
  ELSE [r EXCEPT
          !.skipped = [k \in new \cup DOMAIN r.skipped |->
                         IF k \in new THEN MessageKey(Stepped(r.ckr, k[2] - r.nr))
                         ELSE r.skipped[k]],
          !.ckr = Stepped(@, until - r.nr),
          !.nr = until]

\* Variant: a key that was set aside stays there after its use.
TrySkippedKeeps(r, w) ==
  [r |-> r, ok |-> r.skipped[<<w.dh, w.n>>] = w.key]

\* trySkipped, when there is a key for the header.
TrySkipped(r, w) ==
  LET k == <<w.dh, w.n>> IN
  IF r.skipped[k] = w.key
    THEN [r |-> [r EXCEPT !.skipped = Restrict(@, DOMAIN @ \ {k})], ok |-> TRUE]
    ELSE [r |-> r, ok |-> FALSE]

\* decrypt: what becomes of the ratchet, and whether the message opened.
Decrypt(r, w, fresh) ==
  LET moved == r.dhr = NoKey \/ w.dh # r.dhr
      r1 == IF moved THEN DhRatchet(Skip(r, w.pn), w.dh, fresh) ELSE r
      r2 == Skip(r1, w.n) IN
  IF <<w.dh, w.n>> \in DOMAIN r.skipped THEN TrySkipped(r, w)
  ELSE IF moved /\ SkipRefused(r, w.pn) THEN [r |-> r, ok |-> FALSE]
  ELSE IF SkipRefused(r1, w.n) THEN [r |-> r1, ok |-> FALSE]
  ELSE [r |-> [r2 EXCEPT !.ckr = Stepped(@, 1), !.nr = @ + 1],
        ok |-> MessageKey(r2.ckr) = w.key]

-----------------------------------------------------------------------------
Init ==
  /\ gen = [p \in Parties |-> 0]
  /\ sess = [p \in Parties |-> NoSession]
  /\ hs = NoHandshake
  /\ net = [p \in Parties |-> {}]
  /\ sent = [p \in Parties |-> <<>>]
  /\ got = [p \in Parties |-> <<>>]
  /\ refused = [p \in Parties |-> {}]
  /\ dups = 0

\* Initiate: a session from the responder's bundle, and the handshake.
Initiate ==
  LET p == Initiator
      q == Responder
      k == Key(p, "ratchet", 1) IN
  /\ sess[p] = NoSession
  /\ sess' = [sess EXCEPT ![p] =
                NewRatchetInitiator(X3dhInitiate(p, q), Key(q, "signed", 0), k)]
  /\ gen' = [gen EXCEPT ![p] = 1]
  /\ hs' = [identity |-> Key(p, "identity", 0), ephemeral |-> Key(p, "ephemeral", 0),
            usedOTP |-> OneTime]
  /\ UNCHANGED <<net, sent, got, refused, dups>>

\* Accept: the responder's session from the handshake.
Accept ==
  LET q == Responder IN
  /\ hs # NoHandshake
  /\ sess[q] = NoSession
  /\ sess' = [sess EXCEPT ![q] =
                NewRatchetResponder(X3dhRespond(q, hs), Key(q, "signed", 0))]
  /\ UNCHANGED <<gen, hs, net, sent, got, refused, dups>>

\* Variant: the chain is not advanced.
EncryptSameKey(p) ==
  LET r == sess[p]
      w == [from |-> p, id |-> Len(sent[p]) + 1,
            dh |-> r.dhs, pn |-> r.pn, n |-> r.ns, key |-> MessageKey(r.cks)] IN
  /\ r # NoSession
  /\ Len(sent[p]) < (IF p = Initiator THEN MaxSend ELSE MaxReply)
  /\ sess' = [sess EXCEPT ![p].ns = @ + 1]
  /\ sent' = [sent EXCEPT ![p] = Append(@, w)]
  /\ net' = [net EXCEPT ![PeerOf(p)] = @ \cup {w}]
  /\ UNCHANGED <<gen, hs, got, refused, dups>>

\* encrypt: a step of the sending chain; the header names the ratchet key, the
\* length of the previous chain and the place in this one.
Encrypt(p) ==
  LET r == sess[p]
      w == [from |-> p, id |-> Len(sent[p]) + 1,
            dh |-> r.dhs, pn |-> r.pn, n |-> r.ns, key |-> MessageKey(r.cks)] IN
  /\ r # NoSession
  /\ Len(sent[p]) < (IF p = Initiator THEN MaxSend ELSE MaxReply)
  /\ sess' = [sess EXCEPT ![p].ns = @ + 1, ![p].cks = Stepped(@, 1)]
  /\ sent' = [sent EXCEPT ![p] = Append(@, w)]
  /\ net' = [net EXCEPT ![PeerOf(p)] = @ \cup {w}]
  /\ UNCHANGED <<gen, hs, got, refused, dups>>

\* Any message in flight arrives, and stays in flight if it will come again.
Arrive(p, w) ==
  LET k == Key(p, "ratchet", gen[p] + 1)
      d == Decrypt(sess[p], w, k) IN
  /\ sess[p] # NoSession
  /\ sess' = [sess EXCEPT ![p] = d.r]
  /\ gen' = [gen EXCEPT ![p] = IF d.r.dhs = k THEN @ + 1 ELSE @]
  /\ got' = IF d.ok THEN [got EXCEPT ![p] = Append(@, w.id)] ELSE got
  /\ refused' = IF d.ok THEN refused ELSE [refused EXCEPT ![p] = @ \cup {w}]
  /\ \/ net' = [net EXCEPT ![p] = @ \ {w}] /\ UNCHANGED dups
     \/ dups < MaxDups /\ dups' = dups + 1 /\ UNCHANGED net
  /\ UNCHANGED <<hs, sent>>

Next ==
  \/ Initiate \/ Accept
  \/ \E p \in Parties : Encrypt(p) \/ \E w \in net[p] : Arrive(p, w)

Spec == Init /\ [][Next]_vars

-----------------------------------------------------------------------------
(* Properties *)

Live(p) == sess[p] # NoSession

Sealed == UNION {{sent[p][i] : i \in DOMAIN sent[p]} : p \in Parties}

\* What is in flight was sealed by the other party, and the counters of the two
\* last sending chains count different messages.
TypeOK ==
  /\ gen \in [Parties -> Nat]
  /\ dups \in 0 .. MaxDups
  /\ \A p \in Parties :
       /\ net[p] \cup refused[p] \subseteq Sealed
       /\ \A w \in net[p] \cup refused[p] : w.from = PeerOf(p)
       /\ \A i \in DOMAIN got[p] : got[p][i] \in 1 .. Len(sent[PeerOf(p)])
       /\ Live(p) => sess[p].ns + sess[p].pn <= Len(sent[p])

\* No message key seals two messages (its nonce is derived from it), on either
\* side, over all DH ratchet steps.
KeysFresh == \A v, w \in Sealed : v.key = w.key => v = w

\* A message opens at most once, although keys of skipped messages are kept and
\* the network may deliver a message again.
OpensOnce ==
  \A p \in Parties : \A i, j \in DOMAIN got[p] : got[p][i] = got[p][j] => i = j

\* decrypt would derive more than maxSkip keys of one chain at once for w.
TooFar(r, w) ==
  LET moved == r.dhr = NoKey \/ w.dh # r.dhr IN
  \/ moved /\ SkipRefused(r, w.pn)
  \/ w.n > MaxSkip + IF moved THEN 0 ELSE r.nr

\* A responder that writes before it has received seals with the nil chain, for
\* which no keys are set aside: w is such a message, and out of its turn.
EarlyOutOfTurn(r, w) ==
  w.key.root = <<>> /\ (w.dh # r.dhr \/ w.n # r.nr)

\* Messages open in whatever order the network lets them arrive: the first one
\* the session refuses is one opened before, one too far ahead, or one written
\* before the responder had a chain and arriving out of its turn.
OpensInAnyOrder ==
  [][(\A p \in Parties : refused[p] = {}) =>
       \A p \in Parties : \A w \in refused'[p] :
         \/ w.id \in Range(got[p])
         \/ TooFar(sess[p], w)
         \/ EarlyOutOfTurn(sess[p], w)]_vars

\* As long as nothing was refused, the receiving chain a party keeps for its
\* peer's current key is the peer's sending chain, and the keys it set aside are
\* the ones the peer used.
ChainsAgree ==
  \A p \in Parties :
    LET r == sess[p]  s == sess[PeerOf(p)] IN
    /\ Live(p) /\ Live(PeerOf(p))
    /\ refused[p] = {} /\ refused[PeerOf(p)] = {}
    /\ r.dhr = s.dhs /\ r.ckr # NilChain
    => /\ r.ckr.root = s.cks.root
       /\ r.ckr.step = r.nr /\ r.nr <= s.ns
       /\ \A k \in DOMAIN r.skipped :
            \E w \in Sealed : <<w.dh, w.n>> = k /\ w.key = r.skipped[k]

=============================================================================
