--------------------------- MODULE HarnessProofs ---------------------------
(***************************************************************************)
(* Proofs about the offline mailbox, for any senders, any number of calls  *)
(* that fetch at the same time, and any number of messages and restarts.   *)
(* A message is in one place at most (FetchedOnce): each step of a fetch   *)
(* takes it from the place where it was, so the places after a step come   *)
(* from different places before it.  Only a call that gives its batch up   *)
(* and a restart drop messages, and the frame that made the call fail is   *)
(* no offline message or older than the recipient's prekeys.               *)
(*                                                                         *)
(* After it, file transfer and the links over the in-process pipe, for any *)
(* channel capacity, chunk size and file sizes.  Reassemble takes exactly  *)
(* the chunks that are the file.  HistoryOrder follows from the places of  *)
(* messages in the flow from an end to the other one (what was received,   *)
(* the file being collected, the wire): a step moves them up and keeps     *)
(* their order.  FileIntact follows from what has to come next on the wire *)
(* after each frame of a file.                                             *)
(***************************************************************************)
EXTENDS MCHarness, FiniteSetTheorems, SequenceTheorems, WellFoundedInduction, TLAPS

Frame == [letter : Letters \cup {NoLetter}, gen : Nat]
FetchCall == [busy : BOOLEAN, raws : Seq(Frame), out : Seq(Letters)]

MailTypes ==
  /\ gen \in Nat \ {0}
  /\ bundle \in [Senders -> 1 .. gen] /\ puts \in [Senders -> 0 .. MaxPuts]
  /\ box \in Seq(Frame) /\ given \in Seq(Letters)
  /\ fetch \in [Fetchers -> FetchCall]

\* A call that does not run holds nothing.
IdleEmpty == \A f \in Fetchers : ~fetch[f].busy => fetch[f] = Idle

\* A frame with a message is made from a bundle the recipient had.
Dated(e, g) == IF e.letter = NoLetter THEN e.gen = 0 ELSE e.gen \in 1 .. g
FramesDated ==
  /\ \A i \in DOMAIN box : Dated(box[i], gen)
  /\ \A f \in Fetchers : \A i \in DOMAIN fetch[f].raws : Dated(fetch[f].raws[i], gen)

\* What is somewhere was left by its sender.
LettersSent == \A l \in Letters : Places(l) # {} => l[2] <= puts[l[1]]

MailInv == MailTypes /\ IdleEmpty /\ FramesDated /\ LettersSent /\ FetchedOnce

\* The step loses no message.
Kept == \A l \in Letters : Places(l) # {} => Places(l)' # {}

\* What LostOnlyInBatch says of a step.
LossStep ==
  \A l \in Letters : Places(l) # {} /\ Places(l)' = {} =>
    \E f \in Fetchers :
      /\ Held(f, l)
      /\ \/ gen' # gen
         \/ \E i \in DOMAIN fetch[f].raws :
              fetch[f].raws[i].letter = NoLetter \/ fetch[f].raws[i].gen < gen

-----------------------------------------------------------------------------
(* Places.                                                                 *)

InBox(x, l) == \E i \in DOMAIN box : x = <<"box", i>> /\ box[i].letter = l
InGiven(x, l) == \E i \in DOMAIN given : x = <<"given", i>> /\ given[i] = l
InRaws(x, l) ==
  \E f \in Fetchers : \E i \in DOMAIN fetch[f].raws : x = <<"raws", f, i>> /\ fetch[f].raws[i].letter = l
InOut(x, l) ==
  \E f \in Fetchers : \E i \in DOMAIN fetch[f].out : x = <<"out", f, i>> /\ fetch[f].out[i] = l

\* The four kinds of places, before a step and after it.
LEMMA PlacesAre ==
  /\ \A x, l : x \in Places(l) <=> InBox(x, l) \/ InGiven(x, l) \/ InRaws(x, l) \/ InOut(x, l)
  /\ \A x, l : x \in Places(l)' <=> InBox(x, l)' \/ InGiven(x, l)' \/ InRaws(x, l)' \/ InOut(x, l)'
<1>1. \A x, l : x \in Places(l) <=> InBox(x, l) \/ InGiven(x, l) \/ InRaws(x, l) \/ InOut(x, l)
  BY DEF Places, InBox, InGiven, InRaws, InOut
<1>2. \A x, l : x \in Places(l)' <=> InBox(x, l)' \/ InGiven(x, l)' \/ InRaws(x, l)' \/ InOut(x, l)'
  BY DEF Places, InBox, InGiven, InRaws, InOut
<1>3. QED  BY <1>1, <1>2

\* Steps that leave no new message: every place after the step comes from a place
\* of its own (the function h).
LEMMA MovesKeep ==
  ASSUME LettersSent, FetchedOnce, puts' = puts,
         \A l \in Letters : \E h : /\ \A x \in Places(l)' : h[x] \in Places(l)
                                   /\ \A x, y \in Places(l)' : h[x] = h[y] => x = y
  PROVE  LettersSent' /\ FetchedOnce'
<1>1. ASSUME NEW l \in Letters
      PROVE  (\A x, y \in Places(l)' : x = y) /\ (Places(l)' # {} => Places(l) # {})
  <2>1. PICK h : /\ \A x \in Places(l)' : h[x] \in Places(l)
                 /\ \A x, y \in Places(l)' : h[x] = h[y] => x = y
    OBVIOUS
  <2>2. \A x, y \in Places(l) : x = y
    BY DEF FetchedOnce
  <2>3. PICK P, Q : P = Places(l) /\ Q = Places(l)'
    OBVIOUS
  <2>4. /\ \A x \in Q : h[x] \in P
        /\ \A x, y \in Q : h[x] = h[y] => x = y
        /\ \A x, y \in P : x = y
    BY <2>1, <2>2, <2>3
  <2>5. (\A x, y \in Q : x = y) /\ (Q # {} => P # {})
    BY <2>4
  <2>6. QED  BY <2>3, <2>5
<1>2. FetchedOnce'
  BY <1>1 DEF FetchedOnce
<1>3. LettersSent'
  BY <1>1 DEF LettersSent
<1>4. QED  BY <1>2, <1>3

\* Steps that only drop messages.
LEMMA DropsKeep ==
  ASSUME LettersSent, FetchedOnce, puts' = puts, \A l : Places(l)' \subseteq Places(l)
  PROVE  LettersSent' /\ FetchedOnce'
BY DEF LettersSent, FetchedOnce

\* No message is NoLetter.
LEMMA NoLetterIs == \A l \in Letters : l # NoLetter
<1>1. ASSUME NEW l \in Letters PROVE l # NoLetter
  <2>1. PICK s, k : l = <<s, k>>
    BY DEF Letters
  <2>2. Len(<<s, k>>) = 2 /\ Len(<<>>) = 0
    OBVIOUS
  <2>3. QED  BY <2>1, <2>2 DEF NoLetter
<1>2. QED  BY <1>1

\* Facts about the calls that fetch.
LEMMA FetchFacts ==
  ASSUME MailTypes, NEW f \in Fetchers
  PROVE  /\ fetch[f] \in FetchCall /\ fetch[f].busy \in BOOLEAN
         /\ fetch[f].raws \in Seq(Frame) /\ fetch[f].out \in Seq(Letters)
<1>1. fetch[f] \in FetchCall
  BY DEF MailTypes
<1>2. QED  BY <1>1 DEF FetchCall

\* An idle call.
LEMMA IdleIs ==
  /\ Idle \in FetchCall /\ ~Idle.busy /\ Idle.raws = <<>> /\ Idle.out = <<>>
  /\ DOMAIN Idle.raws = {} /\ DOMAIN Idle.out = {}
BY DEF Idle, FetchCall

-----------------------------------------------------------------------------
(* Steps.                                                                  *)

\* Bundle.
LEMMA GetBundleKeeps ==
  ASSUME MailInv, NEW s \in Senders, GetBundle(s)
  PROVE  MailInv' /\ Kept
<1>1. bundle' = [bundle EXCEPT ![s] = gen] /\ UNCHANGED <<box, gen, puts, fetch, given>>
  BY DEF GetBundle
<1>2. MailTypes'
  BY <1>1 DEF MailInv, MailTypes
<1>3. IdleEmpty' /\ FramesDated'
  BY <1>1 DEF MailInv, IdleEmpty, FramesDated
<1>4. \A l : Places(l)' = Places(l)
  BY <1>1 DEF Places
<1>5. LettersSent' /\ FetchedOnce'
  BY <1>1, <1>4 DEF MailInv, LettersSent, FetchedOnce
<1>6. Kept
  BY <1>4 DEF Kept
<1>7. QED  BY <1>2, <1>3, <1>5, <1>6 DEF MailInv

\* SendOffline: the new message is nowhere else.
LEMMA SendOfflineKeeps ==
  ASSUME MailInv, NEW s \in Senders, SendOffline(s)
  PROVE  MailInv' /\ Kept
<1>1. PICK l, e : l = <<s, puts[s] + 1>> /\ e = [letter |-> l, gen |-> bundle[s]]
  OBVIOUS
<1>2. /\ puts[s] < MaxPuts /\ box' = Append(box, e) /\ puts' = [puts EXCEPT ![s] = puts[s] + 1]
      /\ UNCHANGED <<gen, bundle, fetch, given>>
  BY <1>1 DEF SendOffline
<1>3. MailTypes /\ IdleEmpty /\ FramesDated /\ LettersSent /\ FetchedOnce
  BY DEF MailInv
<1>4. /\ puts[s] \in Nat /\ MaxPuts \in Nat /\ gen \in Nat \ {0} /\ bundle[s] \in 1 .. gen
      /\ box \in Seq(Frame) /\ puts \in [Senders -> 0 .. MaxPuts]
  BY <1>3, OfflineAssumption DEF MailTypes
<1>5. l \in Letters /\ l[1] = s /\ l[2] = puts[s] + 1
  BY <1>1, <1>2, <1>4 DEF Letters
<1>6. e \in Frame /\ e.letter = l /\ e.gen \in 1 .. gen /\ Dated(e, gen)
  BY <1>1, <1>4, <1>5, NoLetterIs DEF Frame, Dated
<1>7. PICK n : n = Len(box) + 1
  OBVIOUS
<1>8. /\ box' \in Seq(Frame) /\ DOMAIN box' = DOMAIN box \cup {n} /\ n \notin DOMAIN box
      /\ box'[n] = e /\ \A i \in DOMAIN box : box'[i] = box[i]
  BY <1>2, <1>4, <1>6, <1>7
<1>9. puts' \in [Senders -> 0 .. MaxPuts]
  BY <1>2, <1>4
<1>10. MailTypes'
  BY <1>2, <1>3, <1>8, <1>9 DEF MailTypes
<1>11. IdleEmpty' /\ FramesDated'
  BY <1>2, <1>3, <1>6, <1>8 DEF IdleEmpty, FramesDated
<1>12. \A x, m : InGiven(x, m)' <=> InGiven(x, m)
  BY <1>2 DEF InGiven
<1>13. \A x, m : (InRaws(x, m)' <=> InRaws(x, m)) /\ (InOut(x, m)' <=> InOut(x, m))
  BY <1>2 DEF InRaws, InOut
<1>14. \A x, m : InBox(x, m)' <=> InBox(x, m) \/ (x = <<"box", n>> /\ m = l)
  BY <1>6, <1>8 DEF InBox
<1>15. \A x, m : x \in Places(m)' <=> x \in Places(m) \/ (x = <<"box", n>> /\ m = l)
  BY <1>12, <1>13, <1>14, PlacesAre
<1>16. Places(l) = {}
  BY <1>3, <1>4, <1>5 DEF LettersSent
<1>17. FetchedOnce'
  <2>1. ASSUME NEW m \in Letters, NEW x, NEW y, x \in Places(m)', y \in Places(m)' PROVE x = y
    <3>1. CASE m = l
      BY <1>15, <1>16, <2>1, <3>1
    <3>2. CASE m # l
      BY <1>3, <1>15, <2>1, <3>2 DEF FetchedOnce
    <3>3. QED  BY <3>1, <3>2
  <2>2. QED  BY <2>1 DEF FetchedOnce
<1>18. LettersSent'
  <2>1. ASSUME NEW m \in Letters, Places(m)' # {} PROVE m[2] <= puts'[m[1]]
    <3>1. CASE m = l
      BY <1>2, <1>4, <1>5, <3>1
    <3>2. CASE m # l
      <4>1. Places(m) # {}
        BY <1>15, <2>1, <3>2
      <4>2. m[2] <= puts[m[1]] /\ m[1] \in Senders /\ m[2] \in Nat
        BY <1>3, <4>1, OfflineAssumption DEF LettersSent, Letters
      <4>3. puts[m[1]] \in Nat /\ (puts'[m[1]] = puts[m[1]] \/ puts'[m[1]] = puts[m[1]] + 1)
        BY <1>2, <1>4, <4>2
      <4>4. QED  BY <4>2, <4>3
    <3>3. QED  BY <3>1, <3>2
  <2>2. QED  BY <2>1 DEF LettersSent
<1>19. Kept
  BY <1>15 DEF Kept
<1>20. QED  BY <1>10, <1>11, <1>17, <1>18, <1>19 DEF MailInv

\* Put of a frame that is no offline message.
LEMMA PutOtherKeeps ==
  ASSUME MailInv, PutOther
  PROVE  MailInv' /\ Kept
<1>1. PICK e : e = [letter |-> NoLetter, gen |-> 0]
  OBVIOUS
<1>2. box' = Append(box, e) /\ UNCHANGED <<gen, bundle, puts, fetch, given>>
  BY <1>1 DEF PutOther
<1>3. MailTypes /\ IdleEmpty /\ FramesDated /\ LettersSent /\ FetchedOnce
  BY DEF MailInv
<1>4. e \in Frame /\ e.letter = NoLetter /\ Dated(e, gen)
  BY <1>1 DEF Frame, Dated
<1>5. PICK n : n = Len(box) + 1
  OBVIOUS
<1>6. box \in Seq(Frame)
  BY <1>3 DEF MailTypes
<1>7. /\ box' \in Seq(Frame) /\ DOMAIN box' = DOMAIN box \cup {n}
      /\ box'[n] = e /\ \A i \in DOMAIN box : box'[i] = box[i]
  BY <1>2, <1>4, <1>5, <1>6
<1>8. MailTypes'
  BY <1>2, <1>3, <1>7 DEF MailTypes
<1>9. IdleEmpty' /\ FramesDated'
  BY <1>2, <1>3, <1>4, <1>7 DEF IdleEmpty, FramesDated
<1>10. \A x, l : InGiven(x, l)' <=> InGiven(x, l)
  BY <1>2 DEF InGiven
<1>11. \A x, l : (InRaws(x, l)' <=> InRaws(x, l)) /\ (InOut(x, l)' <=> InOut(x, l))
  BY <1>2 DEF InRaws, InOut
<1>12. \A x, l : l # NoLetter => (InBox(x, l)' <=> InBox(x, l))
  BY <1>4, <1>7 DEF InBox
<1>13. \A l \in Letters : Places(l)' = Places(l)
  <2>1. \A l \in Letters : \A x : x \in Places(l)' <=> x \in Places(l)
    BY <1>10, <1>11, <1>12, NoLetterIs, PlacesAre
  <2>2. QED  BY <2>1
<1>14. LettersSent' /\ FetchedOnce' /\ Kept
  BY <1>2, <1>3, <1>13 DEF LettersSent, FetchedOnce, Kept
<1>15. QED  BY <1>8, <1>9, <1>14 DEF MailInv

\* FetchOffline begins: the queue moves to the call.
LEMMA FetchBeginStep ==
  ASSUME MailInv, NEW f \in Fetchers, FetchBegin(f)
  PROVE  MailInv' /\ Kept
<1>1. PICK c : c = [busy |-> TRUE, raws |-> box, out |-> <<>>]
  OBVIOUS
<1>2. /\ ~fetch[f].busy /\ fetch' = [fetch EXCEPT ![f] = c] /\ box' = <<>>
      /\ UNCHANGED <<gen, bundle, puts, given>>
  BY <1>1 DEF FetchBegin
<1>3. MailTypes /\ IdleEmpty /\ FramesDated /\ LettersSent /\ FetchedOnce
  BY DEF MailInv
<1>4. box \in Seq(Frame) /\ fetch \in [Fetchers -> FetchCall]
  BY <1>3 DEF MailTypes
<1>5. c \in FetchCall /\ c.busy /\ c.raws = box /\ c.out = <<>> /\ DOMAIN c.out = {}
  BY <1>1, <1>4 DEF FetchCall
<1>6. fetch' \in [Fetchers -> FetchCall] /\ fetch'[f] = c /\ \A g \in Fetchers : g # f => fetch'[g] = fetch[g]
  BY <1>2, <1>4, <1>5
<1>7. box' \in Seq(Frame) /\ DOMAIN box' = {}
  BY <1>2
<1>8. MailTypes'
  BY <1>2, <1>3, <1>6, <1>7 DEF MailTypes
<1>9. IdleEmpty'
  BY <1>3, <1>5, <1>6 DEF IdleEmpty
<1>10. FramesDated'
  BY <1>2, <1>3, <1>5, <1>6, <1>7 DEF FramesDated
<1>11. DOMAIN fetch[f].raws = {} /\ DOMAIN fetch[f].out = {}
  BY <1>2, <1>3, IdleIs DEF IdleEmpty
<1>12. \A x, l : ~InBox(x, l)' /\ (InGiven(x, l)' <=> InGiven(x, l))
  BY <1>2, <1>7 DEF InBox, InGiven
<1>13. \A x, l : InOut(x, l)' <=> InOut(x, l)
  BY <1>5, <1>6, <1>11 DEF InOut
<1>14. \A x, l : InRaws(x, l)' <=>
         InRaws(x, l) \/ \E i \in DOMAIN box : x = <<"raws", f, i>> /\ box[i].letter = l
  BY <1>5, <1>6, <1>11 DEF InRaws
<1>15. ASSUME NEW l \in Letters
       PROVE  /\ \E h : /\ \A x \in Places(l)' : h[x] \in Places(l)
                        /\ \A x, y \in Places(l)' : h[x] = h[y] => x = y
              /\ Places(l) # {} => Places(l)' # {}
  <2> DEFINE Moved(x) == \E i \in DOMAIN box : x = <<"raws", f, i>> /\ box[i].letter = l
             h == [x \in Places(l)' |-> IF Moved(x) THEN <<"box", x[3]>> ELSE x]
  <2>1. \A x \in Places(l)' : Moved(x) \/ (x \in Places(l) /\ x[1] # "box")
    <3>1. \A x : InGiven(x, l) \/ InOut(x, l) \/ InRaws(x, l) => x[1] # "box"
      BY DEF InGiven, InOut, InRaws
    <3>2. QED  BY <1>12, <1>13, <1>14, <3>1, PlacesAre
  <2>2. \A x : Moved(x) => x = <<"raws", f, x[3]>> /\ <<"box", x[3]>> \in Places(l)
    BY PlacesAre DEF InBox
  <2> HIDE DEF Moved
  <2>3. \A x \in Places(l)' : h[x] \in Places(l)
    BY <2>1, <2>2
  <2>4. ASSUME NEW x \in Places(l)', NEW y \in Places(l)', h[x] = h[y] PROVE x = y
    <3>1. CASE Moved(x) /\ Moved(y)
      <4>1. PICK i, j : i = x[3] /\ j = y[3]
        OBVIOUS
      <4>2. x = <<"raws", f, i>> /\ y = <<"raws", f, j>> /\ h[x] = <<"box", i>> /\ h[y] = <<"box", j>>
        BY <2>2, <3>1, <4>1
      <4>3. i = j
        BY <2>4, <4>2
      <4>4. QED  BY <4>2, <4>3
    <3>2. CASE Moved(x) /\ ~Moved(y)
      BY <2>1, <2>4, <3>2
    <3>3. CASE ~Moved(x) /\ Moved(y)
      BY <2>1, <2>4, <3>3
    <3>4. CASE ~Moved(x) /\ ~Moved(y)
      BY <2>4, <3>4
    <3>5. QED  BY <3>1, <3>2, <3>3, <3>4
  <2>5. ASSUME NEW x \in Places(l) PROVE Places(l)' # {}
    <3>1. CASE InBox(x, l)
      <4>1. PICK i \in DOMAIN box : box[i].letter = l
        BY <3>1 DEF InBox
      <4>2. InRaws(<<"raws", f, i>>, l)'
        BY <1>14, <4>1
      <4>3. QED  BY <4>2, PlacesAre
    <3>2. CASE InGiven(x, l) \/ InRaws(x, l) \/ InOut(x, l)
      BY <1>12, <1>13, <1>14, <3>2, PlacesAre
    <3>3. QED  BY <3>1, <3>2, PlacesAre
  <2> HIDE DEF h
  <2>6. QED  BY <2>3, <2>4, <2>5
<1>16. LettersSent' /\ FetchedOnce'
  BY <1>2, <1>3, <1>15, MovesKeep
<1>17. Kept
  BY <1>15 DEF Kept
<1>18. QED  BY <1>8, <1>9, <1>10, <1>16, <1>17 DEF MailInv

\* The next frame is opened: its message moves within the call.
LEMMA FetchOpenKeeps ==
  ASSUME MailInv, NEW f \in Fetchers, FetchOpen(f)
  PROVE  MailInv' /\ Kept
<1>1. PICK r, o, m : r = fetch[f].raws /\ o = fetch[f].out /\ m = Head(r).letter
  OBVIOUS
<1>2. PICK c : c = [fetch[f] EXCEPT !.raws = Tail(r), !.out = Append(o, m)]
  OBVIOUS
<1>3. MailTypes /\ IdleEmpty /\ FramesDated /\ LettersSent /\ FetchedOnce
  BY DEF MailInv
<1>4. /\ fetch[f].busy /\ r # <<>> /\ Head(r).gen = gen /\ UNCHANGED <<box, gen, bundle, puts, given>>
      /\ fetch' = [fetch EXCEPT ![f].raws = Tail(@), ![f].out = Append(@, m)]
  BY <1>1 DEF FetchOpen
<1>5. fetch \in [Fetchers -> FetchCall] /\ fetch[f] \in FetchCall /\ r \in Seq(Frame) /\ o \in Seq(Letters)
  BY <1>1, <1>3, FetchFacts DEF MailTypes
<1>6. PICK n : n = Len(o) + 1
  OBVIOUS
<1>7. /\ Len(r) \in Nat \ {0} /\ DOMAIN r = 1 .. Len(r) /\ Head(r) = r[1] /\ r[1] \in Frame
      /\ Tail(r) \in Seq(Frame) /\ DOMAIN Tail(r) = 1 .. Len(r) - 1
      /\ \A i \in 1 .. Len(r) - 1 : Tail(r)[i] = r[i + 1]
  BY <1>4, <1>5
<1>8. m \in Letters /\ m = r[1].letter
  <2>1. Dated(r[1], gen) /\ gen # 0
    BY <1>1, <1>3, <1>7 DEF FramesDated, MailTypes
  <2>2. r[1].letter # NoLetter
    BY <1>4, <1>7, <2>1 DEF Dated
  <2>3. QED  BY <1>1, <1>7, <2>2 DEF Frame
<1>9. /\ Append(o, m) \in Seq(Letters) /\ DOMAIN Append(o, m) = DOMAIN o \cup {n} /\ n \notin DOMAIN o
      /\ Append(o, m)[n] = m /\ \A i \in DOMAIN o : Append(o, m)[i] = o[i]
  BY <1>5, <1>6, <1>8
<1>10. PICK t, w : t = Tail(r) /\ w = Append(o, m)
  OBVIOUS
<1>11. c \in FetchCall /\ c.busy /\ c.raws = t /\ c.out = w
  BY <1>2, <1>4, <1>5, <1>7, <1>9, <1>10 DEF FetchCall
<1>12. fetch' = [fetch EXCEPT ![f] = c]
  BY <1>1, <1>2, <1>4, <1>5 DEF FetchCall
<1>13. fetch' \in [Fetchers -> FetchCall] /\ fetch'[f] = c /\ \A g \in Fetchers : g # f => fetch'[g] = fetch[g]
  BY <1>5, <1>11, <1>12
<1>14. MailTypes'
  BY <1>3, <1>4, <1>13 DEF MailTypes
<1>15. IdleEmpty'
  BY <1>3, <1>11, <1>13 DEF IdleEmpty
<1>16. /\ DOMAIN t = 1 .. Len(r) - 1 /\ \A i \in DOMAIN t : t[i] = r[i + 1] /\ i + 1 \in DOMAIN r /\ i \in Nat
  BY <1>7, <1>10
<1>17. /\ DOMAIN w = DOMAIN o \cup {n} /\ n \notin DOMAIN o /\ w[n] = m /\ \A i \in DOMAIN o : w[i] = o[i]
  BY <1>9, <1>10
<1>18. FramesDated'
  <2>1. \A i \in DOMAIN box' : Dated(box'[i], gen')
    BY <1>3, <1>4 DEF FramesDated
  <2>2. \A i \in DOMAIN t : Dated(t[i], gen)
    BY <1>1, <1>3, <1>16 DEF FramesDated
  <2>3. QED  BY <1>3, <1>4, <1>11, <1>13, <2>1, <2>2 DEF FramesDated
<1>19. \A x, l : (InBox(x, l)' <=> InBox(x, l)) /\ (InGiven(x, l)' <=> InGiven(x, l))
  BY <1>4 DEF InBox, InGiven
<1>20. \A x, l : InOut(x, l)' <=> InOut(x, l) \/ (x = <<"out", f, n>> /\ l = m)
  BY <1>1, <1>11, <1>13, <1>17 DEF InOut
<1>21. \A x, l : InRaws(x, l)' <=>
         \/ \E i \in DOMAIN t : x = <<"raws", f, i>> /\ r[i + 1].letter = l
         \/ \E g \in Fetchers \ {f} : \E i \in DOMAIN fetch[g].raws :
              x = <<"raws", g, i>> /\ fetch[g].raws[i].letter = l
  BY <1>11, <1>13, <1>16 DEF InRaws
<1>22. ASSUME NEW l \in Letters
       PROVE  /\ \E h : /\ \A x \in Places(l)' : h[x] \in Places(l)
                        /\ \A x, y \in Places(l)' : h[x] = h[y] => x = y
              /\ Places(l) # {} => Places(l)' # {}
  <2> DEFINE Shifted(x) == \E i \in DOMAIN t : x = <<"raws", f, i>> /\ r[i + 1].letter = l
             Opened(x) == x = <<"out", f, n>> /\ l = m
             Stays(x) == /\ x \in Places(l)
                         /\ \A i : x # <<"raws", f, i>>
                         /\ x # <<"out", f, n>>
             h == [x \in Places(l)' |-> IF Shifted(x) THEN <<"raws", f, x[3] + 1>>
                                        ELSE IF Opened(x) THEN <<"raws", f, 1>> ELSE x]
  <2>1. \A x \in Places(l)' : Shifted(x) \/ Opened(x) \/ Stays(x)
    <3>1. \A x : InBox(x, l) \/ InGiven(x, l) => Stays(x)
      BY PlacesAre DEF InBox, InGiven
    <3>2. \A x : InOut(x, l) => Stays(x)
      <4>1. \A x : InOut(x, l) => x # <<"out", f, n>> /\ \A i : x # <<"raws", f, i>>
        BY <1>1, <1>17 DEF InOut
      <4>2. QED  BY <4>1, PlacesAre
    <3>3. \A x : (\E g \in Fetchers \ {f} : \E i \in DOMAIN fetch[g].raws :
                    x = <<"raws", g, i>> /\ fetch[g].raws[i].letter = l) => Stays(x)
      <4>1. \A g \in Fetchers \ {f} : \A i \in DOMAIN fetch[g].raws :
              fetch[g].raws[i].letter = l => <<"raws", g, i>> \in Places(l)
        BY PlacesAre DEF InRaws
      <4>2. QED  BY <4>1
    <3> HIDE DEF Stays
    <3>4. QED  BY <1>19, <1>20, <1>21, <3>1, <3>2, <3>3, PlacesAre
  <2>2. \A x : Shifted(x) => /\ x = <<"raws", f, x[3]>> /\ x[3] \in Nat \ {0}
                             /\ <<"raws", f, x[3] + 1>> \in Places(l)
    <3>1. \A i \in DOMAIN t : r[i + 1].letter = l => <<"raws", f, i + 1>> \in Places(l)
      BY <1>1, <1>16, PlacesAre DEF InRaws
    <3>2. \A i \in DOMAIN t : i \in Nat \ {0}
      BY <1>16
    <3>3. QED  BY <3>1, <3>2
  <2>3. \A x : Opened(x) => x = <<"out", f, n>> /\ <<"raws", f, 1>> \in Places(l)
    BY <1>1, <1>7, <1>8, PlacesAre DEF InRaws
  <2>4. \A x : Opened(x) => ~Shifted(x)
    OBVIOUS
  <2>5. \A x : Stays(x) => ~Shifted(x) /\ ~Opened(x) /\ x \in Places(l) /\ \A i : x # <<"raws", f, i>>
    OBVIOUS
  <2> HIDE DEF Shifted, Opened, Stays
  <2>6. \A x \in Places(l)' : h[x] \in Places(l)
    BY <2>1, <2>2, <2>3, <2>4, <2>5
  <2>7. ASSUME NEW x \in Places(l)', NEW y \in Places(l)', h[x] = h[y] PROVE x = y
    <3>1. \A z \in Places(l)' : \/ Shifted(z) /\ h[z] = <<"raws", f, z[3] + 1>>
                                \/ Opened(z) /\ h[z] = <<"raws", f, 1>>
                                \/ Stays(z) /\ h[z] = z
      BY <2>1, <2>4, <2>5
    <3> HIDE DEF h
    <3>2. CASE Shifted(x) /\ Shifted(y) /\ h[x] = <<"raws", f, x[3] + 1>> /\ h[y] = <<"raws", f, y[3] + 1>>
      <4>1. PICK i, j : i = x[3] /\ j = y[3]
        OBVIOUS
      <4>2. x = <<"raws", f, i>> /\ y = <<"raws", f, j>> /\ i \in Nat /\ j \in Nat
        BY <2>2, <3>2, <4>1
      <4>3. <<"raws", f, i + 1>> = <<"raws", f, j + 1>>
        BY <2>7, <3>2, <4>1
      <4>4. i + 1 = j + 1
        BY <4>3
      <4>5. i = j
        BY <4>2, <4>4
      <4>6. QED  BY <4>2, <4>5
    <3>3. CASE Shifted(x) /\ Opened(y) /\ h[x] = <<"raws", f, x[3] + 1>> /\ h[y] = <<"raws", f, 1>>
      <4>1. PICK i : i = x[3]
        OBVIOUS
      <4>2. i \in Nat \ {0}
        BY <2>2, <3>3, <4>1
      <4>3. <<"raws", f, i + 1>> = <<"raws", f, 1>>
        BY <2>7, <3>3, <4>1
      <4>4. i + 1 = 1
        BY <4>3
      <4>5. QED  BY <4>2, <4>4
    <3>4. CASE Opened(x) /\ Shifted(y) /\ h[x] = <<"raws", f, 1>> /\ h[y] = <<"raws", f, y[3] + 1>>
      <4>1. PICK j : j = y[3]
        OBVIOUS
      <4>2. j \in Nat \ {0}
        BY <2>2, <3>4, <4>1
      <4>3. <<"raws", f, 1>> = <<"raws", f, j + 1>>
        BY <2>7, <3>4, <4>1
      <4>4. j + 1 = 1
        BY <4>3
      <4>5. QED  BY <4>2, <4>4
    <3>5. CASE Opened(x) /\ Opened(y)
      BY <2>3, <3>5
    <3>6. CASE Stays(x) /\ Stays(y) /\ h[x] = x /\ h[y] = y
      BY <2>7, <3>6
    <3>7. CASE Stays(x) /\ h[x] = x /\ \E i : h[y] = <<"raws", f, i>>
      BY <2>5, <2>7, <3>7
    <3>8. CASE Stays(y) /\ h[y] = y /\ \E i : h[x] = <<"raws", f, i>>
      BY <2>5, <2>7, <3>8
    <3>9. QED  BY <3>1, <3>2, <3>3, <3>4, <3>5, <3>6, <3>7, <3>8
  <2>8. ASSUME NEW x \in Places(l) PROVE Places(l)' # {}
    <3>1. CASE InBox(x, l) \/ InGiven(x, l) \/ InOut(x, l)
      BY <1>19, <1>20, <3>1, PlacesAre
    <3>2. CASE InRaws(x, l)
      <4>1. PICK g \in Fetchers : \E i \in DOMAIN fetch[g].raws :
              x = <<"raws", g, i>> /\ fetch[g].raws[i].letter = l
        BY <3>2 DEF InRaws
      <4>2. PICK i \in DOMAIN fetch[g].raws : fetch[g].raws[i].letter = l
        BY <4>1
      <4>3. CASE g # f
        <5>1. InRaws(<<"raws", g, i>>, l)'
          BY <1>21, <4>2, <4>3
        <5>2. QED  BY <5>1, PlacesAre
      <4>4. CASE g = f /\ i = 1
        <5>1. l = m
          BY <1>1, <1>8, <4>2, <4>4
        <5>2. InOut(<<"out", f, n>>, l)'
          BY <1>20, <5>1
        <5>3. QED  BY <5>2, PlacesAre
      <4>5. CASE g = f /\ i # 1
        <5>1. i \in DOMAIN r /\ r[i].letter = l
          BY <1>1, <4>2, <4>5
        <5>2. i - 1 \in DOMAIN t /\ (i - 1) + 1 = i
          BY <1>7, <1>16, <4>5, <5>1
        <5>3. InRaws(<<"raws", f, i - 1>>, l)'
          BY <1>21, <5>1, <5>2
        <5>4. QED  BY <5>3, PlacesAre
      <4>6. QED  BY <4>3, <4>4, <4>5
    <3>3. QED  BY <3>1, <3>2, PlacesAre
  <2> HIDE DEF h
  <2>9. QED  BY <2>6, <2>7, <2>8
<1>23. LettersSent' /\ FetchedOnce'
  BY <1>3, <1>4, <1>22, MovesKeep
<1>24. Kept
  BY <1>22 DEF Kept
<1>25. QED  BY <1>14, <1>15, <1>18, <1>23, <1>24 DEF MailInv

\* A frame that does not open: what is lost was in the hands of this call, and so
\* was the frame.
LEMMA FetchFailKeeps ==
  ASSUME MailInv, NEW f \in Fetchers, FetchFail(f)
  PROVE  MailInv' /\ LossStep
<1>1. /\ fetch[f].raws # <<>> /\ Head(fetch[f].raws).gen # gen /\ fetch' = [fetch EXCEPT ![f] = Idle]
      /\ UNCHANGED <<box, gen, bundle, puts, given>>
  BY DEF FetchFail
<1>2. MailTypes /\ IdleEmpty /\ FramesDated /\ LettersSent /\ FetchedOnce
  BY DEF MailInv
<1>3. fetch' \in [Fetchers -> FetchCall] /\ fetch'[f] = Idle /\ \A g \in Fetchers : g # f => fetch'[g] = fetch[g]
  BY <1>1, <1>2, IdleIs DEF MailTypes
<1>4. MailTypes'
  BY <1>1, <1>2, <1>3 DEF MailTypes
<1>5. IdleEmpty' /\ FramesDated'
  BY <1>1, <1>2, <1>3, IdleIs DEF IdleEmpty, FramesDated
<1>6. \E i \in DOMAIN fetch[f].raws : fetch[f].raws[i].letter = NoLetter \/ fetch[f].raws[i].gen < gen
  <2>1. fetch[f].raws \in Seq(Frame) /\ gen \in Nat
    BY <1>2, FetchFacts DEF MailTypes
  <2>2. 1 \in DOMAIN fetch[f].raws /\ Head(fetch[f].raws) = fetch[f].raws[1]
    BY <1>1, <2>1
  <2>3. Dated(fetch[f].raws[1], gen)
    BY <1>2, <2>2 DEF FramesDated
  <2>4. fetch[f].raws[1].letter = NoLetter \/ fetch[f].raws[1].gen < gen
    BY <1>1, <2>1, <2>2, <2>3 DEF Dated
  <2>5. QED  BY <2>2, <2>4
<1>7. \A x, l : (InBox(x, l)' <=> InBox(x, l)) /\ (InGiven(x, l)' <=> InGiven(x, l))
  BY <1>1 DEF InBox, InGiven
<1>8. \A x, l : (InRaws(x, l)' => InRaws(x, l)) /\ (InOut(x, l)' => InOut(x, l))
  BY <1>3, IdleIs DEF InRaws, InOut
<1>9. \A l : Places(l)' \subseteq Places(l)
  BY <1>7, <1>8, PlacesAre
<1>10. LettersSent' /\ FetchedOnce'
  BY <1>1, <1>2, <1>9, DropsKeep
<1>11. ASSUME NEW l \in Letters, NEW x \in Places(l), Places(l)' = {} PROVE Held(f, l)
  <2>1. InRaws(x, l) \/ InOut(x, l)
    BY <1>7, <1>11, PlacesAre
  <2>2. CASE InRaws(x, l)
    <3>1. PICK g \in Fetchers : \E i \in DOMAIN fetch[g].raws :
            x = <<"raws", g, i>> /\ fetch[g].raws[i].letter = l
      BY <2>2 DEF InRaws
    <3>2. g # f => InRaws(x, l)'
      BY <1>3, <3>1 DEF InRaws
    <3>3. g = f
      BY <1>11, <3>2, PlacesAre
    <3>4. QED  BY <3>1, <3>3 DEF Held
  <2>3. CASE InOut(x, l)
    <3>1. PICK g \in Fetchers : \E i \in DOMAIN fetch[g].out :
            x = <<"out", g, i>> /\ fetch[g].out[i] = l
      BY <2>3 DEF InOut
    <3>2. g # f => InOut(x, l)'
      BY <1>3, <3>1 DEF InOut
    <3>3. g = f
      BY <1>11, <3>2, PlacesAre
    <3>4. QED  BY <3>1, <3>3 DEF Held
  <2>4. QED  BY <2>1, <2>2, <2>3
<1>12. LossStep
  BY <1>6, <1>11 DEF LossStep
<1>13. QED  BY <1>4, <1>5, <1>10, <1>12 DEF MailInv

\* The end of the recipient's process: what is lost was in the hands of a call.
LEMMA RestartKeeps ==
  ASSUME MailInv, Restart
  PROVE  MailInv' /\ LossStep
<1>1. gen' = gen + 1 /\ fetch' = [f \in Fetchers |-> Idle] /\ UNCHANGED <<box, bundle, puts, given>>
  BY DEF Restart
<1>2. MailTypes /\ IdleEmpty /\ FramesDated /\ LettersSent /\ FetchedOnce
  BY DEF MailInv
<1>3. fetch' \in [Fetchers -> FetchCall] /\ \A f \in Fetchers : fetch'[f] = Idle
  BY <1>1, IdleIs
<1>4. gen \in Nat \ {0} /\ gen' \in Nat \ {0} /\ gen' # gen /\ \A i \in 1 .. gen : i \in 1 .. gen'
  BY <1>1, <1>2 DEF MailTypes
<1>5. MailTypes'
  BY <1>1, <1>2, <1>3, <1>4 DEF MailTypes
<1>6. IdleEmpty' /\ FramesDated'
  <2>1. \A e : Dated(e, gen) => Dated(e, gen')
    BY <1>4 DEF Dated
  <2>2. QED  BY <1>1, <1>2, <1>3, <2>1, IdleIs DEF IdleEmpty, FramesDated
<1>7. \A x, l : (InBox(x, l)' <=> InBox(x, l)) /\ (InGiven(x, l)' <=> InGiven(x, l))
  BY <1>1 DEF InBox, InGiven
<1>8. \A x, l : ~InRaws(x, l)' /\ ~InOut(x, l)'
  BY <1>3, IdleIs DEF InRaws, InOut
<1>9. \A l : Places(l)' \subseteq Places(l)
  BY <1>7, <1>8, PlacesAre
<1>10. LettersSent' /\ FetchedOnce'
  BY <1>1, <1>2, <1>9, DropsKeep
<1>11. ASSUME NEW l \in Letters, NEW x \in Places(l), Places(l)' = {} PROVE \E f \in Fetchers : Held(f, l)
  <2>1. InRaws(x, l) \/ InOut(x, l)
    BY <1>7, <1>11, PlacesAre
  <2>2. QED  BY <2>1 DEF InRaws, InOut, Held
<1>12. LossStep
  BY <1>4, <1>11 DEF LossStep
<1>13. QED  BY <1>5, <1>6, <1>10, <1>12 DEF MailInv

\* The call returns what it opened.
LEMMA FetchReturnKeeps ==
  ASSUME MailInv, NEW f \in Fetchers, FetchReturn(f)
  PROVE  MailInv' /\ Kept
<1>1. PICK o, n : o = fetch[f].out /\ n = Len(given)
  OBVIOUS
<1>2. /\ fetch[f].raws = <<>> /\ fetch' = [fetch EXCEPT ![f] = Idle] /\ given' = given \o o
      /\ UNCHANGED <<box, gen, bundle, puts>>
  BY <1>1 DEF FetchReturn
<1>3. MailTypes /\ IdleEmpty /\ FramesDated /\ LettersSent /\ FetchedOnce
  BY DEF MailInv
<1>4. fetch' \in [Fetchers -> FetchCall] /\ fetch'[f] = Idle /\ \A g \in Fetchers : g # f => fetch'[g] = fetch[g]
  BY <1>2, <1>3, IdleIs DEF MailTypes
<1>5. given \in Seq(Letters) /\ o \in Seq(Letters) /\ n \in Nat /\ DOMAIN given = 1 .. n
      /\ Len(o) \in Nat /\ DOMAIN o = 1 .. Len(o) /\ DOMAIN fetch[f].raws = {}
  BY <1>1, <1>2, <1>3, FetchFacts DEF MailTypes
<1>6. /\ given' \in Seq(Letters) /\ DOMAIN given' = 1 .. n + Len(o)
      /\ (\A i \in 1 .. n : given'[i] = given[i]) /\ \A i \in 1 .. Len(o) : given'[n + i] = o[i]
  <2>1. given' \in Seq(Letters) /\ Len(given') = n + Len(o)
    BY <1>1, <1>2, <1>5
  <2>2. \A i \in 1 .. n : given'[i] = given[i]
    BY <1>1, <1>2, <1>5
  <2>3. \A i \in 1 .. Len(o) : given'[n + i] = o[i]
    BY <1>1, <1>2, <1>5
  <2>4. QED  BY <2>1, <2>2, <2>3
<1>7. MailTypes'
  BY <1>2, <1>3, <1>4, <1>6 DEF MailTypes
<1>8. IdleEmpty' /\ FramesDated'
  BY <1>2, <1>3, <1>4, IdleIs DEF IdleEmpty, FramesDated
<1>9. \A x, l : (InBox(x, l)' <=> InBox(x, l)) /\ (InRaws(x, l)' <=> InRaws(x, l))
  <2>1. \A x, l : InBox(x, l)' <=> InBox(x, l)
    BY <1>2 DEF InBox
  <2>2. \A x, l : InRaws(x, l)' <=> InRaws(x, l)
    BY <1>4, <1>5, IdleIs DEF InRaws
  <2>3. QED  BY <2>1, <2>2
<1>10. \A x, l : InOut(x, l)' <=>
         \E g \in Fetchers \ {f} : \E i \in DOMAIN fetch[g].out : x = <<"out", g, i>> /\ fetch[g].out[i] = l
  BY <1>4, IdleIs DEF InOut
<1>11. \A x, l : InGiven(x, l)' <=>
         InGiven(x, l) \/ \E i \in 1 .. Len(o) : x = <<"given", n + i>> /\ o[i] = l
  <2>1. \A i \in 1 .. n + Len(o) : i \in 1 .. n \/ \E j \in 1 .. Len(o) : i = n + j
    <3>1. ASSUME NEW i \in 1 .. n + Len(o), i \notin 1 .. n PROVE i - n \in 1 .. Len(o) /\ i = n + (i - n)
      BY <1>5, <3>1
    <3>2. QED  BY <3>1
  <2>2. (\A i \in 1 .. n : i \in DOMAIN given') /\ \A j \in 1 .. Len(o) : n + j \in DOMAIN given'
    BY <1>5, <1>6
  <2>3. ASSUME NEW x, NEW l, InGiven(x, l)'
        PROVE  InGiven(x, l) \/ \E i \in 1 .. Len(o) : x = <<"given", n + i>> /\ o[i] = l
    <3>1. PICK i \in 1 .. n + Len(o) : x = <<"given", i>> /\ given'[i] = l
      BY <1>6, <2>3 DEF InGiven
    <3>2. CASE i \in 1 .. n
      BY <1>5, <1>6, <3>1, <3>2 DEF InGiven
    <3>3. ASSUME NEW j \in 1 .. Len(o), i = n + j PROVE x = <<"given", n + j>> /\ o[j] = l
      BY <1>6, <3>1, <3>3
    <3>4. QED  BY <2>1, <3>2, <3>3
  <2>4. ASSUME NEW x, NEW l, InGiven(x, l) PROVE InGiven(x, l)'
    BY <1>5, <1>6, <2>2, <2>4 DEF InGiven
  <2>5. ASSUME NEW l, NEW i \in 1 .. Len(o), o[i] = l PROVE InGiven(<<"given", n + i>>, l)'
    BY <1>6, <2>2, <2>5 DEF InGiven
  <2>6. QED  BY <2>3, <2>4, <2>5
<1>12. ASSUME NEW l \in Letters
       PROVE  /\ \E h : /\ \A x \in Places(l)' : h[x] \in Places(l)
                        /\ \A x, y \in Places(l)' : h[x] = h[y] => x = y
              /\ Places(l) # {} => Places(l)' # {}
  <2> DEFINE Moved(x) == \E i \in 1 .. Len(o) : x = <<"given", n + i>> /\ o[i] = l
             Stays(x) == x \in Places(l) /\ ~Moved(x) /\ \A i : x # <<"out", f, i>>
             h == [x \in Places(l)' |-> IF Moved(x) THEN <<"out", f, x[2] - n>> ELSE x]
  <2>1. \A x \in Places(l)' : Moved(x) \/ Stays(x)
    <3>1. \A x : InBox(x, l) \/ InRaws(x, l) => Stays(x)
      BY PlacesAre DEF InBox, InRaws
    <3>2. \A x : InGiven(x, l) => Stays(x)
      <4>1. \A i \in DOMAIN given : \A j \in 1 .. Len(o) : i # n + j
        BY <1>5
      <4>2. \A x : InGiven(x, l) => x \in Places(l)
        BY PlacesAre
      <4>3. ASSUME NEW x, InGiven(x, l) PROVE ~Moved(x) /\ \A i : x # <<"out", f, i>>
        BY <4>1, <4>3 DEF InGiven
      <4>4. QED  BY <4>2, <4>3
    <3>3. \A x : InOut(x, l)' => Stays(x)
      <4>1. ASSUME NEW g \in Fetchers \ {f}, NEW i \in DOMAIN fetch[g].out, fetch[g].out[i] = l
            PROVE  <<"out", g, i>> \in Places(l)
        BY <4>1, PlacesAre DEF InOut
      <4>2. ASSUME NEW g \in Fetchers \ {f}, NEW i
            PROVE  ~Moved(<<"out", g, i>>) /\ \A j : <<"out", g, i>> # <<"out", f, j>>
        OBVIOUS
      <4> HIDE DEF Moved
      <4>3. QED  BY <1>10, <4>1, <4>2
    <3> HIDE DEF Stays
    <3>4. QED  BY <1>9, <1>11, <3>1, <3>2, <3>3, PlacesAre
  <2>2. ASSUME NEW x, Moved(x)
        PROVE  \E i \in 1 .. Len(o) : /\ x = <<"given", n + i>> /\ x[2] - n = i
                                      /\ <<"out", f, i>> \in Places(l)
    <3>1. PICK i \in 1 .. Len(o) : x = <<"given", n + i>> /\ o[i] = l
      BY <2>2
    <3>2. x[2] - n = i
      <4>1. x[2] = n + i
        BY <3>1
      <4>2. QED  BY <1>5, <4>1
    <3>3. InOut(<<"out", f, i>>, l)
      BY <1>1, <1>5, <3>1 DEF InOut
    <3>4. QED  BY <3>1, <3>2, <3>3, PlacesAre
  <2>3. \A x : Stays(x) => ~Moved(x) /\ x \in Places(l) /\ \A i : x # <<"out", f, i>>
    OBVIOUS
  <2> HIDE DEF Moved, Stays
  <2>4. \A x \in Places(l)' : h[x] \in Places(l)
    BY <2>1, <2>2, <2>3
  <2>5. ASSUME NEW x \in Places(l)', NEW y \in Places(l)', h[x] = h[y] PROVE x = y
    <3>1. CASE Moved(x) /\ Moved(y)
      <4>1. PICK i \in 1 .. Len(o) : x = <<"given", n + i>> /\ x[2] - n = i
        BY <2>2, <3>1
      <4>2. PICK j \in 1 .. Len(o) : y = <<"given", n + j>> /\ y[2] - n = j
        BY <2>2, <3>1
      <4>3. h[x] = <<"out", f, i>> /\ h[y] = <<"out", f, j>>
        BY <3>1, <4>1, <4>2
      <4>4. i = j
        BY <2>5, <4>3
      <4>5. QED  BY <4>1, <4>2, <4>4
    <3>2. CASE Moved(x) /\ Stays(y)
      <4>1. h[x] = <<"out", f, x[2] - n>> /\ h[y] = y
        BY <2>3, <3>2
      <4>2. QED  BY <2>3, <2>5, <3>2, <4>1
    <3>3. CASE Stays(x) /\ Moved(y)
      <4>1. h[y] = <<"out", f, y[2] - n>> /\ h[x] = x
        BY <2>3, <3>3
      <4>2. QED  BY <2>3, <2>5, <3>3, <4>1
    <3>4. CASE Stays(x) /\ Stays(y)
      BY <2>3, <2>5, <3>4
    <3>5. QED  BY <2>1, <3>1, <3>2, <3>3, <3>4
  <2>6. ASSUME NEW x \in Places(l) PROVE Places(l)' # {}
    <3>1. CASE InBox(x, l) \/ InGiven(x, l) \/ InRaws(x, l)
      BY <1>9, <1>11, <3>1, PlacesAre
    <3>2. CASE InOut(x, l)
      <4>1. PICK g \in Fetchers : \E i \in DOMAIN fetch[g].out : fetch[g].out[i] = l
        BY <3>2 DEF InOut
      <4>2. PICK i \in DOMAIN fetch[g].out : fetch[g].out[i] = l
        BY <4>1
      <4>3. CASE g # f
        <5>1. InOut(<<"out", g, i>>, l)'
          BY <1>10, <4>2, <4>3
        <5>2. QED  BY <5>1, PlacesAre
      <4>4. CASE g = f
        <5>1. i \in 1 .. Len(o) /\ o[i] = l
          BY <1>1, <1>5, <4>2, <4>4
        <5>2. InGiven(<<"given", n + i>>, l)'
          BY <1>11, <5>1
        <5>3. QED  BY <5>2, PlacesAre
      <4>5. QED  BY <4>3, <4>4
    <3>3. QED  BY <3>1, <3>2, PlacesAre
  <2> HIDE DEF h
  <2>7. QED  BY <2>4, <2>5, <2>6
<1>13. LettersSent' /\ FetchedOnce'
  BY <1>2, <1>3, <1>12, MovesKeep
<1>14. Kept
  BY <1>12 DEF Kept
<1>15. QED  BY <1>7, <1>8, <1>13, <1>14 DEF MailInv

-----------------------------------------------------------------------------
(* Theorems.                                                               *)

\* The mailbox is empty at first.
LEMMA MailStart == MailInit => MailInv
<1> SUFFICES ASSUME MailInit PROVE MailInv
  OBVIOUS
<1>1. MailTypes
  BY OfflineAssumption, IdleIs DEF MailInit, MailTypes
<1>2. \A f \in Fetchers : fetch[f] = Idle
  BY DEF MailInit
<1>3. IdleEmpty /\ FramesDated
  BY <1>2, IdleIs DEF MailInit, IdleEmpty, FramesDated
<1>4. \A l : Places(l) = {}
  <2>1. \A x, l : ~InBox(x, l) /\ ~InGiven(x, l) /\ ~InRaws(x, l) /\ ~InOut(x, l)
    BY <1>2, IdleIs DEF MailInit, InBox, InGiven, InRaws, InOut
  <2>2. \A l : \A x : x \notin Places(l)
    BY <2>1, PlacesAre
  <2>3. QED  BY <2>2
<1>5. LettersSent /\ FetchedOnce
  BY <1>4 DEF LettersSent, FetchedOnce
<1>6. QED  BY <1>1, <1>3, <1>5 DEF MailInv

\* Nothing moves in the mailbox.
LEMMA MailStutter == MailInv /\ UNCHANGED mailVars => MailInv' /\ Kept
<1> SUFFICES ASSUME MailInv, UNCHANGED mailVars PROVE MailInv' /\ Kept
  OBVIOUS
<1>1. UNCHANGED <<box, gen, bundle, puts, fetch, given>>
  BY DEF mailVars
<1>2. \A l : Places(l)' = Places(l)
  BY <1>1 DEF Places
<1>3. MailTypes' /\ IdleEmpty' /\ FramesDated'
  BY <1>1 DEF MailInv, MailTypes, IdleEmpty, FramesDated
<1>4. LettersSent' /\ FetchedOnce'
  BY <1>1, <1>2 DEF MailInv, LettersSent, FetchedOnce
<1>5. Kept
  BY <1>2 DEF Kept
<1>6. QED  BY <1>3, <1>4, <1>5 DEF MailInv

\* A step keeps the invariant and loses messages only as LostOnlyInBatch says.
LEMMA MailStep ==
  ASSUME MailInv, [Next]_vars
  PROVE  MailInv' /\ LossStep
<1>1. Kept => LossStep
  BY DEF Kept, LossStep
<1>2. CASE MailNext
  <2>1. CASE \E s \in Senders : GetBundle(s) \/ SendOffline(s)
    BY <1>1, <2>1, GetBundleKeeps, SendOfflineKeeps
  <2>2. CASE PutOther
    BY <1>1, <2>2, PutOtherKeeps
  <2>3. CASE \E f \in Fetchers : FetchBegin(f) \/ FetchOpen(f) \/ FetchFail(f) \/ FetchReturn(f)
    BY <1>1, <2>3, FetchBeginStep, FetchOpenKeeps, FetchFailKeeps, FetchReturnKeeps
  <2>4. CASE Restart
    BY <2>4, RestartKeeps
  <2>5. QED  BY <1>2, <2>1, <2>2, <2>3, <2>4 DEF MailNext
<1>3. CASE UNCHANGED mailVars
  BY <1>1, <1>3, MailStutter
<1>4. QED  BY <1>2, <1>3 DEF Next, vars

\* MailInv is an invariant of the harness, whatever program runs on its pipe.
THEOREM MailInvariance == Spec => []MailInv
<1>1. Init => MailInv
  BY MailStart DEF Init
<1>2. MailInv /\ [Next]_vars => MailInv'
  BY MailStep
<1>3. QED  BY <1>1, <1>2, PTL DEF Spec

\* No message is returned twice, or returned and still queued, whatever calls of
\* FetchOffline run at the same time (FetchedOnce).
THEOREM MailFetchedOnce == Spec => []FetchedOnce
<1>1. MailInv => FetchedOnce
  BY DEF MailInv
<1>2. QED  BY <1>1, MailInvariance, PTL

\* A message that was left is lost only in the hands of a call of FetchOffline that
\* ends with its process, or that holds a frame which is no offline message or was
\* made from an earlier bundle (LostOnlyInBatch): never in the mailbox, never in
\* the steps of another call, and never after it was returned.
THEOREM MailLosses == Spec => LostOnlyInBatch
<1>1. MailInv /\ [Next]_vars => [LossStep]_mailVars
  BY MailStep
<1>2. QED  BY <1>1, MailInvariance, PTL DEF Spec, LostOnlyInBatch, LossStep

-----------------------------------------------------------------------------
(* Arithmetic *)

\* A nonempty set of numbers has a least member: the inductions over chunks and
\* frames below argue from the least counterexample.
LEMMA Least == ASSUME NEW T, T \subseteq Nat, T # {} PROVE \E x \in T : \A y \in T : x <= y
<1>1. PICK R : R = OpToRel(<, Nat)
  OBVIOUS
<1>2. IsWellFoundedOn(R, Nat)
  BY <1>1, NatLessThanWellFounded
<1>3. \A x, y \in Nat : <<x, y>> \in R <=> x < y
  BY <1>1 DEF OpToRel
<1>4. PICK x \in T : \A y \in T : ~(<<y, x>> \in R)
  BY <1>2, WFMin
<1>5. ASSUME NEW y \in T PROVE x <= y
  <2>1. x \in Nat /\ y \in Nat
    OBVIOUS
  <2>2. ~(y < x)
    BY <1>3, <1>4, <2>1
  <2>3. QED  BY <2>1, <2>2
<1>6. QED  BY <1>5

\* Division with remainder.
LEMMA DivMod ==
  ASSUME NEW a \in Nat, NEW b \in Nat \ {0}
  PROVE  /\ a \div b \in Nat /\ a % b \in 0 .. b - 1 /\ a = b * (a \div b) + (a % b)
OBVIOUS

\* Multiplication by a positive number keeps the order.
LEMMA MulLess ==
  ASSUME NEW a \in Nat, NEW b \in Nat, NEW c \in Nat \ {0}
  PROVE  a < b <=> a * c < b * c
OBVIOUS

\* Multiples have no remainder.
LEMMA MulMod ==
  ASSUME NEW a \in Nat, NEW c \in Nat \ {0}
  PROVE  (a * c) % c = 0
OBVIOUS

-----------------------------------------------------------------------------
(* Files: Split and Reassemble, for any file and any chunk size *)

\* How many chunks Split makes of n bytes, and where the first k of them end.
PartsOf(n, cs) == (n + cs - 1) \div cs
Cut(n, cs, k) == IF k * cs > n THEN n ELSE k * cs

\* The bytes of the k-th chunk, and the chunk.
Slice(id, n, cs, k) == SubSeq(Content(id, n), (k - 1) * cs + 1, Cut(n, cs, k))
Part(id, n, cs, k) == Sealed(id, k - 1, Slice(id, n, cs, k))

\* A file as a sequence.
LEMMA ContentIs ==
  ASSUME NEW id, NEW n \in Nat
  PROVE  /\ Content(id, n) \in Seq({id} \X Nat) /\ Len(Content(id, n)) = n
         /\ \A i \in 1 .. n : Content(id, n)[i] = <<id, i>>
BY DEF Content

\* The number of chunks is the least one that covers the file.
LEMMA PartsCover ==
  ASSUME NEW n \in Nat, NEW cs \in Nat \ {0}
  PROVE  /\ PartsOf(n, cs) \in Nat /\ n <= PartsOf(n, cs) * cs
         /\ \A k \in Nat : k < PartsOf(n, cs) => k * cs < n
<1>1. PICK a \in Nat : a = n + cs - 1
  OBVIOUS
<1>2. PICK q, r : q = a \div cs /\ r = a % cs
  OBVIOUS
<1>3. q \in Nat /\ r \in 0 .. cs - 1 /\ a = cs * q + r
  BY <1>2, DivMod
<1>4. PICK m : m = q * cs
  OBVIOUS
<1>5. m \in Nat /\ m = cs * q
  BY <1>3, <1>4
<1>6. n <= m
  BY <1>1, <1>3, <1>5
<1>7. m - cs < n
  BY <1>1, <1>3, <1>5
<1>8. ASSUME NEW k \in Nat, k < q PROVE k * cs < n
  <2>1. PICK j : j = q - 1
    OBVIOUS
  <2>2. j \in Nat /\ k <= j /\ j * cs = m - cs
    BY <1>3, <1>4, <1>8, <2>1
  <2>3. k * cs <= j * cs /\ k * cs \in Nat /\ j * cs \in Nat
    BY <2>2, MulLess
  <2>4. QED  BY <1>5, <1>7, <2>2, <2>3
<1>9. PartsOf(n, cs) = q
  BY <1>1, <1>2 DEF PartsOf
<1>10. QED  BY <1>3, <1>4, <1>6, <1>8, <1>9

\* The end of the first k chunks.
LEMMA CutIs ==
  ASSUME NEW n \in Nat, NEW cs \in Nat \ {0}, NEW k \in 1 .. PartsOf(n, cs)
  PROVE  /\ k \in Nat /\ (k - 1) * cs \in Nat /\ (k - 1) * cs < n /\ Cut(n, cs, k) \in 1 .. n
         /\ (k - 1) * cs < Cut(n, cs, k) /\ (k # 1 => Cut(n, cs, k - 1) = (k - 1) * cs)
         /\ (k = PartsOf(n, cs) <=> Cut(n, cs, k) = n)
<1>1. PICK q : q = PartsOf(n, cs)
  OBVIOUS
<1>2. q \in Nat /\ n <= q * cs /\ \A j \in Nat : j < q => j * cs < n
  BY <1>1, PartsCover
<1>3. k \in Nat /\ k - 1 \in Nat /\ k - 1 < q /\ k <= q /\ k * cs = (k - 1) * cs + cs
  BY <1>1, <1>2
<1>4. PICK a, b : a = (k - 1) * cs /\ b = k * cs
  OBVIOUS
<1>5. a \in Nat /\ b = a + cs /\ a < n
  BY <1>2, <1>3, <1>4
<1>6. Cut(n, cs, k) = IF b > n THEN n ELSE b
  BY <1>4 DEF Cut
<1>7. Cut(n, cs, k) \in 1 .. n /\ a < Cut(n, cs, k)
  BY <1>5, <1>6
<1>8. Cut(n, cs, k - 1) = a
  BY <1>4, <1>5 DEF Cut
<1>9. ASSUME k = q PROVE Cut(n, cs, k) = n
  BY <1>2, <1>4, <1>5, <1>6, <1>9
<1>10. ASSUME Cut(n, cs, k) = n PROVE k = q
  <2>1. n <= b
    BY <1>5, <1>6, <1>10
  <2>2. ~(k < q)
    BY <1>2, <1>3, <1>4, <1>5, <2>1
  <2>3. QED  BY <1>2, <1>3, <2>2
<1>11. QED  BY <1>1, <1>3, <1>4, <1>5, <1>7, <1>8, <1>9, <1>10

\* Split cuts as many chunks as the receiver waits for, also when the last one
\* is short and when the file is empty.
LEMMA SplitIs ==
  ASSUME NEW id, NEW n \in Nat, NEW cs \in Nat \ {0}
  PROVE  /\ Split(id, Content(id, n), cs) = [k \in 1 .. PartsOf(n, cs) |-> Part(id, n, cs, k)]
         /\ NumChunks(OfferOf(id, Content(id, n), cs)) = PartsOf(n, cs)
<1>1. PICK d, q : d = Content(id, n) /\ q = PartsOf(n, cs)
  OBVIOUS
<1>2. Len(d) = n
  BY <1>1, ContentIs
<1>3. q \in Nat /\ n <= q * cs /\ \A j \in Nat : j < q => j * cs < n
  BY <1>1, PartsCover
<1>4. PICK O : O = {off \in 0 .. n - 1 : off % cs = 0}
  OBVIOUS
<1>5. PICK b : b = [k \in 1 .. q |-> (k - 1) * cs]
  OBVIOUS
<1>6. ASSUME NEW k \in 1 .. q PROVE b[k] \in O /\ b[k] = (k - 1) * cs
  <2>1. PICK j \in Nat : j = k - 1
    BY <1>3
  <2>2. j * cs \in Nat /\ j * cs < n
    BY <1>3, <2>1
  <2>3. (j * cs) % cs = 0
    BY MulMod
  <2>4. QED  BY <1>4, <1>5, <2>1, <2>2, <2>3
<1>7. ASSUME NEW x \in 1 .. q, NEW y \in 1 .. q, b[x] = b[y] PROVE x = y
  <2>1. (x - 1) * cs = (y - 1) * cs /\ x - 1 \in Nat /\ y - 1 \in Nat
    BY <1>3, <1>6, <1>7
  <2>2. ~(x - 1 < y - 1) /\ ~(y - 1 < x - 1)
    BY <2>1, MulLess
  <2>3. QED  BY <1>3, <2>1, <2>2
<1>8. ASSUME NEW off \in O PROVE \E k \in 1 .. q : b[k] = off
  <2>1. off \in Nat /\ off < n /\ off % cs = 0
    BY <1>4
  <2>2. PICK j : j = off \div cs
    OBVIOUS
  <2>3. j \in Nat /\ off = j * cs
    BY <2>1, <2>2, DivMod
  <2>4. j < q
    BY <1>3, <2>1, <2>3, MulLess
  <2>5. j + 1 \in 1 .. q /\ b[j + 1] = off
    BY <1>3, <1>5, <2>3, <2>4
  <2>6. QED  BY <2>5
<1>9. b \in Bijection(1 .. q, O)
  <2>1. b \in [1 .. q -> O]
    BY <1>5, <1>6
  <2>2. b \in Injection(1 .. q, O)
    BY <1>7, <2>1 DEF Injection, IsInjective
  <2>3. b \in Surjection(1 .. q, O)
    BY <1>8, <2>1 DEF Surjection
  <2>4. QED  BY <2>2, <2>3 DEF Bijection
<1>10. Cardinality(O) = q
  BY <1>3, <1>9, FS_CountingElements DEF ExistsBijection
<1>11. NumChunks(OfferOf(id, d, cs)) = q
  BY <1>1, <1>2 DEF NumChunks, OfferOf, PartsOf
<1>12. \A k \in 1 .. q : (k - 1) * cs + cs = k * cs
  BY <1>3
<1>13. Split(id, d, cs) = [k \in 1 .. q |-> LET off == (k - 1) * cs IN
          Sealed(id, k - 1, SubSeq(d, off + 1, IF off + cs > n THEN n ELSE off + cs))]
  BY <1>2, <1>4, <1>10 DEF Split
<1>14. ASSUME NEW k \in 1 .. q
       PROVE  Part(id, n, cs, k) =
                Sealed(id, k - 1, SubSeq(d, (k - 1) * cs + 1, IF (k - 1) * cs + cs > n THEN n ELSE (k - 1) * cs + cs))
  BY <1>1, <1>12 DEF Part, Slice, Cut
<1>15. Split(id, d, cs) = [k \in 1 .. q |-> Part(id, n, cs, k)]
  BY <1>13, <1>14
<1>16. QED  BY <1>1, <1>11, <1>15

-----------------------------------------------------------------------------
\* Two neighbouring pieces of a sequence are one piece.
LEMMA PiecesJoin ==
  ASSUME NEW S, NEW s \in Seq(S), NEW a \in 0 .. Len(s), NEW b \in a .. Len(s)
  PROVE  SubSeq(s, 1, a) \o SubSeq(s, a + 1, b) = SubSeq(s, 1, b)
<1>1. PICK x, y, z : x = SubSeq(s, 1, a) /\ y = SubSeq(s, a + 1, b) /\ z = SubSeq(s, 1, b)
  OBVIOUS
<1>2. Len(s) \in Nat /\ a \in Nat /\ b \in Nat /\ a <= b /\ b <= Len(s)
  OBVIOUS
<1>3. x \in Seq(S) /\ Len(x) = a /\ \A i \in 1 .. a : x[i] = s[i]
  BY <1>1, <1>2
<1>4. y \in Seq(S) /\ Len(y) = b - a /\ \A i \in 1 .. b - a : y[i] = s[a + i]
  BY <1>1, <1>2
<1>5. z \in Seq(S) /\ Len(z) = b /\ \A i \in 1 .. b : z[i] = s[i]
  BY <1>1, <1>2
<1>6. x \o y \in Seq(S) /\ Len(x \o y) = b
  <2>1. x \o y \in Seq(S) /\ Len(x \o y) = Len(x) + Len(y)
    BY <1>3, <1>4, ConcatProperties
  <2>2. QED  BY <1>2, <1>3, <1>4, <2>1
<1>7. ASSUME NEW i \in 1 .. b PROVE (x \o y)[i] = z[i]
  <2>1. CASE i <= a
    BY <1>2, <1>3, <1>4, <1>5, <2>1
  <2>2. CASE i > a
    <3>1. i - a \in 1 .. b - a /\ a + (i - a) = i
      BY <1>2, <2>2
    <3>2. (x \o y)[i] = y[i - a]
      BY <1>2, <1>3, <1>4, <2>2
    <3>3. QED  BY <1>4, <1>5, <3>1, <3>2
  <2>3. i <= a \/ i > a
    BY <1>2
  <2>4. QED  BY <2>1, <2>2, <2>3
<1>8. x \o y = z
  BY <1>5, <1>6, <1>7, SeqEqual
<1>9. QED  BY <1>1, <1>8

\* FlattenSeq is the last element of the sequence of its partial results.
LEMMA FlattenIs ==
  ASSUME NEW s, Len(s) \in Nat \ {0}, NEW w,
         w = [i \in 1 .. Len(s) |-> IF i = 1 THEN s[i] ELSE w[i - 1] \o s[i]]
  PROVE  FlattenSeq(s) = w[Len(s)]
<1>1. PICK n \in Nat \ {0} : n = Len(s)
  OBVIOUS
<1>2. PICK f : f = CHOOSE g : g = [i \in 1 .. n |-> IF i = 1 THEN s[i] ELSE g[i - 1] \o s[i]]
  OBVIOUS
<1>3. FlattenSeq(s) = f[n]
  BY <1>1, <1>2 DEF FlattenSeq
<1>4. f = [i \in 1 .. n |-> IF i = 1 THEN s[i] ELSE f[i - 1] \o s[i]]
  BY <1>1, <1>2
<1>5. PICK T : T = {i \in 1 .. n : f[i] # w[i]}
  OBVIOUS
<1>6. T = {}
  <2>1. SUFFICES ASSUME T # {} PROVE FALSE
    OBVIOUS
  <2>2. PICK x \in T : \A y \in T : x <= y
    <3>1. \A i \in T : i \in 1 .. n
      BY <1>5
    <3>2. T \subseteq Nat
      BY <3>1
    <3>3. QED  BY <2>1, <3>2, Least
  <2>3. x \in 1 .. n /\ f[x] # w[x]
    BY <1>5, <2>2
  <2>4. CASE x = 1
    BY <1>1, <1>4, <2>3, <2>4
  <2>5. CASE x # 1
    <3>1. x - 1 \in 1 .. n /\ x - 1 \notin T
      BY <2>2, <2>3, <2>5
    <3>2. f[x - 1] = w[x - 1]
      BY <1>5, <3>1
    <3>3. f[x] = f[x - 1] \o s[x] /\ w[x] = w[x - 1] \o s[x]
      BY <1>1, <1>4, <2>3, <2>5
    <3>4. QED  BY <2>3, <3>2, <3>3
  <2>6. QED  BY <2>4, <2>5
<1>7. n \in 1 .. n /\ n \notin T
  BY <1>6
<1>8. f[n] = w[n]
  BY <1>5, <1>7
<1>9. QED  BY <1>1, <1>3, <1>8

\* The first m chunks hold the file up to the end of the m-th.
LEMMA SlicesJoin ==
  ASSUME NEW id, NEW n \in Nat, NEW cs \in Nat \ {0}, NEW m \in 1 .. PartsOf(n, cs), NEW s,
         s = [i \in 1 .. m |-> Slice(id, n, cs, i)]
  PROVE  FlattenSeq(s) = SubSeq(Content(id, n), 1, Cut(n, cs, m))
<1>1. PICK d : d = Content(id, n)
  OBVIOUS
<1>2. d \in Seq({id} \X Nat) /\ Len(d) = n
  BY <1>1, ContentIs
<1>3. PartsOf(n, cs) \in Nat
  BY PartsCover
<1>4. m \in Nat \ {0} /\ m <= PartsOf(n, cs) /\ \A i \in 1 .. m : i \in 1 .. PartsOf(n, cs)
  BY <1>3
<1>5. Len(s) = m
  BY <1>4
<1>6. PICK w : w = [i \in 1 .. m |-> SubSeq(d, 1, Cut(n, cs, i))]
  OBVIOUS
<1>7. ASSUME NEW i \in 1 .. m PROVE w[i] = IF i = 1 THEN s[i] ELSE w[i - 1] \o s[i]
  <2>1. PICK a, b : a = (i - 1) * cs /\ b = Cut(n, cs, i)
    OBVIOUS
  <2>2. a \in Nat /\ a < n /\ b \in 1 .. n /\ a < b /\ (i # 1 => Cut(n, cs, i - 1) = a)
    BY <1>4, <2>1, CutIs
  <2>3. s[i] = SubSeq(d, a + 1, b) /\ w[i] = SubSeq(d, 1, b)
    BY <1>1, <1>6, <2>1 DEF Slice
  <2>4. CASE i = 1
    <3>1. a = 0
      BY <2>1, <2>4
    <3>2. QED  BY <2>3, <2>4, <3>1
  <2>5. CASE i # 1
    <3>1. w[i - 1] = SubSeq(d, 1, a)
      BY <1>4, <1>6, <2>2, <2>5
    <3>2. a \in 0 .. Len(d) /\ b \in a .. Len(d)
      BY <1>2, <2>2
    <3>3. QED  BY <1>2, <2>3, <2>5, <3>1, <3>2, PiecesJoin
  <2>6. QED  BY <2>4, <2>5
<1>8. w = [i \in 1 .. m |-> IF i = 1 THEN s[i] ELSE w[i - 1] \o s[i]]
  BY <1>6, <1>7
<1>9. FlattenSeq(s) = w[m]
  BY <1>4, <1>5, <1>8, FlattenIs
<1>10. QED  BY <1>1, <1>4, <1>6, <1>9

-----------------------------------------------------------------------------
\* The chunks of a file.
Own(id, n, cs) == ToSet(Split(id, Content(id, n), cs))

\* They are the parts, each with its own index.
LEMMA OwnAre ==
  ASSUME NEW id, NEW n \in Nat, NEW cs \in Nat \ {0}
  PROVE  /\ \A c : c \in Own(id, n, cs) <=> \E k \in 1 .. PartsOf(n, cs) : c = Part(id, n, cs, k)
         /\ \A k : /\ Part(id, n, cs, k).key = id /\ Part(id, n, cs, k).index = k - 1
                   /\ Part(id, n, cs, k).nonce = k - 1 /\ Part(id, n, cs, k).data = Slice(id, n, cs, k)
         /\ Cardinality(Own(id, n, cs)) = PartsOf(n, cs)
<1>1. PICK q \in Nat : q = PartsOf(n, cs)
  BY PartsCover
<1>2. \A k : /\ Part(id, n, cs, k).key = id /\ Part(id, n, cs, k).index = k - 1
             /\ Part(id, n, cs, k).nonce = k - 1 /\ Part(id, n, cs, k).data = Slice(id, n, cs, k)
  BY DEF Part, Sealed
<1>3. PICK b : b = [k \in 1 .. q |-> Part(id, n, cs, k)]
  OBVIOUS
<1>4. Split(id, Content(id, n), cs) = b
  BY <1>1, <1>3, SplitIs
<1>5. Own(id, n, cs) = {b[k] : k \in 1 .. q}
  BY <1>3, <1>4 DEF Own, ToSet
<1>6. \A c : c \in Own(id, n, cs) <=> \E k \in 1 .. q : c = Part(id, n, cs, k)
  BY <1>3, <1>5
<1>7. PICK O : O = Own(id, n, cs)
  OBVIOUS
<1>8. b \in [1 .. q -> O]
  BY <1>3, <1>6, <1>7
<1>9. ASSUME NEW x \in 1 .. q, NEW y \in 1 .. q, b[x] = b[y] PROVE x = y
  <2>1. b[x].index = x - 1 /\ b[y].index = y - 1
    BY <1>2, <1>3
  <2>2. QED  BY <1>9, <2>1
<1>10. b \in Injection(1 .. q, O)
  BY <1>8, <1>9 DEF Injection, IsInjective
<1>11. b \in Surjection(1 .. q, O)
  BY <1>5, <1>7, <1>8 DEF Surjection
<1>12. Cardinality(O) = q
  BY <1>10, <1>11, FS_CountingElements DEF ExistsBijection, Bijection
<1>13. QED  BY <1>1, <1>2, <1>6, <1>7, <1>12

\* The chunks in order, the file they hold, and what Reassemble makes of them.
Chosen(chunks, i) == CHOOSE k \in DOMAIN chunks : chunks[k].index = i - 1
InLine(chunks) == [i \in DOMAIN chunks |-> chunks[Chosen(chunks, i)]]
Plain(chunks) == FlattenSeq([i \in DOMAIN InLine(chunks) |-> InLine(chunks)[i].data])
AllThere(chunks) == \A i \in DOMAIN chunks : \E k \in DOMAIN chunks : chunks[k].index = i - 1
Accepted(offer, chunks) ==
  /\ AllThere(chunks)
  /\ \A i \in DOMAIN chunks : Opens(offer, InLine(chunks)[i])
  /\ Len(Plain(chunks)) = offer.size /\ Plain(chunks) = offer.hash

\* What Reassemble returns: the file when the chunks are accepted, else an error.
LEMMA ReassembleIs ==
  ASSUME NEW offer, NEW chunks
  PROVE  /\ Reassemble(offer, chunks).ok <=> Accepted(offer, chunks)
         /\ Reassemble(offer, chunks).ok \in BOOLEAN
         /\ Accepted(offer, chunks) => Reassemble(offer, chunks).data = offer.hash
         /\ ~Accepted(offer, chunks) => Reassemble(offer, chunks).data = <<>>
<1>1. Reassemble(offer, chunks) =
        [ok |-> Accepted(offer, chunks), data |-> IF Accepted(offer, chunks) THEN Plain(chunks) ELSE <<>>]
  BY Zenon DEF Reassemble, Accepted, AllThere, Plain, InLine, Chosen
<1>2. Accepted(offer, chunks) \in BOOLEAN
  BY DEF Accepted, AllThere
<1>3. Accepted(offer, chunks) => Plain(chunks) = offer.hash
  BY DEF Accepted
<1>4. QED  BY <1>1, <1>2, <1>3

\* Reassemble is exact: of any collection of own chunks and of others, which no
\* key of this file opens, it takes those that are the file, in any order.
LEMMA ReassembleRight ==
  ASSUME NEW id, NEW n \in Nat, NEW cs \in Nat \ {0}, NEW Others, \A c \in Others : c.key # id,
         NEW k \in Nat, NEW taken \in [1 .. k -> Own(id, n, cs) \cup Others], NEW offer,
         offer = OfferOf(id, Content(id, n), cs)
  PROVE  Accepted(offer, taken) <=> ToSet(taken) = Own(id, n, cs) /\ k = Cardinality(Own(id, n, cs))
<1>1. PICK q \in Nat : q = PartsOf(n, cs)
  BY PartsCover
<1>2. offer.key = id /\ offer.size = n /\ offer.hash = Content(id, n)
  BY ContentIs DEF OfferOf
<1>3. PICK O : O = Own(id, n, cs)
  OBVIOUS
<1>4. /\ \A c : c \in O <=> \E j \in 1 .. q : c = Part(id, n, cs, j)
      /\ \A j : /\ Part(id, n, cs, j).key = id /\ Part(id, n, cs, j).index = j - 1
                /\ Part(id, n, cs, j).nonce = j - 1 /\ Part(id, n, cs, j).data = Slice(id, n, cs, j)
      /\ Cardinality(O) = q
  <2>1. \A c : c \in O <=> \E j \in 1 .. q : c = Part(id, n, cs, j)
    BY <1>1, <1>3, OwnAre
  <2>2. \A j : /\ Part(id, n, cs, j).key = id /\ Part(id, n, cs, j).index = j - 1
              /\ Part(id, n, cs, j).nonce = j - 1 /\ Part(id, n, cs, j).data = Slice(id, n, cs, j)
    BY DEF Part, Sealed
  <2>3. Cardinality(O) = q
    BY <1>1, <1>3, OwnAre
  <2>4. QED  BY <2>1, <2>2, <2>3
<1>5. DOMAIN taken = 1 .. k /\ \A i \in 1 .. k : taken[i] \in O \cup Others
  BY <1>3
<1>6. PICK line : line = InLine(taken)
  OBVIOUS
<1>7. DOMAIN line = 1 .. k /\ \A i \in 1 .. k : line[i] = taken[Chosen(taken, i)]
  BY <1>5, <1>6 DEF InLine
<1>8. AllThere(taken) => \A i \in 1 .. k : Chosen(taken, i) \in 1 .. k /\ line[i].index = i - 1
  <2>1. ASSUME AllThere(taken), NEW i \in 1 .. k
        PROVE  Chosen(taken, i) \in 1 .. k /\ taken[Chosen(taken, i)].index = i - 1
    BY <1>5, <2>1 DEF AllThere, Chosen
  <2>2. QED  BY <1>7, <2>1
\* Own chunks in line are the first k parts.
<1>9. ASSUME AllThere(taken), \A i \in 1 .. k : line[i] \in O
      PROVE  /\ \A i \in 1 .. k : i \in 1 .. q /\ line[i] = Part(id, n, cs, i)
             /\ k <= q
             /\ k = 0 => Plain(taken) = <<>>
             /\ k # 0 => Plain(taken) = SubSeq(Content(id, n), 1, Cut(n, cs, k))
  <2>1. ASSUME NEW i \in 1 .. k PROVE i \in 1 .. q /\ line[i] = Part(id, n, cs, i)
    <3>1. PICK j \in 1 .. q : line[i] = Part(id, n, cs, j)
      BY <1>4, <1>9
    <3>2. line[i].index = i - 1 /\ line[i].index = j - 1
      BY <1>4, <1>8, <1>9, <3>1
    <3>3. i = j
      BY <3>2
    <3>4. QED  BY <3>1, <3>3
  <2>2. k <= q
    <3>1. CASE k = 0
      BY <3>1
    <3>2. CASE k # 0
      <4>1. k \in 1 .. k
        BY <3>2
      <4>2. QED  BY <2>1, <4>1
    <3>3. QED  BY <3>1, <3>2
  <2>3. PICK s : s = [i \in 1 .. k |-> Slice(id, n, cs, i)]
    OBVIOUS
  <2>4. [i \in DOMAIN line |-> line[i].data] = s
    BY <1>4, <1>7, <2>1, <2>3
  <2>5. Plain(taken) = FlattenSeq(s)
    BY <1>6, <2>4 DEF Plain
  <2>6. CASE k = 0
    <3>1. s = <<>>
      BY <2>3, <2>6
    <3>2. FlattenSeq(<<>>) = <<>>
      BY DEF FlattenSeq
    <3>3. QED  BY <2>1, <2>2, <2>5, <2>6, <3>1, <3>2
  <2>7. CASE k # 0
    <3>1. k \in 1 .. PartsOf(n, cs)
      BY <1>1, <2>2, <2>7
    <3>2. FlattenSeq(s) = SubSeq(Content(id, n), 1, Cut(n, cs, k))
      BY <2>3, <3>1, SlicesJoin
    <3>3. QED  BY <2>1, <2>2, <2>5, <2>7, <3>2
  <2>8. QED  BY <2>6, <2>7
<1>10. ASSUME Accepted(offer, taken) PROVE ToSet(taken) = O /\ k = q
  <2>1. /\ AllThere(taken) /\ \A i \in 1 .. k : Opens(offer, line[i])
        /\ Len(Plain(taken)) = n
    BY <1>2, <1>5, <1>6, <1>10 DEF Accepted
  <2>2. \A i \in 1 .. k : line[i].key = id
    BY <1>2, <2>1 DEF Opens
  <2>3. \A i \in 1 .. k : line[i] \in O
    BY <1>5, <1>7, <1>8, <2>1, <2>2
  <2>4. k = q
    <3>1. CASE k = 0
      <4>1. Plain(taken) = <<>>
        BY <1>9, <2>1, <2>3, <3>1
      <4>2. n = 0
        BY <2>1, <4>1
      <4>3. ~(0 < q)
        BY <1>1, <4>2, PartsCover
      <4>4. QED  BY <3>1, <4>3
    <3>2. CASE k # 0
      <4>1. k \in 1 .. PartsOf(n, cs)
        BY <1>1, <1>9, <2>1, <2>3, <3>2
      <4>2. Plain(taken) = SubSeq(Content(id, n), 1, Cut(n, cs, k))
        BY <1>9, <2>1, <2>3, <3>2
      <4>3. Cut(n, cs, k) \in 1 .. n /\ (k = PartsOf(n, cs) <=> Cut(n, cs, k) = n)
        BY <4>1, CutIs
      <4>4. Len(SubSeq(Content(id, n), 1, Cut(n, cs, k))) = Cut(n, cs, k)
        <5>1. Content(id, n) \in Seq({id} \X Nat) /\ Len(Content(id, n)) = n
          BY ContentIs
        <5>2. QED  BY <4>3, <5>1
      <4>5. QED  BY <1>1, <2>1, <4>2, <4>3, <4>4
    <3>3. QED  BY <3>1, <3>2
  <2>5. PICK h : h = [i \in 1 .. k |-> Chosen(taken, i)]
    OBVIOUS
  <2>6. h \in [1 .. k -> 1 .. k]
    BY <1>8, <2>1, <2>5
  <2>7. ASSUME NEW x \in 1 .. k, NEW y \in 1 .. k, h[x] = h[y] PROVE x = y
    <3>1. line[x] = line[y] /\ line[x].index = x - 1 /\ line[y].index = y - 1
      BY <1>7, <1>8, <2>1, <2>5, <2>7
    <3>2. QED  BY <3>1
  <2>8. h \in Injection(1 .. k, 1 .. k)
    BY <2>6, <2>7 DEF Injection, IsInjective
  <2>9. h \in Surjection(1 .. k, 1 .. k)
    <3>1. IsFiniteSet(1 .. k)
      BY FS_Interval
    <3>2. QED  BY <2>8, <3>1, FS_Injection
  <2>10. ASSUME NEW j \in 1 .. k PROVE taken[j] \in O
    <3>1. PICK i \in 1 .. k : h[i] = j
      BY <2>9 DEF Surjection
    <3>2. line[i] = taken[j]
      BY <1>7, <2>5, <3>1
    <3>3. QED  BY <2>3, <3>2
  <2>11. ASSUME NEW c \in O PROVE \E j \in 1 .. k : taken[j] = c
    <3>1. PICK i \in 1 .. q : c = Part(id, n, cs, i)
      BY <1>4
    <3>2. i \in 1 .. k /\ line[i] = c
      BY <1>9, <2>1, <2>3, <2>4, <3>1
    <3>3. Chosen(taken, i) \in 1 .. k /\ taken[Chosen(taken, i)] = c
      BY <1>7, <1>8, <2>1, <3>2
    <3>4. QED  BY <3>3
  <2>12. ToSet(taken) = O
    BY <1>5, <2>10, <2>11 DEF ToSet
  <2>13. QED  BY <2>4, <2>12
<1>11. ASSUME ToSet(taken) = O, k = q PROVE Accepted(offer, taken)
  <2>1. (\A j \in 1 .. k : taken[j] \in O) /\ \A c \in O : \E j \in 1 .. k : taken[j] = c
    BY <1>5, <1>11 DEF ToSet
  <2>2. AllThere(taken)
    <3>1. ASSUME NEW i \in 1 .. k PROVE \E j \in 1 .. k : taken[j].index = i - 1
      <4>1. Part(id, n, cs, i) \in O /\ Part(id, n, cs, i).index = i - 1
        BY <1>4, <1>11
      <4>2. QED  BY <2>1, <4>1
    <3>2. QED  BY <1>5, <3>1 DEF AllThere
  <2>3. \A i \in 1 .. k : line[i] \in O
    BY <1>7, <1>8, <2>1, <2>2
  <2>4. \A i \in 1 .. k : Opens(offer, line[i])
    <3>1. \A i \in 1 .. k : line[i] = Part(id, n, cs, i)
      BY <1>9, <2>2, <2>3
    <3>2. QED  BY <1>2, <1>4, <3>1 DEF Opens
  <2>5. Plain(taken) = Content(id, n)
    <3>0. Content(id, n) \in Seq({id} \X Nat) /\ Len(Content(id, n)) = n
      BY ContentIs
    <3>1. CASE k = 0
      <4>1. Plain(taken) = <<>>
        BY <1>9, <2>2, <2>3, <3>1
      <4>2. n <= PartsOf(n, cs) * cs
        BY PartsCover
      <4>3. PartsOf(n, cs) = 0
        BY <1>1, <1>11, <3>1
      <4>4. n = 0
        BY <4>2, <4>3
      <4>5. Content(id, n) = <<>>
        BY <4>4 DEF Content
      <4>6. QED  BY <4>1, <4>5
    <3>2. CASE k # 0
      <4>1. k \in 1 .. PartsOf(n, cs) /\ k = PartsOf(n, cs)
        BY <1>1, <1>11, <3>2
      <4>2. Cut(n, cs, k) = n
        BY <4>1, CutIs
      <4>3. Plain(taken) = SubSeq(Content(id, n), 1, n)
        BY <1>9, <2>2, <2>3, <3>2, <4>2
      <4>4. SubSeq(Content(id, n), 1, n) = Content(id, n)
        BY <3>0
      <4>5. QED  BY <4>3, <4>4
    <3>3. QED  BY <3>1, <3>2
  <2>6. Len(Plain(taken)) = offer.size /\ Plain(taken) = offer.hash
    <3>1. Len(Content(id, n)) = n
      BY ContentIs
    <3>2. QED  BY <1>2, <2>5, <3>1
  <2>7. \A i \in DOMAIN taken : Opens(offer, InLine(taken)[i])
    BY <1>5, <1>6, <2>4
  <2>8. QED  BY <2>2, <2>6, <2>7 DEF Accepted
<1>12. QED  BY <1>3, <1>4, <1>10, <1>11

\* What ReassembleExact says of one collection of chunks.
ExactFor(id, n, cs, k, taken) ==
  LET file == Reassemble(OfferOf(id, Content(id, n), cs), taken)
      complete == ToSet(taken) = Own(id, n, cs) /\ k = Cardinality(Own(id, n, cs))
  IN file.ok = complete /\ (complete => file.data = Content(id, n))

\* Reassemble, for files of any length, any chunk size and any number of chunks
\* handed to it: of a collection of chunks of a file and of another one, in any
\* order, it takes exactly those that are the file.
THEOREM ReassembleTakes ==
  ASSUME NEW id, NEW gid, id # gid, NEW n \in Nat, NEW cs \in Nat \ {0}, NEW k \in Nat,
         NEW taken \in [1 .. k -> Own(id, n, cs) \cup Own(gid, n, cs)]
  PROVE  ExactFor(id, n, cs, k, taken)
<1>1. PICK offer : offer = OfferOf(id, Content(id, n), cs)
  OBVIOUS
<1>2. PICK Oth : Oth = Own(gid, n, cs)
  OBVIOUS
<1>3. ASSUME NEW c \in Oth PROVE c.key # id
  <2>1. \E j \in 1 .. PartsOf(n, cs) : c = Part(gid, n, cs, j)
    BY <1>2, OwnAre
  <2>2. c.key = gid
    BY <2>1 DEF Part, Sealed
  <2>3. QED  BY <2>2
<1>4. taken \in [1 .. k -> Own(id, n, cs) \cup Oth]
  BY <1>2
<1>5. Accepted(offer, taken) <=> ToSet(taken) = Own(id, n, cs) /\ k = Cardinality(Own(id, n, cs))
  BY <1>1, <1>3, <1>4, ReassembleRight
<1>6. offer.hash = Content(id, n)
  BY <1>1 DEF OfferOf
<1>7. PICK file : file = Reassemble(offer, taken)
  OBVIOUS
<1>8. /\ file.ok <=> Accepted(offer, taken)
      /\ file.ok \in BOOLEAN
      /\ Accepted(offer, taken) => file.data = offer.hash
  BY <1>7, ReassembleIs
<1>9. QED  BY <1>1, <1>5, <1>6, <1>7, <1>8 DEF ExactFor

\* The instance that TLC goes through.
LEMMA ReassembleExactHolds == ReassembleExact
<1>1. ASSUME NEW n \in 0 .. MaxSize, NEW cs \in 1 .. MaxChunkSize, NEW k \in 0 .. MaxTaken,
             NEW taken \in [1 .. k -> Own("f", n, cs) \cup Own("g", n, cs)]
      PROVE  ExactFor("f", n, cs, k, taken)
  <2>1. n \in Nat /\ cs \in Nat \ {0} /\ k \in Nat /\ "f" # "g"
    BY DEF MaxSize, MaxChunkSize, MaxTaken
  <2>2. QED  BY <2>1, ReassembleTakes
<1>2. QED  BY <1>1, Zenon DEF ReassembleExact, ExactFor, Own

-----------------------------------------------------------------------------
(* The pipe: programs, frames and types *)

\* The calls that programs make.
Kinds == {"dial", "accept", "text", "typing", "file", "read"}
Calls == [what : Kinds, end : Ends]

\* The goroutines that read from an end, and that dial.
ReaderOf(e) == IF prog = "harness" THEN "main" ELSE IF e = "a" THEN "left" ELSE "right"
Dialler == IF prog = "harness" THEN "main" ELSE "left"

\* A call of a program: Dial comes first.
CallOk(g, k, c) ==
  /\ c.what = "dial" => k = 1 /\ c.end = "a" /\ g = Dialler
  /\ c.what = "accept" => c.end = "b"
  /\ c.what = "read" => g = ReaderOf(c.end)

\* The fields of a call.
LEMMA CallIs ==
  ASSUME NEW w \in Kinds, NEW e \in Ends
  PROVE  Call(w, e) \in Calls /\ Call(w, e).what = w /\ Call(w, e).end = e
BY DEF Call, Calls

\* The calls of a program.
LEMMA ScriptIs ==
  ASSUME prog \in Programs, NEW g \in Goroutines
  PROVE  /\ Script(g) \in Seq(Calls) /\ Len(Script(g)) \in Nat
         /\ DOMAIN Script(g) = 1 .. Len(Script(g))
         /\ \A k \in DOMAIN Script(g) : Script(g)[k] \in Calls /\ CallOk(g, k, Script(g)[k])
<1>1. prog \in {"none", "harness", "readers", "crossed"}
  BY PipeAssumption
<1>2. \A w \in Kinds : w \in {"dial", "accept", "text", "typing", "file", "read"}
  BY DEF Kinds
<1>3. CASE prog = "harness" /\ g = "main"
  <2>1. PICK c1, c2, c3, c4, c5, c6 : /\ c1 = Call("dial", "a") /\ c2 = Call("accept", "b") /\ c3 = Call("text", "a")
                                      /\ c4 = Call("read", "b") /\ c5 = Call("file", "a") /\ c6 = Call("read", "b")
    OBVIOUS
  <2>2. Script(g) = <<c1, c2, c3, c4, c5, c6>>
    BY <1>3, <2>1 DEF Script
  <2>3. c1 \in Calls /\ c1.what = "dial" /\ c1.end = "a"
    BY <2>1, CallIs DEF Kinds, Ends
  <2>4. c2 \in Calls /\ c2.what = "accept" /\ c2.end = "b"
    BY <2>1, CallIs DEF Kinds, Ends
  <2>5. c3 \in Calls /\ c3.what = "text" /\ c3.end = "a"
    BY <2>1, CallIs DEF Kinds, Ends
  <2>6. c4 \in Calls /\ c4.what = "read" /\ c4.end = "b"
    BY <2>1, CallIs DEF Kinds, Ends
  <2>7. c5 \in Calls /\ c5.what = "file" /\ c5.end = "a"
    BY <2>1, CallIs DEF Kinds, Ends
  <2>8. c6 \in Calls /\ c6.what = "read" /\ c6.end = "b"
    BY <2>1, CallIs DEF Kinds, Ends
  <2>9. Len(Script(g)) = 6 /\ Script(g) \in Seq(Calls)
    BY <2>2, <2>3, <2>4, <2>5, <2>6, <2>7, <2>8
  <2>10. /\ Script(g)[1] = c1 /\ Script(g)[2] = c2 /\ Script(g)[3] = c3
         /\ Script(g)[4] = c4 /\ Script(g)[5] = c5 /\ Script(g)[6] = c6
    BY <2>2
  <2>11. /\ CallOk(g, 1, c1) /\ CallOk(g, 2, c2) /\ CallOk(g, 3, c3)
         /\ CallOk(g, 4, c4) /\ CallOk(g, 5, c5) /\ CallOk(g, 6, c6)
    BY <1>3, <2>3, <2>4, <2>5, <2>6, <2>7, <2>8 DEF CallOk, ReaderOf, Dialler
  <2>12. QED  BY <2>3, <2>4, <2>5, <2>6, <2>7, <2>8, <2>9, <2>10, <2>11
<1>4. CASE prog = "readers" /\ g = "left"
  <2>1. PICK c1, c2, c3 : c1 = Call("dial", "a") /\ c2 = Call("file", "a") /\ c3 = Call("text", "a")
    OBVIOUS
  <2>2. Script(g) = <<c1, c2, c3>>
    BY <1>4, <2>1 DEF Script
  <2>3. c1 \in Calls /\ c1.what = "dial" /\ c1.end = "a"
    BY <2>1, CallIs DEF Kinds, Ends
  <2>4. c2 \in Calls /\ c2.what = "file" /\ c2.end = "a"
    BY <2>1, CallIs DEF Kinds, Ends
  <2>5. c3 \in Calls /\ c3.what = "text" /\ c3.end = "a"
    BY <2>1, CallIs DEF Kinds, Ends
  <2>6. Len(Script(g)) = 3 /\ Script(g) \in Seq(Calls)
    BY <2>2, <2>3, <2>4, <2>5
  <2>7. Script(g)[1] = c1 /\ Script(g)[2] = c2 /\ Script(g)[3] = c3
    BY <2>2
  <2>8. CallOk(g, 1, c1) /\ CallOk(g, 2, c2) /\ CallOk(g, 3, c3)
    BY <1>4, <2>3, <2>4, <2>5 DEF CallOk, ReaderOf, Dialler
  <2>9. QED  BY <2>3, <2>4, <2>5, <2>6, <2>7, <2>8
<1>5. CASE prog = "readers" /\ g = "third"
  <2>1. PICK c1, c2 : c1 = Call("typing", "a") /\ c2 = Call("text", "a")
    OBVIOUS
  <2>2. Script(g) = <<c1, c2>>
    BY <1>5, <2>1 DEF Script
  <2>3. c1 \in Calls /\ c1.what = "typing" /\ c1.end = "a"
    BY <2>1, CallIs DEF Kinds, Ends
  <2>4. c2 \in Calls /\ c2.what = "text" /\ c2.end = "a"
    BY <2>1, CallIs DEF Kinds, Ends
  <2>5. Len(Script(g)) = 2 /\ Script(g) \in Seq(Calls)
    BY <2>2, <2>3, <2>4
  <2>6. Script(g)[1] = c1 /\ Script(g)[2] = c2
    BY <2>2
  <2>7. CallOk(g, 1, c1) /\ CallOk(g, 2, c2)
    BY <1>5, <2>3, <2>4 DEF CallOk, ReaderOf, Dialler
  <2>8. QED  BY <2>3, <2>4, <2>5, <2>6, <2>7
<1>6. CASE prog = "readers" /\ g = "right"
  <2>1. PICK c1, c2, c3, c4, c5 : /\ c1 = Call("accept", "b") /\ c2 = Call("read", "b") /\ c3 = Call("read", "b")
                                  /\ c4 = Call("read", "b") /\ c5 = Call("read", "b")
    OBVIOUS
  <2>2. Script(g) = <<c1, c2, c3, c4, c5>>
    BY <1>6, <2>1 DEF Script
  <2>3. c1 \in Calls /\ c1.what = "accept" /\ c1.end = "b"
    BY <2>1, CallIs DEF Kinds, Ends
  <2>4. c2 \in Calls /\ c2.what = "read" /\ c2.end = "b"
    BY <2>1, CallIs DEF Kinds, Ends
  <2>5. c3 \in Calls /\ c3.what = "read" /\ c3.end = "b"
    BY <2>1, CallIs DEF Kinds, Ends
  <2>6. c4 \in Calls /\ c4.what = "read" /\ c4.end = "b"
    BY <2>1, CallIs DEF Kinds, Ends
  <2>7. c5 \in Calls /\ c5.what = "read" /\ c5.end = "b"
    BY <2>1, CallIs DEF Kinds, Ends
  <2>8. Len(Script(g)) = 5 /\ Script(g) \in Seq(Calls)
    BY <2>2, <2>3, <2>4, <2>5, <2>6, <2>7
  <2>9. /\ Script(g)[1] = c1 /\ Script(g)[2] = c2 /\ Script(g)[3] = c3
        /\ Script(g)[4] = c4 /\ Script(g)[5] = c5
    BY <2>2
  <2>10. CallOk(g, 1, c1) /\ CallOk(g, 2, c2) /\ CallOk(g, 3, c3) /\ CallOk(g, 4, c4) /\ CallOk(g, 5, c5)
    BY <1>6, <2>3, <2>4, <2>5, <2>6, <2>7 DEF CallOk, ReaderOf, Dialler
  <2>11. QED  BY <2>3, <2>4, <2>5, <2>6, <2>7, <2>8, <2>9, <2>10
<1>7. CASE prog = "crossed" /\ g = "left"
  <2>1. PICK c1, c2, c3 : c1 = Call("dial", "a") /\ c2 = Call("file", "a") /\ c3 = Call("read", "a")
    OBVIOUS
  <2>2. Script(g) = <<c1, c2, c3>>
    BY <1>7, <2>1 DEF Script
  <2>3. c1 \in Calls /\ c1.what = "dial" /\ c1.end = "a"
    BY <2>1, CallIs DEF Kinds, Ends
  <2>4. c2 \in Calls /\ c2.what = "file" /\ c2.end = "a"
    BY <2>1, CallIs DEF Kinds, Ends
  <2>5. c3 \in Calls /\ c3.what = "read" /\ c3.end = "a"
    BY <2>1, CallIs DEF Kinds, Ends
  <2>6. Len(Script(g)) = 3 /\ Script(g) \in Seq(Calls)
    BY <2>2, <2>3, <2>4, <2>5
  <2>7. Script(g)[1] = c1 /\ Script(g)[2] = c2 /\ Script(g)[3] = c3
    BY <2>2
  <2>8. CallOk(g, 1, c1) /\ CallOk(g, 2, c2) /\ CallOk(g, 3, c3)
    BY <1>7, <2>3, <2>4, <2>5 DEF CallOk, ReaderOf, Dialler
  <2>9. QED  BY <2>3, <2>4, <2>5, <2>6, <2>7, <2>8
<1>8. CASE prog = "crossed" /\ g = "right"
  <2>1. PICK c1, c2, c3 : c1 = Call("accept", "b") /\ c2 = Call("file", "b") /\ c3 = Call("read", "b")
    OBVIOUS
  <2>2. Script(g) = <<c1, c2, c3>>
    BY <1>8, <2>1 DEF Script
  <2>3. c1 \in Calls /\ c1.what = "accept" /\ c1.end = "b"
    BY <2>1, CallIs DEF Kinds, Ends
  <2>4. c2 \in Calls /\ c2.what = "file" /\ c2.end = "b"
    BY <2>1, CallIs DEF Kinds, Ends
  <2>5. c3 \in Calls /\ c3.what = "read" /\ c3.end = "b"
    BY <2>1, CallIs DEF Kinds, Ends
  <2>6. Len(Script(g)) = 3 /\ Script(g) \in Seq(Calls)
    BY <2>2, <2>3, <2>4, <2>5
  <2>7. Script(g)[1] = c1 /\ Script(g)[2] = c2 /\ Script(g)[3] = c3
    BY <2>2
  <2>8. CallOk(g, 1, c1) /\ CallOk(g, 2, c2) /\ CallOk(g, 3, c3)
    BY <1>8, <2>3, <2>4, <2>5 DEF CallOk, ReaderOf, Dialler
  <2>9. QED  BY <2>3, <2>4, <2>5, <2>6, <2>7, <2>8
<1>9. CASE /\ ~(prog = "harness" /\ g = "main") /\ ~(prog = "crossed" /\ g \in {"left", "right"})
           /\ ~(prog = "readers" /\ g \in {"left", "right", "third"})
  <2>1. Script(g) = <<>>
    BY <1>9 DEF Script
  <2>2. QED  BY <2>1
<1>10. QED  BY <1>3, <1>4, <1>5, <1>6, <1>7, <1>8, <1>9

\* Messages are named by the call that sends them; the frames of a call.
Ids == Goroutines \X Nat
Parts(e) == PartsOf(size[e], ChunkSize)
OfferTo(e, id) == OfferOf(id, Content(id, size[e]), ChunkSize)
OfferFrame(e, id) == [type |-> "offer", id |-> id, body |-> OfferTo(e, id)]
ChunkFrame(e, id, k) == [type |-> "chunk", id |-> id, body |-> Part(id, size[e], ChunkSize, k)]
PlainFrame(w, id) == [type |-> w, id |-> id, body |-> <<>>]

\* What a frame, a collected chunk and a received item can be.
Offers == {OfferOf(id, Content(id, n), ChunkSize) : id \in Ids, n \in Nat}
Pieces == {Part(id, n, ChunkSize, k) : id \in Ids, n \in Nat, k \in Nat}
Bodies == {<<>>} \cup Offers \cup Pieces
Wired ==
  [type : {"handshake", "text", "typing", "offer", "chunk"}, id : Ids \cup {<<>>},
   body : Bodies]
Chunks == Bodies \cup {Sealed(<<>>, 0, <<>>)}
Datas == {<<>>} \cup {Content(id, n) : id \in Ids, n \in Nat}
Items == [id : Ids, ok : BOOLEAN, data : Datas]

PipeTypes ==
  /\ prog \in Programs /\ size \in [Ends -> Nat] /\ done \in BOOLEAN /\ linked \subseteq Ends
  /\ at \in [Goroutines -> Nat] /\ sub \in [Goroutines -> Nat]
  /\ DOMAIN body = Goroutines
  /\ wire \in [Ends -> Seq(Wired)]
  /\ sendMu \in [Ends -> Goroutines \cup {"none"}]
  /\ saved \in [Ends -> Seq(Ids)]
  /\ got \in [Ends -> Seq(Items)]

\* A call that sends, under sendMu.
Sends(g) == In(g, "text") \/ In(g, "typing") \/ In(g, "file")

\* The pipe has two ends.
LEMMA OtherIs == \A e \in Ends : Other(e) \in Ends /\ Other(Other(e)) = e /\ Other(e) # e
BY DEF Ends, Other

\* A goroutine in a call.
LEMMA InIs ==
  ASSUME PipeTypes, NEW g \in Goroutines, NEW w, In(g, w)
  PROVE  /\ at[g] \in DOMAIN Script(g) /\ at[g] \in Nat \ {0} /\ ~Finished(g) /\ End(g) \in Ends
         /\ \A v : In(g, v) => v = w
         /\ Script(g)[at[g]].what = w
         /\ w = "dial" => at[g] = 1 /\ End(g) = "a" /\ g = Dialler
         /\ w = "accept" => End(g) = "b"
         /\ w = "read" => g = ReaderOf(End(g))
<1>1. prog \in Programs
  BY DEF PipeTypes
<1>2. PICK k, c : k = at[g] /\ c = Script(g)[k]
  OBVIOUS
<1>3. k \in DOMAIN Script(g) /\ c.what = w /\ End(g) = c.end
  BY <1>2 DEF In, End
<1>4. c \in Calls /\ CallOk(g, k, c) /\ k \in 1 .. Len(Script(g)) /\ Len(Script(g)) \in Nat
  BY <1>1, <1>2, <1>3, ScriptIs
<1>5. c.end \in Ends
  BY <1>4 DEF Calls
<1>6. k \in Nat \ {0}
  BY <1>4
<1>7. \A v : In(g, v) => v = w
  BY <1>2, <1>3 DEF In
<1>8. ~Finished(g)
  BY <1>2, <1>3 DEF Finished
<1>9. QED  BY <1>2, <1>3, <1>4, <1>5, <1>6, <1>7, <1>8 DEF CallOk

\* Nothing changes for a goroutine that stays in its call.
LEMMA SameCall ==
  ASSUME prog' = prog, size' = size, NEW g, at'[g] = at[g]
  PROVE  /\ Script(g)' = Script(g)
         /\ \A w : In(g, w)' <=> In(g, w)
         /\ End(g)' = End(g) /\ (Finished(g)' <=> Finished(g)) /\ Id(g)' = Id(g)
         /\ Frames(g)' = Frames(g)
<1>1. Script(g)' = Script(g)
  BY DEF Script
<1>2. (\A w : In(g, w)' <=> In(g, w)) /\ End(g)' = End(g) /\ (Finished(g)' <=> Finished(g)) /\ Id(g)' = Id(g)
  BY <1>1 DEF In, End, Finished, Id
<1>3. Frames(g)' = Frames(g)
  BY <1>1, <1>2 DEF Frames
<1>4. QED  BY <1>1, <1>2, <1>3

\* The frames of a call that sends: the first one is shown to the receiver, the
\* others are the chunks of a file.
LEMMA FramesAre ==
  ASSUME PipeTypes, NEW g \in Goroutines, Sends(g)
  PROVE  /\ Parts(End(g)) \in Nat /\ Id(g) \in Ids
         /\ In(g, "file") => /\ Len(Frames(g)) = Parts(End(g)) + 1
                             /\ Frames(g)[1] = OfferFrame(End(g), Id(g))
                             /\ \A k \in 1 .. Parts(End(g)) : Frames(g)[k + 1] = ChunkFrame(End(g), Id(g), k)
         /\ ~In(g, "file") => /\ Len(Frames(g)) = 1
                              /\ Frames(g)[1] = PlainFrame("text", Id(g)) \/ Frames(g)[1] = PlainFrame("typing", Id(g))
<1>1. PICK e, id, n : e = End(g) /\ id = Id(g) /\ n = size[e]
  OBVIOUS
<1>2. e \in Ends /\ at[g] \in Nat
  BY <1>1, InIs DEF Sends
<1>3. n \in Nat /\ ChunkSize \in Nat \ {0}
  BY <1>1, <1>2, PipeAssumption DEF PipeTypes
<1>4. id \in Ids
  BY <1>1, <1>2 DEF Id, Ids
<1>5. PICK q \in Nat : q = PartsOf(n, ChunkSize)
  BY <1>3, PartsCover
<1>6. Parts(e) = q
  BY <1>1, <1>5 DEF Parts
<1>7. CASE In(g, "file")
  <2>1. PICK s : s = [k \in 1 .. q |-> Part(id, n, ChunkSize, k)]
    OBVIOUS
  <2>2. Split(id, Content(id, n), ChunkSize) = s
    BY <1>3, <1>5, <2>1, SplitIs
  <2>3. PICK t : t = [k \in 1 .. q |-> ChunkFrame(e, id, k)]
    OBVIOUS
  <2>4. [k \in DOMAIN s |-> [type |-> "chunk", id |-> id, body |-> s[k]]] = t
    BY <1>1, <2>1, <2>3 DEF ChunkFrame
  <2>5. Frames(g) = <<OfferFrame(e, id)>> \o [k \in DOMAIN s |-> [type |-> "chunk", id |-> id, body |-> s[k]]]
    BY <1>1, <1>7, <2>2 DEF Frames, OfferFrame, OfferTo
  <2>6. PICK S : t \in Seq(S) /\ OfferFrame(e, id) \in S
    <3>1. PICK S : S = {t[k] : k \in 1 .. q} \cup {OfferFrame(e, id)}
      OBVIOUS
    <3>2. t \in [1 .. q -> S] /\ OfferFrame(e, id) \in S
      BY <2>3, <3>1
    <3>3. QED  BY <3>2
  <2>7. PICK o : o = <<OfferFrame(e, id)>>
    OBVIOUS
  <2>8. o \in Seq(S) /\ Len(o) = 1 /\ o[1] = OfferFrame(e, id)
    BY <2>6, <2>7
  <2>9. Frames(g) = o \o t /\ Len(t) = q
    <3>1. Frames(g) = o \o t
      BY <2>4, <2>5, <2>7
    <3>2. Len(t) = q
      BY <2>3
    <3>3. QED  BY <3>1, <3>2
  <2>10. /\ Len(o \o t) = Len(o) + Len(t)
         /\ \A i \in 1 .. Len(o) + Len(t) : (o \o t)[i] = IF i <= Len(o) THEN o[i] ELSE t[i - Len(o)]
    BY <2>6, <2>8, ConcatProperties
  <2>11. Len(Frames(g)) = q + 1 /\ Frames(g)[1] = o[1] /\ \A k \in 1 .. q : Frames(g)[k + 1] = t[k]
    BY <2>8, <2>9, <2>10
  <2>12. QED  BY <1>1, <1>4, <1>6, <1>7, <2>3, <2>8, <2>11
<1>8. CASE ~In(g, "file")
  <2>1. Frames(g) = <<[type |-> Script(g)[at[g]].what, id |-> Id(g), body |-> <<>>]>>
    BY <1>8 DEF Frames
  <2>2. Script(g)[at[g]].what = "text" \/ Script(g)[at[g]].what = "typing"
    BY <1>8 DEF Sends, In
  <2>3. QED  BY <1>1, <1>4, <1>6, <1>8, <2>1, <2>2 DEF PlainFrame
<1>9. QED  BY <1>7, <1>8

\* Frames that the receiver is shown, and the goroutine that reads them; a file
\* is collected while its chunks are still to come.
Shown(f) == f.type \in {"text", "typing", "offer"}
Reader(g, e) == In(g, "read") /\ End(g) = Other(e)
Collects(g, e) == Reader(g, e) /\ body[g] # NoBody

\* sendMu is held by a goroutine in a call that sends on that end; frames are sent under it.
Locked ==
  /\ \A e \in Ends : \A g \in Goroutines : sendMu[e] = g => Sends(g) /\ End(g) = e /\ e \in linked
  /\ \A g \in Goroutines : sub[g] > 0 => ~Finished(g) /\ sendMu[End(g)] = g /\ sub[g] <= Len(Frames(g))

\* An end is dialled once.
Undialled == \A g \in Goroutines : In(g, "dial") => "a" \notin linked

\* Only a call that reads collects a file.
BodyIdle == \A g \in Goroutines : body[g] # NoBody => at[g] = 0 \/ In(g, "read")

\* Offers are the ones SendFile makes.
FrameTrue(e, f) ==
  /\ Shown(f) => f.id \in Ids
  /\ f.type = "offer" => f.body = OfferTo(e, f.id)
OffersTrue ==
  /\ \A e \in Ends : \A k \in DOMAIN wire[e] : FrameTrue(e, wire[e][k])
  /\ \A e \in Ends : \A g \in Goroutines : Collects(g, e) =>
       \E id \in Ids : body[g].offer = OfferTo(e, id) /\ body[g].chunks \in Seq(Chunks)

\* A received file has the content that was sent.
GotTrue ==
  \A e \in Ends : \A i \in DOMAIN got[e] :
    got[e][i].data # <<>> => got[e][i].data = Content(got[e][i].id, size[Other(e)])

\* What both inductive invariants rest on.
PipeBase == PipeTypes /\ Locked /\ Undialled /\ BodyIdle /\ OffersTrue /\ GotTrue

-----------------------------------------------------------------------------
\* A frame is taken from the channel.
LEMMA TakesIs ==
  ASSUME PipeTypes, NEW g \in Goroutines, End(g) \in Ends, Takes(g), NEW e, e = Other(End(g))
  PROVE  /\ e \in Ends /\ End(g) = Other(e) /\ wire' \in [Ends -> Seq(Wired)]
         /\ wire'[Other(e)] = wire[Other(e)]
         /\ Len(wire[e]) \in Nat \ {0} /\ DOMAIN wire[e] = 1 .. Len(wire[e])
         /\ Len(wire'[e]) = Len(wire[e]) - 1 /\ DOMAIN wire'[e] = 1 .. Len(wire[e]) - 1
         /\ \A i \in DOMAIN wire'[e] : i \in Nat /\ i + 1 \in DOMAIN wire[e] /\ wire'[e][i] = wire[e][i + 1]
         /\ Incoming(g) = wire[e][1] /\ 1 \in DOMAIN wire[e] /\ wire[e][1] \in Wired
<1>1. e \in Ends /\ End(g) = Other(e) /\ Other(e) \in Ends /\ Other(e) # e
  BY OtherIs
<1>2. PICK s, t : s = wire[e] /\ t = Tail(s)
  OBVIOUS
<1>3. s \in Seq(Wired) /\ wire \in [Ends -> Seq(Wired)]
  BY <1>1, <1>2 DEF PipeTypes
<1>4. s # <<>> /\ wire' = [wire EXCEPT ![e] = t] /\ Incoming(g) = Head(s)
  BY <1>2 DEF Takes, Incoming
<1>5. /\ Len(s) \in Nat \ {0} /\ DOMAIN s = 1 .. Len(s) /\ Head(s) = s[1] /\ s[1] \in Wired
      /\ t \in Seq(Wired) /\ Len(t) = Len(s) - 1 /\ DOMAIN t = 1 .. Len(s) - 1
      /\ \A i \in 1 .. Len(s) - 1 : t[i] = s[i + 1]
  BY <1>2, <1>3, <1>4
<1>6. wire' \in [Ends -> Seq(Wired)] /\ wire'[e] = t /\ wire'[Other(e)] = wire[Other(e)]
  BY <1>1, <1>3, <1>4, <1>5
<1>7. \A i \in DOMAIN t : i \in Nat /\ i + 1 \in DOMAIN s /\ t[i] = s[i + 1]
  BY <1>5
<1>8. 1 \in DOMAIN s
  BY <1>5
<1>9. QED  BY <1>1, <1>2, <1>4, <1>5, <1>6, <1>7, <1>8

\* A frame is put into the channel.
LEMMA PutsIs ==
  ASSUME PipeTypes, NEW e \in Ends, NEW f \in Wired, wire' = [wire EXCEPT ![e] = Append(@, f)]
  PROVE  /\ wire' \in [Ends -> Seq(Wired)] /\ wire'[Other(e)] = wire[Other(e)]
         /\ Len(wire[e]) \in Nat /\ DOMAIN wire[e] = 1 .. Len(wire[e])
         /\ Len(wire'[e]) = Len(wire[e]) + 1 /\ DOMAIN wire'[e] = 1 .. Len(wire[e]) + 1
         /\ wire'[e][Len(wire[e]) + 1] = f /\ \A i \in DOMAIN wire[e] : wire'[e][i] = wire[e][i]
<1>1. Other(e) \in Ends /\ Other(e) # e
  BY OtherIs
<1>2. PICK s, t : s = wire[e] /\ t = Append(s, f)
  OBVIOUS
<1>3. s \in Seq(Wired) /\ wire \in [Ends -> Seq(Wired)] /\ wire' = [wire EXCEPT ![e] = t]
  BY <1>2 DEF PipeTypes
<1>4. /\ Len(s) \in Nat /\ DOMAIN s = 1 .. Len(s) /\ t \in Seq(Wired) /\ Len(t) = Len(s) + 1
      /\ DOMAIN t = 1 .. Len(s) + 1 /\ t[Len(s) + 1] = f /\ \A i \in DOMAIN s : t[i] = s[i]
  BY <1>2, <1>3
<1>5. wire' \in [Ends -> Seq(Wired)] /\ wire'[e] = t /\ wire'[Other(e)] = wire[Other(e)]
  BY <1>1, <1>3, <1>4
<1>6. QED  BY <1>2, <1>4, <1>5

\* Another goroutine is not touched.
LEMMA StaysLocked ==
  ASSUME PipeTypes, Locked, NEW g \in Goroutines, prog' = prog, size' = size, NEW k \in Nat,
         at' = [at EXCEPT ![g] = k], sub' = [sub EXCEPT ![g] = 0], linked \subseteq linked',
         sendMu' \in [Ends -> Goroutines \cup {"none"}],
         \A e \in Ends : sendMu'[e] # g /\ \A h \in Goroutines \ {g} : sendMu'[e] = h <=> sendMu[e] = h
  PROVE  /\ Locked' /\ at' \in [Goroutines -> Nat] /\ sub' \in [Goroutines -> Nat]
         /\ \A h \in Goroutines \ {g} : at'[h] = at[h] /\ sub'[h] = sub[h]
         /\ at'[g] = k /\ sub'[g] = 0
<1>1. at \in [Goroutines -> Nat] /\ sub \in [Goroutines -> Nat]
  BY DEF PipeTypes
<1>2. /\ at' \in [Goroutines -> Nat] /\ sub' \in [Goroutines -> Nat] /\ at'[g] = k /\ sub'[g] = 0
      /\ \A h \in Goroutines \ {g} : at'[h] = at[h] /\ sub'[h] = sub[h]
  BY <1>1
<1>3. ASSUME NEW e \in Ends, NEW h \in Goroutines, sendMu'[e] = h
      PROVE  Sends(h)' /\ End(h)' = e /\ e \in linked'
  <2>1. h # g /\ sendMu[e] = h
    BY <1>3
  <2>2. Sends(h) /\ End(h) = e /\ e \in linked
    BY <2>1 DEF Locked
  <2>3. at'[h] = at[h]
    BY <1>2, <2>1
  <2>4. (\A w : In(h, w)' <=> In(h, w)) /\ End(h)' = End(h)
    BY <2>3, SameCall
  <2>5. QED  BY <2>2, <2>4 DEF Sends
<1>4. ASSUME NEW h \in Goroutines, sub'[h] > 0
      PROVE  ~Finished(h)' /\ sendMu'[End(h)'] = h /\ sub'[h] <= Len(Frames(h)')
  <2>1. h # g
    BY <1>2, <1>4
  <2>2. at'[h] = at[h] /\ sub'[h] = sub[h]
    BY <1>2, <2>1
  <2>3. ~Finished(h) /\ sendMu[End(h)] = h /\ sub[h] <= Len(Frames(h))
    BY <1>4, <2>2 DEF Locked
  <2>4. End(h)' = End(h) /\ (Finished(h)' <=> Finished(h)) /\ Frames(h)' = Frames(h)
    BY <2>2, SameCall
  <2>5. End(h) \in Ends
    <3>1. In(h, Script(h)[at[h]].what)
      BY <2>3 DEF In, Finished
    <3>2. QED  BY <3>1, InIs
  <2>6. sendMu'[End(h)] = h
    BY <2>1, <2>3, <2>5
  <2>7. QED  BY <2>2, <2>3, <2>4, <2>6
<1>5. Locked'
  BY <1>3, <1>4 DEF Locked
<1>6. QED  BY <1>2, <1>5

\* A goroutine that is in no call that sends does not hold sendMu.
LEMMA NoHolder ==
  ASSUME PipeTypes, Locked, NEW g \in Goroutines, NEW w, In(g, w), w \notin {"text", "typing", "file"}
  PROVE  (\A e \in Ends : sendMu[e] # g) /\ sub[g] = 0
<1>1. ~Sends(g)
  BY InIs DEF Sends
<1>2. \A e \in Ends : sendMu[e] # g
  BY <1>1 DEF Locked
<1>3. End(g) \in Ends /\ sub[g] \in Nat
  BY InIs DEF PipeTypes
<1>4. QED  BY <1>2, <1>3 DEF Locked

\* Calls after the first do not dial, and those of the others are as before.
LEMMA StaysUndialled ==
  ASSUME PipeTypes, Undialled, NEW g \in Goroutines, prog' = prog, size' = size,
         PipeTypes', at'[g] # 1, \A h \in Goroutines \ {g} : at'[h] = at[h],
         "a" \in linked' => "a" \in linked \/ \A h \in Goroutines : In(h, "dial") => h = g
  PROVE  Undialled'
<1>1. ASSUME NEW h \in Goroutines, In(h, "dial")' PROVE "a" \notin linked'
  <2>1. at'[h] = 1
    <3>1. prog' \in Programs
      BY DEF PipeTypes
    <3>2. PICK k, c : k = at'[h] /\ c = Script(h)'[k]
      OBVIOUS
    <3>3. k \in DOMAIN Script(h)' /\ c.what = "dial"
      BY <1>1, <3>2 DEF In
    <3>4. Script(h)' = Script(h) /\ prog \in Programs
      BY DEF Script, PipeTypes
    <3>5. CallOk(h, k, c)
      BY <3>2, <3>3, <3>4, ScriptIs
    <3>6. QED  BY <3>2, <3>3, <3>5 DEF CallOk
  <2>2. h # g /\ at'[h] = at[h]
    BY <2>1
  <2>3. In(h, "dial")
    BY <1>1, <2>2, SameCall
  <2>4. QED  BY <2>2, <2>3 DEF Undialled
<1>2. QED  BY <1>1 DEF Undialled

\* The fields of the frames.
LEMMA FrameShapes ==
  ASSUME PipeTypes, NEW e \in Ends, NEW id \in Ids
  PROVE  /\ Handshake \in Wired /\ Handshake.type = "handshake" /\ Handshake.id = <<>>
         /\ \A w \in {"text", "typing"} : /\ PlainFrame(w, id) \in Wired /\ PlainFrame(w, id).type = w
                                          /\ PlainFrame(w, id).id = id
         /\ OfferFrame(e, id) \in Wired /\ OfferFrame(e, id).type = "offer"
         /\ OfferFrame(e, id).id = id /\ OfferFrame(e, id).body = OfferTo(e, id)
         /\ \A k \in Nat : /\ ChunkFrame(e, id, k) \in Wired /\ ChunkFrame(e, id, k).type = "chunk"
                           /\ ChunkFrame(e, id, k).id = id
                           /\ ChunkFrame(e, id, k).body = Part(id, size[e], ChunkSize, k)
<1>1. size[e] \in Nat
  BY DEF PipeTypes
<1>2. OfferTo(e, id) \in Offers
  BY <1>1 DEF OfferTo, Offers
<1>3. \A k \in Nat : Part(id, size[e], ChunkSize, k) \in Pieces
  BY <1>1 DEF Pieces
<1>4. PICK B : B = {<<>>} \cup Offers \cup Pieces
  OBVIOUS
<1>5. Wired = [type : {"handshake", "text", "typing", "offer", "chunk"}, id : Ids \cup {<<>>}, body : B]
  BY <1>4 DEF Wired, Bodies
<1>6. Handshake \in Wired /\ Handshake.type = "handshake" /\ Handshake.id = <<>>
  BY <1>4, <1>5 DEF Handshake
<1>7. \A w \in {"text", "typing"} : /\ PlainFrame(w, id) \in Wired /\ PlainFrame(w, id).type = w
                                    /\ PlainFrame(w, id).id = id
  BY <1>4, <1>5 DEF PlainFrame
<1>8. OfferFrame(e, id) \in Wired /\ OfferFrame(e, id).type = "offer"
      /\ OfferFrame(e, id).id = id /\ OfferFrame(e, id).body = OfferTo(e, id)
  BY <1>2, <1>4, <1>5 DEF OfferFrame
<1>9. \A k \in Nat : /\ ChunkFrame(e, id, k) \in Wired /\ ChunkFrame(e, id, k).type = "chunk"
                     /\ ChunkFrame(e, id, k).id = id
                     /\ ChunkFrame(e, id, k).body = Part(id, size[e], ChunkSize, k)
  BY <1>3, <1>4, <1>5 DEF ChunkFrame
<1>10. QED  BY <1>6, <1>7, <1>8, <1>9

\* The k-th frame of a call that sends.
LEMMA FrameIs ==
  ASSUME PipeTypes, NEW g \in Goroutines, Sends(g), NEW k \in 1 .. Len(Frames(g)),
         NEW f, f = Frames(g)[k]
  PROVE  /\ Len(Frames(g)) \in Nat \ {0} /\ Id(g) \in Ids /\ End(g) \in Ends
         /\ f \in Wired /\ FrameTrue(End(g), f) /\ f.id = Id(g)
         /\ k = 1 => Shown(f)
         /\ k # 1 => /\ f = ChunkFrame(End(g), Id(g), k - 1) /\ k - 1 \in 1 .. Parts(End(g)) /\ In(g, "file")
                     /\ ~Shown(f) /\ ~Persistable(f)
         /\ k = 1 /\ In(g, "file") => f = OfferFrame(End(g), Id(g))
         /\ k = 1 /\ ~In(g, "file") => f.type \in {"text", "typing"}
<1>1. PICK e, id, q : e = End(g) /\ id = Id(g) /\ q = Parts(e)
  OBVIOUS
<1>2. e \in Ends
  BY <1>1, InIs DEF Sends
<1>3. /\ q \in Nat /\ id \in Ids
      /\ In(g, "file") => /\ Len(Frames(g)) = q + 1
                          /\ Frames(g)[1] = OfferFrame(e, id)
                          /\ \A j \in 1 .. q : Frames(g)[j + 1] = ChunkFrame(e, id, j)
      /\ ~In(g, "file") => /\ Len(Frames(g)) = 1
                           /\ Frames(g)[1] = PlainFrame("text", id) \/ Frames(g)[1] = PlainFrame("typing", id)
  BY <1>1, FramesAre
<1>4. Len(Frames(g)) \in Nat \ {0}
  BY <1>3
<1>5. CASE k = 1 /\ In(g, "file")
  <2>1. f = OfferFrame(e, id)
    BY <1>3, <1>5
  <2>2. f \in Wired /\ f.type = "offer" /\ f.id = id /\ f.body = OfferTo(e, id)
    BY <1>2, <1>3, <2>1, FrameShapes
  <2>3. QED  BY <1>1, <1>2, <1>3, <1>4, <1>5, <2>1, <2>2 DEF FrameTrue, Shown
<1>6. CASE k = 1 /\ ~In(g, "file")
  <2>1. PICK w \in {"text", "typing"} : f = PlainFrame(w, id)
    BY <1>3, <1>6
  <2>2. f \in Wired /\ f.type = w /\ f.id = id
    BY <1>2, <1>3, <2>1, FrameShapes
  <2>3. QED  BY <1>1, <1>2, <1>3, <1>4, <1>6, <2>1, <2>2 DEF FrameTrue, Shown
<1>7. CASE k # 1
  <2>1. In(g, "file") /\ k - 1 \in 1 .. q /\ (k - 1) + 1 = k
    BY <1>3, <1>7
  <2>2. f = ChunkFrame(e, id, k - 1)
    BY <1>3, <2>1
  <2>3. k - 1 \in Nat
    BY <1>3, <2>1
  <2>4. f \in Wired /\ f.type = "chunk" /\ f.id = id
    BY <1>2, <1>3, <2>2, <2>3, FrameShapes
  <2>5. QED  BY <1>1, <1>2, <1>3, <1>4, <1>7, <2>1, <2>2, <2>4 DEF FrameTrue, Shown, Persistable
<1>8. QED  BY <1>5, <1>6, <1>7

\* What is collected and what is on the wire stays as it is, or is dropped.
LEMMA StaysCollected ==
  ASSUME PipeTypes, BodyIdle, OffersTrue, NEW g \in Goroutines, prog' = prog, size' = size,
         \A h \in Goroutines \ {g} : at'[h] = at[h] /\ body'[h] = body[h],
         \/ body'[g] = NoBody
         \/ at'[g] = 0 /\ body'[g] = body[g]
         \/ at'[g] = at[g] /\ body'[g] = body[g],
         \A e \in Ends : \A k \in DOMAIN wire'[e] : FrameTrue(e, wire'[e][k])
  PROVE  /\ BodyIdle' /\ OffersTrue'
         /\ \A e \in Ends : \A h \in Goroutines : Collects(h, e)' => Collects(h, e) /\ body'[h] = body[h]
<1>1. ASSUME NEW e \in Ends, NEW h \in Goroutines, Collects(h, e)'
      PROVE  Collects(h, e) /\ body'[h] = body[h]
  <2>1. In(h, "read")' /\ End(h)' = Other(e) /\ body'[h] # NoBody
    BY <1>1 DEF Collects, Reader, Other, NoBody
  <2>2. at'[h] # 0
    <3>1. Script(h)' = Script(h) /\ prog \in Programs
      BY DEF Script, PipeTypes
    <3>2. at'[h] \in 1 .. Len(Script(h))
      BY <2>1, <3>1, ScriptIs DEF In
    <3>3. QED  BY <3>2
  <2>3. at'[h] = at[h] /\ body'[h] = body[h]
    BY <2>1, <2>2
  <2>4. In(h, "read") /\ End(h) = Other(e)
    BY <2>1, <2>3, SameCall
  <2>5. QED  BY <2>1, <2>3, <2>4 DEF Collects, Reader
<1>2. BodyIdle'
  <2>1. ASSUME NEW h \in Goroutines, body'[h] # NoBody PROVE at'[h] = 0 \/ In(h, "read")'
    <3>1. CASE at'[h] = 0
      BY <3>1
    <3>2. CASE at'[h] = at[h] /\ body'[h] = body[h]
      <4>1. at[h] = 0 \/ In(h, "read")
        BY <2>1, <3>2 DEF BodyIdle
      <4>2. QED  BY <3>2, <4>1, SameCall
    <3>3. QED  BY <2>1, <3>1, <3>2
  <2>2. NoBody' = NoBody
    BY DEF NoBody
  <2>3. QED  BY <2>1, <2>2 DEF BodyIdle
<1>3. OffersTrue'
  <2>1. \A e, id : OfferTo(e, id)' = OfferTo(e, id)
    BY DEF OfferTo
  <2>2. \A e \in Ends : \A k \in DOMAIN wire'[e] : FrameTrue(e, wire[e][k])'
    BY <2>1 DEF FrameTrue, Shown
  <2>3. \A e \in Ends : \A h \in Goroutines : Collects(h, e)' =>
          \E id \in Ids : body'[h].offer = OfferTo(e, id)' /\ body'[h].chunks \in Seq(Chunks)
    BY <1>1, <2>1 DEF OffersTrue
  <2>4. QED  BY <2>2, <2>3 DEF OffersTrue
<1>4. QED  BY <1>1, <1>2, <1>3

\* Frames on the wire after one was put or taken.
LEMMA PutTrue ==
  ASSUME PipeTypes, OffersTrue, NEW e \in Ends,
         NEW f \in Wired, wire' = [wire EXCEPT ![e] = Append(@, f)],
         FrameTrue(e, f)
  PROVE  \A d \in Ends : \A k \in DOMAIN wire'[d] : FrameTrue(d, wire'[d][k])
<1>1. /\ wire'[Other(e)] = wire[Other(e)] /\ Len(wire[e]) \in Nat /\ DOMAIN wire[e] = 1 .. Len(wire[e])
      /\ DOMAIN wire'[e] = 1 .. Len(wire[e]) + 1
      /\ wire'[e][Len(wire[e]) + 1] = f /\ \A i \in DOMAIN wire[e] : wire'[e][i] = wire[e][i]
  BY PutsIs
<1>2. ASSUME NEW k \in DOMAIN wire'[e] PROVE FrameTrue(e, wire'[e][k])
  <2>1. k = Len(wire[e]) + 1 \/ k \in DOMAIN wire[e]
    BY <1>1
  <2>2. QED  BY <1>1, <2>1 DEF OffersTrue
<1>3. ASSUME NEW k \in DOMAIN wire'[Other(e)] PROVE FrameTrue(Other(e), wire'[Other(e)][k])
  BY <1>1, OtherIs DEF OffersTrue
<1>4. \A d \in Ends : d = e \/ d = Other(e)
  BY DEF Ends, Other
<1>5. QED  BY <1>2, <1>3, <1>4

\* A frame that is taken, and those that stay, are frames SendFile made.
LEMMA TakeTrue ==
  ASSUME PipeTypes, OffersTrue, NEW g \in Goroutines, End(g) \in Ends, Takes(g)
  PROVE  /\ \A d \in Ends : \A k \in DOMAIN wire'[d] : FrameTrue(d, wire'[d][k])
         /\ FrameTrue(Other(End(g)), Incoming(g))
<1>1. PICK e : e = Other(End(g))
  OBVIOUS
<1>2. /\ e \in Ends /\ wire'[Other(e)] = wire[Other(e)]
      /\ \A i \in DOMAIN wire'[e] : i + 1 \in DOMAIN wire[e] /\ wire'[e][i] = wire[e][i + 1]
      /\ Incoming(g) = wire[e][1] /\ 1 \in DOMAIN wire[e]
  BY <1>1, TakesIs
<1>3. ASSUME NEW k \in DOMAIN wire'[e] PROVE FrameTrue(e, wire'[e][k])
  <2>1. k + 1 \in DOMAIN wire[e] /\ wire'[e][k] = wire[e][k + 1]
    BY <1>2
  <2>2. QED  BY <1>2, <2>1 DEF OffersTrue
<1>4. ASSUME NEW k \in DOMAIN wire'[Other(e)] PROVE FrameTrue(Other(e), wire'[Other(e)][k])
  BY <1>2, OtherIs DEF OffersTrue
<1>5. \A d \in Ends : d = e \/ d = Other(e)
  BY <1>2 DEF Ends, Other
<1>6. QED  BY <1>1, <1>2, <1>3, <1>4, <1>5 DEF OffersTrue

\* GotTrue when nothing is surfaced.
LEMMA StaysGot == GotTrue /\ size' = size /\ got' = got => GotTrue'
BY DEF GotTrue, Other

\* A call that does not read has collected nothing.
LEMMA NothingCollected ==
  ASSUME PipeTypes, BodyIdle, NEW g \in Goroutines, NEW w, In(g, w), w # "read"
  PROVE  body[g] = NoBody
BY InIs DEF BodyIdle

\* Dial makes the link and sends the handshake.
LEMMA BaseDial ==
  ASSUME PipeBase, NEW g \in Goroutines, Dial(g)
  PROVE  PipeBase'
<1>1. PipeTypes /\ Locked /\ Undialled /\ BodyIdle /\ OffersTrue /\ GotTrue
  BY DEF PipeBase
<1>2. /\ In(g, "dial") /\ wire' = [wire EXCEPT ![End(g)] = Append(@, Handshake)]
      /\ linked' = linked \cup {End(g)} /\ at' = [at EXCEPT ![g] = at[g] + 1]
      /\ sub' = [sub EXCEPT ![g] = 0] /\ UNCHANGED <<prog, size, body, done, sendMu, saved, got>>
  BY <1>1 DEF Dial, Return, PipeTypes
<1>3. End(g) = "a" /\ End(g) \in Ends /\ at[g] = 1 /\ g = Dialler
  BY <1>1, <1>2, InIs
<1>4. \A e \in Ends : sendMu[e] # g
  BY <1>1, <1>2, NoHolder
<1>5. sendMu' \in [Ends -> Goroutines \cup {"none"}]
  BY <1>1, <1>2 DEF PipeTypes
<1>6. /\ Locked' /\ at' \in [Goroutines -> Nat] /\ sub' \in [Goroutines -> Nat] /\ at'[g] = 2
      /\ \A h \in Goroutines \ {g} : at'[h] = at[h] /\ sub'[h] = sub[h]
  <2>1. at[g] + 1 \in Nat /\ at[g] + 1 = 2
    BY <1>3
  <2>2. linked \subseteq linked'
    BY <1>2
  <2>3. \A e \in Ends : sendMu'[e] # g /\ \A h \in Goroutines \ {g} : sendMu'[e] = h <=> sendMu[e] = h
    BY <1>2, <1>4
  <2>4. PICK k \in Nat : k = at[g] + 1
    BY <2>1
  <2>5. at' = [at EXCEPT ![g] = k]
    BY <1>2, <2>4
  <2>6. QED  BY <1>1, <1>2, <1>5, <2>1, <2>2, <2>3, <2>4, <2>5, StaysLocked
<1>7. <<"main", 0>> \in Ids
  BY DEF Ids, Goroutines
<1>8. Handshake \in Wired /\ FrameTrue(End(g), Handshake)
  <2>1. Handshake \in Wired /\ Handshake.type = "handshake"
    BY <1>1, <1>3, <1>7, FrameShapes
  <2>2. QED  BY <2>1 DEF FrameTrue, Shown
<1>9. wire' \in [Ends -> Seq(Wired)]
  BY <1>1, <1>2, <1>3, <1>8, PutsIs
<1>10. PipeTypes'
  BY <1>1, <1>2, <1>3, <1>6, <1>9 DEF PipeTypes
<1>11. \A h \in Goroutines : In(h, "dial") => h = g
  BY <1>1, <1>3, InIs
<1>12. Undialled'
  <2>1. at'[g] # 1
    BY <1>6
  <2>2. QED  BY <1>1, <1>2, <1>6, <1>10, <1>11, <2>1, StaysUndialled
<1>13. body'[g] = NoBody
  BY <1>1, <1>2, NothingCollected
<1>14. \A d \in Ends : \A k \in DOMAIN wire'[d] : FrameTrue(d, wire'[d][k])
  BY <1>1, <1>2, <1>3, <1>8, PutTrue
<1>15. BodyIdle' /\ OffersTrue'
  BY <1>1, <1>2, <1>6, <1>13, <1>14, StaysCollected
<1>16. GotTrue'
  BY <1>1, <1>2, StaysGot
<1>17. QED  BY <1>6, <1>10, <1>12, <1>15, <1>16 DEF PipeBase

\* Accept takes the handshake and makes the link.
LEMMA BaseAccept ==
  ASSUME PipeBase, NEW g \in Goroutines, Accept(g)
  PROVE  PipeBase'
<1>1. PipeTypes /\ Locked /\ Undialled /\ BodyIdle /\ OffersTrue /\ GotTrue
  BY DEF PipeBase
<1>2. /\ In(g, "accept") /\ Takes(g)
      /\ linked' = linked \cup {End(g)} /\ at' = [at EXCEPT ![g] = at[g] + 1]
      /\ sub' = [sub EXCEPT ![g] = 0] /\ UNCHANGED <<prog, size, body, done, sendMu, saved, got>>
  BY <1>1 DEF Accept, Return, PipeTypes
<1>3. End(g) = "b" /\ End(g) \in Ends /\ at[g] \in Nat \ {0}
  BY <1>1, <1>2, InIs
<1>4. \A e \in Ends : sendMu[e] # g
  BY <1>1, <1>2, NoHolder
<1>5. sendMu' \in [Ends -> Goroutines \cup {"none"}]
  BY <1>1, <1>2 DEF PipeTypes
<1>6. PICK k \in Nat : k = at[g] + 1
  BY <1>3
<1>7. /\ Locked' /\ at' \in [Goroutines -> Nat] /\ sub' \in [Goroutines -> Nat] /\ at'[g] = k
      /\ \A h \in Goroutines \ {g} : at'[h] = at[h] /\ sub'[h] = sub[h]
  <2>1. linked \subseteq linked'
    BY <1>2
  <2>2. \A e \in Ends : sendMu'[e] # g /\ \A h \in Goroutines \ {g} : sendMu'[e] = h <=> sendMu[e] = h
    BY <1>2, <1>4
  <2>3. at' = [at EXCEPT ![g] = k]
    BY <1>2, <1>6
  <2>4. QED  BY <1>1, <1>2, <1>5, <2>1, <2>2, <2>3, StaysLocked
<1>8. wire' \in [Ends -> Seq(Wired)]
  BY <1>1, <1>2, <1>3, TakesIs
<1>9. PipeTypes'
  BY <1>1, <1>2, <1>3, <1>7, <1>8 DEF PipeTypes
<1>10. Undialled'
  <2>1. at'[g] # 1 /\ ("a" \in linked' => "a" \in linked)
    BY <1>2, <1>3, <1>6, <1>7
  <2>2. QED  BY <1>1, <1>2, <1>7, <1>9, <2>1, StaysUndialled
<1>11. body'[g] = NoBody
  BY <1>1, <1>2, NothingCollected
<1>12. \A d \in Ends : \A j \in DOMAIN wire'[d] : FrameTrue(d, wire'[d][j])
  BY <1>1, <1>2, <1>3, TakeTrue
<1>13. BodyIdle' /\ OffersTrue'
  BY <1>1, <1>2, <1>7, <1>11, <1>12, StaysCollected
<1>14. GotTrue'
  BY <1>1, <1>2, StaysGot
<1>15. QED  BY <1>7, <1>9, <1>10, <1>13, <1>14 DEF PipeBase

\* Steps of a goroutine that neither dials nor accepts.
LEMMA BaseLock ==
  ASSUME PipeBase, NEW g \in Goroutines, Lock(g)
  PROVE  PipeBase'
<1>1. PipeTypes /\ Locked /\ Undialled /\ BodyIdle /\ OffersTrue /\ GotTrue
  BY DEF PipeBase
<1>2. /\ Sends(g) /\ End(g) \in linked /\ sendMu[End(g)] = "none" /\ sendMu' = [sendMu EXCEPT ![End(g)] = g]
      /\ UNCHANGED <<prog, size, at, sub, body, wire, done, linked, saved, got>>
  BY DEF Lock, Sends
<1>3. End(g) \in Ends
  BY <1>1, <1>2, InIs DEF Sends
<1>4. sendMu \in [Ends -> Goroutines \cup {"none"}] /\ "none" \notin Goroutines
  BY <1>1 DEF PipeTypes, Goroutines
<1>5. /\ sendMu' \in [Ends -> Goroutines \cup {"none"}] /\ sendMu'[End(g)] = g
      /\ \A e \in Ends : e # End(g) => sendMu'[e] = sendMu[e]
  BY <1>2, <1>3, <1>4
<1>6. PipeTypes'
  BY <1>1, <1>2, <1>5 DEF PipeTypes
<1>7. \A h : /\ \A w : In(h, w)' <=> In(h, w)
             /\ End(h)' = End(h) /\ (Finished(h)' <=> Finished(h)) /\ Frames(h)' = Frames(h)
  BY <1>2, SameCall
<1>8. \A h : Sends(h)' <=> Sends(h)
  BY <1>7 DEF Sends
<1>9. Locked'
  <2>1. ASSUME NEW e \in Ends, NEW h \in Goroutines, sendMu'[e] = h
        PROVE  Sends(h) /\ End(h) = e /\ e \in linked
    <3>1. CASE e = End(g)
      BY <1>2, <1>5, <2>1, <3>1
    <3>2. CASE e # End(g)
      BY <1>1, <1>5, <2>1, <3>2 DEF Locked
    <3>3. QED  BY <3>1, <3>2
  <2>2. ASSUME NEW h \in Goroutines, sub[h] > 0 PROVE sendMu'[End(h)] = h
    <3>1. sendMu[End(h)] = h /\ ~Finished(h)
      BY <1>1, <2>2 DEF Locked
    <3>2. In(h, Script(h)[at[h]].what)
      BY <3>1 DEF In, Finished
    <3>3. End(h) \in Ends
      BY <1>1, <3>2, InIs
    <3>4. End(h) # End(g)
      BY <1>2, <1>4, <3>1
    <3>5. QED  BY <1>5, <3>1, <3>3, <3>4
  <2>3. QED  BY <1>1, <1>2, <1>7, <1>8, <2>1, <2>2 DEF Locked
<1>10. Undialled' /\ BodyIdle'
  BY <1>1, <1>2, <1>7 DEF Undialled, BodyIdle, NoBody
<1>11. OffersTrue' /\ BodyIdle'
  BY <1>1, <1>2, StaysCollected DEF OffersTrue
<1>12. GotTrue'
  BY <1>1, <1>2, StaysGot
<1>13. QED  BY <1>6, <1>9, <1>10, <1>11, <1>12 DEF PipeBase

\* The holder of sendMu sends on its end.
LEMMA HolderIs ==
  ASSUME PipeTypes, Locked, NEW g \in Goroutines, Holds(g)
  PROVE  Sends(g) /\ End(g) \in Ends /\ End(g) \in linked /\ sendMu[End(g)] = g
<1>1. ~Finished(g) /\ sendMu[End(g)] = g
  BY DEF Holds
<1>2. In(g, Script(g)[at[g]].what)
  BY <1>1 DEF In, Finished
<1>3. End(g) \in Ends
  BY <1>2, InIs
<1>4. QED  BY <1>1, <1>3 DEF Locked

\* Frames were sent: the call holds sendMu.
LEMMA SenderIs ==
  ASSUME PipeTypes, Locked, NEW g \in Goroutines, sub[g] > 0
  PROVE  /\ Sends(g) /\ End(g) \in Ends /\ End(g) \in linked /\ sendMu[End(g)] = g
         /\ sub[g] \in 1 .. Len(Frames(g)) /\ Len(Frames(g)) \in Nat
<1>1. ~Finished(g) /\ sendMu[End(g)] = g /\ sub[g] <= Len(Frames(g))
  BY DEF Locked
<1>2. Sends(g) /\ End(g) \in Ends /\ End(g) \in linked
  BY <1>1, HolderIs DEF Holds
<1>3. Len(Frames(g)) \in Nat
  <2>1. Parts(End(g)) \in Nat
    BY <1>2, FramesAre
  <2>2. Len(Frames(g)) = Parts(End(g)) + 1 \/ Len(Frames(g)) = 1
    BY <1>2, FramesAre
  <2>3. QED  BY <2>1, <2>2
<1>4. sub[g] \in Nat
  BY DEF PipeTypes
<1>5. QED  BY <1>1, <1>2, <1>3, <1>4

\* Facts about conn.Send of the next frame.
LEMMA WriteIs ==
  ASSUME PipeTypes, Locked, NEW g \in Goroutines, Write(g)
  PROVE  /\ Sends(g) /\ End(g) \in Ends /\ sendMu[End(g)] = g /\ ~Unsaved(g)
         /\ sub[g] \in Nat /\ sub[g] + 1 \in 1 .. Len(Frames(g)) /\ Len(Frames(g)) \in Nat
         /\ wire' = [wire EXCEPT ![End(g)] = Append(@, Frames(g)[sub[g] + 1])]
         /\ sub' \in [Goroutines -> Nat] /\ sub'[g] = sub[g] + 1
         /\ \A h \in Goroutines \ {g} : sub'[h] = sub[h]
         /\ UNCHANGED <<prog, size, at, body, done, linked, sendMu, saved, got>>
<1>1. /\ Holds(g) /\ ~Unsaved(g) /\ sub[g] < Len(Frames(g))
      /\ wire' = [wire EXCEPT ![End(g)] = Append(@, Frames(g)[sub[g] + 1])]
      /\ sub' = [sub EXCEPT ![g] = @ + 1]
      /\ UNCHANGED <<prog, size, at, body, done, linked, sendMu, saved, got>>
  BY DEF Write
<1>2. Sends(g) /\ End(g) \in Ends /\ sendMu[End(g)] = g
  BY <1>1, HolderIs
<1>3. Len(Frames(g)) \in Nat
  <2>1. Parts(End(g)) \in Nat
    BY <1>2, FramesAre
  <2>2. Len(Frames(g)) = Parts(End(g)) + 1 \/ Len(Frames(g)) = 1
    BY <1>2, FramesAre
  <2>3. QED  BY <2>1, <2>2
<1>4. sub \in [Goroutines -> Nat]
  BY DEF PipeTypes
<1>5. sub[g] \in Nat /\ sub[g] + 1 \in 1 .. Len(Frames(g))
  BY <1>1, <1>3, <1>4
<1>6. /\ sub' \in [Goroutines -> Nat] /\ sub'[g] = sub[g] + 1
      /\ \A h \in Goroutines \ {g} : sub'[h] = sub[h]
  BY <1>1, <1>4
<1>7. QED  BY <1>1, <1>2, <1>3, <1>5, <1>6

\* The next frame of a call is sent.
LEMMA BaseWrite ==
  ASSUME PipeBase, NEW g \in Goroutines, Write(g)
  PROVE  PipeBase'
<1>1. PipeTypes /\ Locked /\ Undialled /\ BodyIdle /\ OffersTrue /\ GotTrue
  BY DEF PipeBase
<1>2. PICK f : f = Frames(g)[sub[g] + 1]
  OBVIOUS
<1>3. /\ Sends(g) /\ End(g) \in Ends /\ sendMu[End(g)] = g
      /\ sub[g] \in Nat /\ sub[g] + 1 \in 1 .. Len(Frames(g)) /\ Len(Frames(g)) \in Nat
      /\ wire' = [wire EXCEPT ![End(g)] = Append(@, f)]
      /\ sub' \in [Goroutines -> Nat] /\ sub'[g] = sub[g] + 1
      /\ \A h \in Goroutines \ {g} : sub'[h] = sub[h]
      /\ UNCHANGED <<prog, size, at, body, done, linked, sendMu, saved, got>>
  BY <1>1, <1>2, WriteIs
<1>4. f \in Wired /\ FrameTrue(End(g), f)
  BY <1>1, <1>2, <1>3, FrameIs
<1>5. wire' \in [Ends -> Seq(Wired)]
  BY <1>1, <1>3, <1>4, PutsIs
<1>6. PipeTypes'
  BY <1>1, <1>3, <1>5 DEF PipeTypes
<1>7. \A h : /\ \A w : In(h, w)' <=> In(h, w)
             /\ End(h)' = End(h) /\ (Finished(h)' <=> Finished(h)) /\ Frames(h)' = Frames(h)
  BY <1>3, SameCall
<1>8. \A h : Sends(h)' <=> Sends(h)
  BY <1>7 DEF Sends
<1>9. Locked'
  <2>1. ASSUME NEW h \in Goroutines, sub'[h] > 0
        PROVE  ~Finished(h) /\ sendMu[End(h)] = h /\ sub'[h] <= Len(Frames(h))
    <3>1. CASE h = g
      <4>1. ~Finished(g)
        BY <1>1, <1>3, InIs DEF Sends
      <4>2. QED  BY <1>3, <3>1, <4>1
    <3>2. CASE h # g
      BY <1>1, <1>3, <2>1, <3>2 DEF Locked
    <3>3. QED  BY <3>1, <3>2
  <2>2. \A e \in Ends : \A h \in Goroutines : sendMu[e] = h => Sends(h) /\ End(h) = e /\ e \in linked
    BY <1>1 DEF Locked
  <2>3. QED  BY <1>3, <1>7, <1>8, <2>1, <2>2 DEF Locked
<1>10. Undialled'
  BY <1>1, <1>3, <1>7 DEF Undialled
<1>11. \A d \in Ends : \A k \in DOMAIN wire'[d] : FrameTrue(d, wire'[d][k])
  BY <1>1, <1>3, <1>4, PutTrue
<1>12. OffersTrue' /\ BodyIdle'
  BY <1>1, <1>3, <1>11, StaysCollected
<1>13. GotTrue'
  BY <1>1, <1>3, StaysGot
<1>14. QED  BY <1>6, <1>9, <1>10, <1>12, <1>13 DEF PipeBase

\* Facts about AppendMessage after the frame.
LEMMA SaveIs ==
  ASSUME PipeTypes, Locked, NEW g \in Goroutines, Save(g)
  PROVE  /\ Sends(g) /\ End(g) \in Ends /\ Id(g) \in Ids /\ Unsaved(g) /\ ~Finished(g)
         /\ Id(g) \notin ToSet(saved[End(g)])
         /\ saved' \in [Ends -> Seq(Ids)] /\ saved'[Other(End(g))] = saved[Other(End(g))]
         /\ Len(saved[End(g)]) \in Nat /\ DOMAIN saved[End(g)] = 1 .. Len(saved[End(g)])
         /\ DOMAIN saved'[End(g)] = 1 .. Len(saved[End(g)]) + 1
         /\ saved'[End(g)][Len(saved[End(g)]) + 1] = Id(g)
         /\ \A i \in DOMAIN saved[End(g)] : saved'[End(g)][i] = saved[End(g)][i]
         /\ UNCHANGED <<prog, size, at, sub, body, wire, done, linked, sendMu, got>>
<1>1. /\ ~Finished(g) /\ Unsaved(g) /\ saved' = [saved EXCEPT ![End(g)] = Append(@, Id(g))]
      /\ UNCHANGED <<prog, size, at, sub, body, wire, done, linked, sendMu, got>>
  BY DEF Save
<1>2. sub[g] > 0 /\ Id(g) \notin ToSet(saved[End(g)])
  BY <1>1 DEF Unsaved
<1>3. Sends(g) /\ End(g) \in Ends
  BY <1>2, SenderIs
<1>4. Id(g) \in Ids /\ Other(End(g)) \in Ends /\ Other(End(g)) # End(g)
  BY <1>3, FramesAre, OtherIs
<1>5. PICK s, t : s = saved[End(g)] /\ t = Append(s, Id(g))
  OBVIOUS
<1>6. s \in Seq(Ids) /\ saved \in [Ends -> Seq(Ids)] /\ saved' = [saved EXCEPT ![End(g)] = t]
  BY <1>1, <1>3, <1>5 DEF PipeTypes
<1>7. /\ Len(s) \in Nat /\ DOMAIN s = 1 .. Len(s) /\ t \in Seq(Ids) /\ DOMAIN t = 1 .. Len(s) + 1
      /\ t[Len(s) + 1] = Id(g) /\ \A i \in DOMAIN s : t[i] = s[i]
  BY <1>4, <1>5, <1>6
<1>8. saved' \in [Ends -> Seq(Ids)] /\ saved'[End(g)] = t /\ saved'[Other(End(g))] = saved[Other(End(g))]
  BY <1>3, <1>4, <1>6, <1>7
<1>9. QED  BY <1>1, <1>2, <1>3, <1>4, <1>5, <1>7, <1>8

\* AppendMessage after the frame was sent.
LEMMA BaseSave ==
  ASSUME PipeBase, NEW g \in Goroutines, Save(g)
  PROVE  PipeBase'
<1>1. PipeTypes /\ Locked /\ Undialled /\ BodyIdle /\ OffersTrue /\ GotTrue
  BY DEF PipeBase
<1>2. saved' \in [Ends -> Seq(Ids)] /\ UNCHANGED <<prog, size, at, sub, body, wire, done, linked, sendMu, got>>
  BY <1>1, SaveIs
<1>3. PipeTypes'
  BY <1>1, <1>2 DEF PipeTypes
<1>4. \A h : /\ \A w : In(h, w)' <=> In(h, w)
             /\ End(h)' = End(h) /\ (Finished(h)' <=> Finished(h)) /\ Frames(h)' = Frames(h)
  BY <1>2, SameCall
<1>5. \A h : Sends(h)' <=> Sends(h)
  BY <1>4 DEF Sends
<1>6. Locked' /\ Undialled'
  BY <1>1, <1>2, <1>4, <1>5 DEF Locked, Undialled
<1>7. OffersTrue' /\ BodyIdle'
  BY <1>1, <1>2, StaysCollected DEF OffersTrue
<1>8. GotTrue'
  BY <1>1, <1>2, StaysGot
<1>9. QED  BY <1>3, <1>6, <1>7, <1>8 DEF PipeBase

\* A goroutine's call ends, with nothing sent, read or stored.
LEMMA BaseEnd ==
  ASSUME PipeBase, NEW g \in Goroutines, NEW k \in Nat, k # 1,
         at' = [at EXCEPT ![g] = k], sub' = [sub EXCEPT ![g] = 0],
         sendMu' \in [Ends -> Goroutines \cup {"none"}],
         \A e \in Ends : sendMu'[e] # g /\ \A h \in Goroutines \ {g} : sendMu'[e] = h <=> sendMu[e] = h,
         body[g] = NoBody \/ k = 0,
         UNCHANGED <<prog, size, body, wire, done, linked, saved, got>>
  PROVE  /\ PipeBase' /\ at'[g] = k /\ sub'[g] = 0
         /\ \A h \in Goroutines \ {g} : at'[h] = at[h] /\ sub'[h] = sub[h]
         /\ \A e \in Ends : \A h \in Goroutines : Collects(h, e)' => Collects(h, e)
<1>1. PipeTypes /\ Locked /\ Undialled /\ BodyIdle /\ OffersTrue /\ GotTrue
  BY DEF PipeBase
<1>2. /\ Locked' /\ at' \in [Goroutines -> Nat] /\ sub' \in [Goroutines -> Nat] /\ at'[g] = k /\ sub'[g] = 0
      /\ \A h \in Goroutines \ {g} : at'[h] = at[h] /\ sub'[h] = sub[h]
  BY <1>1, StaysLocked
<1>3. PipeTypes'
  BY <1>1, <1>2 DEF PipeTypes
<1>4. Undialled'
  BY <1>1, <1>2, <1>3, StaysUndialled
<1>5. /\ OffersTrue' /\ BodyIdle'
      /\ \A e \in Ends : \A h \in Goroutines : Collects(h, e)' => Collects(h, e)
  BY <1>1, <1>2, StaysCollected DEF OffersTrue
<1>6. GotTrue'
  BY <1>1, StaysGot
<1>7. QED  BY <1>2, <1>3, <1>4, <1>5, <1>6 DEF PipeBase

\* The hypotheses of BaseEnd for the calls that end.
LEMMA SentEnds ==
  ASSUME PipeTypes, Locked, BodyIdle, NEW g \in Goroutines, Sent(g)
  PROVE  \E k \in Nat :
           /\ k = at[g] + 1 /\ k # 1 /\ at' = [at EXCEPT ![g] = k] /\ sub' = [sub EXCEPT ![g] = 0]
           /\ sendMu' \in [Ends -> Goroutines \cup {"none"}]
           /\ \A e \in Ends : sendMu'[e] # g /\ \A h \in Goroutines \ {g} : sendMu'[e] = h <=> sendMu[e] = h
           /\ body[g] = NoBody /\ sub[g] > 0 /\ sub[g] = Len(Frames(g)) /\ ~Unsaved(g)
           /\ UNCHANGED <<prog, size, body, wire, done, linked, saved, got>>
<1>1. /\ sub[g] = Len(Frames(g)) /\ sub[g] > 0 /\ ~Unsaved(g)
      /\ sendMu' = [sendMu EXCEPT ![End(g)] = IF @ = g THEN "none" ELSE @]
      /\ at' = [at EXCEPT ![g] = at[g] + 1] /\ sub' = [sub EXCEPT ![g] = 0]
      /\ UNCHANGED <<prog, size, body, wire, done, linked, saved, got>>
  BY DEF Sent, Return, PipeTypes
<1>2. Sends(g) /\ End(g) \in Ends /\ sendMu[End(g)] = g
  BY <1>1, SenderIs
<1>3. at[g] \in Nat \ {0} /\ body[g] = NoBody
  BY <1>2, InIs, NothingCollected DEF Sends
<1>4. PICK k \in Nat : k = at[g] + 1 /\ k # 1
  BY <1>3
<1>5. sendMu \in [Ends -> Goroutines \cup {"none"}] /\ "none" \notin Goroutines
  BY DEF PipeTypes, Goroutines
<1>6. \A e \in Ends : sendMu[e] = g => e = End(g)
  BY DEF Locked
<1>7. sendMu' = [sendMu EXCEPT ![End(g)] = "none"]
  BY <1>1, <1>2
<1>8. /\ sendMu' \in [Ends -> Goroutines \cup {"none"}]
      /\ \A e \in Ends : sendMu'[e] # g /\ \A h \in Goroutines \ {g} : sendMu'[e] = h <=> sendMu[e] = h
  BY <1>2, <1>5, <1>6, <1>7
<1>9. QED  BY <1>1, <1>3, <1>4, <1>8

\* A Send that finds the pipe closed releases sendMu and ends its goroutine.
LEMMA SendClosedEnds ==
  ASSUME PipeTypes, Locked, BodyIdle, NEW g \in Goroutines, SendClosed(g)
  PROVE  /\ done /\ at' = [at EXCEPT ![g] = 0] /\ sub' = [sub EXCEPT ![g] = 0]
         /\ sendMu' \in [Ends -> Goroutines \cup {"none"}]
         /\ \A e \in Ends : sendMu'[e] # g /\ \A h \in Goroutines \ {g} : sendMu'[e] = h <=> sendMu[e] = h
         /\ body[g] = NoBody /\ UNCHANGED <<prog, size, body, wire, done, linked, saved, got>>
<1>1. /\ done /\ at' = [at EXCEPT ![g] = 0] /\ sub' = [sub EXCEPT ![g] = 0]
      /\ UNCHANGED <<prog, size, body, wire, done, linked, saved, got>>
  BY DEF SendClosed, Fail
<1>2. sendMu \in [Ends -> Goroutines \cup {"none"}] /\ "none" \notin Goroutines
  BY DEF PipeTypes, Goroutines
<1>3. CASE In(g, "dial") /\ UNCHANGED sendMu
  <2>1. \A e \in Ends : sendMu[e] # g
    BY <1>3, NoHolder
  <2>2. body[g] = NoBody
    BY <1>3, NothingCollected
  <2>3. QED  BY <1>1, <1>2, <1>3, <2>1, <2>2
<1>4. CASE Holds(g) /\ sendMu' = [sendMu EXCEPT ![End(g)] = "none"]
  <2>1. Sends(g) /\ End(g) \in Ends /\ sendMu[End(g)] = g
    BY <1>4, HolderIs
  <2>2. body[g] = NoBody
    BY <2>1, NothingCollected DEF Sends
  <2>3. \A e \in Ends : sendMu[e] = g => e = End(g)
    BY DEF Locked
  <2>4. /\ sendMu' \in [Ends -> Goroutines \cup {"none"}]
        /\ \A e \in Ends : sendMu'[e] # g /\ \A h \in Goroutines \ {g} : sendMu'[e] = h <=> sendMu[e] = h
    BY <1>2, <1>4, <2>1, <2>3
  <2>5. QED  BY <1>1, <2>2, <2>4
<1>5. QED  BY <1>3, <1>4 DEF SendClosed

\* A Recv that finds the pipe closed ends its goroutine, which holds no lock.
LEMMA RecvClosedEnds ==
  ASSUME PipeTypes, Locked, NEW g \in Goroutines, RecvClosed(g)
  PROVE  /\ done /\ at' = [at EXCEPT ![g] = 0] /\ sub' = [sub EXCEPT ![g] = 0]
         /\ sendMu' \in [Ends -> Goroutines \cup {"none"}]
         /\ \A e \in Ends : sendMu'[e] # g /\ \A h \in Goroutines \ {g} : sendMu'[e] = h <=> sendMu[e] = h
         /\ UNCHANGED <<prog, size, body, wire, done, linked, saved, got>>
<1>1. /\ done /\ at' = [at EXCEPT ![g] = 0] /\ sub' = [sub EXCEPT ![g] = 0]
      /\ In(g, "accept") \/ In(g, "read")
      /\ UNCHANGED <<prog, size, body, wire, done, linked, sendMu, saved, got>>
  BY DEF RecvClosed, Fail, Reading
<1>2. \A e \in Ends : sendMu[e] # g
  BY <1>1, NoHolder
<1>3. sendMu \in [Ends -> Goroutines \cup {"none"}]
  BY DEF PipeTypes
<1>4. QED  BY <1>1, <1>2, <1>3

\* An item is surfaced at an end.
LEMMA SurfaceIs ==
  ASSUME PipeTypes, NEW g \in Goroutines, End(g) \in Ends, NEW item \in Items, Surface(g, item),
         NEW r, r = End(g)
  PROVE  /\ got' \in [Ends -> Seq(Items)] /\ got'[Other(r)] = got[Other(r)]
         /\ Len(got[r]) \in Nat /\ DOMAIN got[r] = 1 .. Len(got[r])
         /\ Len(got'[r]) = Len(got[r]) + 1 /\ DOMAIN got'[r] = 1 .. Len(got[r]) + 1
         /\ got'[r][Len(got[r]) + 1] = item /\ \A i \in DOMAIN got[r] : got'[r][i] = got[r][i]
<1>1. Other(r) \in Ends /\ Other(r) # r
  BY OtherIs
<1>2. PICK s, t : s = got[r] /\ t = Append(s, item)
  OBVIOUS
<1>3. s \in Seq(Items) /\ got \in [Ends -> Seq(Items)] /\ got' = [got EXCEPT ![r] = t]
  BY <1>2 DEF PipeTypes, Surface
<1>4. /\ Len(s) \in Nat /\ DOMAIN s = 1 .. Len(s) /\ t \in Seq(Items) /\ Len(t) = Len(s) + 1
      /\ DOMAIN t = 1 .. Len(s) + 1 /\ t[Len(s) + 1] = item /\ \A i \in DOMAIN s : t[i] = s[i]
  BY <1>2, <1>3
<1>5. got' \in [Ends -> Seq(Items)] /\ got'[r] = t /\ got'[Other(r)] = got[Other(r)]
  BY <1>1, <1>3, <1>4
<1>6. QED  BY <1>2, <1>4, <1>5

\* A read ends with an item.
LEMMA BaseSurface ==
  ASSUME PipeBase, NEW g \in Goroutines, In(g, "read"), Takes(g), NEW item \in Items, Surface(g, item),
         item.data # <<>> => item.data = Content(item.id, size[Other(End(g))]),
         NEW k \in Nat, k # 1, at' = [at EXCEPT ![g] = k], sub' = [sub EXCEPT ![g] = 0],
         DOMAIN body' = Goroutines, body'[g] = NoBody, \A h \in Goroutines \ {g} : body'[h] = body[h],
         UNCHANGED <<prog, size, done, linked, sendMu, saved>>
  PROVE  /\ PipeBase' /\ at'[g] = k /\ sub'[g] = 0
         /\ \A h \in Goroutines \ {g} : at'[h] = at[h] /\ sub'[h] = sub[h]
<1>1. PipeTypes /\ Locked /\ Undialled /\ BodyIdle /\ OffersTrue /\ GotTrue
  BY DEF PipeBase
<1>2. PICK r : r = End(g)
  OBVIOUS
<1>3. r \in Ends /\ End(g) \in Ends
  BY <1>1, <1>2, InIs
<1>4. \A e \in Ends : sendMu[e] # g
  BY <1>1, NoHolder
<1>5. /\ Locked' /\ at' \in [Goroutines -> Nat] /\ sub' \in [Goroutines -> Nat] /\ at'[g] = k /\ sub'[g] = 0
      /\ \A h \in Goroutines \ {g} : at'[h] = at[h] /\ sub'[h] = sub[h]
  <2>1. sendMu' \in [Ends -> Goroutines \cup {"none"}]
    BY <1>1 DEF PipeTypes
  <2>2. QED  BY <1>1, <1>4, <2>1, StaysLocked
<1>6. wire' \in [Ends -> Seq(Wired)]
  BY <1>1, <1>3, TakesIs
<1>7. /\ got' \in [Ends -> Seq(Items)] /\ got'[Other(r)] = got[Other(r)]
      /\ Len(got[r]) \in Nat /\ DOMAIN got[r] = 1 .. Len(got[r])
      /\ DOMAIN got'[r] = 1 .. Len(got[r]) + 1
      /\ got'[r][Len(got[r]) + 1] = item /\ \A i \in DOMAIN got[r] : got'[r][i] = got[r][i]
  BY <1>1, <1>2, <1>3, SurfaceIs
<1>8. PipeTypes'
  BY <1>1, <1>5, <1>6, <1>7 DEF PipeTypes
<1>9. Undialled'
  BY <1>1, <1>5, <1>8, StaysUndialled
<1>10. \A d \in Ends : \A j \in DOMAIN wire'[d] : FrameTrue(d, wire'[d][j])
  BY <1>1, <1>3, TakeTrue
<1>11. OffersTrue' /\ BodyIdle'
  <2>1. \A h \in Goroutines \ {g} : at'[h] = at[h] /\ body'[h] = body[h]
    BY <1>5
  <2>2. prog' = prog /\ size' = size
    OBVIOUS
  <2>3. \/ body'[g] = NoBody
        \/ at'[g] = 0 /\ body'[g] = body[g]
        \/ at'[g] = at[g] /\ body'[g] = body[g]
    OBVIOUS
  <2>4. BodyIdle' /\ OffersTrue'
    BY <1>1, <1>10, <2>1, <2>2, <2>3, StaysCollected, Zenon
  <2>5. QED  BY <2>4
<1>12. GotTrue'
  <2>1. ASSUME NEW d \in Ends, NEW i \in DOMAIN got'[d], got'[d][i].data # <<>>
        PROVE  got'[d][i].data = Content(got'[d][i].id, size[Other(d)])
    <3>1. CASE d # r
      <4>1. d = Other(r)
        BY <1>3, <3>1 DEF Ends, Other
      <4>2. got'[d] = got[d]
        BY <1>7, <4>1
      <4>3. QED  BY <1>1, <2>1, <4>2 DEF GotTrue
    <3>2. CASE d = r
      <4>1. i = Len(got[r]) + 1 \/ i \in DOMAIN got[r]
        BY <1>7, <3>2
      <4>2. CASE i = Len(got[r]) + 1
        BY <1>2, <1>7, <2>1, <3>2, <4>2
      <4>3. CASE i \in DOMAIN got[r]
        BY <1>1, <1>7, <2>1, <3>2, <4>3 DEF GotTrue
      <4>4. QED  BY <4>1, <4>2, <4>3
    <3>3. QED  BY <3>1, <3>2
  <2>2. QED  BY <2>1 DEF GotTrue, Other
<1>13. QED  BY <1>5, <1>8, <1>9, <1>11, <1>12 DEF PipeBase

\* Facts about the read of a text or a typing mark.
LEMMA ReadTextIs ==
  ASSUME PipeTypes, OffersTrue, NEW g \in Goroutines, ReadText(g), NEW e, e = Other(End(g))
  PROVE  /\ In(g, "read") /\ End(g) \in linked /\ End(g) \in Ends /\ e \in Ends /\ body[g] = NoBody /\ Takes(g)
         /\ wire[e][1] = Incoming(g) /\ Shown(wire[e][1]) /\ wire[e][1].type \in {"text", "typing"}
         /\ \E item \in Items : item.id = wire[e][1].id /\ item.ok = TRUE /\ item.data = <<>> /\ Surface(g, item)
         /\ \E k \in Nat : k # 1 /\ k \in {0, at[g] + 1} /\ at' = [at EXCEPT ![g] = k] /\ sub' = [sub EXCEPT ![g] = 0]
         /\ UNCHANGED <<prog, size, body, done, linked, sendMu, saved>>
<1>1. /\ In(g, "read") /\ End(g) \in linked /\ body[g] = NoBody /\ Takes(g)
      /\ Incoming(g).type \in {"text", "typing"}
      /\ Surface(g, [id |-> Incoming(g).id, ok |-> TRUE, data |-> <<>>])
      /\ at' = [at EXCEPT ![g] = at[g] + 1] /\ sub' = [sub EXCEPT ![g] = 0]
      /\ UNCHANGED <<prog, size, body, done, linked, sendMu, saved>>
  BY DEF ReadText, Reading, Return, PipeTypes
<1>2. End(g) \in Ends /\ at[g] \in Nat \ {0}
  BY <1>1, InIs
<1>3. e \in Ends /\ wire[e][1] = Incoming(g)
  BY <1>1, <1>2, TakesIs
<1>4. FrameTrue(e, Incoming(g))
  BY <1>1, <1>2, TakeTrue
<1>5. Incoming(g).id \in Ids /\ Shown(Incoming(g))
  BY <1>1, <1>4 DEF FrameTrue, Shown
<1>6. PICK item : item = [id |-> Incoming(g).id, ok |-> TRUE, data |-> <<>>]
  OBVIOUS
<1>7. item \in Items /\ item.id = Incoming(g).id /\ item.ok = TRUE /\ item.data = <<>>
  <2>1. <<>> \in Datas
    BY DEF Datas
  <2>2. QED  BY <1>5, <1>6, <2>1 DEF Items
<1>8. PICK k \in Nat : k = at[g] + 1 /\ k # 1
  BY <1>2
<1>9. Surface(g, item)
  BY <1>1, <1>6
<1>10. \E j \in Nat : j # 1 /\ j \in {0, at[g] + 1} /\ at' = [at EXCEPT ![g] = j] /\ sub' = [sub EXCEPT ![g] = 0]
  BY <1>1, <1>8
<1>11. QED  BY <1>1, <1>2, <1>3, <1>5, <1>7, <1>9, <1>10

\* A text or a typing notice is read.
LEMMA BaseReadText ==
  ASSUME PipeBase, NEW g \in Goroutines, ReadText(g)
  PROVE  PipeBase'
<1>1. PipeTypes /\ OffersTrue
  BY DEF PipeBase
<1>2. PICK e : e = Other(End(g))
  OBVIOUS
<1>3. /\ In(g, "read") /\ body[g] = NoBody /\ Takes(g)
      /\ UNCHANGED <<prog, size, body, done, linked, sendMu, saved>>
  BY <1>1, <1>2, ReadTextIs
<1>4. PICK item \in Items : item.data = <<>> /\ Surface(g, item)
  BY <1>1, <1>2, ReadTextIs
<1>5. PICK k \in Nat : k # 1 /\ at' = [at EXCEPT ![g] = k] /\ sub' = [sub EXCEPT ![g] = 0]
  BY <1>1, <1>2, ReadTextIs
<1>6. DOMAIN body' = Goroutines /\ body'[g] = NoBody /\ \A h \in Goroutines \ {g} : body'[h] = body[h]
  BY <1>1, <1>3 DEF PipeTypes
<1>7. QED  BY <1>3, <1>4, <1>5, <1>6, BaseSurface

\* ReceiveFileBody ends with a file or an error, or waits for the next chunk.
Completes(g, e, id, chunks) ==
  /\ Len(chunks) = Parts(e)
  /\ \E item \in Items :
       /\ item.id = id /\ (item.ok <=> Accepted(OfferTo(e, id), chunks)) /\ Surface(g, item)
       /\ item.data # <<>> => item.data = Content(id, size[e])
  /\ \E k \in Nat : k # 1 /\ k \in {0, at[g] + 1} /\ at' = [at EXCEPT ![g] = k] /\ sub' = [sub EXCEPT ![g] = 0]
  /\ DOMAIN body' = Goroutines /\ body'[g] = NoBody
  /\ \A h \in Goroutines \ {g} : body'[h] = body[h]
Waits(g, e, id, chunks) ==
  /\ Len(chunks) # Parts(e)
  /\ DOMAIN body' = Goroutines /\ body'[g] = [offer |-> OfferTo(e, id), chunks |-> chunks]
  /\ \A h \in Goroutines \ {g} : body'[h] = body[h]
  /\ UNCHANGED <<got, at, sub>>

\* What ReceiveFileBody does with the chunks it has.
LEMMA AssembledIs ==
  ASSUME PipeTypes, NEW g \in Goroutines, In(g, "read"), NEW e \in Ends, NEW id \in Ids, NEW chunks,
         Assembled(g, OfferTo(e, id), chunks)
  PROVE  Completes(g, e, id, chunks) \/ Waits(g, e, id, chunks)
<1>1. PICK offer : offer = OfferTo(e, id)
  OBVIOUS
<1>2. size[e] \in Nat /\ ChunkSize \in Nat \ {0} /\ DOMAIN body = Goroutines
  BY PipeAssumption DEF PipeTypes
<1>3. NumChunks(offer) = Parts(e)
  BY <1>1, <1>2, SplitIs DEF OfferTo, Parts
<1>4. offer.key = id /\ offer.hash = Content(id, size[e])
  BY <1>1 DEF OfferTo, OfferOf
<1>5. at[g] \in Nat \ {0}
  BY InIs
<1>6. CASE Len(chunks) = NumChunks(offer)
  <2>1. PICK file : file = Reassemble(offer, chunks)
    OBVIOUS
  <2>2. /\ file.ok <=> Accepted(offer, chunks)
        /\ file.ok \in BOOLEAN
        /\ Accepted(offer, chunks) => file.data = offer.hash
        /\ ~Accepted(offer, chunks) => file.data = <<>>
    BY <2>1, ReassembleIs
  <2>3. PICK item : item = [id |-> id, ok |-> file.ok, data |-> file.data]
    OBVIOUS
  <2>4. /\ Surface(g, item) /\ body' = [body EXCEPT ![g] = NoBody]
        /\ IF file.ok THEN Return(g) ELSE Fail(g)
    BY <1>1, <1>4, <1>6, <2>1, <2>3 DEF Assembled
  <2>5. item.id = id /\ item.ok = file.ok /\ item.data = file.data
    BY <2>3
  <2>6. item \in Items
    <3>1. file.data = <<>> \/ file.data = Content(id, size[e])
      BY <1>4, <2>2
    <3>2. file.data \in Datas
      BY <1>2, <3>1 DEF Datas
    <3>3. QED  BY <2>2, <2>3, <3>2 DEF Items
  <2>7. item.data # <<>> => item.data = Content(id, size[e])
    BY <1>4, <2>2, <2>5
  <2>8. \E k \in Nat : k # 1 /\ k \in {0, at[g] + 1} /\ at' = [at EXCEPT ![g] = k] /\ sub' = [sub EXCEPT ![g] = 0]
    <3>1. CASE file.ok
      <4>1. at' = [at EXCEPT ![g] = at[g] + 1] /\ sub' = [sub EXCEPT ![g] = 0]
        BY <2>4, <3>1 DEF Return
      <4>2. PICK k \in Nat : k = at[g] + 1 /\ k # 1
        BY <1>5
      <4>3. QED  BY <4>1, <4>2
    <3>2. CASE ~file.ok
      BY <2>4, <3>2 DEF Fail
    <3>3. QED  BY <3>1, <3>2
  <2>9. DOMAIN body' = Goroutines /\ body'[g] = NoBody /\ \A h \in Goroutines \ {g} : body'[h] = body[h]
    BY <1>2, <2>4
  <2>10. \E it \in Items :
           /\ it.id = id /\ (it.ok <=> Accepted(OfferTo(e, id), chunks)) /\ Surface(g, it)
           /\ it.data # <<>> => it.data = Content(id, size[e])
    BY <1>1, <2>2, <2>4, <2>5, <2>6, <2>7
  <2>11. QED  BY <1>3, <1>6, <2>8, <2>9, <2>10 DEF Completes
<1>7. CASE Len(chunks) # NumChunks(offer)
  <2>1. PICK b : b = [offer |-> offer, chunks |-> chunks]
    OBVIOUS
  <2>2. body' = [body EXCEPT ![g] = b] /\ UNCHANGED <<got, at, sub>>
    BY <1>1, <1>7, <2>1 DEF Assembled
  <2>3. QED  BY <1>1, <1>2, <1>3, <1>7, <2>1, <2>2 DEF Waits
<1>8. QED  BY <1>6, <1>7

\* ReceiveFileBody keeps PipeBase.
LEMMA BaseAssembled ==
  ASSUME PipeBase, NEW g \in Goroutines, In(g, "read"), Takes(g), NEW e, e = Other(End(g)),
         NEW id \in Ids,
         NEW chunks \in Seq(Chunks), Assembled(g, OfferTo(e, id), chunks),
         UNCHANGED <<prog, size, done, linked, sendMu, saved>>
  PROVE  PipeBase'
<1>1. PipeTypes /\ Locked /\ Undialled /\ BodyIdle /\ OffersTrue /\ GotTrue
  BY DEF PipeBase
<1>2. End(g) \in Ends
  BY <1>1, InIs
<1>3. e \in Ends /\ End(g) = Other(e) /\ wire' \in [Ends -> Seq(Wired)]
  BY <1>1, <1>2, TakesIs
<1>4. CASE Completes(g, e, id, chunks)
  <2>1. PICK item \in Items : /\ item.id = id /\ Surface(g, item)
                              /\ item.data # <<>> => item.data = Content(id, size[e])
    BY <1>4 DEF Completes
  <2>2. PICK k \in Nat : k # 1 /\ at' = [at EXCEPT ![g] = k] /\ sub' = [sub EXCEPT ![g] = 0]
    BY <1>4 DEF Completes
  <2>3. DOMAIN body' = Goroutines /\ body'[g] = NoBody /\ \A h \in Goroutines \ {g} : body'[h] = body[h]
    BY <1>4 DEF Completes
  <2>4. QED  BY <2>1, <2>2, <2>3, BaseSurface
<1>5. CASE Waits(g, e, id, chunks)
  <2>0. /\ DOMAIN body' = Goroutines /\ body'[g] = [offer |-> OfferTo(e, id), chunks |-> chunks]
        /\ \A h \in Goroutines \ {g} : body'[h] = body[h]
        /\ UNCHANGED <<got, at, sub>>
    BY <1>5 DEF Waits
  <2>1. PipeTypes'
    BY <1>1, <1>3, <2>0 DEF PipeTypes
  <2>2. \A h : /\ \A w : In(h, w)' <=> In(h, w)
               /\ End(h)' = End(h) /\ (Finished(h)' <=> Finished(h)) /\ Frames(h)' = Frames(h)
    BY <2>0, SameCall
  <2>3. \A h : Sends(h)' <=> Sends(h)
    BY <2>2 DEF Sends
  <2>4. Locked' /\ Undialled'
    BY <1>1, <2>0, <2>2, <2>3 DEF Locked, Undialled
  <2>5. BodyIdle'
    <3>1. ASSUME NEW h \in Goroutines, body'[h] # NoBody PROVE at[h] = 0 \/ In(h, "read")
      BY <1>1, <2>0, <3>1 DEF BodyIdle
    <3>2. QED  BY <2>0, <2>2, <3>1 DEF BodyIdle, NoBody
  <2>6. \A d \in Ends : \A j \in DOMAIN wire'[d] : FrameTrue(d, wire'[d][j])
    BY <1>1, <1>2, TakeTrue
  <2>7. OffersTrue'
    <3>1. \A d, i : OfferTo(d, i)' = OfferTo(d, i)
      BY DEF OfferTo
    <3>2. \A d \in Ends : \A j \in DOMAIN wire'[d] : FrameTrue(d, wire[d][j])'
      BY <2>6, <3>1 DEF FrameTrue, Shown
    <3>3. ASSUME NEW d \in Ends, NEW h \in Goroutines, Collects(h, d)'
          PROVE  \E i \in Ids : body'[h].offer = OfferTo(d, i) /\ body'[h].chunks \in Seq(Chunks)
      <4>1. In(h, "read") /\ End(h) = Other(d) /\ body'[h] # NoBody
        BY <2>2, <3>3 DEF Collects, Reader, Other, NoBody
      <4>2. CASE h = g
        <5>1. d = e
          BY <1>3, <4>1, <4>2, OtherIs
        <5>2. body'[h].offer = OfferTo(e, id) /\ body'[h].chunks = chunks
          BY <2>0, <4>2
        <5>3. QED  BY <5>1, <5>2
      <4>3. CASE h # g
        <5>1. body'[h] = body[h]
          BY <2>0, <4>3
        <5>2. Collects(h, d)
          BY <4>1, <5>1 DEF Collects, Reader
        <5>3. QED  BY <1>1, <5>1, <5>2 DEF OffersTrue
      <4>4. QED  BY <4>2, <4>3
    <3>4. QED  BY <3>1, <3>2, <3>3 DEF OffersTrue
  <2>8. GotTrue'
    BY <1>1, <2>0, StaysGot
  <2>9. QED  BY <2>1, <2>4, <2>5, <2>7, <2>8 DEF PipeBase
<1>6. Completes(g, e, id, chunks) \/ Waits(g, e, id, chunks)
  BY <1>1, <1>3, AssembledIs
<1>7. QED  BY <1>4, <1>5, <1>6

\* Facts about the read of an offer.
LEMMA ReadOfferIs ==
  ASSUME PipeTypes, OffersTrue, NEW g \in Goroutines, ReadOffer(g), NEW e, e = Other(End(g))
  PROVE  /\ In(g, "read") /\ End(g) \in linked /\ End(g) \in Ends /\ e \in Ends /\ body[g] = NoBody /\ Takes(g)
         /\ wire[e][1] = Incoming(g) /\ Shown(wire[e][1]) /\ wire[e][1].type = "offer" /\ wire[e][1].id \in Ids
         /\ Assembled(g, OfferTo(e, wire[e][1].id), <<>>)
         /\ UNCHANGED <<prog, size, done, linked, sendMu, saved>>
<1>1. /\ In(g, "read") /\ End(g) \in linked /\ body[g] = NoBody /\ Takes(g)
      /\ Incoming(g).type = "offer" /\ Assembled(g, Incoming(g).body, <<>>)
      /\ UNCHANGED <<prog, size, done, linked, sendMu, saved>>
  BY DEF ReadOffer, Reading
<1>2. End(g) \in Ends
  BY <1>1, InIs
<1>3. e \in Ends /\ wire[e][1] = Incoming(g)
  BY <1>1, <1>2, TakesIs
<1>4. FrameTrue(e, Incoming(g))
  BY <1>1, <1>2, TakeTrue
<1>5. Incoming(g).id \in Ids /\ Shown(Incoming(g)) /\ Incoming(g).body = OfferTo(e, Incoming(g).id)
  BY <1>1, <1>4 DEF FrameTrue, Shown
<1>6. Assembled(g, OfferTo(e, Incoming(g).id), <<>>)
  BY <1>1, <1>5
<1>7. QED  BY <1>1, <1>2, <1>3, <1>5, <1>6

\* An offer is read, and with it a file that has no chunks.
LEMMA BaseReadOffer ==
  ASSUME PipeBase, NEW g \in Goroutines, ReadOffer(g)
  PROVE  PipeBase'
<1>1. PipeTypes /\ OffersTrue
  BY DEF PipeBase
<1>2. PICK e : e = Other(End(g))
  OBVIOUS
<1>3. PICK id : id = wire[e][1].id
  OBVIOUS
<1>4. /\ In(g, "read") /\ Takes(g) /\ id \in Ids /\ Assembled(g, OfferTo(e, id), <<>>)
      /\ UNCHANGED <<prog, size, done, linked, sendMu, saved>>
  BY <1>1, <1>2, <1>3, ReadOfferIs
<1>5. <<>> \in Seq(Chunks)
  OBVIOUS
<1>6. QED  BY <1>2, <1>4, <1>5, BaseAssembled

\* Facts about the read of the next chunk.
Taken(f) == IF f.type = "chunk" THEN f.body ELSE Sealed(<<>>, 0, <<>>)

\* What ReceiveFileBody does with the next frame.
LEMMA ReadChunkIs ==
  ASSUME PipeTypes, OffersTrue, NEW g \in Goroutines, ReadChunk(g), NEW e, e = Other(End(g))
  PROVE  /\ In(g, "read") /\ End(g) \in linked /\ End(g) \in Ends /\ e \in Ends /\ Collects(g, e) /\ Takes(g)
         /\ wire[e][1] = Incoming(g)
         /\ \E id \in Ids : /\ body[g].offer = OfferTo(e, id) /\ body[g].chunks \in Seq(Chunks)
                            /\ Assembled(g, OfferTo(e, id), Append(body[g].chunks, Taken(wire[e][1])))
         /\ UNCHANGED <<prog, size, done, linked, sendMu, saved>>
<1>1. /\ In(g, "read") /\ End(g) \in linked /\ body[g] # NoBody /\ Takes(g)
      /\ Assembled(g, body[g].offer, Append(body[g].chunks, Taken(Incoming(g))))
      /\ UNCHANGED <<prog, size, done, linked, sendMu, saved>>
  BY DEF ReadChunk, Reading, Taken
<1>2. End(g) \in Ends
  BY <1>1, InIs
<1>3. e \in Ends /\ End(g) = Other(e) /\ wire[e][1] = Incoming(g)
  BY <1>1, <1>2, TakesIs
<1>4. Collects(g, e)
  BY <1>1, <1>3 DEF Collects, Reader
<1>5. PICK id \in Ids : body[g].offer = OfferTo(e, id) /\ body[g].chunks \in Seq(Chunks)
  BY <1>3, <1>4 DEF OffersTrue
<1>6. Assembled(g, OfferTo(e, id), Append(body[g].chunks, Taken(wire[e][1])))
  BY <1>1, <1>3, <1>5
<1>7. \E i \in Ids : /\ body[g].offer = OfferTo(e, i) /\ body[g].chunks \in Seq(Chunks)
                     /\ Assembled(g, OfferTo(e, i), Append(body[g].chunks, Taken(wire[e][1])))
  BY <1>5, <1>6
<1>8. QED  BY <1>1, <1>2, <1>3, <1>4, <1>7

\* The next chunk of a file is read.
LEMMA BaseReadChunk ==
  ASSUME PipeBase, NEW g \in Goroutines, ReadChunk(g)
  PROVE  PipeBase'
<1>1. PipeTypes /\ OffersTrue
  BY DEF PipeBase
<1>2. PICK e : e = Other(End(g))
  OBVIOUS
<1>3. /\ In(g, "read") /\ Takes(g) /\ UNCHANGED <<prog, size, done, linked, sendMu, saved>>
      /\ e \in Ends /\ Collects(g, e)
  BY <1>1, <1>2, ReadChunkIs
<1>4. PICK id \in Ids : /\ body[g].offer = OfferTo(e, id) /\ body[g].chunks \in Seq(Chunks)
                        /\ Assembled(g, OfferTo(e, id), Append(body[g].chunks, Taken(wire[e][1])))
  BY <1>1, <1>2, ReadChunkIs
<1>5. PICK c : c = Taken(wire[e][1])
  OBVIOUS
<1>6. PICK chunks : chunks = Append(body[g].chunks, c)
  OBVIOUS
<1>7. Assembled(g, OfferTo(e, id), chunks)
  BY <1>4, <1>5, <1>6
<1>8. c \in Chunks
  <2>1. PICK f : f = wire[e][1]
    OBVIOUS
  <2>2. f \in Wired
    <3>1. End(g) \in Ends
      BY <1>1, <1>3, InIs
    <3>2. 1 \in DOMAIN wire[e]
      BY <1>1, <1>2, <1>3, <3>1, TakesIs
    <3>3. wire[e] \in Seq(Wired)
      BY <1>1, <1>3 DEF PipeTypes
    <3>4. QED  BY <2>1, <3>2, <3>3
  <2>3. f.body \in Bodies
    BY <2>2 DEF Wired
  <2>4. c = f.body \/ c = Sealed(<<>>, 0, <<>>)
    BY <1>5, <2>1 DEF Taken
  <2>5. QED  BY <2>3, <2>4 DEF Chunks
<1>9. chunks \in Seq(Chunks)
  BY <1>4, <1>6, <1>8
<1>10. QED  BY <1>2, <1>3, <1>7, <1>9, BaseAssembled

\* Facts about the read of a frame that is no chunk.
LEMMA ReadNoChunkIs ==
  ASSUME PipeTypes, OffersTrue, NEW g \in Goroutines, ReadNoChunk(g), NEW e, e = Other(End(g))
  PROVE  /\ In(g, "read") /\ End(g) \in Ends /\ e \in Ends /\ Collects(g, e) /\ Takes(g)
         /\ wire[e][1].type = "typing"
         /\ \E item \in Items : item.id = body[g].offer.key /\ item.data = <<>> /\ Surface(g, item)
         /\ at' = [at EXCEPT ![g] = 0] /\ sub' = [sub EXCEPT ![g] = 0]
         /\ DOMAIN body' = Goroutines /\ body'[g] = NoBody /\ \A h \in Goroutines \ {g} : body'[h] = body[h]
         /\ UNCHANGED <<prog, size, done, linked, sendMu, saved>>
<1>1. PICK item : item = [id |-> body[g].offer.key, ok |-> FALSE, data |-> <<>>]
  OBVIOUS
<1>2. /\ In(g, "read") /\ body[g] # NoBody /\ Takes(g) /\ Incoming(g).type = "typing"
      /\ Surface(g, item) /\ body' = [body EXCEPT ![g] = NoBody]
      /\ at' = [at EXCEPT ![g] = 0] /\ sub' = [sub EXCEPT ![g] = 0]
      /\ UNCHANGED <<prog, size, done, linked, sendMu, saved>>
  BY <1>1 DEF ReadNoChunk, Reading, Fail
<1>3. End(g) \in Ends
  BY <1>2, InIs
<1>4. e \in Ends /\ End(g) = Other(e) /\ wire[e][1] = Incoming(g)
  BY <1>2, <1>3, TakesIs
<1>5. Collects(g, e)
  BY <1>2, <1>4 DEF Collects, Reader
<1>6. PICK id \in Ids : body[g].offer = OfferTo(e, id)
  BY <1>4, <1>5 DEF OffersTrue
<1>7. body[g].offer.key \in Ids
  BY <1>6 DEF OfferTo, OfferOf
<1>8. item \in Items /\ item.id = body[g].offer.key /\ item.data = <<>>
  <2>1. <<>> \in Datas
    BY DEF Datas
  <2>2. QED  BY <1>1, <1>7, <2>1 DEF Items
<1>9. DOMAIN body' = Goroutines /\ body'[g] = NoBody /\ \A h \in Goroutines \ {g} : body'[h] = body[h]
  BY <1>2 DEF PipeTypes
<1>10. QED  BY <1>2, <1>3, <1>4, <1>5, <1>8, <1>9

\* A frame that is no chunk ends the file.
LEMMA BaseReadNoChunk ==
  ASSUME PipeBase, NEW g \in Goroutines, ReadNoChunk(g)
  PROVE  PipeBase'
<1>1. PipeTypes /\ OffersTrue
  BY DEF PipeBase
<1>2. PICK e : e = Other(End(g))
  OBVIOUS
<1>3. /\ In(g, "read") /\ Takes(g) /\ UNCHANGED <<prog, size, done, linked, sendMu, saved>>
      /\ at' = [at EXCEPT ![g] = 0] /\ sub' = [sub EXCEPT ![g] = 0]
      /\ DOMAIN body' = Goroutines /\ body'[g] = NoBody /\ \A h \in Goroutines \ {g} : body'[h] = body[h]
  BY <1>1, <1>2, ReadNoChunkIs
<1>4. PICK item \in Items : item.data = <<>> /\ Surface(g, item)
  BY <1>1, <1>2, ReadNoChunkIs
<1>5. PICK k \in Nat : k = 0 /\ k # 1
  OBVIOUS
<1>6. QED  BY <1>3, <1>4, <1>5, BaseSurface

\* Nothing but done changes.
LEMMA BaseSame ==
  ASSUME PipeBase, done' \in BOOLEAN,
         UNCHANGED <<prog, size, at, sub, body, wire, linked, sendMu, saved, got>>
  PROVE  PipeBase'
<1>1. PipeTypes /\ Locked /\ Undialled /\ BodyIdle /\ OffersTrue /\ GotTrue
  BY DEF PipeBase
<1>2. PipeTypes'
  BY <1>1 DEF PipeTypes
<1>3. \A h : /\ \A w : In(h, w)' <=> In(h, w)
             /\ End(h)' = End(h) /\ (Finished(h)' <=> Finished(h)) /\ Frames(h)' = Frames(h)
  BY SameCall
<1>4. \A h : Sends(h)' <=> Sends(h)
  BY <1>3 DEF Sends
<1>5. Locked' /\ Undialled'
  BY <1>1, <1>3, <1>4 DEF Locked, Undialled
<1>6. BodyIdle'
  BY <1>1, <1>3 DEF BodyIdle, NoBody
<1>7. OffersTrue'
  <2>1. \A d, i : OfferTo(d, i)' = OfferTo(d, i)
    BY DEF OfferTo
  <2>2. \A d \in Ends : \A j \in DOMAIN wire[d] : FrameTrue(d, wire[d][j])'
    BY <1>1, <2>1 DEF OffersTrue, FrameTrue, Shown
  <2>3. \A h, d : Collects(h, d)' <=> Collects(h, d)
    BY <1>3 DEF Collects, Reader, Other, NoBody
  <2>4. QED  BY <1>1, <2>1, <2>2, <2>3 DEF OffersTrue
<1>8. GotTrue'
  BY <1>1, StaysGot
<1>9. QED  BY <1>2, <1>5, <1>6, <1>7, <1>8 DEF PipeBase

\* Close closes done and touches nothing else.
LEMMA BaseClose == PipeBase /\ Close => PipeBase'
<1>1. SUFFICES ASSUME PipeBase, Close PROVE PipeBase'
  OBVIOUS
<1>2. done' = TRUE /\ UNCHANGED <<prog, size, at, sub, body, wire, linked, sendMu, saved, got>>
  BY <1>1 DEF Close
<1>3. QED  BY <1>1, <1>2, BaseSame

\* A call that sends is over, or finds the pipe closed.
LEMMA BaseSent ==
  ASSUME PipeBase, NEW g \in Goroutines, Sent(g) \/ SendClosed(g) \/ RecvClosed(g)
  PROVE  PipeBase'
<1>1. PipeTypes /\ Locked /\ BodyIdle
  BY DEF PipeBase
<1>2. CASE Sent(g)
  <2>1. PICK k \in Nat :
           /\ k = at[g] + 1 /\ k # 1 /\ at' = [at EXCEPT ![g] = k] /\ sub' = [sub EXCEPT ![g] = 0]
           /\ sendMu' \in [Ends -> Goroutines \cup {"none"}]
           /\ \A e \in Ends : sendMu'[e] # g /\ \A h \in Goroutines \ {g} : sendMu'[e] = h <=> sendMu[e] = h
           /\ body[g] = NoBody /\ sub[g] > 0 /\ sub[g] = Len(Frames(g)) /\ ~Unsaved(g)
           /\ UNCHANGED <<prog, size, body, wire, done, linked, saved, got>>
    BY <1>1, <1>2, SentEnds
  <2>2. QED  BY <2>1, BaseEnd
<1>3. CASE SendClosed(g)
  <2>1. /\ at' = [at EXCEPT ![g] = 0] /\ sub' = [sub EXCEPT ![g] = 0]
        /\ sendMu' \in [Ends -> Goroutines \cup {"none"}]
        /\ \A e \in Ends : sendMu'[e] # g /\ \A h \in Goroutines \ {g} : sendMu'[e] = h <=> sendMu[e] = h
        /\ UNCHANGED <<prog, size, body, wire, done, linked, saved, got>>
    BY <1>1, <1>3, SendClosedEnds
  <2>2. PICK k \in Nat : k = 0 /\ k # 1
    OBVIOUS
  <2>3. at' = [at EXCEPT ![g] = k]
    BY <2>1, <2>2
  <2>4. QED  BY <2>1, <2>2, <2>3, BaseEnd
<1>4. CASE RecvClosed(g)
  <2>1. /\ at' = [at EXCEPT ![g] = 0] /\ sub' = [sub EXCEPT ![g] = 0]
        /\ sendMu' \in [Ends -> Goroutines \cup {"none"}]
        /\ \A e \in Ends : sendMu'[e] # g /\ \A h \in Goroutines \ {g} : sendMu'[e] = h <=> sendMu[e] = h
        /\ UNCHANGED <<prog, size, body, wire, done, linked, saved, got>>
    BY <1>1, <1>4, RecvClosedEnds
  <2>2. PICK k \in Nat : k = 0 /\ k # 1
    OBVIOUS
  <2>3. at' = [at EXCEPT ![g] = k]
    BY <2>1, <2>2
  <2>4. QED  BY <2>1, <2>2, <2>3, BaseEnd
<1>5. QED  BY <1>2, <1>3, <1>4

\* Every step of the pipe keeps PipeBase.
LEMMA BaseStep ==
  ASSUME PipeBase, PipeNext
  PROVE  PipeBase'
<1>1. ASSUME NEW g \in Goroutines, PipeStep(g) PROVE PipeBase'
  <2>1. CASE Dial(g)
    BY <2>1, BaseDial
  <2>2. CASE Lock(g)
    BY <2>2, BaseLock
  <2>3. CASE Write(g)
    BY <2>3, BaseWrite
  <2>4. CASE Save(g)
    BY <2>4, BaseSave
  <2>5. CASE Sent(g) \/ SendClosed(g) \/ RecvClosed(g)
    BY <2>5, BaseSent
  <2>6. CASE Accept(g)
    BY <2>6, BaseAccept
  <2>7. CASE ReadText(g)
    BY <2>7, BaseReadText
  <2>8. CASE ReadOffer(g)
    BY <2>8, BaseReadOffer
  <2>9. CASE ReadChunk(g)
    BY <2>9, BaseReadChunk
  <2>10. CASE ReadNoChunk(g)
    BY <2>10, BaseReadNoChunk
  <2>11. QED  BY <1>1, <2>1, <2>2, <2>3, <2>4, <2>5, <2>6, <2>7, <2>8, <2>9, <2>10 DEF PipeStep
<1>2. QED  BY <1>1, BaseClose DEF PipeNext

\* No goroutine has made a call and the channels are empty.
LEMMA BaseInit == PipeInit => PipeBase
<1>1. SUFFICES ASSUME PipeInit PROVE PipeBase
  OBVIOUS
<1>2. /\ prog \in Programs /\ size \in [Ends -> Sizes \cup {0}] /\ done = FALSE /\ linked = {}
      /\ at = [g \in Goroutines |-> 1] /\ sub = [g \in Goroutines |-> 0]
      /\ body = [g \in Goroutines |-> NoBody] /\ wire = [e \in Ends |-> <<>>]
      /\ sendMu = [e \in Ends |-> "none"] /\ saved = [e \in Ends |-> <<>>] /\ got = [e \in Ends |-> <<>>]
  BY <1>1 DEF PipeInit
<1>3. size \in [Ends -> Nat]
  <2>1. Sizes \cup {0} \subseteq Nat
    BY PipeAssumption
  <2>2. QED  BY <1>2, <2>1
<1>4. PipeTypes
  <2>1. at \in [Goroutines -> Nat] /\ sub \in [Goroutines -> Nat] /\ DOMAIN body = Goroutines
    BY <1>2
  <2>2. wire \in [Ends -> Seq(Wired)] /\ saved \in [Ends -> Seq(Ids)] /\ got \in [Ends -> Seq(Items)]
    BY <1>2
  <2>3. sendMu \in [Ends -> Goroutines \cup {"none"}]
    BY <1>2
  <2>4. QED  BY <1>2, <1>3, <2>1, <2>2, <2>3 DEF PipeTypes
<1>5. "none" \notin Goroutines
  BY DEF Goroutines
<1>6. Locked /\ Undialled
  BY <1>2, <1>5 DEF Locked, Undialled
<1>7. BodyIdle
  BY <1>2 DEF BodyIdle
<1>8. OffersTrue /\ GotTrue
  BY <1>2 DEF OffersTrue, GotTrue, Collects
<1>9. QED  BY <1>4, <1>6, <1>7, <1>8 DEF PipeBase

\* Steps of the harness, for the pipe.
LEMMA PipeSteps ==
  Next \/ UNCHANGED vars => (PipeNext \/ UNCHANGED pipeVars)
BY DEF Next, vars

\* Steps of the mailbox leave the pipe alone.
LEMMA PipeBaseStutter == PipeBase /\ UNCHANGED pipeVars => PipeBase'
<1>1. SUFFICES ASSUME PipeBase, UNCHANGED pipeVars PROVE PipeBase'
  OBVIOUS
<1>2. done' \in BOOLEAN /\ UNCHANGED <<prog, size, at, sub, body, wire, linked, sendMu, saved, got>>
  BY <1>1 DEF PipeBase, PipeTypes, pipeVars
<1>3. QED  BY <1>1, <1>2, BaseSame

\* The channels of the in-process pipe carry only frames that the calls made,
\* sendMu is held by a call that sends on its end, and a file that was taken has
\* the content of the one that was sent: for every program, capacity, chunk size
\* and file size.
THEOREM PipeInvariance == Spec => []PipeBase
<1>1. Init => PipeBase
  BY BaseInit DEF Init
<1>2. PipeBase /\ [Next]_vars => PipeBase'
  BY PipeSteps, BaseStep, PipeBaseStutter
<1>3. QED  BY <1>1, <1>2, PTL DEF Spec

\* ReassembleExact of module FileTransfer.
THEOREM ReassembleIsExact == Spec => []ReassembleExact
<1>1. ReassembleExact
  BY ReassembleExactHolds
<1>2. QED  BY <1>1, PTL

-----------------------------------------------------------------------------
(* The flow of messages from an end to the other one *)

\* The flow from an end to the other one, place by place: what was received, the
\* file that is being collected, what is on the wire.
FlowAt(e, n, id) ==
  \/ n \in DOMAIN got[Other(e)] /\ got[Other(e)][n].id = id
  \/ n = Len(got[Other(e)]) + 1 /\ \E g \in Goroutines : Collects(g, e) /\ body[g].offer.key = id
  \/ \E k \in DOMAIN wire[e] : n = Len(got[Other(e)]) + 1 + k /\ Shown(wire[e][k]) /\ wire[e][k].id = id

\* The call of this message has sent its first frame.
BegunId(id) ==
  \/ at[id[1]] = 0 \/ id[2] < at[id[1]]
  \/ id[2] = at[id[1]] /\ sub[id[1]] > 0

\* Messages in the flow and in the stores are of calls that have begun.
FlowUsed ==
  /\ \A e \in Ends : \A n \in Nat, id \in Ids : FlowAt(e, n, id) => BegunId(id)
  /\ \A e \in Ends : \A i \in DOMAIN saved[e] : BegunId(saved[e][i])
\* A message has one place in the flow.
FlowOnce ==
  \A e \in Ends : \A n, m \in Nat, id \in Ids : FlowAt(e, n, id) /\ FlowAt(e, m, id) => n = m
\* The store has them in the order of the flow.
FlowOrdered ==
  \A e \in Ends : \A i, j \in DOMAIN saved[e] : \A n, m \in Nat :
    i < j /\ FlowAt(e, n, saved[e][i]) /\ FlowAt(e, m, saved[e][j]) => n < m
\* A message that is still to be kept is the last one in the flow.
UnsavedLast ==
  \A g \in Goroutines : \A n, m \in Nat, id \in Ids :
    /\ ~Finished(g) /\ Unsaved(g) /\ id # Id(g)
    /\ FlowAt(End(g), n, Id(g)) /\ FlowAt(End(g), m, id)
    => m < n

\* The inductive invariant of HistoryOrder.
FlowInv == FlowUsed /\ FlowOnce /\ FlowOrdered /\ UnsavedLast

\* Histories are ordered as the flow is.
LEMMA FlowGivesOrder == PipeTypes /\ FlowInv => HistoryOrder
<1>1. SUFFICES ASSUME PipeTypes, FlowInv, NEW e \in Ends, NEW i \in DOMAIN saved[e],
                      NEW j \in DOMAIN saved[e],
                      NEW k \in DOMAIN got[Other(e)], NEW l \in DOMAIN got[Other(e)],
                      saved[e][i] = got[Other(e)][k].id, saved[e][j] = got[Other(e)][l].id
               PROVE  i < j <=> k < l
  BY DEF HistoryOrder
<1>2. Other(e) \in Ends
  BY OtherIs
<1>3. got[Other(e)] \in Seq(Items) /\ saved[e] \in Seq(Ids)
  BY <1>1, <1>2 DEF PipeTypes
<1>4. k \in Nat /\ l \in Nat /\ i \in Nat /\ j \in Nat /\ saved[e][i] \in Ids /\ saved[e][j] \in Ids
  BY <1>3
<1>5. FlowAt(e, k, saved[e][i]) /\ FlowAt(e, l, saved[e][j])
  BY <1>1 DEF FlowAt
<1>6. i < j => k < l
  BY <1>1, <1>4, <1>5 DEF FlowInv, FlowOrdered
<1>7. j < i => l < k
  BY <1>1, <1>4, <1>5 DEF FlowInv, FlowOrdered
<1>8. i = j => k = l
  BY <1>1, <1>4, <1>5 DEF FlowInv, FlowOnce
<1>9. QED  BY <1>4, <1>6, <1>7, <1>8

-----------------------------------------------------------------------------
\* Messages of the flow stay in it in the same order, or leave it.
FlowKept(e) ==
  \A n, m \in Nat, id, jd \in Ids :
    FlowAt(e, n, id)' /\ FlowAt(e, m, jd)' =>
      \E p, q \in Nat : /\ FlowAt(e, p, id) /\ FlowAt(e, q, jd)
                        /\ n < m => p < q
                        /\ n = m => p = q

\* The flow keeps its order when no message joins it and none is saved.
LEMMA FlowMoves ==
  ASSUME PipeTypes, FlowInv, saved' = saved,
         \A id \in Ids : BegunId(id) => BegunId(id)',
         \A g \in Goroutines : ~Finished(g)' /\ Unsaved(g)' =>
           /\ ~Finished(g) /\ Unsaved(g) /\ Id(g)' = Id(g) /\ End(g)' = End(g)
           /\ End(g) \in Ends /\ Id(g) \in Ids,
         \A e \in Ends : FlowKept(e)
  PROVE  FlowInv'
<1>1. FlowUsed /\ FlowOnce /\ FlowOrdered /\ UnsavedLast /\ saved \in [Ends -> Seq(Ids)]
  BY DEF FlowInv, PipeTypes
<1>2. FlowUsed'
  <2>1. ASSUME NEW e \in Ends, NEW n \in Nat, NEW id \in Ids, FlowAt(e, n, id)' PROVE BegunId(id)'
    <3>1. PICK p \in Nat : FlowAt(e, p, id)
      BY <2>1 DEF FlowKept
    <3>2. QED  BY <1>1, <3>1 DEF FlowUsed
  <2>2. ASSUME NEW e \in Ends, NEW i \in DOMAIN saved[e] PROVE BegunId(saved[e][i])'
    <3>1. saved[e][i] \in Ids
      BY <1>1
    <3>2. PICK x : x = saved[e][i]
      OBVIOUS
    <3>3. BegunId(x) /\ x \in Ids /\ x = saved'[e][i]
      BY <1>1, <2>2, <3>1, <3>2 DEF FlowUsed
    <3>4. BegunId(x)'
      BY <3>3
    <3>5. QED  BY <3>3, <3>4 DEF BegunId
  <2>3. QED  BY <2>1, <2>2 DEF FlowUsed
<1>3. FlowOnce'
  <2>1. ASSUME NEW e \in Ends, NEW n \in Nat, NEW m \in Nat, NEW id \in Ids,
               FlowAt(e, n, id)', FlowAt(e, m, id)'
        PROVE  ~(n < m)
    <3>1. PICK p, q \in Nat : FlowAt(e, p, id) /\ FlowAt(e, q, id) /\ (n < m => p < q)
      BY <2>1 DEF FlowKept
    <3>2. p = q
      BY <1>1, <3>1 DEF FlowOnce
    <3>3. QED  BY <3>1, <3>2
  <2>2. ASSUME NEW e \in Ends, NEW n \in Nat, NEW m \in Nat, NEW id \in Ids,
               FlowAt(e, n, id)', FlowAt(e, m, id)'
        PROVE  n = m
    <3>1. ~(n < m) /\ ~(m < n)
      BY <2>1, <2>2
    <3>2. QED  BY <3>1
  <2>3. QED  BY <2>2 DEF FlowOnce
<1>4. FlowOrdered'
  <2>1. ASSUME NEW e \in Ends, NEW i \in DOMAIN saved[e], NEW j \in DOMAIN saved[e],
               NEW n \in Nat, NEW m \in Nat,
               i < j, NEW x, NEW y, x = saved[e][i], y = saved[e][j], FlowAt(e, n, x)', FlowAt(e, m, y)'
        PROVE  n < m
    <3>1. x \in Ids /\ y \in Ids
      BY <1>1, <2>1
    <3>2. PICK p, q \in Nat : FlowAt(e, p, x) /\ FlowAt(e, q, y) /\ (n = m => p = q)
      BY <2>1, <3>1 DEF FlowKept
    <3>3. p < q
      BY <1>1, <2>1, <3>2 DEF FlowOrdered
    <3>4. PICK r, s \in Nat : FlowAt(e, r, y) /\ FlowAt(e, s, x) /\ (m < n => r < s)
      BY <2>1, <3>1 DEF FlowKept
    <3>5. s < r
      BY <1>1, <2>1, <3>4 DEF FlowOrdered
    <3>6. QED  BY <3>2, <3>3, <3>4, <3>5
  <2>2. ASSUME NEW e \in Ends, NEW i \in DOMAIN saved'[e], NEW j \in DOMAIN saved'[e],
               NEW n \in Nat, NEW m \in Nat,
               i < j, FlowAt(e, n, saved[e][i])', FlowAt(e, m, saved[e][j])'
        PROVE  n < m
    <3>1. PICK x, y : x = saved[e][i] /\ y = saved[e][j]
      OBVIOUS
    <3>2. FlowAt(e, n, x)' /\ FlowAt(e, m, y)'
      BY <2>2, <3>1 DEF FlowAt
    <3>3. QED  BY <2>1, <2>2, <3>1, <3>2
  <2>3. QED  BY <2>2 DEF FlowOrdered
<1>5. UnsavedLast'
  <2>1. ASSUME NEW g \in Goroutines, NEW n \in Nat, NEW m \in Nat, NEW id \in Ids,
               ~Finished(g)', Unsaved(g)', id # Id(g)', FlowAt(End(g), n, Id(g))', FlowAt(End(g), m, id)'
        PROVE  m < n
    <3>1. PICK e, x : e = End(g) /\ x = Id(g)
      OBVIOUS
    <3>2. /\ ~Finished(g) /\ Unsaved(g) /\ Id(g)' = x /\ End(g)' = e /\ e \in Ends /\ x \in Ids
      BY <2>1, <3>1
    <3>3. FlowAt(e, n, x)' /\ FlowAt(e, m, id)'
      BY <2>1, <3>2 DEF FlowAt, Collects, Reader, Other
    <3>4. PICK p, q \in Nat : FlowAt(e, p, x) /\ FlowAt(e, q, id) /\ (n < m => p < q) /\ (n = m => p = q)
      BY <3>2, <3>3 DEF FlowKept
    <3>5. q < p
      BY <1>1, <2>1, <3>1, <3>2, <3>4 DEF UnsavedLast
    <3>6. QED  BY <3>4, <3>5
  <2>2. QED  BY <2>1 DEF UnsavedLast
<1>6. QED  BY <1>2, <1>3, <1>4, <1>5 DEF FlowInv

\* No frame is sent and nothing is kept: a goroutine stays where it is or leaves its call.
Quiet ==
  /\ prog' = prog /\ size' = size /\ saved' = saved
  /\ \A h \in Goroutines : \/ at'[h] = at[h] /\ sub'[h] = sub[h]
                           \/ sub'[h] = 0 /\ at'[h] \in {0, at[h] + 1}

\* A call that has begun has begun, also after it ended.
LEMMA QuietBegun ==
  ASSUME PipeTypes, PipeTypes', NEW id \in Ids, BegunId(id), NEW h, h = id[1],
         \/ at'[h] = at[h] /\ sub'[h] >= sub[h]
         \/ at[h] # 0 /\ at'[h] \in {0, at[h] + 1}
  PROVE  BegunId(id)'
<1>1. id[2] \in Nat /\ h \in Goroutines
  BY DEF Ids
<1>2. at[h] \in Nat /\ sub[h] \in Nat /\ at'[h] \in Nat /\ sub'[h] \in Nat
  BY <1>1 DEF PipeTypes
<1>3. PICK a, b, c, d, k \in Nat : a = at[h] /\ b = at'[h] /\ c = sub[h] /\ d = sub'[h] /\ k = id[2]
  BY <1>1, <1>2
<1>4. a = 0 \/ k < a \/ (k = a /\ c > 0)
  BY <1>3 DEF BegunId
<1>5. (b = a /\ d >= c) \/ (a # 0 /\ (b = 0 \/ b = a + 1))
  BY <1>3
<1>6. b = 0 \/ k < b \/ (k = b /\ d > 0)
  BY <1>4, <1>5
<1>7. QED  BY <1>3, <1>6 DEF BegunId

\* A goroutine that has returned takes no more steps.
LEMMA CallNotOver ==
  ASSUME PipeTypes, NEW g \in Goroutines, ~Finished(g)
  PROVE  at[g] # 0 /\ End(g) \in Ends
<1>1. In(g, Script(g)[at[g]].what)
  BY DEF Finished, In
<1>2. QED  BY <1>1, InIs

\* No message becomes one that is still to be saved.
LEMMA QuietUnsaved ==
  ASSUME PipeTypes, Locked,
         NEW h \in Goroutines, prog' = prog, size' = size, saved' = saved, ~Finished(h)', Unsaved(h)',
         \/ at'[h] = at[h] /\ sub'[h] = sub[h]
         \/ sub'[h] = 0
  PROVE  /\ ~Finished(h) /\ Unsaved(h) /\ Id(h)' = Id(h) /\ End(h)' = End(h)
         /\ End(h) \in Ends /\ Id(h) \in Ids
<1>1. sub'[h] > 0
  BY DEF Unsaved
<1>2. at'[h] = at[h] /\ sub'[h] = sub[h]
  BY <1>1
<1>3. End(h)' = End(h) /\ (Finished(h)' <=> Finished(h)) /\ Id(h)' = Id(h) /\ Frames(h)' = Frames(h)
  BY <1>2, SameCall
<1>4. ~Finished(h) /\ Unsaved(h)
  BY <1>2, <1>3 DEF Unsaved, Persistable
<1>5. End(h) \in Ends
  BY <1>4, CallNotOver
<1>6. Id(h) \in Ids
  BY DEF Id, Ids, PipeTypes
<1>7. QED  BY <1>3, <1>4, <1>5, <1>6

\* So it does in a step in which no call sends its first frame.
LEMMA FlowQuiet ==
  ASSUME PipeTypes, PipeTypes', Locked, FlowInv, Quiet,
         \A h \in Goroutines : at'[h] # at[h] => at[h] # 0,
         \A e \in Ends : FlowKept(e)
  PROVE  FlowInv'
<1>1. prog' = prog /\ size' = size /\ saved' = saved
  BY DEF Quiet
<1>2. ASSUME NEW id \in Ids, BegunId(id) PROVE BegunId(id)'
  <2>1. PICK h : h = id[1]
    OBVIOUS
  <2>2. h \in Goroutines
    BY <2>1 DEF Ids
  <2>3. at[h] \in Nat /\ sub[h] \in Nat
    BY <2>2 DEF PipeTypes
  <2>4. \/ at'[h] = at[h] /\ sub'[h] = sub[h]
        \/ sub'[h] = 0 /\ at'[h] \in {0, at[h] + 1}
    BY <2>2 DEF Quiet
  <2>5. \/ at'[h] = at[h] /\ sub'[h] >= sub[h]
        \/ at[h] # 0 /\ at'[h] \in {0, at[h] + 1}
        \/ at[h] = 0 /\ at'[h] = 0
    BY <2>2, <2>3, <2>4
  <2>6. CASE at[h] = 0 /\ at'[h] = 0
    BY <2>1, <2>6 DEF BegunId
  <2>7. CASE \/ at'[h] = at[h] /\ sub'[h] >= sub[h]
             \/ at[h] # 0 /\ at'[h] \in {0, at[h] + 1}
    BY <1>2, <2>1, <2>7, QuietBegun
  <2>8. QED  BY <2>5, <2>6, <2>7
<1>3. ASSUME NEW g \in Goroutines, ~Finished(g)', Unsaved(g)'
      PROVE  /\ ~Finished(g) /\ Unsaved(g) /\ Id(g)' = Id(g) /\ End(g)' = End(g)
             /\ End(g) \in Ends /\ Id(g) \in Ids
  <2>1. \/ at'[g] = at[g] /\ sub'[g] = sub[g]
        \/ sub'[g] = 0
    BY DEF Quiet
  <2>2. QED  BY <1>1, <1>3, <2>1, QuietUnsaved
<1>4. QED  BY <1>1, <1>2, <1>3, FlowMoves

-----------------------------------------------------------------------------
\* The three ways in which places move.
LEMMA KeptInPlace ==
  ASSUME NEW e \in Ends, \A n \in Nat, id \in Ids : FlowAt(e, n, id)' => FlowAt(e, n, id)
  PROVE  FlowKept(e)
BY DEF FlowKept

\* Places behind the head of the wire move up by one.
LEMMA KeptShifted ==
  ASSUME NEW e \in Ends, NEW c \in Nat,
         \A n \in Nat, id \in Ids : FlowAt(e, n, id)' => FlowAt(e, IF n > c THEN n + 1 ELSE n, id)
  PROVE  FlowKept(e)
<1>1. SUFFICES ASSUME NEW n \in Nat, NEW m \in Nat, NEW id \in Ids,
                      NEW jd \in Ids, FlowAt(e, n, id)', FlowAt(e, m, jd)'
               PROVE  \E p, q \in Nat : /\ FlowAt(e, p, id) /\ FlowAt(e, q, jd)
                                        /\ n < m => p < q
                                        /\ n = m => p = q
  BY DEF FlowKept
<1>2. PICK p, q \in Nat : p = (IF n > c THEN n + 1 ELSE n) /\ q = (IF m > c THEN m + 1 ELSE m)
  OBVIOUS
<1>3. FlowAt(e, p, id) /\ FlowAt(e, q, jd)
  BY <1>1, <1>2
<1>4. (n < m => p < q) /\ (n = m => p = q)
  BY <1>2
<1>5. QED  BY <1>3, <1>4

\* The head of the wire, or the collected file, moves to what was received.
LEMMA KeptSurfaced ==
  ASSUME NEW e \in Ends, NEW c \in Nat,
         \A n \in Nat, id \in Ids : FlowAt(e, n, id)' => n # c + 1 /\ FlowAt(e, IF n = c THEN c + 1 ELSE n, id)
  PROVE  FlowKept(e)
<1>1. SUFFICES ASSUME NEW n \in Nat, NEW m \in Nat, NEW id \in Ids,
                      NEW jd \in Ids, FlowAt(e, n, id)', FlowAt(e, m, jd)'
               PROVE  \E p, q \in Nat : /\ FlowAt(e, p, id) /\ FlowAt(e, q, jd)
                                        /\ n < m => p < q
                                        /\ n = m => p = q
  BY DEF FlowKept
<1>2. PICK p, q \in Nat : p = (IF n = c THEN c + 1 ELSE n) /\ q = (IF m = c THEN c + 1 ELSE m)
  OBVIOUS
<1>3. FlowAt(e, p, id) /\ FlowAt(e, q, jd) /\ n # c + 1 /\ m # c + 1
  BY <1>1, <1>2
<1>4. (n < m => p < q) /\ (n = m => p = q)
  BY <1>2, <1>3
<1>5. QED  BY <1>3, <1>4

-----------------------------------------------------------------------------
\* Nothing is taken from this end's wire, and what is added is not shown.
LEMMA FlowSame ==
  ASSUME NEW e \in Ends, got'[Other(e)] = got[Other(e)],
         \A h \in Goroutines : Collects(h, e)' => Collects(h, e) /\ body'[h].offer = body[h].offer,
         \A k \in DOMAIN wire'[e] : Shown(wire'[e][k]) => k \in DOMAIN wire[e] /\ wire'[e][k] = wire[e][k]
  PROVE  FlowKept(e)
<1>1. ASSUME NEW n \in Nat, NEW id \in Ids, FlowAt(e, n, id)' PROVE FlowAt(e, n, id)
  <2>1. CASE n \in DOMAIN got'[Other(e)] /\ got'[Other(e)][n].id = id
    BY <2>1 DEF FlowAt
  <2>2. CASE n = Len(got'[Other(e)]) + 1 /\ \E g \in Goroutines : Collects(g, e)' /\ body'[g].offer.key = id
    BY <2>2 DEF FlowAt
  <2>3. CASE \E k \in DOMAIN wire'[e] : n = Len(got'[Other(e)]) + 1 + k /\ Shown(wire'[e][k]) /\ wire'[e][k].id = id
    <3>1. PICK k \in DOMAIN wire'[e] : n = Len(got'[Other(e)]) + 1 + k /\ Shown(wire'[e][k]) /\ wire'[e][k].id = id
      BY <2>3
    <3>2. k \in DOMAIN wire[e] /\ wire'[e][k] = wire[e][k]
      BY <3>1
    <3>3. QED  BY <3>1, <3>2 DEF FlowAt
  <2>4. Other(e)' = Other(e)
    BY DEF Other
  <2>5. QED  BY <1>1, <2>1, <2>2, <2>3, <2>4 DEF FlowAt, Shown
<1>2. QED  BY <1>1, KeptInPlace

\* The first frame of the wire is taken.
HeadTaken(e) ==
  /\ Len(got[Other(e)]) \in Nat /\ DOMAIN got[Other(e)] = 1 .. Len(got[Other(e)])
  /\ 1 \in DOMAIN wire[e]
  /\ \A k \in DOMAIN wire'[e] : k \in Nat \ {0} /\ k + 1 \in DOMAIN wire[e] /\ wire'[e][k] = wire[e][k + 1]

\* It is dropped, or goes into the file that is collected.
LEMMA FlowHeadDropped ==
  ASSUME NEW e \in Ends, HeadTaken(e), got'[Other(e)] = got[Other(e)],
         \A h \in Goroutines : Collects(h, e)' => Collects(h, e) /\ body'[h].offer = body[h].offer
  PROVE  FlowKept(e)
<1>1. PICK L \in Nat : L = Len(got[Other(e)])
  BY DEF HeadTaken
<1>2. PICK c \in Nat : c = L + 1
  OBVIOUS
<1>3. ASSUME NEW n \in Nat, NEW id \in Ids, FlowAt(e, n, id)' PROVE FlowAt(e, IF n > c THEN n + 1 ELSE n, id)
  <2>1. CASE n \in DOMAIN got'[Other(e)] /\ got'[Other(e)][n].id = id
    <3>1. FlowAt(e, n, id) /\ ~(n > c)
      BY <1>1, <1>2, <2>1 DEF FlowAt, HeadTaken
    <3>2. QED  BY <3>1
  <2>2. CASE n = Len(got'[Other(e)]) + 1 /\ \E g \in Goroutines : Collects(g, e)' /\ body'[g].offer.key = id
    <3>1. FlowAt(e, n, id) /\ ~(n > c)
      BY <1>1, <1>2, <2>2 DEF FlowAt
    <3>2. QED  BY <3>1
  <2>3. CASE \E k \in DOMAIN wire'[e] : n = Len(got'[Other(e)]) + 1 + k /\ Shown(wire'[e][k]) /\ wire'[e][k].id = id
    <3>1. PICK k \in DOMAIN wire'[e] : n = Len(got'[Other(e)]) + 1 + k /\ Shown(wire'[e][k]) /\ wire'[e][k].id = id
      BY <2>3
    <3>2. k \in Nat \ {0} /\ k + 1 \in DOMAIN wire[e] /\ wire'[e][k] = wire[e][k + 1]
      BY DEF HeadTaken
    <3>3. PICK m \in Nat : m = L + 1 + (k + 1)
      BY <3>2
    <3>4. FlowAt(e, m, id)
      BY <1>1, <3>1, <3>2, <3>3 DEF FlowAt
    <3>5. n = L + 1 + k
      BY <1>1, <3>1
    <3>6. n > c /\ m = n + 1
      BY <1>2, <3>2, <3>3, <3>5
    <3>7. QED  BY <3>4, <3>6
  <2>4. Other(e)' = Other(e)
    BY DEF Other
  <2>5. QED  BY <1>3, <2>1, <2>2, <2>3, <2>4 DEF FlowAt, Shown
<1>4. QED  BY <1>3, KeptShifted

\* It is an offer whose chunks follow.
LEMMA FlowHeadCollected ==
  ASSUME NEW e \in Ends, HeadTaken(e), got'[Other(e)] = got[Other(e)], Shown(wire[e][1]),
         \A h \in Goroutines : Collects(h, e)' => body'[h].offer.key = wire[e][1].id
  PROVE  FlowKept(e)
<1>1. PICK L \in Nat : L = Len(got[Other(e)])
  BY DEF HeadTaken
<1>2. ASSUME NEW n \in Nat, NEW id \in Ids, FlowAt(e, n, id)' PROVE FlowAt(e, IF n > L THEN n + 1 ELSE n, id)
  <2>1. CASE n \in DOMAIN got'[Other(e)] /\ got'[Other(e)][n].id = id
    <3>1. FlowAt(e, n, id) /\ ~(n > L)
      BY <1>1, <2>1 DEF FlowAt, HeadTaken
    <3>2. QED  BY <3>1
  <2>2. CASE n = Len(got'[Other(e)]) + 1 /\ \E g \in Goroutines : Collects(g, e)' /\ body'[g].offer.key = id
    <3>1. n = L + 1 /\ wire[e][1].id = id
      BY <1>1, <2>2
    <3>2. PICK m \in Nat : m = L + 1 + 1
      OBVIOUS
    <3>3. FlowAt(e, m, id)
      BY <1>1, <3>1, <3>2 DEF FlowAt, HeadTaken
    <3>4. n > L /\ m = n + 1
      BY <3>1, <3>2
    <3>5. QED  BY <3>3, <3>4
  <2>3. CASE \E k \in DOMAIN wire'[e] : n = Len(got'[Other(e)]) + 1 + k /\ Shown(wire'[e][k]) /\ wire'[e][k].id = id
    <3>1. PICK k \in DOMAIN wire'[e] : n = Len(got'[Other(e)]) + 1 + k /\ Shown(wire'[e][k]) /\ wire'[e][k].id = id
      BY <2>3
    <3>2. k \in Nat \ {0} /\ k + 1 \in DOMAIN wire[e] /\ wire'[e][k] = wire[e][k + 1]
      BY DEF HeadTaken
    <3>3. PICK m \in Nat : m = L + 1 + (k + 1)
      BY <3>2
    <3>4. FlowAt(e, m, id)
      BY <1>1, <3>1, <3>2, <3>3 DEF FlowAt
    <3>5. n = L + 1 + k
      BY <1>1, <3>1
    <3>6. n > L /\ m = n + 1
      BY <3>2, <3>3, <3>5
    <3>7. QED  BY <3>4, <3>6
  <2>4. Other(e)' = Other(e)
    BY DEF Other
  <2>5. QED  BY <1>2, <2>1, <2>2, <2>3, <2>4 DEF FlowAt, Shown
<1>3. QED  BY <1>2, KeptShifted

\* An item is added to what the other end has received, and no file is collected.
ItemAdded(e, item) ==
  /\ \A h \in Goroutines : ~Collects(h, e)'
  /\ Len(got'[Other(e)]) = Len(got[Other(e)]) + 1
  /\ DOMAIN got'[Other(e)] = 1 .. Len(got[Other(e)]) + 1
  /\ got'[Other(e)][Len(got[Other(e)]) + 1] = item
  /\ \A i \in DOMAIN got[Other(e)] : got'[Other(e)][i] = got[Other(e)][i]

\* Where the flow is after that.
LEMMA FlowAdded ==
  ASSUME NEW e \in Ends, HeadTaken(e), NEW item, ItemAdded(e, item),
         NEW L \in Nat, L = Len(got[Other(e)]),
         NEW n \in Nat, NEW id \in Ids, FlowAt(e, n, id)'
  PROVE  \/ n <= L /\ FlowAt(e, n, id)
         \/ n = L + 1 /\ item.id = id
         \/ n > L + 2 /\ FlowAt(e, n, id)
<1>1. CASE n \in DOMAIN got'[Other(e)] /\ got'[Other(e)][n].id = id
  <2>1. n = L + 1 \/ n \in 1 .. L
    BY <1>1 DEF ItemAdded
  <2>2. CASE n = L + 1
    BY <1>1, <2>2 DEF ItemAdded
  <2>3. CASE n \in 1 .. L
    <3>1. n \in DOMAIN got[Other(e)] /\ got[Other(e)][n].id = id
      BY <1>1, <2>3 DEF ItemAdded, HeadTaken
    <3>2. QED  BY <2>3, <3>1 DEF FlowAt
  <2>4. QED  BY <2>1, <2>2, <2>3
<1>2. CASE n = Len(got'[Other(e)]) + 1 /\ \E g \in Goroutines : Collects(g, e)' /\ body'[g].offer.key = id
  BY <1>2 DEF ItemAdded
<1>3. CASE \E k \in DOMAIN wire'[e] : n = Len(got'[Other(e)]) + 1 + k /\ Shown(wire'[e][k]) /\ wire'[e][k].id = id
  <2>1. PICK k \in DOMAIN wire'[e] : n = Len(got'[Other(e)]) + 1 + k /\ Shown(wire'[e][k]) /\ wire'[e][k].id = id
    BY <1>3
  <2>2. k \in Nat \ {0} /\ k + 1 \in DOMAIN wire[e] /\ wire'[e][k] = wire[e][k + 1]
    BY DEF HeadTaken
  <2>3. n = (L + 1) + 1 + k
    BY <2>1 DEF ItemAdded
  <2>4. n = L + 1 + (k + 1)
    <3>1. k \in Nat
      BY <2>2
    <3>2. \A a, b \in Nat : (a + 1) + 1 + b = a + 1 + (b + 1)
      OBVIOUS
    <3>3. QED  BY <2>3, <3>1, <3>2
  <2>5. FlowAt(e, n, id)
    BY <2>1, <2>2, <2>4 DEF FlowAt
  <2>6. n > L + 2
    BY <2>2, <2>3
  <2>7. QED  BY <2>5, <2>6
<1>4. Other(e)' = Other(e)
  BY DEF Other
<1>5. QED  BY <1>1, <1>2, <1>3, <1>4 DEF FlowAt, Shown

\* The head of the wire is received at once.
LEMMA FlowHeadSurfaced ==
  ASSUME NEW e \in Ends, HeadTaken(e),
         NEW item, ItemAdded(e, item), Shown(wire[e][1]), item.id = wire[e][1].id
  PROVE  FlowKept(e)
<1>1. PICK L \in Nat : L = Len(got[Other(e)])
  BY DEF HeadTaken
<1>2. PICK c \in Nat : c = L + 1
  OBVIOUS
<1>3. ASSUME NEW n \in Nat, NEW id \in Ids, FlowAt(e, n, id)'
      PROVE  n # c + 1 /\ FlowAt(e, IF n = c THEN c + 1 ELSE n, id)
  <2>1. \/ n <= L /\ FlowAt(e, n, id)
        \/ n = L + 1 /\ item.id = id
        \/ n > L + 2 /\ FlowAt(e, n, id)
    BY <1>1, <1>3, FlowAdded
  <2>2. CASE n = L + 1 /\ item.id = id
    <3>1. PICK m \in Nat : m = L + 1 + 1
      OBVIOUS
    <3>2. FlowAt(e, m, id)
      BY <1>1, <2>2, <3>1 DEF FlowAt, HeadTaken
    <3>3. n = c /\ m = c + 1
      BY <1>2, <2>2, <3>1
    <3>4. QED  BY <3>2, <3>3
  <2>3. CASE (n <= L \/ n > L + 2) /\ FlowAt(e, n, id)
    <3>1. n # c /\ n # c + 1
      BY <1>2, <2>3
    <3>2. QED  BY <2>3, <3>1
  <2>4. QED  BY <2>1, <2>2, <2>3
<1>4. QED  BY <1>3, KeptSurfaced

\* The file that was collected is received.
LEMMA FlowCompleted ==
  ASSUME NEW e \in Ends, HeadTaken(e), NEW item, ItemAdded(e, item),
         NEW g \in Goroutines, Collects(g, e),
         item.id = body[g].offer.key
  PROVE  FlowKept(e)
<1>1. PICK L \in Nat : L = Len(got[Other(e)])
  BY DEF HeadTaken
<1>2. ASSUME NEW n \in Nat, NEW id \in Ids, FlowAt(e, n, id)' PROVE FlowAt(e, n, id)
  <2>1. \/ n <= L /\ FlowAt(e, n, id)
        \/ n = L + 1 /\ item.id = id
        \/ n > L + 2 /\ FlowAt(e, n, id)
    BY <1>1, <1>2, FlowAdded
  <2>2. CASE n = L + 1 /\ item.id = id
    BY <1>1, <2>2 DEF FlowAt
  <2>3. QED  BY <2>1, <2>2
<1>3. QED  BY <1>2, KeptInPlace

\* One goroutine reads from an end.
LEMMA OnlyReader ==
  ASSUME PipeTypes, NEW e \in Ends, NEW g \in Goroutines,
         NEW h \in Goroutines, Reader(g, e), Reader(h, e)
  PROVE  g = h
<1>1. In(g, "read") /\ In(h, "read") /\ End(g) = Other(e) /\ End(h) = Other(e)
  BY DEF Reader
<1>2. g = ReaderOf(End(g)) /\ h = ReaderOf(End(h))
  BY <1>1, InIs
<1>3. QED  BY <1>1, <1>2

\* A goroutine that is not touched collects what it collected.
LEMMA SameCollector ==
  ASSUME prog' = prog, size' = size, NEW h, at'[h] = at[h], body'[h] = body[h], NEW e
  PROVE  Collects(h, e)' <=> Collects(h, e)
<1>1. (\A w : In(h, w)' <=> In(h, w)) /\ End(h)' = End(h)
  BY SameCall
<1>2. QED  BY <1>1 DEF Collects, Reader, Other, NoBody

\* A file that is not collected any more was dropped, or the call went on.
LEMMA SameOrIdle ==
  ASSUME NEW h, NEW e, Collects(h, e)', body'[h] = NoBody
  PROVE  FALSE
BY DEF Collects, NoBody

\* Takes, for the flow.
LEMMA HeadIs ==
  ASSUME PipeTypes, NEW g \in Goroutines, End(g) \in Ends, Takes(g), NEW e, e = Other(End(g))
  PROVE  /\ HeadTaken(e) /\ e \in Ends /\ End(g) = Other(e) /\ Other(e) \in Ends /\ Other(e) # e
         /\ wire'[Other(e)] = wire[Other(e)]
<1>1. /\ e \in Ends /\ End(g) = Other(e) /\ wire'[Other(e)] = wire[Other(e)]
      /\ Len(wire[e]) \in Nat \ {0} /\ DOMAIN wire[e] = 1 .. Len(wire[e])
      /\ DOMAIN wire'[e] = 1 .. Len(wire[e]) - 1
      /\ \A i \in DOMAIN wire'[e] : i \in Nat /\ i + 1 \in DOMAIN wire[e] /\ wire'[e][i] = wire[e][i + 1]
  BY TakesIs
<1>2. 1 \in DOMAIN wire[e]
  BY <1>1
<1>3. \A i \in DOMAIN wire'[e] : i \in Nat \ {0}
  BY <1>1
<1>4. Other(e) \in Ends /\ Other(e) # e
  BY <1>1, OtherIs
<1>5. got[Other(e)] \in Seq(Items)
  BY <1>4 DEF PipeTypes
<1>6. Len(got[Other(e)]) \in Nat /\ DOMAIN got[Other(e)] = 1 .. Len(got[Other(e)])
  BY <1>5
<1>7. QED  BY <1>1, <1>2, <1>3, <1>4, <1>6 DEF HeadTaken

\* The end that a goroutine reads at is not disturbed in its own flow.
LEMMA OwnFlow ==
  ASSUME NEW d \in Ends, wire'[d] = wire[d], got'[Other(d)] = got[Other(d)],
         \A h \in Goroutines : Collects(h, d)' => Collects(h, d) /\ body'[h].offer = body[h].offer
  PROVE  FlowKept(d)
BY FlowSame

\* Accept.
LEMMA FlowAccept ==
  ASSUME PipeBase, PipeBase', FlowInv, NEW g \in Goroutines, Accept(g)
  PROVE  FlowInv'
<1>1. PipeTypes /\ Locked /\ BodyIdle /\ PipeTypes'
  BY DEF PipeBase
<1>2. /\ In(g, "accept") /\ Takes(g) /\ at' = [at EXCEPT ![g] = at[g] + 1] /\ sub' = [sub EXCEPT ![g] = 0]
      /\ UNCHANGED <<prog, size, body, done, sendMu, saved, got>>
  BY <1>1 DEF Accept, Return, PipeTypes
<1>3. End(g) \in Ends /\ at[g] \in Nat \ {0} /\ body[g] = NoBody
  BY <1>1, <1>2, InIs, NothingCollected
<1>4. PICK e : e = Other(End(g))
  OBVIOUS
<1>5. /\ HeadTaken(e) /\ e \in Ends /\ Other(e) \in Ends /\ wire'[Other(e)] = wire[Other(e)]
  BY <1>1, <1>2, <1>3, <1>4, HeadIs
<1>6. \A h \in Goroutines \ {g} : at'[h] = at[h] /\ sub'[h] = sub[h]
  BY <1>1, <1>2 DEF PipeTypes
<1>7. at'[g] = at[g] + 1 /\ sub'[g] = 0
  BY <1>1, <1>2 DEF PipeTypes
<1>8. ASSUME NEW d \in Ends, NEW h \in Goroutines, Collects(h, d)'
      PROVE  Collects(h, d) /\ body'[h].offer = body[h].offer
  <2>1. h # g
    BY <1>2, <1>3, <1>8, SameOrIdle
  <2>2. QED  BY <1>2, <1>6, <1>8, <2>1, SameCollector
<1>9. FlowKept(e)
  BY <1>2, <1>5, <1>8, FlowHeadDropped
<1>10. FlowKept(Other(e))
  BY <1>2, <1>5, <1>8, OwnFlow
<1>11. \A d \in Ends : FlowKept(d)
  BY <1>5, <1>9, <1>10 DEF Ends, Other
<1>12. Quiet
  BY <1>2, <1>6, <1>7 DEF Quiet
<1>13. \A h \in Goroutines : at'[h] # at[h] => at[h] # 0
  BY <1>3, <1>6
<1>14. QED  BY <1>1, <1>11, <1>12, <1>13, FlowQuiet

\* A frame is received and the call ends.
LEMMA FlowReceived ==
  ASSUME PipeBase, PipeBase', FlowInv, NEW g \in Goroutines, In(g, "read"), Takes(g),
         NEW e, e = Other(End(g)),
         NEW item \in Items, Surface(g, item),
         NEW k \in {0, at[g] + 1}, at' = [at EXCEPT ![g] = k], sub' = [sub EXCEPT ![g] = 0],
         body'[g] = NoBody, \A h \in Goroutines \ {g} : body'[h] = body[h],
         UNCHANGED <<prog, size, done, linked, sendMu, saved>>,
         \/ Shown(wire[e][1]) /\ item.id = wire[e][1].id
         \/ Collects(g, e) /\ item.id = body[g].offer.key
  PROVE  FlowInv'
<1>1. PipeTypes /\ Locked /\ BodyIdle /\ PipeTypes'
  BY DEF PipeBase
<1>2. End(g) \in Ends /\ at[g] \in Nat \ {0}
  BY <1>1, InIs
<1>3. /\ HeadTaken(e) /\ e \in Ends /\ Other(e) \in Ends /\ wire'[Other(e)] = wire[Other(e)] /\ End(g) = Other(e)
  BY <1>1, <1>2, HeadIs
<1>4. \A h \in Goroutines \ {g} : at'[h] = at[h] /\ sub'[h] = sub[h]
  BY <1>1 DEF PipeTypes
<1>5. at'[g] = k /\ sub'[g] = 0
  BY <1>1 DEF PipeTypes
<1>6. ASSUME NEW d \in Ends, NEW h \in Goroutines, Collects(h, d)'
      PROVE  h # g /\ Collects(h, d) /\ body'[h].offer = body[h].offer
  <2>1. h # g
    BY <1>6, SameOrIdle
  <2>2. QED  BY <1>4, <1>6, <2>1, SameCollector
<1>7. \A h \in Goroutines : ~Collects(h, e)'
  <2>1. ASSUME NEW h \in Goroutines, Collects(h, e)' PROVE FALSE
    <3>1. h # g /\ Collects(h, e)
      BY <1>3, <1>6, <2>1
    <3>2. Reader(g, e) /\ Reader(h, e)
      BY <1>3, <3>1 DEF Reader, Collects
    <3>3. QED  BY <1>1, <1>3, <3>1, <3>2, OnlyReader
  <2>2. QED  BY <2>1
<1>8. PICK r : r = Other(e)
  OBVIOUS
<1>9. /\ got'[Other(r)] = got[Other(r)]
      /\ Len(got'[r]) = Len(got[r]) + 1 /\ DOMAIN got'[r] = 1 .. Len(got[r]) + 1
      /\ got'[r][Len(got[r]) + 1] = item /\ \A i \in DOMAIN got[r] : got'[r][i] = got[r][i]
  <2>1. r = End(g)
    BY <1>3, <1>8
  <2>2. QED  BY <1>1, <1>2, <2>1, SurfaceIs
<1>10. ItemAdded(e, item)
  BY <1>7, <1>8, <1>9 DEF ItemAdded
<1>11. FlowKept(e)
  BY <1>3, <1>10, FlowHeadSurfaced, FlowCompleted
<1>12. FlowKept(Other(e))
  BY <1>3, <1>6, <1>8, <1>9, OwnFlow
<1>13. \A d \in Ends : FlowKept(d)
  BY <1>3, <1>11, <1>12 DEF Ends, Other
<1>14. Quiet
  BY <1>4, <1>5 DEF Quiet
<1>15. \A h \in Goroutines : at'[h] # at[h] => at[h] # 0
  BY <1>2, <1>4
<1>16. QED  BY <1>1, <1>13, <1>14, <1>15, FlowQuiet

\* A frame is taken for a file whose chunks are still to come.
LEMMA FlowWaits ==
  ASSUME PipeBase, PipeBase', FlowInv, NEW g \in Goroutines, In(g, "read"), Takes(g),
         NEW e, e = Other(End(g)),
         NEW id \in Ids, NEW chunks, Waits(g, e, id, chunks),
         UNCHANGED <<prog, size, done, linked, sendMu, saved>>,
         \/ Shown(wire[e][1]) /\ id = wire[e][1].id
         \/ Collects(g, e) /\ body[g].offer = OfferTo(e, id)
  PROVE  FlowInv'
<1>1. PipeTypes /\ Locked /\ BodyIdle /\ PipeTypes'
  BY DEF PipeBase
<1>2. End(g) \in Ends
  BY <1>1, InIs
<1>3. /\ HeadTaken(e) /\ e \in Ends /\ Other(e) \in Ends /\ wire'[Other(e)] = wire[Other(e)]
      /\ End(g) = Other(e) /\ Other(e) # e
  BY <1>1, <1>2, HeadIs
<1>4. /\ body'[g] = [offer |-> OfferTo(e, id), chunks |-> chunks]
      /\ \A h \in Goroutines \ {g} : body'[h] = body[h]
      /\ UNCHANGED <<got, at, sub>>
  BY DEF Waits
<1>5. body'[g].offer = OfferTo(e, id) /\ OfferTo(e, id).key = id
  BY <1>4 DEF OfferTo, OfferOf
<1>6. ASSUME NEW d \in Ends, NEW h \in Goroutines, Collects(h, d)', h # g
      PROVE  Collects(h, d) /\ body'[h].offer = body[h].offer
  BY <1>4, <1>6, SameCollector
<1>7. ASSUME NEW h \in Goroutines, Collects(h, e)' PROVE h = g
  <2>1. CASE h # g
    <3>1. Collects(h, e)
      BY <1>3, <1>6, <1>7, <2>1
    <3>2. Reader(g, e) /\ Reader(h, e)
      BY <1>3, <3>1 DEF Reader, Collects
    <3>3. QED  BY <1>1, <1>3, <3>2, OnlyReader
  <2>2. QED  BY <2>1
<1>8. ASSUME NEW h \in Goroutines, Collects(h, Other(e))' PROVE h # g
  <2>1. End(h)' = End(h)
    BY <1>4, SameCall
  <2>2. End(h) = Other(Other(e))
    BY <1>8, <2>1 DEF Collects, Reader, Other
  <2>3. QED  BY <1>3, <2>2, OtherIs
<1>9. FlowKept(e)
  <2>1. CASE Shown(wire[e][1]) /\ id = wire[e][1].id
    <3>1. \A h \in Goroutines : Collects(h, e)' => body'[h].offer.key = wire[e][1].id
      BY <1>5, <1>7, <2>1
    <3>2. QED  BY <1>3, <1>4, <2>1, <3>1, FlowHeadCollected
  <2>2. CASE Collects(g, e) /\ body[g].offer = OfferTo(e, id)
    <3>1. \A h \in Goroutines : Collects(h, e)' => Collects(h, e) /\ body'[h].offer = body[h].offer
      BY <1>5, <1>7, <2>2
    <3>2. QED  BY <1>3, <1>4, <3>1, FlowHeadDropped
  <2>3. QED  BY <2>1, <2>2
<1>10. FlowKept(Other(e))
  <2>1. \A h \in Goroutines : Collects(h, Other(e))' => Collects(h, Other(e)) /\ body'[h].offer = body[h].offer
    BY <1>3, <1>6, <1>8
  <2>2. QED  BY <1>3, <1>4, <2>1, OwnFlow
<1>11. \A d \in Ends : FlowKept(d)
  BY <1>3, <1>9, <1>10 DEF Ends, Other
<1>12. Quiet
  BY <1>4 DEF Quiet
<1>13. QED  BY <1>1, <1>4, <1>11, <1>12, FlowQuiet

\* A text or a typing notice is read.
LEMMA FlowReadText ==
  ASSUME PipeBase, PipeBase', FlowInv, NEW g \in Goroutines, ReadText(g)
  PROVE  FlowInv'
<1>1. PipeTypes /\ OffersTrue
  BY DEF PipeBase
<1>2. PICK e : e = Other(End(g))
  OBVIOUS
<1>3. /\ In(g, "read") /\ body[g] = NoBody /\ Takes(g) /\ Shown(wire[e][1])
      /\ UNCHANGED <<prog, size, body, done, linked, sendMu, saved>>
  BY <1>1, <1>2, ReadTextIs
<1>4. PICK item \in Items : item.id = wire[e][1].id /\ Surface(g, item)
  BY <1>1, <1>2, ReadTextIs
<1>5. PICK k \in Nat : k # 1 /\ k \in {0, at[g] + 1} /\ at' = [at EXCEPT ![g] = k] /\ sub' = [sub EXCEPT ![g] = 0]
  BY <1>1, <1>2, ReadTextIs
<1>6. body'[g] = NoBody /\ \A h \in Goroutines \ {g} : body'[h] = body[h]
  BY <1>3
<1>7. QED  BY <1>2, <1>3, <1>4, <1>5, <1>6, FlowReceived

\* ReceiveFileBody.
LEMMA FlowAssembled ==
  ASSUME PipeBase, PipeBase', FlowInv, NEW g \in Goroutines, In(g, "read"), Takes(g),
         NEW e, e = Other(End(g)),
         NEW id \in Ids, NEW chunks, Assembled(g, OfferTo(e, id), chunks),
         UNCHANGED <<prog, size, done, linked, sendMu, saved>>,
         \/ Shown(wire[e][1]) /\ id = wire[e][1].id
         \/ Collects(g, e) /\ body[g].offer = OfferTo(e, id)
  PROVE  FlowInv'
<1>1. PipeTypes
  BY DEF PipeBase
<1>2. e \in Ends
  BY <1>1, InIs, OtherIs
<1>3. CASE Completes(g, e, id, chunks)
  <2>1. PICK item \in Items : item.id = id /\ Surface(g, item)
    BY <1>3 DEF Completes
  <2>2. PICK k \in Nat : k \in {0, at[g] + 1} /\ at' = [at EXCEPT ![g] = k] /\ sub' = [sub EXCEPT ![g] = 0]
    BY <1>3 DEF Completes
  <2>3. body'[g] = NoBody /\ \A h \in Goroutines \ {g} : body'[h] = body[h]
    BY <1>3 DEF Completes
  <2>4. OfferTo(e, id).key = id
    BY DEF OfferTo, OfferOf
  <2>5. \/ Shown(wire[e][1]) /\ item.id = wire[e][1].id
        \/ Collects(g, e) /\ item.id = body[g].offer.key
    BY <2>1, <2>4
  <2>6. QED  BY <2>1, <2>2, <2>3, <2>5, FlowReceived
<1>4. CASE Waits(g, e, id, chunks)
  BY <1>4, FlowWaits
<1>5. QED  BY <1>1, <1>2, <1>3, <1>4, AssembledIs

\* An offer is read.
LEMMA FlowReadOffer ==
  ASSUME PipeBase, PipeBase', FlowInv, NEW g \in Goroutines, ReadOffer(g)
  PROVE  FlowInv'
<1>1. PipeTypes /\ OffersTrue
  BY DEF PipeBase
<1>2. PICK e : e = Other(End(g))
  OBVIOUS
<1>3. PICK id : id = wire[e][1].id
  OBVIOUS
<1>4. /\ In(g, "read") /\ Takes(g) /\ id \in Ids /\ Assembled(g, OfferTo(e, id), <<>>) /\ Shown(wire[e][1])
      /\ UNCHANGED <<prog, size, done, linked, sendMu, saved>>
  BY <1>1, <1>2, <1>3, ReadOfferIs
<1>5. QED  BY <1>2, <1>3, <1>4, FlowAssembled

\* The next chunk of a file is read.
LEMMA FlowReadChunk ==
  ASSUME PipeBase, PipeBase', FlowInv, NEW g \in Goroutines, ReadChunk(g)
  PROVE  FlowInv'
<1>1. PipeTypes /\ OffersTrue
  BY DEF PipeBase
<1>2. PICK e : e = Other(End(g))
  OBVIOUS
<1>3. /\ In(g, "read") /\ Takes(g) /\ UNCHANGED <<prog, size, done, linked, sendMu, saved>>
      /\ Collects(g, e)
  BY <1>1, <1>2, ReadChunkIs
<1>4. PICK id \in Ids : /\ body[g].offer = OfferTo(e, id)
                        /\ Assembled(g, OfferTo(e, id), Append(body[g].chunks, Taken(wire[e][1])))
  BY <1>1, <1>2, ReadChunkIs
<1>5. PICK chunks : chunks = Append(body[g].chunks, Taken(wire[e][1]))
  OBVIOUS
<1>6. Assembled(g, OfferTo(e, id), chunks)
  BY <1>4, <1>5
<1>7. QED  BY <1>2, <1>3, <1>4, <1>6, FlowAssembled

\* A frame that is no chunk ends the file.
LEMMA FlowReadNoChunk ==
  ASSUME PipeBase, PipeBase', FlowInv, NEW g \in Goroutines, ReadNoChunk(g)
  PROVE  FlowInv'
<1>1. PipeTypes /\ OffersTrue
  BY DEF PipeBase
<1>2. PICK e : e = Other(End(g))
  OBVIOUS
<1>3. /\ In(g, "read") /\ Takes(g) /\ UNCHANGED <<prog, size, done, linked, sendMu, saved>>
      /\ at' = [at EXCEPT ![g] = 0] /\ sub' = [sub EXCEPT ![g] = 0] /\ Collects(g, e)
      /\ body'[g] = NoBody /\ \A h \in Goroutines \ {g} : body'[h] = body[h]
  BY <1>1, <1>2, ReadNoChunkIs
<1>4. PICK item \in Items : item.id = body[g].offer.key /\ Surface(g, item)
  BY <1>1, <1>2, ReadNoChunkIs
<1>5. PICK k \in Nat : k = 0 /\ k \in {0, at[g] + 1}
  OBVIOUS
<1>6. QED  BY <1>2, <1>3, <1>4, <1>5, FlowReceived

-----------------------------------------------------------------------------

\* A goroutine in a call has not returned an error.
LEMMA ReadsNotOver ==
  ASSUME PipeTypes, prog' = prog, NEW h \in Goroutines, In(h, "read")'
  PROVE  at'[h] # 0
<1>1. Script(h)' = Script(h) /\ prog \in Programs
  BY DEF Script, PipeTypes
<1>2. at'[h] \in 1 .. Len(Script(h)) /\ Len(Script(h)) \in Nat
  BY <1>1, ScriptIs DEF In
<1>3. QED  BY <1>2

\* A call ends and leaves the channels as they are.
LEMMA FlowEnd ==
  ASSUME PipeBase, PipeBase', FlowInv, NEW g \in Goroutines,
         NEW k \in Nat, k \in {0, at[g] + 1}, at[g] # 0,
         at' = [at EXCEPT ![g] = k], sub' = [sub EXCEPT ![g] = 0], body[g] = NoBody \/ k = 0,
         UNCHANGED <<prog, size, body, saved, got>>,
         \A e \in Ends : \A j \in DOMAIN wire'[e] :
           Shown(wire'[e][j]) => j \in DOMAIN wire[e] /\ wire'[e][j] = wire[e][j]
  PROVE  FlowInv'
<1>1. PipeTypes /\ Locked /\ PipeTypes'
  BY DEF PipeBase
<1>2. at'[g] = k /\ sub'[g] = 0 /\ \A h \in Goroutines \ {g} : at'[h] = at[h] /\ sub'[h] = sub[h]
  BY <1>1 DEF PipeTypes
<1>3. ASSUME NEW d \in Ends, NEW h \in Goroutines, Collects(h, d)'
      PROVE  Collects(h, d) /\ body'[h].offer = body[h].offer
  <2>1. h # g
    <3>1. CASE k = 0
      <4>1. In(h, "read")'
        BY <1>3 DEF Collects, Reader
      <4>2. at'[h] # 0
        BY <1>1, <4>1, ReadsNotOver
      <4>3. QED  BY <1>2, <3>1, <4>2
    <3>2. CASE body[g] = NoBody
      BY <1>3, <3>2, SameOrIdle
    <3>3. QED  BY <3>1, <3>2
  <2>2. QED  BY <1>2, <1>3, <2>1, SameCollector
<1>4. \A d \in Ends : FlowKept(d)
  BY <1>3, FlowSame
<1>5. Quiet
  BY <1>2 DEF Quiet
<1>6. QED  BY <1>1, <1>2, <1>4, <1>5, FlowQuiet

\* Dial sends a handshake, which is not shown.
LEMMA FlowDial ==
  ASSUME PipeBase, PipeBase', FlowInv, NEW g \in Goroutines, Dial(g)
  PROVE  FlowInv'
<1>1. PipeTypes /\ BodyIdle
  BY DEF PipeBase
<1>2. /\ In(g, "dial") /\ wire' = [wire EXCEPT ![End(g)] = Append(@, Handshake)]
      /\ at' = [at EXCEPT ![g] = at[g] + 1] /\ sub' = [sub EXCEPT ![g] = 0]
      /\ UNCHANGED <<prog, size, body, saved, got>>
  BY <1>1 DEF Dial, Return, PipeTypes
<1>3. End(g) \in Ends /\ at[g] \in Nat \ {0} /\ body[g] = NoBody
  BY <1>1, <1>2, InIs, NothingCollected
<1>4. PICK e \in Ends : e = End(g)
  BY <1>3
<1>5. Handshake \in Wired /\ Handshake.type = "handshake"
  <2>1. "a" \in Ends /\ <<"main", 0>> \in Ids
    BY DEF Ends, Ids, Goroutines
  <2>2. QED  BY <1>1, <2>1, FrameShapes
<1>6. /\ wire'[Other(e)] = wire[Other(e)]
      /\ Len(wire[e]) \in Nat /\ DOMAIN wire[e] = 1 .. Len(wire[e]) /\ DOMAIN wire'[e] = 1 .. Len(wire[e]) + 1
      /\ wire'[e][Len(wire[e]) + 1] = Handshake /\ \A i \in DOMAIN wire[e] : wire'[e][i] = wire[e][i]
  BY <1>1, <1>2, <1>4, <1>5, PutsIs
<1>7. ~Shown(Handshake)
  BY <1>5 DEF Shown
<1>8. \A j \in DOMAIN wire'[e] : Shown(wire'[e][j]) => j \in DOMAIN wire[e] /\ wire'[e][j] = wire[e][j]
  BY <1>6, <1>7
<1>9. \A d \in Ends : \A j \in DOMAIN wire'[d] :
           Shown(wire'[d][j]) => j \in DOMAIN wire[d] /\ wire'[d][j] = wire[d][j]
  <2>1. \A d \in Ends : d = e \/ d = Other(e)
    BY DEF Ends, Other
  <2>2. QED  BY <1>6, <1>8, <2>1
<1>10. PICK k \in Nat : k = at[g] + 1
  BY <1>3
<1>11. QED  BY <1>2, <1>3, <1>9, <1>10, FlowEnd

\* A call that sends is over, or finds the pipe closed.
LEMMA FlowSent ==
  ASSUME PipeBase, PipeBase', FlowInv, NEW g \in Goroutines, Sent(g) \/ SendClosed(g) \/ RecvClosed(g)
  PROVE  FlowInv'
<1>1. PipeTypes /\ Locked /\ BodyIdle
  BY DEF PipeBase
<1>2. at[g] # 0
  <2>1. ~Finished(g)
    BY <1>1, InIs DEF Sent, SendClosed, RecvClosed, Holds, Reading
  <2>2. QED  BY <1>1, <2>1, CallNotOver
<1>3. \E k \in Nat : /\ k \in {0, at[g] + 1} /\ at' = [at EXCEPT ![g] = k] /\ sub' = [sub EXCEPT ![g] = 0]
                     /\ body[g] = NoBody \/ k = 0
                     /\ UNCHANGED <<prog, size, body, wire, done, linked, saved, got>>
  <2>1. CASE Sent(g)
    <3>1. \E k \in Nat : /\ k = at[g] + 1 /\ at' = [at EXCEPT ![g] = k] /\ sub' = [sub EXCEPT ![g] = 0]
                         /\ body[g] = NoBody
                         /\ UNCHANGED <<prog, size, body, wire, done, linked, saved, got>>
      BY <1>1, <2>1, SentEnds
    <3>2. QED  BY <3>1
  <2>2. CASE SendClosed(g)
    <3>1. /\ at' = [at EXCEPT ![g] = 0] /\ sub' = [sub EXCEPT ![g] = 0]
          /\ UNCHANGED <<prog, size, body, wire, done, linked, saved, got>>
      BY <1>1, <2>2, SendClosedEnds
    <3>2. QED  BY <3>1
  <2>3. CASE RecvClosed(g)
    <3>1. /\ at' = [at EXCEPT ![g] = 0] /\ sub' = [sub EXCEPT ![g] = 0]
          /\ UNCHANGED <<prog, size, body, wire, done, linked, saved, got>>
      BY <1>1, <2>3, RecvClosedEnds
    <3>2. QED  BY <3>1
  <2>4. QED  BY <2>1, <2>2, <2>3
<1>4. PICK k \in Nat : /\ k \in {0, at[g] + 1} /\ at' = [at EXCEPT ![g] = k] /\ sub' = [sub EXCEPT ![g] = 0]
                       /\ body[g] = NoBody \/ k = 0
                       /\ UNCHANGED <<prog, size, body, wire, done, linked, saved, got>>
  BY <1>3
<1>5. QED  BY <1>2, <1>4, FlowEnd

\* The flow and the histories are as they were.
LEMMA FlowStill ==
  ASSUME PipeBase, PipeBase', FlowInv, UNCHANGED <<prog, size, at, sub, body, wire, saved, got>>
  PROVE  FlowInv'
<1>1. PipeTypes /\ Locked /\ PipeTypes'
  BY DEF PipeBase
<1>2. \A h, d : Collects(h, d)' <=> Collects(h, d)
  BY SameCollector
<1>3. \A d \in Ends : FlowKept(d)
  BY <1>2, FlowSame
<1>4. Quiet
  BY DEF Quiet
<1>5. QED  BY <1>1, <1>3, <1>4, FlowQuiet

\* Facts about a frame that is sent.
LEMMA SentFrameIs ==
  ASSUME PipeTypes, Locked, NEW g \in Goroutines, Write(g), NEW e, e = End(g),
         NEW f, f = Frames(g)[sub[g] + 1]
  PROVE  /\ e \in Ends /\ f.id = Id(g) /\ Id(g) \in Ids /\ at[g] \in Nat \ {0} /\ sub[g] \in Nat
         /\ sub[g] = 0 => Shown(f)
         /\ sub[g] # 0 => ~Shown(f) /\ ~Persistable(f)
         /\ wire'[Other(e)] = wire[Other(e)]
         /\ Len(wire[e]) \in Nat /\ DOMAIN wire[e] = 1 .. Len(wire[e]) /\ DOMAIN wire'[e] = 1 .. Len(wire[e]) + 1
         /\ wire'[e][Len(wire[e]) + 1] = f /\ \A i \in DOMAIN wire[e] : wire'[e][i] = wire[e][i]
<1>1. /\ Sends(g) /\ e \in Ends
      /\ sub[g] \in Nat /\ sub[g] + 1 \in 1 .. Len(Frames(g)) /\ Len(Frames(g)) \in Nat
      /\ wire' = [wire EXCEPT ![e] = Append(@, f)]
  BY WriteIs
<1>2. PICK k : k = sub[g] + 1
  OBVIOUS
<1>3. k \in 1 .. Len(Frames(g)) /\ f = Frames(g)[k] /\ (k = 1 <=> sub[g] = 0)
  BY <1>1, <1>2
<1>4. /\ Id(g) \in Ids /\ f \in Wired /\ f.id = Id(g)
      /\ k = 1 => Shown(f)
      /\ k # 1 => ~Shown(f) /\ ~Persistable(f)
  BY <1>1, <1>3, FrameIs
<1>5. at[g] \in Nat \ {0}
  BY <1>1, InIs DEF Sends
<1>6. /\ wire'[Other(e)] = wire[Other(e)]
      /\ Len(wire[e]) \in Nat /\ DOMAIN wire[e] = 1 .. Len(wire[e]) /\ DOMAIN wire'[e] = 1 .. Len(wire[e]) + 1
      /\ wire'[e][Len(wire[e]) + 1] = f /\ \A i \in DOMAIN wire[e] : wire'[e][i] = wire[e][i]
  BY <1>1, <1>4, PutsIs
<1>7. QED  BY <1>1, <1>3, <1>4, <1>5, <1>6

\* Frames that are sent leave what has begun as it is.
LEMMA WriteBegun ==
  ASSUME PipeTypes, PipeTypes', Locked, NEW g \in Goroutines, Write(g), NEW id \in Ids, BegunId(id)
  PROVE  BegunId(id)'
<1>1. /\ sub[g] \in Nat /\ sub'[g] = sub[g] + 1 /\ at' = at
      /\ \A h \in Goroutines \ {g} : sub'[h] = sub[h]
  BY WriteIs
<1>2. PICK h : h = id[1]
  OBVIOUS
<1>3. h \in Goroutines
  BY <1>2 DEF Ids
<1>4. sub[h] \in Nat /\ at'[h] = at[h]
  BY <1>1, <1>3 DEF PipeTypes
<1>5. sub'[h] >= sub[h]
  BY <1>1, <1>3, <1>4
<1>6. QED  BY <1>2, <1>4, <1>5, QuietBegun

\* A chunk is sent.
LEMMA FlowWriteChunk ==
  ASSUME PipeBase, PipeBase', FlowInv, NEW g \in Goroutines, Write(g), sub[g] # 0
  PROVE  FlowInv'
<1>1. PipeTypes /\ Locked /\ PipeTypes'
  BY DEF PipeBase
<1>2. PICK e, f : e = End(g) /\ f = Frames(g)[sub[g] + 1]
  OBVIOUS
<1>3. /\ e \in Ends /\ ~Shown(f) /\ ~Persistable(f)
      /\ wire'[Other(e)] = wire[Other(e)]
      /\ Len(wire[e]) \in Nat /\ DOMAIN wire[e] = 1 .. Len(wire[e]) /\ DOMAIN wire'[e] = 1 .. Len(wire[e]) + 1
      /\ wire'[e][Len(wire[e]) + 1] = f /\ \A i \in DOMAIN wire[e] : wire'[e][i] = wire[e][i]
  BY <1>1, <1>2, SentFrameIs
<1>4. /\ sub'[g] = sub[g] + 1 /\ \A h \in Goroutines \ {g} : sub'[h] = sub[h]
      /\ UNCHANGED <<prog, size, at, body, saved, got>>
  BY <1>1, WriteIs
<1>5. \A d \in Ends : \A j \in DOMAIN wire'[d] :
           Shown(wire'[d][j]) => j \in DOMAIN wire[d] /\ wire'[d][j] = wire[d][j]
  <2>1. \A d \in Ends : d = e \/ d = Other(e)
    BY <1>3 DEF Ends, Other
  <2>2. \A j \in DOMAIN wire'[e] : Shown(wire'[e][j]) => j \in DOMAIN wire[e] /\ wire'[e][j] = wire[e][j]
    BY <1>3
  <2>3. QED  BY <1>3, <2>1, <2>2
<1>6. \A h, d : Collects(h, d)' <=> Collects(h, d)
  BY <1>4, SameCollector
<1>7. \A d \in Ends : FlowKept(d)
  BY <1>4, <1>5, <1>6, FlowSame
<1>8. ASSUME NEW h \in Goroutines, ~Finished(h)', Unsaved(h)'
      PROVE  /\ ~Finished(h) /\ Unsaved(h) /\ Id(h)' = Id(h) /\ End(h)' = End(h)
             /\ End(h) \in Ends /\ Id(h) \in Ids
  <2>1. h # g
    <3>1. Frames(g)' = Frames(g)
      BY <1>4, SameCall
    <3>2. ~Unsaved(g)'
      BY <1>2, <1>3, <1>4, <3>1 DEF Unsaved, Persistable
    <3>3. QED  BY <1>8, <3>2
  <2>2. QED  BY <1>1, <1>4, <1>8, <2>1, QuietUnsaved
<1>9. QED  BY <1>1, <1>4, <1>7, <1>8, WriteBegun, FlowMoves

\* The places of the flow lie below the end of the wire.
LEMMA FlowBelow ==
  ASSUME PipeTypes, NEW e \in Ends, NEW n \in Nat, NEW id, FlowAt(e, n, id)
  PROVE  n < Len(got[Other(e)]) + 1 + Len(wire[e]) + 1
<1>1. Other(e) \in Ends
  BY OtherIs
<1>2. got[Other(e)] \in Seq(Items) /\ wire[e] \in Seq(Wired)
  BY <1>1 DEF PipeTypes
<1>3. PICK L, W \in Nat : L = Len(got[Other(e)]) /\ W = Len(wire[e])
  BY <1>2
<1>4. DOMAIN got[Other(e)] = 1 .. L /\ DOMAIN wire[e] = 1 .. W
  BY <1>2, <1>3
<1>5. n \in 1 .. L \/ n = L + 1 \/ \E k \in 1 .. W : n = L + 1 + k
  BY <1>3, <1>4 DEF FlowAt
<1>6. n < L + 1 + W + 1
  BY <1>5
<1>7. QED  BY <1>3, <1>6

\* The first frame of a message is sent: it becomes the last in the flow.
LEMMA FlowWriteFirst ==
  ASSUME PipeBase, PipeBase', FlowInv, NEW g \in Goroutines, Write(g), sub[g] = 0
  PROVE  FlowInv'
<1>1. PipeTypes /\ Locked /\ PipeTypes'
  BY DEF PipeBase
<1>2. PICK e, f, x : e = End(g) /\ f = Frames(g)[sub[g] + 1] /\ x = Id(g)
  OBVIOUS
<1>3. /\ e \in Ends /\ f.id = x /\ x \in Ids /\ at[g] \in Nat \ {0}
      /\ wire'[Other(e)] = wire[Other(e)]
      /\ Len(wire[e]) \in Nat /\ DOMAIN wire[e] = 1 .. Len(wire[e]) /\ DOMAIN wire'[e] = 1 .. Len(wire[e]) + 1
      /\ wire'[e][Len(wire[e]) + 1] = f /\ \A i \in DOMAIN wire[e] : wire'[e][i] = wire[e][i]
  BY <1>1, <1>2, SentFrameIs
<1>4. /\ sendMu[e] = g /\ sub'[g] = sub[g] + 1 /\ \A h \in Goroutines \ {g} : sub'[h] = sub[h]
      /\ UNCHANGED <<prog, size, at, body, saved, got>>
  BY <1>1, <1>2, WriteIs
<1>5. PICK P : P = Len(got[Other(e)]) + 1 + Len(wire[e]) + 1
  OBVIOUS
<1>6. \A h, d : Collects(h, d)' <=> Collects(h, d)
  BY <1>4, SameCollector
<1>7. ASSUME NEW d \in Ends, NEW n \in Nat, NEW id \in Ids, FlowAt(d, n, id)'
      PROVE  FlowAt(d, n, id) \/ (d = e /\ n = P /\ id = x)
  <2>1. Other(d)' = Other(d)
    BY DEF Other
  <2>2. CASE n \in DOMAIN got[Other(d)] /\ got[Other(d)][n].id = id
    BY <2>2 DEF FlowAt
  <2>3. CASE n = Len(got[Other(d)]) + 1 /\ \E h \in Goroutines : Collects(h, d) /\ body[h].offer.key = id
    BY <2>3 DEF FlowAt
  <2>4. CASE \E k \in DOMAIN wire'[d] : n = Len(got[Other(d)]) + 1 + k /\ Shown(wire'[d][k]) /\ wire'[d][k].id = id
    <3>1. PICK k \in DOMAIN wire'[d] : n = Len(got[Other(d)]) + 1 + k /\ Shown(wire'[d][k]) /\ wire'[d][k].id = id
      BY <2>4
    <3>2. CASE k \in DOMAIN wire[d] /\ wire'[d][k] = wire[d][k]
      BY <3>1, <3>2 DEF FlowAt
    <3>3. CASE d = e /\ k = Len(wire[e]) + 1
      <4>1. id = x
        BY <1>3, <3>1, <3>3
      <4>2. PICK L, W \in Nat : L = Len(got[Other(e)]) /\ W = Len(wire[e])
        <5>1. Other(e) \in Ends
          BY <1>3, OtherIs
        <5>2. got[Other(e)] \in Seq(Items)
          BY <1>1, <5>1 DEF PipeTypes
        <5>3. QED  BY <1>3, <5>2
      <4>3. n = L + 1 + (W + 1) /\ P = L + 1 + W + 1
        BY <1>5, <3>1, <3>3, <4>2
      <4>4. n = P
        BY <4>3
      <4>5. QED  BY <3>3, <4>1, <4>4
    <3>4. d = e \/ d = Other(e)
      BY <1>3 DEF Ends, Other
    <3>5. CASE d = Other(e)
      BY <1>3, <3>2, <3>5
    <3>6. CASE d = e
      <4>1. k = Len(wire[e]) + 1 \/ k \in DOMAIN wire[e]
        BY <1>3, <3>6
      <4>2. QED  BY <1>3, <3>2, <3>3, <3>6, <4>1
    <3>7. QED  BY <3>4, <3>5, <3>6
  <2>5. QED  BY <1>4, <1>6, <1>7, <2>1, <2>2, <2>3, <2>4 DEF FlowAt, Shown
<1>8. ~BegunId(x)
  BY <1>2, <1>3 DEF BegunId, Id
<1>9. BegunId(x)'
  <2>1. sub'[g] > 0 /\ x[1] = g /\ x[2] = at'[g]
    BY <1>2, <1>4 DEF Id
  <2>2. QED  BY <2>1 DEF BegunId
<1>10. FlowUsed /\ FlowOnce /\ FlowOrdered /\ UnsavedLast /\ saved \in [Ends -> Seq(Ids)]
  BY <1>1 DEF FlowInv, PipeTypes
<1>11. \A d \in Ends, n \in Nat : ~FlowAt(d, n, x)
  BY <1>3, <1>8, <1>10 DEF FlowUsed
<1>12. \A d \in Ends : \A i \in DOMAIN saved[d] : saved[d][i] # x /\ saved[d][i] \in Ids
  BY <1>8, <1>10 DEF FlowUsed
<1>13. FlowUsed'
  <2>1. ASSUME NEW d \in Ends, NEW n \in Nat, NEW id \in Ids, FlowAt(d, n, id)' PROVE BegunId(id)'
    <3>1. CASE FlowAt(d, n, id)
      <4>1. BegunId(id)
        BY <1>10, <3>1 DEF FlowUsed
      <4>2. QED  BY <1>1, <4>1, WriteBegun
    <3>2. CASE id = x
      BY <1>9, <3>2
    <3>3. QED  BY <1>7, <2>1, <3>1, <3>2
  <2>2. ASSUME NEW d \in Ends, NEW i \in DOMAIN saved'[d] PROVE BegunId(saved[d][i])'
    <3>1. PICK y : y = saved[d][i]
      OBVIOUS
    <3>2. BegunId(y) /\ y \in Ids /\ y = saved'[d][i]
      BY <1>4, <1>10, <1>12, <3>1 DEF FlowUsed
    <3>3. BegunId(y)'
      BY <1>1, <3>2, WriteBegun
    <3>4. QED  BY <3>2, <3>3 DEF BegunId
  <2>3. QED  BY <2>1, <2>2 DEF FlowUsed
<1>14. FlowOnce'
  <2>1. ASSUME NEW d \in Ends, NEW n \in Nat, NEW m \in Nat,
               NEW id \in Ids, FlowAt(d, n, id)', FlowAt(d, m, id)'
        PROVE  n = m
    <3>1. FlowAt(d, n, id) \/ (d = e /\ n = P /\ id = x)
      BY <1>7, <2>1
    <3>2. FlowAt(d, m, id) \/ (d = e /\ m = P /\ id = x)
      BY <1>7, <2>1
    <3>3. QED  BY <1>10, <1>11, <3>1, <3>2 DEF FlowOnce
  <2>2. QED  BY <2>1 DEF FlowOnce
<1>15. FlowOrdered'
  <2>1. ASSUME NEW d \in Ends, NEW i \in DOMAIN saved'[d], NEW j \in DOMAIN saved'[d],
               NEW n \in Nat, NEW m \in Nat,
               i < j, FlowAt(d, n, saved[d][i])', FlowAt(d, m, saved[d][j])'
        PROVE  n < m
    <3>1. PICK y, z : y = saved[d][i] /\ z = saved[d][j]
      OBVIOUS
    <3>2. FlowAt(d, n, y)' /\ FlowAt(d, m, z)'
      BY <1>4, <2>1, <3>1 DEF FlowAt
    <3>3. y \in Ids /\ z \in Ids /\ y # x /\ z # x
      BY <1>4, <1>12, <3>1
    <3>4. FlowAt(d, n, y) /\ FlowAt(d, m, z)
      BY <1>7, <3>2, <3>3
    <3>5. QED  BY <1>4, <1>10, <2>1, <3>1, <3>4 DEF FlowOrdered
  <2>2. QED  BY <2>1 DEF FlowOrdered
<1>16. UnsavedLast'
  <2>1. ASSUME NEW h \in Goroutines, NEW n \in Nat, NEW m \in Nat, NEW id \in Ids,
               ~Finished(h)', Unsaved(h)', id # Id(h)', FlowAt(End(h), n, Id(h))', FlowAt(End(h), m, id)'
        PROVE  m < n
    <3>1. PICK d, y : d = End(h) /\ y = Id(h)
      OBVIOUS
    <3>2. End(h)' = d /\ Id(h)' = y
      BY <1>4, <3>1, SameCall
    <3>3. FlowAt(d, n, y)' /\ FlowAt(d, m, id)' /\ id # y
      BY <2>1, <3>2 DEF FlowAt, Collects, Reader, Other
    <3>4. CASE h = g
      <4>1. d = e /\ y = x
        BY <1>2, <3>1, <3>4
      <4>2. n = P
        BY <1>3, <1>7, <1>11, <3>3, <4>1
      <4>3. FlowAt(e, m, id)
        BY <1>3, <1>7, <3>3, <4>1
      <4>4. m < P
        BY <1>1, <1>3, <1>5, <4>3, FlowBelow
      <4>5. QED  BY <4>2, <4>4
    <3>5. CASE h # g
      <4>1. ~Finished(h) /\ Unsaved(h) /\ d \in Ends /\ y \in Ids
        BY <1>1, <1>4, <2>1, <3>1, <3>5, QuietUnsaved
      <4>2. sub[h] > 0
        BY <4>1 DEF Unsaved
      <4>3. sendMu[d] = h
        BY <1>1, <3>1, <4>2 DEF Locked
      <4>4. d # e
        BY <1>4, <3>5, <4>3
      <4>5. FlowAt(d, n, y) /\ FlowAt(d, m, id)
        BY <1>7, <3>3, <4>1, <4>4
      <4>6. QED  BY <1>10, <3>1, <3>3, <4>1, <4>5 DEF UnsavedLast
    <3>6. QED  BY <3>4, <3>5
  <2>2. QED  BY <2>1 DEF UnsavedLast
<1>17. QED  BY <1>13, <1>14, <1>15, <1>16 DEF FlowInv

\* The message is kept: it is the last in the flow, and becomes the last in the history.
LEMMA FlowSave ==
  ASSUME PipeBase, PipeBase', FlowInv, NEW g \in Goroutines, Save(g)
  PROVE  FlowInv'
<1>1. PipeTypes /\ Locked /\ PipeTypes'
  BY DEF PipeBase
<1>2. PICK e, x : e = End(g) /\ x = Id(g)
  OBVIOUS
<1>3. /\ e \in Ends /\ x \in Ids /\ Unsaved(g) /\ ~Finished(g) /\ x \notin ToSet(saved[e])
      /\ saved'[Other(e)] = saved[Other(e)]
      /\ Len(saved[e]) \in Nat /\ DOMAIN saved[e] = 1 .. Len(saved[e])
      /\ DOMAIN saved'[e] = 1 .. Len(saved[e]) + 1
      /\ saved'[e][Len(saved[e]) + 1] = x /\ \A i \in DOMAIN saved[e] : saved'[e][i] = saved[e][i]
      /\ UNCHANGED <<prog, size, at, sub, body, wire, done, linked, sendMu, got>>
  BY <1>1, <1>2, SaveIs
<1>4. \A h, d : Collects(h, d)' <=> Collects(h, d)
  BY <1>3, SameCollector
<1>5. \A d, n, id : FlowAt(d, n, id)' <=> FlowAt(d, n, id)
  BY <1>3, <1>4 DEF FlowAt, Other, Shown
<1>6. \A id : BegunId(id)' <=> BegunId(id)
  BY <1>3 DEF BegunId
<1>7. FlowUsed /\ FlowOnce /\ FlowOrdered /\ UnsavedLast /\ saved \in [Ends -> Seq(Ids)]
  BY <1>1 DEF FlowInv, PipeTypes
<1>8. BegunId(x)
  <2>1. sub[g] > 0 /\ x[1] = g /\ x[2] = at[g]
    BY <1>2, <1>3 DEF Id, Unsaved
  <2>2. QED  BY <2>1 DEF BegunId
<1>9. \A i \in DOMAIN saved[e] : saved[e][i] # x
  BY <1>3 DEF ToSet
<1>10. ASSUME NEW d \in Ends, NEW i \in DOMAIN saved'[d]
       PROVE  \/ i \in DOMAIN saved[d] /\ saved'[d][i] = saved[d][i]
              \/ d = e /\ i = Len(saved[e]) + 1 /\ saved'[d][i] = x
  <2>1. d = e \/ d = Other(e)
    BY <1>3 DEF Ends, Other
  <2>2. CASE d = Other(e)
    BY <1>3, <2>2
  <2>3. CASE d = e
    <3>1. i = Len(saved[e]) + 1 \/ i \in DOMAIN saved[e]
      BY <1>3, <2>3
    <3>2. QED  BY <1>3, <2>3, <3>1
  <2>4. QED  BY <2>1, <2>2, <2>3
<1>11. FlowUsed'
  <2>1. ASSUME NEW d \in Ends, NEW i \in DOMAIN saved'[d] PROVE BegunId(saved[d][i])'
    <3>1. PICK y : y = saved'[d][i]
      OBVIOUS
    <3>2. BegunId(y)
      BY <1>7, <1>8, <1>10, <3>1 DEF FlowUsed
    <3>3. BegunId(y)'
      BY <1>6, <3>2
    <3>4. QED  BY <3>1, <3>3 DEF BegunId
  <2>2. QED  BY <1>5, <1>6, <1>7, <2>1 DEF FlowUsed
<1>12. FlowOnce'
  BY <1>5, <1>7 DEF FlowOnce
<1>13. FlowOrdered'
  <2>1. ASSUME NEW d \in Ends, NEW i \in DOMAIN saved'[d], NEW j \in DOMAIN saved'[d],
               NEW n \in Nat, NEW m \in Nat,
               i < j, FlowAt(d, n, saved[d][i])', FlowAt(d, m, saved[d][j])'
        PROVE  n < m
    <3>1. PICK y, z : y = saved'[d][i] /\ z = saved'[d][j]
      OBVIOUS
    <3>2. FlowAt(d, n, y)' /\ FlowAt(d, m, z)'
      BY <2>1, <3>1 DEF FlowAt
    <3>3. FlowAt(d, n, y) /\ FlowAt(d, m, z)
      BY <1>5, <3>2
    <3>4. CASE i \in DOMAIN saved[d] /\ y = saved[d][i] /\ j \in DOMAIN saved[d] /\ z = saved[d][j]
      BY <1>7, <2>1, <3>3, <3>4 DEF FlowOrdered
    <3>5. CASE i \in DOMAIN saved[d] /\ y = saved[d][i] /\ d = e /\ z = x
      <4>1. y # x /\ y \in Ids
        BY <1>7, <1>9, <3>5
      <4>2. FlowAt(End(g), m, Id(g)) /\ FlowAt(End(g), n, y) /\ y # Id(g)
        BY <1>2, <3>3, <3>5, <4>1
      <4>3. QED  BY <1>3, <1>7, <4>1, <4>2 DEF UnsavedLast
    <3>6. CASE d = e /\ i = Len(saved[e]) + 1
      <4>1. j \in 1 .. Len(saved[e]) + 1
        BY <1>3, <3>6
      <4>2. QED  BY <1>3, <2>1, <3>6, <4>1
    <3>7. \/ i \in DOMAIN saved[d] /\ y = saved[d][i]
          \/ d = e /\ i = Len(saved[e]) + 1 /\ y = x
      BY <1>10, <3>1
    <3>8. \/ j \in DOMAIN saved[d] /\ z = saved[d][j]
          \/ d = e /\ j = Len(saved[e]) + 1 /\ z = x
      BY <1>10, <3>1
    <3>9. QED  BY <3>4, <3>5, <3>6, <3>7, <3>8
  <2>2. QED  BY <2>1 DEF FlowOrdered
<1>14. UnsavedLast'
  <2>1. ASSUME NEW h \in Goroutines, NEW n \in Nat, NEW m \in Nat, NEW id \in Ids,
               ~Finished(h)', Unsaved(h)', id # Id(h)', FlowAt(End(h), n, Id(h))', FlowAt(End(h), m, id)'
        PROVE  m < n
    <3>1. PICK d, y : d = End(h) /\ y = Id(h)
      OBVIOUS
    <3>2. End(h)' = d /\ Id(h)' = y /\ (Finished(h)' <=> Finished(h)) /\ Frames(h)' = Frames(h)
      BY <1>3, <3>1, SameCall
    <3>3. FlowAt(d, n, y)' /\ FlowAt(d, m, id)' /\ id # y
      BY <2>1, <3>2 DEF FlowAt, Collects, Reader, Other
    <3>4. FlowAt(d, n, y) /\ FlowAt(d, m, id)
      BY <1>5, <3>3
    <3>5. ~Finished(h)
      BY <2>1, <3>2
    <3>6. d \in Ends
      BY <1>1, <3>1, <3>5, CallNotOver
    <3>7. Unsaved(h)
      <4>1. y \notin ToSet(saved'[d])
        BY <2>1, <3>2 DEF Unsaved
      <4>2. \A i \in DOMAIN saved[d] : i \in DOMAIN saved'[d] /\ saved'[d][i] = saved[d][i]
        <5>1. d = e \/ d = Other(e)
          BY <1>3, <3>6 DEF Ends, Other
        <5>2. QED  BY <1>3, <5>1
      <4>3. y \notin ToSet(saved[d])
        BY <4>1, <4>2 DEF ToSet
      <4>4. QED  BY <1>3, <2>1, <3>1, <3>2, <4>3 DEF Unsaved, Persistable
    <3>8. QED  BY <1>7, <3>1, <3>3, <3>4, <3>5, <3>7 DEF UnsavedLast
  <2>2. QED  BY <2>1 DEF UnsavedLast
<1>15. QED  BY <1>11, <1>12, <1>13, <1>14 DEF FlowInv

\* The first frame of a call, or a chunk.
LEMMA FlowWrite ==
  ASSUME PipeBase, PipeBase', FlowInv, NEW g \in Goroutines, Write(g)
  PROVE  FlowInv'
BY FlowWriteFirst, FlowWriteChunk

\* One case per action of the pipe.
LEMMA FlowStep ==
  ASSUME PipeBase, PipeBase', FlowInv, PipeNext
  PROVE  FlowInv'
<1>1. ASSUME NEW g \in Goroutines, PipeStep(g) PROVE FlowInv'
  <2>1. CASE Dial(g)
    BY <2>1, FlowDial
  <2>2. CASE Lock(g)
    <3>1. UNCHANGED <<prog, size, at, sub, body, wire, saved, got>>
      BY <2>2 DEF Lock
    <3>2. QED  BY <3>1, FlowStill
  <2>3. CASE Write(g)
    BY <2>3, FlowWrite
  <2>4. CASE Save(g)
    BY <2>4, FlowSave
  <2>5. CASE Sent(g) \/ SendClosed(g) \/ RecvClosed(g)
    BY <2>5, FlowSent
  <2>6. CASE Accept(g)
    BY <2>6, FlowAccept
  <2>7. CASE ReadText(g)
    BY <2>7, FlowReadText
  <2>8. CASE ReadOffer(g)
    BY <2>8, FlowReadOffer
  <2>9. CASE ReadChunk(g)
    BY <2>9, FlowReadChunk
  <2>10. CASE ReadNoChunk(g)
    BY <2>10, FlowReadNoChunk
  <2>11. QED  BY <1>1, <2>1, <2>2, <2>3, <2>4, <2>5, <2>6, <2>7, <2>8, <2>9, <2>10 DEF PipeStep
<1>2. CASE Close
  <2>1. UNCHANGED <<prog, size, at, sub, body, wire, saved, got>>
    BY <1>2 DEF Close
  <2>2. QED  BY <2>1, FlowStill
<1>3. QED  BY <1>1, <1>2 DEF PipeNext

\* Nothing is sent or saved at first.
LEMMA FlowInit == PipeInit => FlowInv
<1>1. SUFFICES ASSUME PipeInit PROVE FlowInv
  OBVIOUS
<1>2. /\ body = [g \in Goroutines |-> NoBody] /\ wire = [e \in Ends |-> <<>>]
      /\ saved = [e \in Ends |-> <<>>] /\ got = [e \in Ends |-> <<>>]
  BY <1>1 DEF PipeInit
<1>3. \A d \in Ends : saved[d] = <<>> /\ wire[d] = <<>> /\ got[Other(d)] = <<>>
  BY <1>2, OtherIs
<1>4. \A d \in Ends, n \in Nat, id \in Ids : ~FlowAt(d, n, id)
  BY <1>2, <1>3 DEF FlowAt, Collects
<1>5. \A d \in Ends : DOMAIN saved[d] = {}
  BY <1>3
<1>6. FlowUsed /\ FlowOnce /\ FlowOrdered
  BY <1>4, <1>5 DEF FlowUsed, FlowOnce, FlowOrdered
<1>7. UnsavedLast
  <2>1. \A g \in Goroutines : ~Unsaved(g)
    BY <1>1 DEF PipeInit, Unsaved
  <2>2. QED  BY <2>1 DEF UnsavedLast
<1>8. QED  BY <1>6, <1>7 DEF FlowInv

\* A message has one place in the flow from sender to receiver, messages are saved
\* in the order of the flow, and one that is not saved yet is last in it: sendMu is
\* held from the first frame to AppendMessage.
THEOREM FlowInvariance == Spec => [](PipeBase /\ FlowInv)
<1>1. Init => PipeBase /\ FlowInv
  BY BaseInit, FlowInit DEF Init
<1>2. PipeBase /\ FlowInv /\ [Next]_vars => (PipeBase /\ FlowInv)'
  <2>1. SUFFICES ASSUME PipeBase, FlowInv, [Next]_vars PROVE PipeBase' /\ FlowInv'
    OBVIOUS
  <2>2. CASE PipeNext
    BY <2>1, <2>2, BaseStep, FlowStep
  <2>3. CASE UNCHANGED pipeVars
    <3>1. PipeBase'
      BY <2>1, <2>3, PipeBaseStutter
    <3>2. UNCHANGED <<prog, size, at, sub, body, wire, saved, got>>
      BY <2>3 DEF pipeVars
    <3>3. QED  BY <2>1, <3>1, <3>2, FlowStill
  <2>4. QED  BY <2>1, <2>2, <2>3, PipeSteps
<1>3. QED  BY <1>1, <1>2, PTL DEF Spec

\* HistoryOrder of module Pipe: the sender's store and the receiver's agree on the
\* order of the messages that both have, for every program, capacity and file size.
THEOREM HistoriesAgree == Spec => []HistoryOrder
<1>1. PipeBase /\ FlowInv => HistoryOrder
  BY FlowGivesOrder DEF PipeBase
<1>2. QED  BY <1>1, FlowInvariance, PTL

-----------------------------------------------------------------------------
(* The frames of a file on the wire *)

\* The k-th frame of a file.
FileFrame(e, id, k) == IF k = 1 THEN OfferFrame(e, id) ELSE ChunkFrame(e, id, k - 1)

\* The call that sends a file has sent k frames of it.
Holding(e, id, k) ==
  \E g \in Goroutines : sendMu[e] = g /\ In(g, "file") /\ Id(g) = id /\ sub[g] = k

\* The k-th chunk of a file has to follow the frame at this place of the wire,
\* or what was collected.
Awaits(e, p, id, k) ==
  /\ k \in 1 .. Parts(e)
  /\ \/ /\ p = 0
        /\ \E g \in Goroutines : Collects(g, e) /\ body[g].offer.key = id /\ Len(body[g].chunks) + 1 = k
     \/ p \in DOMAIN wire[e] /\ wire[e][p] = FileFrame(e, id, k)

\* It does, or it is the next frame to be sent.
StreamOf(e) ==
  \A p \in Nat, id \in Ids, k \in Nat : Awaits(e, p, id, k) =>
    IF p = Len(wire[e]) THEN Holding(e, id, k) ELSE wire[e][p + 1] = ChunkFrame(e, id, k)

\* The chunks that were collected are the first ones of the file, and not all of them.
CollectedOf(e) ==
  \A g \in Goroutines : Collects(g, e) =>
    /\ Len(body[g].chunks) < Parts(e)
    /\ \A j \in DOMAIN body[g].chunks : body[g].chunks[j] = Part(body[g].offer.key, size[e], ChunkSize, j)

\* Every file that was received was accepted.
AllOk == \A e \in Ends : \A i \in DOMAIN got[e] : got[e][i].ok

\* The inductive invariant of FileIntact, while the pipe is open.
StreamInv == ~done => AllOk /\ \A e \in Ends : StreamOf(e) /\ CollectedOf(e)

\* Files that are accepted have the content that was sent.
LEMMA StreamGivesFiles == PipeBase /\ StreamInv => FileIntact
<1>1. SUFFICES ASSUME PipeBase, StreamInv, NEW e \in Ends, NEW i \in DOMAIN got[e]
               PROVE  /\ got[e][i].ok \/ done
                      /\ got[e][i].data # <<>> => got[e][i].data = Content(got[e][i].id, size[Other(e)])
  BY DEF FileIntact
<1>2. got[e][i].ok \/ done
  BY <1>1 DEF StreamInv, AllOk
<1>3. got[e][i].data # <<>> => got[e][i].data = Content(got[e][i].id, size[Other(e)])
  BY <1>1 DEF PipeBase, GotTrue
<1>4. QED  BY <1>2, <1>3

\* The frames of a file are told apart by their kind and index.
LEMMA FileFrameIs ==
  ASSUME PipeTypes, NEW e \in Ends, NEW id \in Ids, NEW k \in Nat \ {0}, NEW f, f = FileFrame(e, id, k)
  PROVE  /\ f.id = id
         /\ k = 1 => f.type = "offer"
         /\ k # 1 => f.type = "chunk" /\ f.body.index = k - 2
         /\ f.body = (IF k = 1 THEN OfferTo(e, id) ELSE Part(id, size[e], ChunkSize, k - 1))
<1>1. size[e] \in Nat /\ ChunkSize \in Nat \ {0}
  BY PipeAssumption DEF PipeTypes
<1>2. CASE k = 1
  <2>1. f = OfferFrame(e, id)
    BY <1>2 DEF FileFrame
  <2>2. f.type = "offer" /\ f.id = id /\ f.body = OfferTo(e, id)
    BY <2>1, FrameShapes
  <2>3. QED  BY <1>2, <2>2
<1>3. CASE k # 1
  <2>1. PICK j \in Nat : j = k - 1
    BY <1>3
  <2>2. f = ChunkFrame(e, id, j)
    BY <1>3, <2>1 DEF FileFrame
  <2>3. f.type = "chunk" /\ f.id = id /\ f.body = Part(id, size[e], ChunkSize, j)
    BY <2>1, <2>2, FrameShapes
  <2>4. f.body.index = j - 1
    BY <2>3 DEF Part, Sealed
  <2>5. QED  BY <1>3, <2>1, <2>3, <2>4
<1>4. QED  BY <1>2, <1>3

\* The frames of a file depend on its size only.
LEMMA SameSizes ==
  ASSUME size' = size
  PROVE  \A e, id, k : /\ FileFrame(e, id, k)' = FileFrame(e, id, k) /\ ChunkFrame(e, id, k)' = ChunkFrame(e, id, k)
                       /\ Parts(e)' = Parts(e)
BY DEF FileFrame, ChunkFrame, OfferFrame, OfferTo, Parts

\* The number of chunks is a number.
LEMMA PartsAre ==
  ASSUME PipeTypes, NEW e \in Ends
  PROVE  Parts(e) \in Nat
<1>1. size[e] \in Nat /\ ChunkSize \in Nat \ {0}
  BY PipeAssumption DEF PipeTypes
<1>2. QED  BY <1>1, PartsCover DEF Parts

\* The call that sends the file is not touched.
LEMMA HoldingStays ==
  ASSUME prog' = prog, size' = size, NEW e, sendMu'[e] = sendMu[e],
         \A h \in Goroutines : sendMu[e] = h => at'[h] = at[h] /\ sub'[h] = sub[h],
         NEW id, NEW k, Holding(e, id, k)
  PROVE  Holding(e, id, k)'
<1>1. PICK h \in Goroutines : sendMu[e] = h /\ In(h, "file") /\ Id(h) = id /\ sub[h] = k
  BY DEF Holding
<1>2. at'[h] = at[h] /\ sub'[h] = sub[h]
  BY <1>1
<1>3. In(h, "file")' /\ Id(h)' = id
  BY <1>1, <1>2, SameCall
<1>4. QED  BY <1>1, <1>2, <1>3 DEF Holding

\* Nothing is put on this wire or taken from it.
LEMMA StreamSame ==
  ASSUME NEW e \in Ends, StreamOf(e), CollectedOf(e), size' = size, wire'[e] = wire[e],
         \A h \in Goroutines : Collects(h, e)' => Collects(h, e) /\ body'[h] = body[h],
         \A id \in Ids, k \in Nat : Holding(e, id, k) /\ Awaits(e, Len(wire[e]), id, k) => Holding(e, id, k)'
  PROVE  StreamOf(e)' /\ CollectedOf(e)'
<1>1. \A i, k : /\ FileFrame(e, i, k)' = FileFrame(e, i, k) /\ ChunkFrame(e, i, k)' = ChunkFrame(e, i, k)
                /\ Parts(e)' = Parts(e)
  BY SameSizes
<1>2. ASSUME NEW p \in Nat, NEW id \in Ids, NEW k \in Nat, Awaits(e, p, id, k)'
      PROVE  IF p = Len(wire'[e]) THEN Holding(e, id, k)' ELSE wire'[e][p + 1] = ChunkFrame(e, id, k)'
  <2>1. Awaits(e, p, id, k)
    BY <1>1, <1>2 DEF Awaits
  <2>2. QED  BY <1>1, <2>1 DEF StreamOf
<1>3. StreamOf(e)'
  BY <1>2 DEF StreamOf
<1>4. CollectedOf(e)'
  BY <1>1 DEF CollectedOf
<1>5. QED  BY <1>3, <1>4

\* The first frame is taken, and what was awaited after it is awaited now.
LEMMA StreamTaken ==
  ASSUME NEW e \in Ends, StreamOf(e), size' = size, HeadTaken(e),
         Len(wire[e]) \in Nat, Len(wire'[e]) = Len(wire[e]) - 1,
         DOMAIN wire'[e] = 1 .. Len(wire[e]) - 1,
         \A p \in Nat, id \in Ids, k \in Nat : Awaits(e, p, id, k)' => p <= Len(wire'[e]) /\ Awaits(e, p + 1, id, k),
         \A id \in Ids, k \in Nat : Holding(e, id, k) => Holding(e, id, k)'
  PROVE  StreamOf(e)'
<1>1. \A i, k : ChunkFrame(e, i, k)' = ChunkFrame(e, i, k)
  BY SameSizes
<1>2. ASSUME NEW p \in Nat, NEW id \in Ids, NEW k \in Nat, Awaits(e, p, id, k)'
      PROVE  IF p = Len(wire'[e]) THEN Holding(e, id, k)' ELSE wire'[e][p + 1] = ChunkFrame(e, id, k)'
  <2>1. PICK q \in Nat : q = p + 1
    OBVIOUS
  <2>2. Awaits(e, q, id, k) /\ p <= Len(wire'[e])
    BY <1>2, <2>1
  <2>3. IF q = Len(wire[e]) THEN Holding(e, id, k) ELSE wire[e][q + 1] = ChunkFrame(e, id, k)
    BY <2>2 DEF StreamOf
  <2>4. CASE p = Len(wire'[e])
    <3>1. q = Len(wire[e])
      BY <2>1, <2>4
    <3>2. QED  BY <2>3, <2>4, <3>1
  <2>5. CASE p # Len(wire'[e])
    <3>1. q # Len(wire[e]) /\ q \in DOMAIN wire'[e]
      BY <2>1, <2>2, <2>5
    <3>2. wire'[e][q] = wire[e][q + 1]
      BY <3>1 DEF HeadTaken
    <3>3. QED  BY <1>1, <2>1, <2>3, <2>5, <3>1, <3>2
  <2>6. QED  BY <2>4, <2>5
<1>3. QED  BY <1>2 DEF StreamOf

\* A call that reads leaves the calls that send alone.
LEMMA ReaderHolds ==
  ASSUME PipeTypes, Locked, NEW g \in Goroutines, NEW w, In(g, w), w \notin {"text", "typing", "file"},
         prog' = prog, size' = size, sendMu' = sendMu,
         \A h \in Goroutines \ {g} : at'[h] = at[h] /\ sub'[h] = sub[h]
  PROVE  \A e \in Ends, id \in Ids, k \in Nat : Holding(e, id, k) => Holding(e, id, k)'
<1>1. \A e \in Ends : sendMu[e] # g
  BY NoHolder
<1>2. ASSUME NEW e \in Ends, NEW id \in Ids, NEW k \in Nat, Holding(e, id, k) PROVE Holding(e, id, k)'
  <2>1. sendMu'[e] = sendMu[e] /\ \A h \in Goroutines : sendMu[e] = h => at'[h] = at[h] /\ sub'[h] = sub[h]
    BY <1>1
  <2>2. QED  BY <1>2, <2>1, HoldingStays
<1>3. QED  BY <1>2

\* What the collector of a file waits for.
LEMMA CollectorAwaits ==
  ASSUME PipeBase, ~done, StreamInv, NEW e \in Ends, NEW g \in Goroutines, Collects(g, e)
  PROVE  \E id \in Ids, m \in Nat :
           /\ body[g].offer = OfferTo(e, id) /\ body[g].offer.key = id
           /\ body[g].chunks \in Seq(Chunks) /\ Len(body[g].chunks) = m /\ m < Parts(e)
           /\ \A j \in DOMAIN body[g].chunks : body[g].chunks[j] = Part(id, size[e], ChunkSize, j)
           /\ Len(wire[e]) # 0 => wire[e][1] = ChunkFrame(e, id, m + 1)
<1>1. StreamOf(e) /\ CollectedOf(e) /\ PipeTypes /\ OffersTrue
  BY DEF StreamInv, PipeBase
<1>2. PICK id \in Ids : body[g].offer = OfferTo(e, id) /\ body[g].chunks \in Seq(Chunks)
  BY <1>1 DEF OffersTrue
<1>3. body[g].offer.key = id
  BY <1>2 DEF OfferTo, OfferOf
<1>4. PICK m \in Nat : m = Len(body[g].chunks)
  BY <1>2
<1>5. m < Parts(e) /\ \A j \in DOMAIN body[g].chunks : body[g].chunks[j] = Part(id, size[e], ChunkSize, j)
  BY <1>1, <1>3, <1>4 DEF CollectedOf
<1>6. Parts(e) \in Nat
  BY <1>1, PartsAre
<1>7. PICK k \in Nat : k = m + 1
  OBVIOUS
<1>8. k \in 1 .. Parts(e)
  BY <1>5, <1>6, <1>7
<1>9. Awaits(e, 0, id, k)
  BY <1>3, <1>4, <1>7, <1>8 DEF Awaits
<1>10. 0 = Len(wire[e]) \/ wire[e][0 + 1] = ChunkFrame(e, id, k)
  BY <1>1, <1>9 DEF StreamOf
<1>11. Len(wire[e]) # 0 => wire[e][1] = ChunkFrame(e, id, m + 1)
  BY <1>7, <1>10
<1>12. QED  BY <1>2, <1>3, <1>4, <1>5, <1>11

\* A frame is taken, and no file is collected after it.
LEMMA StreamReads ==
  ASSUME PipeBase, ~done, StreamInv, NEW g \in Goroutines,
         NEW w, In(g, w), w \notin {"text", "typing", "file"},
         Takes(g), NEW e, e = Other(End(g)), prog' = prog, size' = size, sendMu' = sendMu,
         \A h \in Goroutines \ {g} : at'[h] = at[h] /\ sub'[h] = sub[h],
         \A h \in Goroutines : ~Collects(h, e)',
         \A h \in Goroutines : Collects(h, Other(e))' => Collects(h, Other(e)) /\ body'[h] = body[h]
  PROVE  \A d \in Ends : StreamOf(d)' /\ CollectedOf(d)'
<1>1. PipeTypes /\ Locked /\ \A d \in Ends : StreamOf(d) /\ CollectedOf(d)
  BY DEF PipeBase, StreamInv
<1>2. End(g) \in Ends
  BY <1>1, InIs
<1>3. /\ HeadTaken(e) /\ e \in Ends /\ Other(e) \in Ends /\ wire'[Other(e)] = wire[Other(e)]
  BY <1>1, <1>2, HeadIs
<1>4. Len(wire[e]) \in Nat \ {0} /\ Len(wire'[e]) = Len(wire[e]) - 1 /\ DOMAIN wire'[e] = 1 .. Len(wire[e]) - 1
  BY <1>1, <1>2, TakesIs
<1>5. \A d \in Ends, id \in Ids, k \in Nat : Holding(d, id, k) => Holding(d, id, k)'
  BY <1>1, ReaderHolds
<1>6. StreamOf(Other(e))' /\ CollectedOf(Other(e))'
  BY <1>1, <1>3, <1>5, StreamSame
<1>7. ASSUME NEW p \in Nat, NEW id \in Ids, NEW k \in Nat, Awaits(e, p, id, k)'
      PROVE  p <= Len(wire'[e]) /\ Awaits(e, p + 1, id, k)
  <2>1. FileFrame(e, id, k)' = FileFrame(e, id, k) /\ Parts(e)' = Parts(e)
    BY SameSizes
  <2>2. k \in 1 .. Parts(e) /\ p \in DOMAIN wire'[e] /\ wire'[e][p] = FileFrame(e, id, k)
    BY <1>7, <2>1 DEF Awaits
  <2>3. p + 1 \in DOMAIN wire[e] /\ wire[e][p + 1] = FileFrame(e, id, k)
    BY <1>3, <2>2 DEF HeadTaken
  <2>4. Awaits(e, p + 1, id, k)
    BY <2>2, <2>3 DEF Awaits
  <2>5. p <= Len(wire'[e])
    BY <1>4, <2>2
  <2>6. QED  BY <2>4, <2>5
<1>8. StreamOf(e)'
  <2>1. Len(wire[e]) \in Nat
    BY <1>4
  <2>2. QED  BY <1>1, <1>3, <1>4, <1>5, <1>7, <2>1, StreamTaken
<1>9. CollectedOf(e)'
  BY DEF CollectedOf
<1>10. \A d \in Ends : d = e \/ d = Other(e)
  BY <1>3 DEF Ends, Other
<1>11. QED  BY <1>6, <1>8, <1>9, <1>10

\* A chunk or an offer is taken, and the next chunk is to come.
LEMMA StreamWaits ==
  ASSUME PipeBase, PipeBase', ~done, StreamInv, NEW g \in Goroutines, In(g, "read"), Takes(g),
         NEW e, e = Other(End(g)),
         NEW id \in Ids, NEW chunks \in Seq(Chunks), Waits(g, e, id, chunks), Len(chunks) <= Parts(e),
         \A j \in DOMAIN chunks : chunks[j] = Part(id, size[e], ChunkSize, j),
         wire[e][1] = FileFrame(e, id, Len(chunks) + 1),
         UNCHANGED <<prog, size, done, linked, sendMu, saved>>
  PROVE  StreamInv'
<1>1. PipeTypes /\ Locked /\ AllOk /\ \A d \in Ends : StreamOf(d) /\ CollectedOf(d)
  BY DEF PipeBase, StreamInv
<1>2. End(g) \in Ends
  BY <1>1, InIs
<1>3. /\ HeadTaken(e) /\ e \in Ends /\ Other(e) \in Ends /\ Other(e) # e /\ wire'[Other(e)] = wire[Other(e)]
      /\ End(g) = Other(e)
  BY <1>1, <1>2, HeadIs
<1>4. Len(wire[e]) \in Nat \ {0} /\ Len(wire'[e]) = Len(wire[e]) - 1 /\ DOMAIN wire'[e] = 1 .. Len(wire[e]) - 1
  BY <1>1, <1>2, TakesIs
<1>5. /\ Len(chunks) # Parts(e) /\ body'[g] = [offer |-> OfferTo(e, id), chunks |-> chunks]
      /\ \A h \in Goroutines \ {g} : body'[h] = body[h]
      /\ UNCHANGED <<got, at, sub>>
  BY DEF Waits
<1>6. body'[g].offer.key = id /\ body'[g].chunks = chunks
  BY <1>5 DEF OfferTo, OfferOf
<1>7. \A d \in Ends, i \in Ids, k \in Nat : Holding(d, i, k) => Holding(d, i, k)'
  BY <1>1, <1>5, ReaderHolds
<1>8. ASSUME NEW d \in Ends, NEW h \in Goroutines, Collects(h, d)', h # g
      PROVE  Collects(h, d) /\ body'[h] = body[h]
  BY <1>5, <1>8, SameCollector
<1>9. ASSUME NEW h \in Goroutines, Collects(h, e)' PROVE h = g
  <2>1. CASE h # g
    <3>1. Collects(h, e)
      BY <1>3, <1>8, <1>9, <2>1
    <3>2. Reader(g, e) /\ Reader(h, e)
      BY <1>3, <3>1 DEF Reader, Collects
    <3>3. QED  BY <1>1, <1>3, <3>2, OnlyReader
  <2>2. QED  BY <2>1
<1>10. ASSUME NEW h \in Goroutines, Collects(h, Other(e))' PROVE h # g
  <2>1. End(h)' = End(h)
    BY <1>5, SameCall
  <2>2. End(h) = Other(Other(e))
    BY <1>10, <2>1 DEF Collects, Reader, Other
  <2>3. QED  BY <1>3, <2>2, OtherIs
<1>11. StreamOf(Other(e))' /\ CollectedOf(Other(e))'
  <2>1. \A h \in Goroutines : Collects(h, Other(e))' => Collects(h, Other(e)) /\ body'[h] = body[h]
    BY <1>3, <1>8, <1>10
  <2>2. QED  BY <1>1, <1>3, <1>7, <2>1, StreamSame
<1>12. PICK m \in Nat : m = Len(chunks) /\ DOMAIN chunks = 1 .. m
  OBVIOUS
<1>13. Parts(e) \in Nat /\ Parts(e)' = Parts(e) /\ m < Parts(e)
  <2>1. Parts(e) \in Nat
    BY <1>1, <1>3, PartsAre
  <2>2. Parts(e)' = Parts(e)
    BY SameSizes
  <2>3. QED  BY <1>5, <1>12, <2>1, <2>2
<1>14. ASSUME NEW p \in Nat, NEW i \in Ids, NEW k \in Nat, Awaits(e, p, i, k)'
       PROVE  p <= Len(wire'[e]) /\ Awaits(e, p + 1, i, k)
  <2>1. FileFrame(e, i, k)' = FileFrame(e, i, k) /\ k \in 1 .. Parts(e)
    BY <1>13, <1>14, SameSizes DEF Awaits
  <2>2. CASE p \in DOMAIN wire'[e] /\ wire'[e][p] = FileFrame(e, i, k)
    <3>1. p + 1 \in DOMAIN wire[e] /\ wire[e][p + 1] = FileFrame(e, i, k)
      BY <1>3, <2>2 DEF HeadTaken
    <3>2. Awaits(e, p + 1, i, k)
      BY <2>1, <3>1 DEF Awaits
    <3>3. p <= Len(wire'[e])
      BY <1>4, <2>2
    <3>4. QED  BY <3>2, <3>3
  <2>3. CASE p = 0 /\ \E h \in Goroutines : Collects(h, e)' /\ body'[h].offer.key = i /\ Len(body'[h].chunks) + 1 = k
    <3>1. i = id /\ k = m + 1
      BY <1>6, <1>9, <1>12, <2>3
    <3>2. PICK q \in Nat : q = p + 1 /\ q = 1
      BY <2>3
    <3>3. q \in DOMAIN wire[e] /\ wire[e][q] = FileFrame(e, i, k)
      BY <1>3, <1>12, <3>1, <3>2 DEF HeadTaken
    <3>4. Awaits(e, q, i, k)
      BY <2>1, <3>3 DEF Awaits
    <3>5. p <= Len(wire'[e])
      BY <1>4, <2>3
    <3>6. QED  BY <3>2, <3>4, <3>5
  <2>4. QED  BY <1>14, <2>1, <2>2, <2>3 DEF Awaits
<1>15. StreamOf(e)'
  <2>1. Len(wire[e]) \in Nat
    BY <1>4
  <2>2. QED  BY <1>1, <1>3, <1>4, <1>7, <1>14, <2>1, StreamTaken
<1>16. CollectedOf(e)'
  <2>1. ASSUME NEW h \in Goroutines, Collects(h, e)'
        PROVE  /\ Len(body'[h].chunks) < Parts(e)'
               /\ \A j \in DOMAIN body'[h].chunks : body'[h].chunks[j] = Part(body'[h].offer.key, size'[e], ChunkSize, j)
    <3>1. h = g
      BY <1>9, <2>1
    <3>2. body'[h].offer.key = id /\ body'[h].chunks = chunks
      BY <1>6, <3>1
    <3>3. QED  BY <1>12, <1>13, <3>2
  <2>2. \A i, j : Part(i, size[e], ChunkSize, j)' = Part(i, size'[e], ChunkSize, j)
    BY DEF Part, Sealed, Slice, Content, Cut
  <2>3. QED  BY <2>1, <2>2 DEF CollectedOf
<1>17. \A d \in Ends : d = e \/ d = Other(e)
  BY <1>3 DEF Ends, Other
<1>18. AllOk'
  BY <1>1, <1>5 DEF AllOk
<1>19. QED  BY <1>11, <1>15, <1>16, <1>17, <1>18 DEF StreamInv

\* Accept takes the handshake: no file can be collected then.
LEMMA StreamAccept ==
  ASSUME PipeBase, PipeBase', ~done, StreamInv, NEW g \in Goroutines, Accept(g)
  PROVE  StreamInv'
<1>1. PipeTypes /\ Locked /\ BodyIdle /\ AllOk
  BY DEF PipeBase, StreamInv
<1>2. /\ In(g, "accept") /\ Takes(g) /\ Incoming(g).type = "handshake"
      /\ at' = [at EXCEPT ![g] = at[g] + 1] /\ sub' = [sub EXCEPT ![g] = 0]
      /\ UNCHANGED <<prog, size, body, done, sendMu, saved, got>>
  BY <1>1 DEF Accept, Return, PipeTypes
<1>3. End(g) \in Ends /\ body[g] = NoBody
  BY <1>1, <1>2, InIs, NothingCollected
<1>4. PICK e : e = Other(End(g))
  OBVIOUS
<1>5. e \in Ends /\ Other(e) \in Ends /\ Len(wire[e]) \in Nat \ {0} /\ wire[e][1] = Incoming(g)
  BY <1>1, <1>2, <1>3, <1>4, TakesIs, OtherIs
<1>6. \A h \in Goroutines \ {g} : at'[h] = at[h] /\ sub'[h] = sub[h]
  BY <1>1, <1>2 DEF PipeTypes
<1>7. ASSUME NEW d \in Ends, NEW h \in Goroutines, Collects(h, d)'
      PROVE  Collects(h, d) /\ body'[h] = body[h]
  <2>1. h # g
    BY <1>2, <1>3, <1>7, SameOrIdle
  <2>2. QED  BY <1>2, <1>6, <1>7, <2>1, SameCollector
<1>8. ASSUME NEW h \in Goroutines, Collects(h, e)' PROVE FALSE
  <2>1. Collects(h, e)
    BY <1>5, <1>7, <1>8
  <2>2. PICK id \in Ids, m \in Nat : Len(wire[e]) # 0 => wire[e][1] = ChunkFrame(e, id, m + 1)
    BY <1>5, <2>1, CollectorAwaits
  <2>3. PICK k \in Nat : k = m + 1
    OBVIOUS
  <2>4. ChunkFrame(e, id, k).type = "chunk"
    BY <1>1, <1>5, FrameShapes
  <2>5. QED  BY <1>2, <1>5, <2>2, <2>3, <2>4
<1>9. \A d \in Ends : StreamOf(d)' /\ CollectedOf(d)'
  BY <1>2, <1>4, <1>5, <1>6, <1>7, <1>8, StreamReads
<1>10. AllOk'
  BY <1>1, <1>2 DEF AllOk
<1>11. QED  BY <1>9, <1>10 DEF StreamInv

\* A text, or a file that was accepted, is received.
LEMMA StreamReceived ==
  ASSUME PipeBase, PipeBase', ~done, StreamInv, NEW g \in Goroutines, In(g, "read"), Takes(g),
         NEW item \in Items, Surface(g, item), item.ok,
         NEW k \in Nat, at' = [at EXCEPT ![g] = k], sub' = [sub EXCEPT ![g] = 0],
         body'[g] = NoBody, \A h \in Goroutines \ {g} : body'[h] = body[h],
         UNCHANGED <<prog, size, done, linked, sendMu, saved>>
  PROVE  StreamInv'
<1>1. PipeTypes /\ Locked /\ AllOk
  BY DEF PipeBase, StreamInv
<1>2. PICK e, r : e = Other(End(g)) /\ r = End(g)
  OBVIOUS
<1>3. r \in Ends /\ e \in Ends /\ Other(e) \in Ends /\ r = Other(e)
  BY <1>1, <1>2, InIs, OtherIs
<1>4. \A h \in Goroutines \ {g} : at'[h] = at[h] /\ sub'[h] = sub[h]
  BY <1>1 DEF PipeTypes
<1>5. ASSUME NEW d \in Ends, NEW h \in Goroutines, Collects(h, d)'
      PROVE  h # g /\ Collects(h, d) /\ body'[h] = body[h]
  <2>1. h # g
    BY <1>5, SameOrIdle
  <2>2. QED  BY <1>4, <1>5, <2>1, SameCollector
<1>6. ASSUME NEW h \in Goroutines, Collects(h, e)' PROVE FALSE
  <2>1. h # g /\ Collects(h, e)
    BY <1>3, <1>5, <1>6
  <2>2. Reader(g, e) /\ Reader(h, e)
    BY <1>2, <1>3, <2>1 DEF Reader, Collects
  <2>3. QED  BY <1>1, <1>3, <2>1, <2>2, OnlyReader
<1>7. \A d \in Ends : StreamOf(d)' /\ CollectedOf(d)'
  BY <1>2, <1>3, <1>4, <1>5, <1>6, StreamReads
<1>8. /\ got'[Other(r)] = got[Other(r)]
      /\ Len(got[r]) \in Nat /\ DOMAIN got[r] = 1 .. Len(got[r]) /\ DOMAIN got'[r] = 1 .. Len(got[r]) + 1
      /\ got'[r][Len(got[r]) + 1] = item /\ \A i \in DOMAIN got[r] : got'[r][i] = got[r][i]
  <2>1. End(g) \in Ends /\ r = End(g)
    BY <1>2, <1>3
  <2>2. QED  BY <1>1, <2>1, SurfaceIs
<1>9. AllOk'
  <2>1. ASSUME NEW d \in Ends, NEW i \in DOMAIN got'[d] PROVE got'[d][i].ok
    <3>1. CASE d = Other(r)
      BY <1>1, <1>8, <2>1, <3>1 DEF AllOk
    <3>2. CASE d = r
      <4>1. i = Len(got[r]) + 1 \/ i \in DOMAIN got[r]
        BY <1>8, <3>2
      <4>2. QED  BY <1>1, <1>3, <1>8, <3>2, <4>1 DEF AllOk
    <3>3. d = r \/ d = Other(r)
      BY <1>3 DEF Ends, Other
    <3>4. QED  BY <3>1, <3>2, <3>3
  <2>2. QED  BY <2>1 DEF AllOk
<1>10. QED  BY <1>7, <1>9 DEF StreamInv

\* A text or a typing notice is read: no file is collected then.
LEMMA StreamReadText ==
  ASSUME PipeBase, PipeBase', ~done, StreamInv, NEW g \in Goroutines, ReadText(g)
  PROVE  StreamInv'
<1>1. PipeTypes /\ OffersTrue
  BY DEF PipeBase
<1>2. PICK e : e = Other(End(g))
  OBVIOUS
<1>3. /\ In(g, "read") /\ body[g] = NoBody /\ Takes(g)
      /\ UNCHANGED <<prog, size, body, done, linked, sendMu, saved>>
  BY <1>1, <1>2, ReadTextIs
<1>4. PICK item \in Items : item.ok = TRUE /\ Surface(g, item)
  BY <1>1, <1>2, ReadTextIs
<1>5. PICK k \in Nat : k # 1 /\ k \in {0, at[g] + 1} /\ at' = [at EXCEPT ![g] = k] /\ sub' = [sub EXCEPT ![g] = 0]
  BY <1>1, <1>2, ReadTextIs
<1>6. body'[g] = NoBody /\ \A h \in Goroutines \ {g} : body'[h] = body[h]
  BY <1>3
<1>7. item.ok
  BY <1>4
<1>8. QED  BY <1>3, <1>4, <1>5, <1>6, <1>7, StreamReceived

\* All chunks of a file in order are accepted.
LEMMA PartsAccepted ==
  ASSUME PipeTypes, NEW e \in Ends, NEW id \in Ids, NEW chunks \in Seq(Chunks), Len(chunks) = Parts(e),
         \A j \in DOMAIN chunks : chunks[j] = Part(id, size[e], ChunkSize, j)
  PROVE  Accepted(OfferTo(e, id), chunks)
<1>1. PICK n \in Nat : n = size[e]
  BY DEF PipeTypes
<1>2. ChunkSize \in Nat \ {0}
  BY PipeAssumption
<1>3. PICK q \in Nat : q = PartsOf(n, ChunkSize)
  BY <1>1, <1>2, PartsCover
<1>4. Len(chunks) = q /\ DOMAIN chunks = 1 .. q
  BY <1>1, <1>3 DEF Parts
<1>5. \A c : c \in Own(id, n, ChunkSize) <=> \E k \in 1 .. q : c = Part(id, n, ChunkSize, k)
  BY <1>1, <1>2, <1>3, OwnAre
<1>6. Cardinality(Own(id, n, ChunkSize)) = q
  <2>1. Cardinality(Own(id, n, ChunkSize)) = PartsOf(n, ChunkSize)
    BY <1>2, OwnAre, Zenon
  <2>2. QED  BY <1>3, <2>1
<1>7. PICK O : O = Own(id, n, ChunkSize)
  OBVIOUS
<1>8. chunks \in [1 .. q -> O \cup {}]
  <2>1. \A j \in 1 .. q : chunks[j] \in O
    BY <1>1, <1>4, <1>5, <1>7
  <2>2. chunks = [j \in 1 .. q |-> chunks[j]]
    BY <1>4
  <2>3. QED  BY <2>1, <2>2
<1>9. ToSet(chunks) = O
  <2>1. \A c : c \in ToSet(chunks) <=> \E j \in 1 .. q : c = Part(id, n, ChunkSize, j)
    BY <1>1, <1>4 DEF ToSet
  <2>2. QED  BY <1>5, <1>7, <2>1
<1>10. OfferTo(e, id) = OfferOf(id, Content(id, n), ChunkSize)
  BY <1>1 DEF OfferTo
<1>11. QED  BY <1>1, <1>2, <1>6, <1>7, <1>8, <1>9, <1>10, ReassembleRight

\* ReceiveFileBody, with the right frame at the head of the wire.
LEMMA StreamAssembled ==
  ASSUME PipeBase, PipeBase', ~done, StreamInv, NEW g \in Goroutines, In(g, "read"), Takes(g),
         NEW e, e = Other(End(g)),
         NEW id \in Ids, NEW chunks \in Seq(Chunks), Assembled(g, OfferTo(e, id), chunks), Len(chunks) <= Parts(e),
         \A j \in DOMAIN chunks : chunks[j] = Part(id, size[e], ChunkSize, j),
         wire[e][1] = FileFrame(e, id, Len(chunks) + 1),
         UNCHANGED <<prog, size, done, linked, sendMu, saved>>
  PROVE  StreamInv'
<1>1. PipeTypes
  BY DEF PipeBase
<1>2. e \in Ends
  BY <1>1, InIs, OtherIs
<1>3. CASE Completes(g, e, id, chunks)
  <2>1. PICK item \in Items : (item.ok <=> Accepted(OfferTo(e, id), chunks)) /\ Surface(g, item)
    BY <1>3 DEF Completes
  <2>2. PICK k \in Nat : at' = [at EXCEPT ![g] = k] /\ sub' = [sub EXCEPT ![g] = 0]
    BY <1>3 DEF Completes
  <2>3. body'[g] = NoBody /\ \A h \in Goroutines \ {g} : body'[h] = body[h]
    BY <1>3 DEF Completes
  <2>4. Accepted(OfferTo(e, id), chunks)
    <3>1. Len(chunks) = Parts(e)
      BY <1>3 DEF Completes
    <3>2. QED  BY <1>1, <1>2, <3>1, PartsAccepted
  <2>5. item.ok
    BY <2>1, <2>4
  <2>6. QED  BY <2>1, <2>2, <2>3, <2>5, StreamReceived
<1>4. CASE Waits(g, e, id, chunks)
  BY <1>4, StreamWaits
<1>5. QED  BY <1>1, <1>2, <1>3, <1>4, AssembledIs

\* An offer is read.
LEMMA StreamReadOffer ==
  ASSUME PipeBase, PipeBase', ~done, StreamInv, NEW g \in Goroutines, ReadOffer(g)
  PROVE  StreamInv'
<1>1. PipeTypes /\ OffersTrue
  BY DEF PipeBase
<1>2. PICK e : e = Other(End(g))
  OBVIOUS
<1>3. PICK id, f : id = wire[e][1].id /\ f = wire[e][1]
  OBVIOUS
<1>4. /\ In(g, "read") /\ Takes(g) /\ id \in Ids /\ Assembled(g, OfferTo(e, id), <<>>) /\ e \in Ends
      /\ f.type = "offer" /\ f = Incoming(g) /\ End(g) \in Ends
      /\ UNCHANGED <<prog, size, done, linked, sendMu, saved>>
  BY <1>1, <1>2, <1>3, ReadOfferIs
<1>5. f = OfferFrame(e, id)
  <2>1. FrameTrue(e, f)
    BY <1>1, <1>2, <1>4, TakeTrue
  <2>2. f.body = OfferTo(e, id)
    BY <1>3, <1>4, <2>1 DEF FrameTrue
  <2>3. f \in Wired
    <3>1. 1 \in DOMAIN wire[e] /\ wire[e] \in Seq(Wired)
      BY <1>1, <1>2, <1>4, TakesIs DEF PipeTypes
    <3>2. QED  BY <1>3, <3>1
  <2>4. f = [type |-> f.type, id |-> f.id, body |-> f.body]
    BY <2>3 DEF Wired
  <2>5. QED  BY <1>3, <1>4, <2>2, <2>4 DEF OfferFrame
<1>6. PICK chunks \in Seq(Chunks) : chunks = <<>> /\ Len(chunks) = 0 /\ DOMAIN chunks = {}
  <2>1. <<>> \in Seq(Chunks) /\ Len(<<>>) = 0 /\ DOMAIN <<>> = {}
    OBVIOUS
  <2>2. QED  BY <2>1
<1>7. wire[e][1] = FileFrame(e, id, Len(chunks) + 1)
  BY <1>3, <1>5, <1>6 DEF FileFrame
<1>8. Len(chunks) <= Parts(e)
  BY <1>1, <1>4, <1>6, PartsAre
<1>9. Assembled(g, OfferTo(e, id), chunks)
  BY <1>4, <1>6
<1>10. QED  BY <1>2, <1>4, <1>6, <1>7, <1>8, <1>9, StreamAssembled

\* The next chunk of a file is read.
LEMMA StreamReadChunk ==
  ASSUME PipeBase, PipeBase', ~done, StreamInv, NEW g \in Goroutines, ReadChunk(g)
  PROVE  StreamInv'
<1>1. PipeTypes /\ OffersTrue
  BY DEF PipeBase
<1>2. PICK e, f : e = Other(End(g)) /\ f = wire[e][1]
  OBVIOUS
<1>3. /\ In(g, "read") /\ Takes(g) /\ UNCHANGED <<prog, size, done, linked, sendMu, saved>>
      /\ Collects(g, e) /\ e \in Ends /\ End(g) \in Ends
  BY <1>1, <1>2, ReadChunkIs
<1>4. PICK id \in Ids : /\ body[g].offer = OfferTo(e, id)
                        /\ Assembled(g, OfferTo(e, id), Append(body[g].chunks, Taken(f)))
  BY <1>1, <1>2, ReadChunkIs
<1>5. PICK jd \in Ids, m \in Nat :
           /\ body[g].offer.key = jd
           /\ body[g].chunks \in Seq(Chunks) /\ Len(body[g].chunks) = m /\ m < Parts(e)
           /\ \A j \in DOMAIN body[g].chunks : body[g].chunks[j] = Part(jd, size[e], ChunkSize, j)
           /\ Len(wire[e]) # 0 => f = ChunkFrame(e, jd, m + 1)
  BY <1>2, <1>3, CollectorAwaits
<1>6. jd = id
  BY <1>4, <1>5 DEF OfferTo, OfferOf
<1>7. Len(wire[e]) # 0
  BY <1>1, <1>2, <1>3, TakesIs
<1>8. PICK k \in Nat : k = m + 1
  OBVIOUS
<1>9. f = ChunkFrame(e, id, k)
  BY <1>5, <1>6, <1>7, <1>8
<1>10. f.type = "chunk" /\ f.body = Part(id, size[e], ChunkSize, k)
  BY <1>1, <1>3, <1>9, FrameShapes
<1>11. PICK c : c = Part(id, size[e], ChunkSize, k)
  OBVIOUS
<1>12. Taken(f) = c
  BY <1>10, <1>11 DEF Taken
<1>13. c \in Chunks
  <2>1. size[e] \in Nat
    BY <1>1, <1>3 DEF PipeTypes
  <2>2. QED  BY <1>11, <2>1 DEF Chunks, Bodies, Pieces
<1>14. PICK s, chunks : s = body[g].chunks /\ chunks = Append(s, c)
  OBVIOUS
<1>15. /\ chunks \in Seq(Chunks) /\ Len(chunks) = k /\ DOMAIN chunks = 1 .. k /\ chunks[k] = c
       /\ \A j \in 1 .. m : chunks[j] = s[j] /\ j \in DOMAIN s
  BY <1>5, <1>8, <1>13, <1>14
<1>16. \A j \in DOMAIN chunks : chunks[j] = Part(id, size[e], ChunkSize, j)
  <2>1. \A j \in 1 .. m : chunks[j] = Part(id, size[e], ChunkSize, j)
    BY <1>5, <1>6, <1>14, <1>15
  <2>2. \A j \in 1 .. k : j = k \/ j \in 1 .. m
    BY <1>8
  <2>3. QED  BY <1>11, <1>15, <2>1, <2>2
<1>17. Len(chunks) <= Parts(e)
  <2>1. Parts(e) \in Nat
    BY <1>1, <1>3, PartsAre
  <2>2. QED  BY <1>5, <1>8, <1>15, <2>1
<1>18. wire[e][1] = FileFrame(e, id, Len(chunks) + 1)
  <2>1. k + 1 # 1 /\ (k + 1) - 1 = k
    BY <1>8
  <2>2. FileFrame(e, id, k + 1) = ChunkFrame(e, id, k)
    BY <2>1 DEF FileFrame
  <2>3. QED  BY <1>2, <1>9, <1>15, <2>2
<1>19. Assembled(g, OfferTo(e, id), chunks)
  BY <1>4, <1>12, <1>14
<1>20. QED  BY <1>2, <1>3, <1>15, <1>16, <1>17, <1>18, <1>19, StreamAssembled

\* On an open pipe every frame of a file's body is a chunk.
LEMMA StreamReadNoChunk ==
  ASSUME PipeBase, ~done, StreamInv, NEW g \in Goroutines, ReadNoChunk(g)
  PROVE  FALSE
<1>1. PipeTypes /\ OffersTrue
  BY DEF PipeBase
<1>2. PICK e, f : e = Other(End(g)) /\ f = wire[e][1]
  OBVIOUS
<1>3. In(g, "read") /\ Takes(g) /\ Collects(g, e) /\ e \in Ends /\ End(g) \in Ends /\ f.type = "typing"
  BY <1>1, <1>2, ReadNoChunkIs
<1>4. PICK id \in Ids, m \in Nat : Len(wire[e]) # 0 => f = ChunkFrame(e, id, m + 1)
  BY <1>2, <1>3, CollectorAwaits
<1>5. Len(wire[e]) # 0
  BY <1>1, <1>2, <1>3, TakesIs
<1>6. f.type = "chunk"
  BY <1>1, <1>3, <1>4, <1>5, FrameShapes
<1>7. QED  BY <1>3, <1>6

\* What is awaited before the end of the wire is there, also when a frame is added.
LEMMA StreamBefore ==
  ASSUME PipeTypes, NEW e \in Ends, StreamOf(e), NEW p \in Nat, NEW id \in Ids,
         NEW k \in Nat, Awaits(e, p, id, k),
         DOMAIN wire[e] = 1 .. Len(wire[e]), Len(wire'[e]) = Len(wire[e]) + 1,
         \A i \in DOMAIN wire[e] : wire'[e][i] = wire[e][i]
  PROVE  \/ p = Len(wire[e]) /\ Holding(e, id, k)
         \/ p # Len(wire[e]) /\ p # Len(wire'[e]) /\ wire'[e][p + 1] = ChunkFrame(e, id, k)
<1>1. wire[e] \in Seq(Wired)
  BY DEF PipeTypes
<1>2. PICK W \in Nat : W = Len(wire[e])
  BY <1>1
<1>3. IF p = W THEN Holding(e, id, k) ELSE wire[e][p + 1] = ChunkFrame(e, id, k)
  BY <1>2 DEF StreamOf
<1>4. p = 0 \/ p \in 1 .. W
  BY <1>2 DEF Awaits
<1>5. CASE p = W
  BY <1>2, <1>3, <1>5
<1>6. CASE p # W
  <2>1. p + 1 \in 1 .. W /\ p # W + 1
    BY <1>4, <1>6
  <2>2. wire'[e][p + 1] = wire[e][p + 1]
    BY <1>2, <2>1
  <2>3. QED  BY <1>2, <1>3, <1>6, <2>1, <2>2
<1>7. QED  BY <1>5, <1>6

\* Dial sends the handshake on a wire that nobody uses yet.
LEMMA StreamDial ==
  ASSUME PipeBase, PipeBase', ~done, StreamInv, NEW g \in Goroutines, Dial(g)
  PROVE  StreamInv'
<1>1. PipeTypes /\ Locked /\ Undialled /\ BodyIdle /\ AllOk /\ \A d \in Ends : StreamOf(d) /\ CollectedOf(d)
  BY DEF PipeBase, StreamInv
<1>2. /\ In(g, "dial") /\ wire' = [wire EXCEPT ![End(g)] = Append(@, Handshake)]
      /\ at' = [at EXCEPT ![g] = at[g] + 1] /\ sub' = [sub EXCEPT ![g] = 0]
      /\ UNCHANGED <<prog, size, body, done, sendMu, saved, got>>
  BY <1>1 DEF Dial, Return, PipeTypes
<1>3. End(g) = "a" /\ body[g] = NoBody
  BY <1>1, <1>2, InIs, NothingCollected
<1>4. PICK e \in Ends : e = End(g)
  BY <1>3 DEF Ends
<1>5. Handshake \in Wired /\ Handshake.type = "handshake"
  <2>1. <<"main", 0>> \in Ids
    BY DEF Ids, Goroutines
  <2>2. QED  BY <1>1, <1>4, <2>1, FrameShapes
<1>6. /\ wire'[Other(e)] = wire[Other(e)]
      /\ Len(wire[e]) \in Nat /\ DOMAIN wire[e] = 1 .. Len(wire[e]) /\ DOMAIN wire'[e] = 1 .. Len(wire[e]) + 1
      /\ Len(wire'[e]) = Len(wire[e]) + 1
      /\ wire'[e][Len(wire[e]) + 1] = Handshake /\ \A i \in DOMAIN wire[e] : wire'[e][i] = wire[e][i]
  BY <1>1, <1>2, <1>4, <1>5, PutsIs
<1>7. \A h \in Goroutines : sendMu[e] # h
  BY <1>1, <1>2, <1>3, <1>4 DEF Undialled, Locked
<1>8. \A h \in Goroutines \ {g} : at'[h] = at[h] /\ sub'[h] = sub[h]
  BY <1>1, <1>2 DEF PipeTypes
<1>9. \A d \in Ends, id \in Ids, k \in Nat : Holding(d, id, k) => Holding(d, id, k)'
  BY <1>1, <1>2, <1>8, ReaderHolds
<1>10. ASSUME NEW d \in Ends, NEW h \in Goroutines, Collects(h, d)'
       PROVE  Collects(h, d) /\ body'[h] = body[h]
  <2>1. h # g
    BY <1>2, <1>3, <1>10, SameOrIdle
  <2>2. QED  BY <1>2, <1>8, <1>10, <2>1, SameCollector
<1>11. Other(e) \in Ends
  BY OtherIs
<1>12. StreamOf(Other(e))' /\ CollectedOf(Other(e))'
  BY <1>1, <1>2, <1>6, <1>9, <1>10, <1>11, StreamSame
<1>13. \A i, k : /\ FileFrame(e, i, k)' = FileFrame(e, i, k) /\ ChunkFrame(e, i, k)' = ChunkFrame(e, i, k)
                 /\ Parts(e)' = Parts(e)
  BY <1>2, SameSizes
<1>14. CollectedOf(e)'
  <2>1. \A i, j : Part(i, size[e], ChunkSize, j)' = Part(i, size[e], ChunkSize, j)
    BY <1>2 DEF Part, Sealed, Slice, Content, Cut
  <2>2. QED  BY <1>1, <1>10, <1>13, <2>1 DEF CollectedOf
<1>15. ASSUME NEW p \in Nat, NEW id \in Ids, NEW k \in Nat, Awaits(e, p, id, k)
       PROVE  p # Len(wire'[e]) /\ wire'[e][p + 1] = ChunkFrame(e, id, k)'
  <2>1. ~Holding(e, id, k)
    BY <1>7 DEF Holding
  <2>2. \/ p = Len(wire[e]) /\ Holding(e, id, k)
        \/ p # Len(wire[e]) /\ p # Len(wire'[e]) /\ wire'[e][p + 1] = ChunkFrame(e, id, k)
    BY <1>1, <1>6, <1>15, StreamBefore
  <2>3. QED  BY <1>13, <2>1, <2>2
<1>16. ASSUME NEW p \in Nat, NEW id \in Ids, NEW k \in Nat, Awaits(e, p, id, k)'
       PROVE  p # Len(wire'[e]) /\ wire'[e][p + 1] = ChunkFrame(e, id, k)'
  <2>1. PICK W \in Nat : W = Len(wire[e])
    BY <1>6
  <2>2. k \in 1 .. Parts(e)
    BY <1>13, <1>16 DEF Awaits
  <2>3. k \in Nat \ {0}
    BY <2>2
  <2>4. FileFrame(e, id, k).type # "handshake"
    BY <1>1, <2>3, FileFrameIs
  <2>5. CASE p = 0 /\ \E h \in Goroutines : Collects(h, e)' /\ body'[h].offer.key = id /\ Len(body'[h].chunks) + 1 = k
    <3>1. Awaits(e, 0, id, k)
      BY <1>10, <2>2, <2>5 DEF Awaits
    <3>2. QED  BY <1>15, <2>5, <3>1
  <2>6. CASE p \in DOMAIN wire'[e] /\ wire'[e][p] = FileFrame(e, id, k)
    <3>1. p # W + 1
      BY <1>5, <1>6, <2>1, <2>4, <2>6
    <3>2. p \in DOMAIN wire[e] /\ wire[e][p] = FileFrame(e, id, k)
      BY <1>6, <2>1, <2>6, <3>1
    <3>3. Awaits(e, p, id, k)
      BY <2>2, <3>2 DEF Awaits
    <3>4. QED  BY <1>15, <3>3
  <2>7. QED  BY <1>13, <1>16, <2>5, <2>6 DEF Awaits
<1>17. StreamOf(e)'
  BY <1>16 DEF StreamOf
<1>18. \A d \in Ends : d = e \/ d = Other(e)
  BY DEF Ends, Other
<1>19. AllOk'
  BY <1>1, <1>2 DEF AllOk
<1>20. QED  BY <1>12, <1>14, <1>17, <1>18, <1>19 DEF StreamInv

\* The next frame of a call is sent.
LEMMA StreamWrite ==
  ASSUME PipeBase, PipeBase', ~done, StreamInv, NEW g \in Goroutines, Write(g)
  PROVE  StreamInv'
<1>1. PipeTypes /\ Locked /\ AllOk /\ \A d \in Ends : StreamOf(d) /\ CollectedOf(d)
  BY DEF PipeBase, StreamInv
<1>2. PICK e, n, f, x : e = End(g) /\ n = sub[g] + 1 /\ f = Frames(g)[n] /\ x = Id(g)
  OBVIOUS
<1>3. /\ Sends(g) /\ e \in Ends /\ sendMu[e] = g /\ sub[g] \in Nat /\ n \in 1 .. Len(Frames(g)) /\ Len(Frames(g)) \in Nat
      /\ wire' = [wire EXCEPT ![e] = Append(@, f)]
      /\ sub'[g] = n /\ \A h \in Goroutines \ {g} : sub'[h] = sub[h]
      /\ UNCHANGED <<prog, size, at, body, done, linked, sendMu, saved, got>>
  BY <1>1, <1>2, WriteIs
<1>4. /\ x \in Ids /\ f \in Wired /\ f.id = x
      /\ n # 1 => f = ChunkFrame(e, x, n - 1) /\ In(g, "file")
      /\ n = 1 /\ In(g, "file") => f = OfferFrame(e, x)
      /\ n = 1 /\ ~In(g, "file") => f.type \in {"text", "typing"}
  BY <1>1, <1>2, <1>3, FrameIs
<1>5. /\ wire'[Other(e)] = wire[Other(e)]
      /\ Len(wire[e]) \in Nat /\ DOMAIN wire[e] = 1 .. Len(wire[e]) /\ DOMAIN wire'[e] = 1 .. Len(wire[e]) + 1
      /\ Len(wire'[e]) = Len(wire[e]) + 1
      /\ wire'[e][Len(wire[e]) + 1] = f /\ \A i \in DOMAIN wire[e] : wire'[e][i] = wire[e][i]
  BY <1>1, <1>3, <1>4, PutsIs
<1>6. \A h, d : Collects(h, d)' <=> Collects(h, d)
  BY <1>3, SameCollector
<1>7. Other(e) \in Ends /\ Other(e) # e
  BY <1>3, OtherIs
<1>8. StreamOf(Other(e))' /\ CollectedOf(Other(e))'
  <2>1. ASSUME NEW id \in Ids, NEW k \in Nat, Holding(Other(e), id, k) PROVE Holding(Other(e), id, k)'
    <3>1. \A h \in Goroutines : sendMu[Other(e)] = h => h # g
      BY <1>1, <1>2, <1>7 DEF Locked
    <3>2. \A h \in Goroutines : sendMu[Other(e)] = h => at'[h] = at[h] /\ sub'[h] = sub[h]
      BY <1>3, <3>1
    <3>3. QED  BY <1>3, <2>1, <3>2, HoldingStays
  <2>2. QED  BY <1>1, <1>3, <1>5, <1>6, <1>7, <2>1, StreamSame
<1>9. \A i, k : /\ FileFrame(e, i, k)' = FileFrame(e, i, k) /\ ChunkFrame(e, i, k)' = ChunkFrame(e, i, k)
                /\ Parts(e)' = Parts(e)
  BY <1>3, SameSizes
<1>10. CollectedOf(e)'
  <2>1. \A i, j : Part(i, size[e], ChunkSize, j)' = Part(i, size[e], ChunkSize, j)
    BY <1>3 DEF Part, Sealed, Slice, Content, Cut
  <2>2. QED  BY <1>1, <1>3, <1>6, <1>9, <2>1 DEF CollectedOf
<1>11. n \in Nat \ {0}
  BY <1>3
<1>12. ASSUME NEW p \in Nat, NEW id \in Ids, NEW k \in 1 .. Parts(e), k \in Nat, Awaits(e, p, id, k)
       PROVE  p # Len(wire'[e]) /\ wire'[e][p + 1] = ChunkFrame(e, id, k)'
  <2>1. \/ p = Len(wire[e]) /\ Holding(e, id, k)
        \/ p # Len(wire[e]) /\ p # Len(wire'[e]) /\ wire'[e][p + 1] = ChunkFrame(e, id, k)
    BY <1>1, <1>3, <1>5, <1>12, StreamBefore
  <2>2. CASE p = Len(wire[e]) /\ Holding(e, id, k)
    <3>1. id = x /\ sub[g] = k
      BY <1>2, <1>3, <2>2 DEF Holding
    <3>2. n # 1 /\ n - 1 = k
      BY <1>2, <1>3, <1>12, <3>1
    <3>3. f = ChunkFrame(e, id, k)
      BY <1>4, <3>1, <3>2
    <3>4. p # Len(wire'[e])
      BY <1>5, <2>2
    <3>5. QED  BY <1>5, <1>9, <2>2, <3>3, <3>4
  <2>3. QED  BY <1>9, <2>1, <2>2
<1>13. ASSUME NEW id \in Ids, NEW k \in 1 .. Parts(e), k \in Nat, f = FileFrame(e, id, k)
       PROVE  Holding(e, id, k)'
  <2>1. k \in Nat \ {0}
    BY <1>13
  <2>2. /\ f.id = id
        /\ k = 1 => f.type = "offer"
        /\ k # 1 => f.type = "chunk" /\ f.body.index = k - 2
    BY <1>1, <1>3, <1>13, <2>1, FileFrameIs
  <2>3. In(g, "file")
    BY <1>4, <2>2
  <2>4. f = FileFrame(e, x, n)
    BY <1>4, <2>3 DEF FileFrame
  <2>5. /\ n = 1 => f.type = "offer"
        /\ n # 1 => f.type = "chunk" /\ f.body.index = n - 2
    BY <1>1, <1>3, <1>4, <1>11, <2>4, FileFrameIs
  <2>6. k = n
    <3>1. CASE k = 1
      BY <2>2, <2>5, <3>1
    <3>2. CASE k # 1
      <4>1. n # 1
        BY <2>2, <2>5, <3>2
      <4>2. k - 2 = n - 2
        BY <2>2, <2>5, <3>2, <4>1
      <4>3. QED  BY <1>11, <2>1, <4>2
    <3>3. QED  BY <3>1, <3>2
  <2>7. id = x
    BY <1>4, <2>2
  <2>8. In(g, "file")' /\ Id(g)' = x
    BY <1>2, <1>3, <2>3, SameCall
  <2>9. QED  BY <1>3, <2>6, <2>7, <2>8 DEF Holding
<1>14. ASSUME NEW p \in Nat, NEW id \in Ids, NEW k \in Nat, Awaits(e, p, id, k)'
       PROVE  IF p = Len(wire'[e]) THEN Holding(e, id, k)' ELSE wire'[e][p + 1] = ChunkFrame(e, id, k)'
  <2>1. k \in 1 .. Parts(e)
    BY <1>9, <1>14 DEF Awaits
  <2>2. CASE Awaits(e, p, id, k)
    BY <1>12, <2>1, <2>2
  <2>3. CASE p = Len(wire'[e]) /\ f = FileFrame(e, id, k)
    BY <1>13, <2>1, <2>3
  <2>4. CASE p = 0 /\ \E h \in Goroutines : Collects(h, e)' /\ body'[h].offer.key = id /\ Len(body'[h].chunks) + 1 = k
    <3>1. Awaits(e, p, id, k)
      BY <1>3, <1>6, <2>1, <2>4 DEF Awaits
    <3>2. QED  BY <2>2, <3>1
  <2>5. CASE p \in DOMAIN wire'[e] /\ wire'[e][p] = FileFrame(e, id, k)
    <3>1. p = Len(wire'[e]) \/ p \in DOMAIN wire[e]
      BY <1>5, <2>5
    <3>2. CASE p \in DOMAIN wire[e]
      <4>1. Awaits(e, p, id, k)
        BY <1>5, <2>1, <2>5, <3>2 DEF Awaits
      <4>2. QED  BY <2>2, <4>1
    <3>3. CASE p = Len(wire'[e])
      <4>1. f = FileFrame(e, id, k)
        BY <1>5, <2>5, <3>3
      <4>2. QED  BY <2>3, <3>3, <4>1
    <3>4. QED  BY <3>1, <3>2, <3>3
  <2>6. QED  BY <1>9, <1>14, <2>4, <2>5 DEF Awaits
<1>15. StreamOf(e)'
  BY <1>14 DEF StreamOf
<1>16. \A d \in Ends : d = e \/ d = Other(e)
  BY <1>3 DEF Ends, Other
<1>17. AllOk'
  BY <1>1, <1>3 DEF AllOk
<1>18. QED  BY <1>8, <1>10, <1>15, <1>16, <1>17 DEF StreamInv

\* The wires, the files that are collected and what was received stay as they
\* are, and so does every call that has a file on the wire.
LEMMA StreamStill ==
  ASSUME PipeBase, ~done, StreamInv, UNCHANGED <<prog, size, wire, body, done, got>>,
         \A e \in Ends : \A h \in Goroutines : Collects(h, e)' => Collects(h, e),
         \A e \in Ends : \A id \in Ids, k \in 1 .. Parts(e) : Holding(e, id, k) => Holding(e, id, k)'
  PROVE  StreamInv'
<1>1. AllOk /\ \A d \in Ends : StreamOf(d) /\ CollectedOf(d)
  BY DEF StreamInv
<1>2. ASSUME NEW d \in Ends PROVE StreamOf(d)' /\ CollectedOf(d)'
  <2>1. \A h \in Goroutines : Collects(h, d)' => Collects(h, d) /\ body'[h] = body[h]
    BY <1>2
  <2>2. \A id \in Ids, k \in Nat : Holding(d, id, k) /\ Awaits(d, Len(wire[d]), id, k) => Holding(d, id, k)'
    BY <1>2 DEF Awaits
  <2>3. QED  BY <1>1, <1>2, <2>1, <2>2, StreamSame
<1>3. AllOk'
  BY <1>1 DEF AllOk
<1>4. QED  BY <1>2, <1>3 DEF StreamInv

\* sendMu is taken when nobody holds it.
LEMMA StreamLock ==
  ASSUME PipeBase, ~done, StreamInv, NEW g \in Goroutines, Lock(g)
  PROVE  StreamInv'
<1>1. PipeTypes
  BY DEF PipeBase
<1>2. /\ Sends(g) /\ sendMu[End(g)] = "none" /\ sendMu' = [sendMu EXCEPT ![End(g)] = g]
      /\ UNCHANGED <<prog, size, at, sub, body, wire, done, linked, saved, got>>
  BY DEF Lock, Sends
<1>3. PICK e \in Ends : e = End(g)
  BY <1>1, <1>2, InIs DEF Sends
<1>4. "none" \notin Goroutines
  BY DEF Goroutines
<1>5. \A h, d : Collects(h, d)' <=> Collects(h, d)
  BY <1>2, SameCollector
<1>6. ASSUME NEW d \in Ends, NEW id \in Ids, NEW k \in 1 .. Parts(d), Holding(d, id, k) PROVE Holding(d, id, k)'
  <2>1. d # e
    BY <1>2, <1>3, <1>4, <1>6 DEF Holding
  <2>2. sendMu'[d] = sendMu[d]
    BY <1>1, <1>2, <1>3, <2>1 DEF PipeTypes
  <2>3. QED  BY <1>2, <1>6, <2>2, HoldingStays
<1>7. QED  BY <1>2, <1>5, <1>6, StreamStill

\* All frames were sent: nothing of the file is awaited any more.
LEMMA StreamSent ==
  ASSUME PipeBase, ~done, StreamInv, NEW g \in Goroutines, Sent(g)
  PROVE  StreamInv'
<1>1. PipeTypes /\ Locked /\ BodyIdle
  BY DEF PipeBase
<1>2. PICK k \in Nat :
           /\ k = at[g] + 1 /\ at' = [at EXCEPT ![g] = k] /\ sub' = [sub EXCEPT ![g] = 0]
           /\ sendMu' \in [Ends -> Goroutines \cup {"none"}]
           /\ \A e \in Ends : sendMu'[e] # g /\ \A h \in Goroutines \ {g} : sendMu'[e] = h <=> sendMu[e] = h
           /\ body[g] = NoBody /\ sub[g] > 0 /\ sub[g] = Len(Frames(g))
           /\ UNCHANGED <<prog, size, body, wire, done, linked, saved, got>>
  BY <1>1, SentEnds
<1>3. \A h \in Goroutines \ {g} : at'[h] = at[h] /\ sub'[h] = sub[h]
  BY <1>1, <1>2 DEF PipeTypes
<1>4. ASSUME NEW d \in Ends, NEW h \in Goroutines, Collects(h, d)' PROVE Collects(h, d)
  <2>1. h # g
    BY <1>2, <1>4, SameOrIdle
  <2>2. QED  BY <1>2, <1>3, <1>4, <2>1, SameCollector
<1>5. ASSUME NEW d \in Ends, NEW id \in Ids, NEW j \in 1 .. Parts(d), Holding(d, id, j) PROVE Holding(d, id, j)'
  <2>1. PICK h \in Goroutines : sendMu[d] = h /\ In(h, "file") /\ Id(h) = id /\ sub[h] = j
    BY <1>5 DEF Holding
  <2>2. h # g
    <3>1. CASE h = g
      <4>1. Sends(g) /\ End(g) = d
        BY <1>1, <2>1, <3>1 DEF Locked
      <4>2. Len(Frames(g)) = Parts(d) + 1 /\ Parts(d) \in Nat
        BY <1>1, <2>1, <3>1, <4>1, FramesAre
      <4>3. QED  BY <1>2, <2>1, <3>1, <4>2
    <3>2. QED  BY <3>1
  <2>3. sendMu'[d] = h
    BY <1>2, <2>1, <2>2
  <2>4. at'[h] = at[h] /\ sub'[h] = sub[h]
    BY <1>3, <2>2
  <2>5. In(h, "file")' /\ Id(h)' = id
    BY <1>2, <2>1, <2>4, SameCall
  <2>6. QED  BY <2>1, <2>3, <2>4, <2>5 DEF Holding
<1>6. QED  BY <1>2, <1>4, <1>5, StreamStill

\* AppendMessage, and steps that are none of the pipe's.
LEMMA StreamAside ==
  ASSUME PipeBase, ~done, StreamInv, UNCHANGED <<prog, size, at, sub, body, wire, done, sendMu, got>>
  PROVE  StreamInv'
<1>1. \A h, d : Collects(h, d)' <=> Collects(h, d)
  BY SameCollector
<1>2. \A d \in Ends : \A id \in Ids, k \in 1 .. Parts(d) : Holding(d, id, k) => Holding(d, id, k)'
  BY HoldingStays
<1>3. QED  BY <1>1, <1>2, StreamStill

\* One case per action of the pipe.
LEMMA StreamStep ==
  ASSUME PipeBase, PipeBase', StreamInv, PipeNext
  PROVE  StreamInv'
<1>1. CASE done
  <2>1. done' = TRUE
    <3>1. ASSUME NEW g \in Goroutines, PipeStep(g) PROVE done' = done
      BY <3>1 DEF PipeStep, Dial, Lock, Write, Save, Sent, SendClosed,
                    Accept, ReadText, ReadOffer, ReadChunk, ReadNoChunk, RecvClosed
    <3>2. Close => done' = TRUE
      BY DEF Close
    <3>3. done \in BOOLEAN
      BY DEF PipeBase, PipeTypes
    <3>4. QED  BY <1>1, <3>1, <3>2, <3>3 DEF PipeNext
  <2>2. QED  BY <2>1 DEF StreamInv
<1>2. CASE ~done
  <2>1. ASSUME NEW g \in Goroutines, PipeStep(g) PROVE StreamInv'
    <3>1. CASE Dial(g)
      BY <1>2, <3>1, StreamDial
    <3>2. CASE Lock(g)
      BY <1>2, <3>2, StreamLock
    <3>3. CASE Write(g)
      BY <1>2, <3>3, StreamWrite
    <3>4. CASE Save(g)
      <4>1. UNCHANGED <<prog, size, at, sub, body, wire, done, sendMu, got>>
        BY <3>4 DEF Save
      <4>2. QED  BY <1>2, <4>1, StreamAside
    <3>5. CASE Sent(g)
      BY <1>2, <3>5, StreamSent
    <3>6. CASE SendClosed(g) \/ RecvClosed(g)
      BY <1>2, <3>6 DEF SendClosed, RecvClosed
    <3>7. CASE Accept(g)
      BY <1>2, <3>7, StreamAccept
    <3>8. CASE ReadText(g)
      BY <1>2, <3>8, StreamReadText
    <3>9. CASE ReadOffer(g)
      BY <1>2, <3>9, StreamReadOffer
    <3>10. CASE ReadChunk(g)
      BY <1>2, <3>10, StreamReadChunk
    <3>11. CASE ReadNoChunk(g)
      BY <1>2, <3>11, StreamReadNoChunk
    <3>12. QED  BY <2>1, <3>1, <3>2, <3>3, <3>4, <3>5, <3>6, <3>7, <3>8, <3>9, <3>10, <3>11 DEF PipeStep
  <2>2. Close => StreamInv'
    BY DEF Close, StreamInv
  <2>3. QED  BY <2>1, <2>2 DEF PipeNext
<1>3. QED  BY <1>1, <1>2

\* Nothing is sent or received at first.
LEMMA StreamInit == PipeInit => StreamInv
<1>1. SUFFICES ASSUME PipeInit PROVE StreamInv
  OBVIOUS
<1>2. /\ body = [g \in Goroutines |-> NoBody] /\ wire = [e \in Ends |-> <<>>] /\ got = [e \in Ends |-> <<>>]
  BY <1>1 DEF PipeInit
<1>3. \A d \in Ends : \A h \in Goroutines : ~Collects(h, d)
  BY <1>2 DEF Collects
<1>4. \A d \in Ends : DOMAIN wire[d] = {} /\ DOMAIN got[d] = {}
  BY <1>2
<1>5. \A d \in Ends : StreamOf(d) /\ CollectedOf(d)
  BY <1>3, <1>4 DEF StreamOf, CollectedOf, Awaits
<1>6. AllOk
  BY <1>4 DEF AllOk
<1>7. QED  BY <1>5, <1>6 DEF StreamInv

\* While the pipe is open the frames of a file follow each other on the wire: each
\* is followed by the next chunk, or its sender holds sendMu and sends it next.
THEOREM StreamInvariance == Spec => [](PipeBase /\ StreamInv)
<1>1. Init => PipeBase /\ StreamInv
  BY BaseInit, StreamInit DEF Init
<1>2. PipeBase /\ StreamInv /\ [Next]_vars => (PipeBase /\ StreamInv)'
  <2>1. SUFFICES ASSUME PipeBase, StreamInv, [Next]_vars PROVE PipeBase' /\ StreamInv'
    OBVIOUS
  <2>2. CASE PipeNext
    BY <2>1, <2>2, BaseStep, StreamStep
  <2>3. CASE UNCHANGED pipeVars
    <3>1. PipeBase'
      BY <2>1, <2>3, PipeBaseStutter
    <3>2. UNCHANGED <<prog, size, at, sub, body, wire, done, sendMu, got>>
      BY <2>3 DEF pipeVars
    <3>3. CASE ~done
      BY <2>1, <3>1, <3>2, <3>3, StreamAside
    <3>4. CASE done
      <4>1. done' = done
        BY <3>2
      <4>2. StreamInv'
        BY <3>4, <4>1 DEF StreamInv
      <4>3. QED  BY <3>1, <4>2
    <3>5. QED  BY <3>1, <3>3, <3>4
  <2>4. QED  BY <2>1, <2>2, <2>3, PipeSteps
<1>3. QED  BY <1>1, <1>2, PTL DEF Spec

\* FileIntact of module Pipe: every file that is received while the pipe is open is
\* accepted by Reassemble, with the bytes that were sent, whoever else sends on the
\* link meanwhile.
THEOREM FilesArriveIntact == Spec => []FileIntact
<1>1. PipeBase /\ StreamInv => FileIntact
  BY StreamGivesFiles
<1>2. QED  BY <1>1, StreamInvariance, PTL
=============================================================================
