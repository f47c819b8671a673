------------------------------ MODULE Offline ------------------------------
(***************************************************************************)
(* The offline path: SendOffline and FetchOffline of core/pkg/node/node.go *)
(* and the mailbox of core/pkg/mailbox.  A frame holds a handshake made    *)
(* from the recipient's prekey bundle and one encrypted message.           *)
(* account.LoadOrCreate makes new prekeys every time it runs, so a frame   *)
(* made from an earlier bundle does not open after the recipient's         *)
(* restart; nor does one that is no offline message at all: Put takes any  *)
(* bytes.  FetchOffline first empties the box and then opens the frames    *)
(* one by one; the first that does not open ends it with an error, and the *)
(* whole batch is gone with it.                                            *)
(***************************************************************************)
EXTENDS Naturals, Sequences

CONSTANTS
  Senders,      \* nodes that leave messages
  Fetchers,     \* concurrent calls of FetchOffline by the recipient
  MaxPuts,      \* messages of each sender (bound)
  MaxOthers,    \* frames that are no offline message (bound)
  MaxRestarts,  \* restarts of the recipient (bound)
  MaxFetches    \* calls of each fetcher (bound)

ASSUME OfflineAssumption ==
  /\ MaxPuts \in Nat /\ MaxOthers \in Nat
  /\ MaxRestarts \in Nat /\ MaxFetches \in Nat

VARIABLES
  box,      \* the recipient's queue in the mailbox
  gen,      \* the generation of the recipient's prekeys
  bundle,   \* bundle[s]: the generation of the bundle that s holds
  puts,     \* puts[s]: messages s has left
  others,   \* frames left that are no offline message
  fetch,    \* fetch[f]: a call of FetchOffline
  calls,    \* calls[f]: how often f has called it
  given     \* messages returned to the caller, in order

mailVars == <<box, gen, bundle, puts, others, fetch, calls, given>>

Letters == Senders \X (1 .. MaxPuts)
NoLetter == <<>>
Idle == [busy |-> FALSE, raws |-> <<>>, out |-> <<>>]

MailInit ==
  /\ box = <<>>
  /\ gen = 1
  /\ bundle = [s \in Senders |-> 1]
  /\ puts = [s \in Senders |-> 0]
  /\ others = 0
  /\ fetch = [f \in Fetchers |-> Idle]
  /\ calls = [f \in Fetchers |-> 0]
  /\ given = <<>>

\* Bundle: the sender obtains the recipient's current bundle.
GetBundle(s) ==
  /\ bundle[s] # gen
  /\ bundle' = [bundle EXCEPT ![s] = gen]
  /\ UNCHANGED <<box, gen, puts, others, fetch, calls, given>>

\* Variant: Put replaces the box.
SendOfflineReplaces(s) ==
  /\ puts[s] < MaxPuts
  /\ box' = <<[letter |-> <<s, puts[s] + 1>>, gen |-> bundle[s]]>>
  /\ puts' = [puts EXCEPT ![s] = @ + 1]
  /\ UNCHANGED <<gen, bundle, others, fetch, calls, given>>

\* SendOffline: Initiate with the bundle, Encrypt, Put.
SendOffline(s) ==
  /\ puts[s] < MaxPuts
  /\ box' = Append(box, [letter |-> <<s, puts[s] + 1>>, gen |-> bundle[s]])
  /\ puts' = [puts EXCEPT ![s] = @ + 1]
  /\ UNCHANGED <<gen, bundle, others, fetch, calls, given>>

\* Put by anybody else: the bytes are no frame, have no handshake, or hold no
\* payload or envelope that opens (generation 0).
PutOther ==
  /\ others < MaxOthers
  /\ box' = Append(box, [letter |-> NoLetter, gen |-> 0])
  /\ others' = others + 1
  /\ UNCHANGED <<gen, bundle, puts, fetch, calls, given>>

\* Variant: Fetch leaves the messages in the box.
FetchBeginKeeps(f) ==
  /\ ~fetch[f].busy /\ calls[f] < MaxFetches
  /\ calls' = [calls EXCEPT ![f] = @ + 1]
  /\ fetch' = [fetch EXCEPT ![f] = [busy |-> TRUE, raws |-> box, out |-> <<>>]]
  /\ UNCHANGED <<box, gen, bundle, puts, others, given>>

\* FetchOffline begins: Fetch returns and removes the whole queue.
FetchBegin(f) ==
  /\ ~fetch[f].busy /\ calls[f] < MaxFetches
  /\ calls' = [calls EXCEPT ![f] = @ + 1]
  /\ fetch' = [fetch EXCEPT ![f] = [busy |-> TRUE, raws |-> box, out |-> <<>>]]
  /\ box' = <<>>
  /\ UNCHANGED <<gen, bundle, puts, others, given>>

\* DecodeFrame, Accept, Decrypt and DecodeEnvelope of the next frame.
FetchOpen(f) ==
  LET raw == Head(fetch[f].raws) IN
  /\ fetch[f].busy /\ fetch[f].raws # <<>>
  /\ raw.gen = gen
  /\ fetch' = [fetch EXCEPT ![f].raws = Tail(@), ![f].out = Append(@, raw.letter)]
  /\ UNCHANGED <<box, gen, bundle, puts, others, calls, given>>

\* One of them fails: FetchOffline returns nil and the error, and drops what it
\* has opened with what it has not.
FetchFail(f) ==
  /\ fetch[f].busy /\ fetch[f].raws # <<>>
  /\ Head(fetch[f].raws).gen # gen
  /\ fetch' = [fetch EXCEPT ![f] = Idle]
  /\ UNCHANGED <<box, gen, bundle, puts, others, calls, given>>

\* All are opened and returned.
FetchReturn(f) ==
  /\ fetch[f].busy /\ fetch[f].raws = <<>>
  /\ fetch' = [fetch EXCEPT ![f] = Idle]
  /\ given' = given \o fetch[f].out
  /\ UNCHANGED <<box, gen, bundle, puts, others, calls>>

\* The recipient's process ends and LoadOrCreate makes new prekeys; the mailbox
\* is elsewhere and stays.
Restart ==
  /\ gen <= MaxRestarts
  /\ gen' = gen + 1
  /\ fetch' = [f \in Fetchers |-> Idle]
  /\ UNCHANGED <<box, bundle, puts, others, calls, given>>

MailNext ==
  \/ \E s \in Senders : GetBundle(s) \/ SendOffline(s)
  \/ PutOther
  \/ \E f \in Fetchers :
       FetchBegin(f) \/ FetchOpen(f) \/ FetchFail(f) \/ FetchReturn(f)
  \/ Restart

-----------------------------------------------------------------------------
(* Properties *)

\* Where a message is: in the mailbox, with a call that fetches, or returned.
Places(l) ==
  {<<"box", i>> : i \in {j \in DOMAIN box : box[j].letter = l}}
    \cup {<<"given", i>> : i \in {j \in DOMAIN given : given[j] = l}}
    \cup (UNION {{<<"raws", f, i>> :
                    i \in {j \in DOMAIN fetch[f].raws : fetch[f].raws[j].letter = l}} :
                  f \in Fetchers})
    \cup (UNION {{<<"out", f, i>> : i \in {j \in DOMAIN fetch[f].out : fetch[f].out[j] = l}} :
                  f \in Fetchers})

\* No message is returned twice, or is returned and still queued, by calls that
\* fetch at the same time or one after the other.
FetchedOnce == \A l \in Letters : \A x, y \in Places(l) : x = y

\* The call f has the message l in its hands, opened or not.
Held(f, l) ==
  \/ \E i \in DOMAIN fetch[f].raws : fetch[f].raws[i].letter = l
  \/ \E i \in DOMAIN fetch[f].out : fetch[f].out[i] = l

\* A message that was left is lost only out of the hands of a call that fetches:
\* one that ends with the recipient's process, or one that still holds a frame
\* which is no offline message or was made from the bundle of an earlier
\* process.  Nothing is ever lost in the mailbox or after it was returned.
LostOnlyInBatch ==
  [][\A l \in Letters : Places(l) # {} /\ Places(l)' = {} =>
       \E f \in Fetchers :
         /\ Held(f, l)
         /\ \/ gen' # gen
            \/ \E i \in DOMAIN fetch[f].raws :
                 fetch[f].raws[i].letter = NoLetter \/ fetch[f].raws[i].gen < gen]_mailVars

=============================================================================
