-------------------------------- MODULE Pipe --------------------------------
(***************************************************************************)
(* The in-process connection of core/pkg/transport/inproc.go and the       *)
(* links that core/pkg/node puts on it with Dial and Accept: two bounded   *)
(* Go channels and one "done" channel that either end closes.  A program   *)
(* is a set of goroutines, each a list of calls; the first one is what     *)
(* cmd/stunnerd and the node tests do, one goroutine that writes with one  *)
(* end and then reads with the other.                                      *)
(*                                                                         *)
(* Encrypted frames are their content (the session is module Ratchet).     *)
(* sendMu is held over the whole of a call that sends, with the append to  *)
(* the store after the frame.                                              *)
(***************************************************************************)
EXTENDS FileTransfer, FiniteSets

CONSTANTS
  Cap,        \* capacity of a channel (64 in the code)
  ChunkSize,  \* DefaultChunkSize
  Sizes,      \* sizes of the files that are sent
  Programs    \* the programs, see Script

ASSUME PipeAssumption ==
  /\ Cap \in Nat \ {0} /\ ChunkSize \in Nat \ {0}
  /\ Sizes \subseteq Nat
  /\ Programs \subseteq {"none", "harness", "readers", "crossed"}

VARIABLES
  prog,     \* the program that runs
  size,     \* size[e]: the size of the file that end e sends
  at,       \* at[g]: the call goroutine g is in; 0 when it returned an error
  sub,      \* sub[g]: the frames of that call already sent
  body,     \* body[g]: the offer and the chunks of a file being received
  wire,     \* wire[e]: frames sent by end e and not yet received
  done,     \* the done channel is closed
  linked,   \* the ends that have a Link
  sendMu,   \* sendMu[e]: the goroutine that holds it
  saved,    \* saved[e]: the messages in the store of e, in order
  got       \* got[e]: texts and files received at e, in order

pipeVars == <<prog, size, at, sub, body, wire, done, linked, sendMu, saved, got>>

Ends == {"a", "b"}
Other(e) == IF e = "a" THEN "b" ELSE "a"
Goroutines == {"main", "left", "right", "third"}

-----------------------------------------------------------------------------
(* Programs *)

Call(what, e) == [what |-> what, end |-> e]

\* stunnerd's run; a link with two writers and a reader of its own, like the
\* runtime's; two ends that write before they read.
Script(g) ==
  CASE prog = "harness" /\ g = "main" ->
         <<Call("dial", "a"), Call("accept", "b"), Call("text", "a"), Call("read", "b"),
           Call("file", "a"), Call("read", "b")>>
    [] prog = "readers" /\ g = "left" ->
         <<Call("dial", "a"), Call("file", "a"), Call("text", "a")>>
    [] prog = "readers" /\ g = "third" -> <<Call("typing", "a"), Call("text", "a")>>
    [] prog = "readers" /\ g = "right" ->
         <<Call("accept", "b"), Call("read", "b"), Call("read", "b"), Call("read", "b"),
           Call("read", "b")>>
    [] prog = "crossed" /\ g = "left" ->
         <<Call("dial", "a"), Call("file", "a"), Call("read", "a")>>
    [] prog = "crossed" /\ g = "right" ->
         <<Call("accept", "b"), Call("file", "b"), Call("read", "b")>>
    [] OTHER -> <<>>

\* Goroutine g is in a call of this kind.
In(g, what) == at[g] \in DOMAIN Script(g) /\ Script(g)[at[g]].what = what
End(g) == Script(g)[at[g]].end
Finished(g) == at[g] \notin DOMAIN Script(g)
Id(g) == <<g, at[g]>>

\* The call returns; or it returns an error, which ends the goroutine.
Return(g) ==
  /\ at' = [at EXCEPT ![g] = @ + 1]
  /\ sub' = [sub EXCEPT ![g] = 0]
Fail(g) ==
  /\ at' = [at EXCEPT ![g] = 0]
  /\ sub' = [sub EXCEPT ![g] = 0]

NoBody == [offer |-> <<>>, chunks |-> <<>>]

PipeInit ==
  /\ prog \in Programs
  /\ size \in [Ends -> Sizes \cup {0}]
  /\ prog # "crossed" => size["b"] = 0      \* b sends no file
  /\ prog = "none" => size["a"] = 0
  /\ at = [g \in Goroutines |-> 1]
  /\ sub = [g \in Goroutines |-> 0]
  /\ body = [g \in Goroutines |-> NoBody]
  /\ wire = [e \in Ends |-> <<>>]
  /\ done = FALSE
  /\ linked = {}
  /\ sendMu = [e \in Ends |-> "none"]
  /\ saved = [e \in Ends |-> <<>>]
  /\ got = [e \in Ends |-> <<>>]

-----------------------------------------------------------------------------
(* Send *)

Handshake == [type |-> "handshake", id |-> <<>>, body |-> <<>>]

\* The frames of a call: one for a text or a typing mark; the offer and the chunks for a file.
Frames(g) ==
  LET e == End(g)
      data == Content(Id(g), size[e])
      offer == [type |-> "offer", id |-> Id(g), body |-> OfferOf(Id(g), data, ChunkSize)]
      chunks == Split(Id(g), data, ChunkSize)
  IN IF In(g, "file")
       THEN <<offer>> \o [k \in DOMAIN chunks |->
                            [type |-> "chunk", id |-> Id(g), body |-> chunks[k]]]
       ELSE <<[type |-> Script(g)[at[g]].what, id |-> Id(g), body |-> <<>>]>>

\* Texts and offers are kept in the store, chunks and typing marks are not.
Persistable(f) == f.type \in {"text", "offer"}

\* Variant: the last place of the channel is not used.
HasRoomLess(e) == Len(wire[e]) < Cap - 1

HasRoom(e) == Len(wire[e]) < Cap

\* Dial sends the handshake.
Dial(g) ==
  /\ In(g, "dial")
  /\ HasRoom(End(g))
  /\ wire' = [wire EXCEPT ![End(g)] = Append(@, Handshake)]
  /\ linked' = linked \cup {End(g)}
  /\ Return(g)
  /\ UNCHANGED <<prog, size, body, done, sendMu, saved, got>>

\* SendText, SendTyping and SendFile take sendMu.
Lock(g) ==
  /\ In(g, "text") \/ In(g, "typing") \/ In(g, "file")
  /\ End(g) \in linked
  /\ sendMu[End(g)] = "none"
  /\ sendMu' = [sendMu EXCEPT ![End(g)] = g]
  /\ UNCHANGED <<prog, size, at, sub, body, wire, done, linked, saved, got>>

Holds(g) == ~Finished(g) /\ sendMu[End(g)] = g

\* A message was sent and is still to be kept.
Unsaved(g) ==
  /\ sub[g] > 0
  /\ Persistable(Frames(g)[sub[g]])
  /\ Id(g) \notin ToSet(saved[End(g)])

\* Variant: the link's next sender may come in before the store has the message.
WriteUnlocks(g) ==
  LET e == End(g) IN
  /\ Holds(g) /\ ~Unsaved(g) /\ sub[g] < Len(Frames(g))
  /\ HasRoom(e)
  /\ wire' = [wire EXCEPT ![e] = Append(@, Frames(g)[sub[g] + 1])]
  /\ sub' = [sub EXCEPT ![g] = @ + 1]
  /\ sendMu' = [sendMu EXCEPT ![e] = IF In(g, "text") THEN "none" ELSE @]
  /\ UNCHANGED <<prog, size, at, body, done, linked, saved, got>>

\* conn.Send of the next frame: it waits for room.
Write(g) ==
  LET e == End(g) IN
  /\ Holds(g) /\ ~Unsaved(g) /\ sub[g] < Len(Frames(g))
  /\ HasRoom(e)
  /\ wire' = [wire EXCEPT ![e] = Append(@, Frames(g)[sub[g] + 1])]
  /\ sub' = [sub EXCEPT ![g] = @ + 1]
  /\ UNCHANGED <<prog, size, at, body, done, linked, sendMu, saved, got>>

\* AppendMessage follows the frame.
Save(g) ==
  /\ ~Finished(g)
  /\ Unsaved(g)
  /\ saved' = [saved EXCEPT ![End(g)] = Append(@, Id(g))]
  /\ UNCHANGED <<prog, size, at, sub, body, wire, done, linked, sendMu, got>>

\* All frames are sent: sendMu is given back and the call returns.
Sent(g) ==
  /\ ~Finished(g)
  /\ sub[g] = Len(Frames(g)) /\ sub[g] > 0 /\ ~Unsaved(g)
  /\ sendMu' = [sendMu EXCEPT ![End(g)] = IF @ = g THEN "none" ELSE @]
  /\ Return(g)
  /\ UNCHANGED <<prog, size, body, wire, done, linked, saved, got>>

\* conn.Send finds done closed; when there is room too, either may happen.
SendClosed(g) ==
  /\ done
  /\ \/ In(g, "dial") /\ UNCHANGED sendMu
     \/ /\ Holds(g) /\ ~Unsaved(g) /\ sub[g] < Len(Frames(g))
        /\ sendMu' = [sendMu EXCEPT ![End(g)] = "none"]
  /\ Fail(g)
  /\ UNCHANGED <<prog, size, body, wire, done, linked, saved, got>>

-----------------------------------------------------------------------------
(* Recv *)

\* A receiving call takes the next frame.
Takes(g) ==
  LET from == Other(End(g)) IN
  /\ wire[from] # <<>>
  /\ wire' = [wire EXCEPT ![from] = Tail(@)]
Incoming(g) == Head(wire[Other(End(g))])

\* Accept: the first frame is the handshake.
Accept(g) ==
  /\ In(g, "accept")
  /\ Takes(g)
  /\ Incoming(g).type = "handshake"
  /\ linked' = linked \cup {End(g)}
  /\ Return(g)
  /\ UNCHANGED <<prog, size, body, done, sendMu, saved, got>>

Reading(g) == In(g, "read") /\ End(g) \in linked

Surface(g, item) == got' = [got EXCEPT ![End(g)] = Append(@, item)]

\* Receive returns a text or a typing mark.
ReadText(g) ==
  /\ Reading(g) /\ body[g] = NoBody
  /\ Takes(g)
  /\ Incoming(g).type \in {"text", "typing"}
  /\ Surface(g, [id |-> Incoming(g).id, ok |-> TRUE, data |-> <<>>])
  /\ Return(g)
  /\ UNCHANGED <<prog, size, body, done, linked, sendMu, saved>>

\* The file is complete when its last chunk is there, an empty one at once.
Assembled(g, offer, chunks) ==
  IF Len(chunks) = NumChunks(offer)
    THEN LET file == Reassemble(offer, chunks) IN
         /\ Surface(g, [id |-> offer.key, ok |-> file.ok, data |-> file.data])
         /\ body' = [body EXCEPT ![g] = NoBody]
         /\ IF file.ok THEN Return(g) ELSE Fail(g)
    ELSE /\ body' = [body EXCEPT ![g] = [offer |-> offer, chunks |-> chunks]]
         /\ UNCHANGED <<got, at, sub>>

\* Receive returns an offer: ParseFileOffer, then ReceiveFileBody.
ReadOffer(g) ==
  /\ Reading(g) /\ body[g] = NoBody
  /\ Takes(g)
  /\ Incoming(g).type = "offer"
  /\ Assembled(g, Incoming(g).body, <<>>)
  /\ UNCHANGED <<prog, size, done, linked, sendMu, saved>>

\* The next envelope of the body is taken for a chunk whatever its type is: the
\* JSON of a text or an offer gives an empty one.
ReadChunk(g) ==
  LET c == IF Incoming(g).type = "chunk" THEN Incoming(g).body ELSE Sealed(<<>>, 0, <<>>) IN
  /\ Reading(g) /\ body[g] # NoBody
  /\ Takes(g)
  /\ Incoming(g).type # "typing"
  /\ Assembled(g, body[g].offer, Append(body[g].chunks, c))
  /\ UNCHANGED <<prog, size, done, linked, sendMu, saved>>

\* A typing mark has no body to unmarshal: ReceiveFileBody returns the error.
ReadNoChunk(g) ==
  /\ Reading(g) /\ body[g] # NoBody
  /\ Takes(g)
  /\ Incoming(g).type = "typing"
  /\ Surface(g, [id |-> body[g].offer.key, ok |-> FALSE, data |-> <<>>])
  /\ body' = [body EXCEPT ![g] = NoBody]
  /\ Fail(g)
  /\ UNCHANGED <<prog, size, done, linked, sendMu, saved>>

\* Variant: Recv looks at done first and leaves the channel as it is.
RecvClosedAtOnce(g) ==
  /\ done
  /\ In(g, "accept") \/ Reading(g)
  /\ Fail(g)
  /\ UNCHANGED <<prog, size, body, wire, done, linked, sendMu, saved, got>>

\* Recv reports the end only when nothing is left to drain.
RecvClosed(g) ==
  /\ done
  /\ In(g, "accept") \/ Reading(g)
  /\ wire[Other(End(g))] = <<>>
  /\ Fail(g)
  /\ UNCHANGED <<prog, size, body, wire, done, linked, sendMu, saved, got>>

\* Close, from any goroutine.
Close ==
  /\ prog = "readers"
  /\ ~done
  /\ done' = TRUE
  /\ UNCHANGED <<prog, size, at, sub, body, wire, linked, sendMu, saved, got>>

PipeStep(g) ==
  \/ Dial(g) \/ Lock(g) \/ Write(g) \/ Save(g) \/ Sent(g) \/ SendClosed(g)
  \/ Accept(g) \/ ReadText(g) \/ ReadOffer(g) \/ ReadChunk(g)
  \/ ReadNoChunk(g) \/ RecvClosed(g)

PipeNext == (\E g \in Goroutines : PipeStep(g)) \/ Close

-----------------------------------------------------------------------------
(* Properties *)

\* A file of this end, offer and chunks, fits into the channel.
Fits(e) == 1 + NumChunks(OfferOf(<<>>, Content(<<>>, size[e]), ChunkSize)) <= Cap

\* Somebody reads what a full channel waits for: a reader of its own, or in the
\* other programs enough room to finish a file before reading.
Unblocked ==
  CASE prog = "harness" -> Fits("a")
    [] prog = "crossed" -> Fits("a") \/ Fits("b")
    [] OTHER -> TRUE

\* The goroutine's call has begun: it has the Link it works on.
Begun(g) == ~Finished(g) /\ (In(g, "dial") \/ In(g, "accept") \/ End(g) \in linked)

\* Every call on a link over the pipe returns, up to files that fill the channel
\* to its last place, whoever else writes, and also when the pipe is closed.
EveryCallReturns == \A g \in Goroutines : Unblocked /\ Begun(g) ~> Finished(g)

\* A received file is the one that was sent, and on an open pipe Reassemble
\* refuses none, with any size and other senders on the link.  After Close a
\* Send may still find room, so that other frames follow a file that was cut.
FileIntact ==
  \A e \in Ends : \A i \in DOMAIN got[e] :
    /\ got[e][i].ok \/ done
    /\ got[e][i].data # <<>> => got[e][i].data = Content(got[e][i].id, size[Other(e)])

\* The sender's store and the receiver see the messages in the same order:
\* sendMu covers frame and store.
HistoryOrder ==
  \A e \in Ends : \A i, j \in DOMAIN saved[e], k, l \in DOMAIN got[Other(e)] :
    saved[e][i] = got[Other(e)][k].id /\ saved[e][j] = got[Other(e)][l].id
      => (i < j <=> k < l)

\* A text in the store of an open pipe is received, although the pipe is closed
\* right after: Recv drains the channel first.
SentIsRead ==
  \A text \in {<<"left", 3>>, <<"third", 2>>} :
    prog = "readers" /\ ~done /\ text \in ToSet(saved["a"])
      ~> \E i \in DOMAIN got["b"] : got["b"][i].id = text

=============================================================================
