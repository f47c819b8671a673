---------------------------- MODULE FileTransfer ----------------------------
(***************************************************************************)
(* core/pkg/filetransfer/impl.go: a file is split into chunks, each sealed *)
(* with the transfer's own key and a nonce made of its index; the receiver *)
(* puts them in order, opens them and compares size and hash.  A byte is   *)
(* its position and the file it belongs to; the transfer key is the file   *)
(* id, and the hash of a file is the file.                                 *)
(***************************************************************************)
EXTENDS Naturals, Sequences, FiniteSets, SequencesExt

\* The bytes of a file of the given size.
Content(id, size) == [i \in 1 .. size |-> <<id, i>>]

\* Offer: what the receiver learns before the chunks.
OfferOf(id, data, chunkSize) ==
  [key |-> id, size |-> Len(data), chunkSize |-> chunkSize, hash |-> data]

\* Variant: the last, shorter chunk is not counted.
NumChunksWhole(offer) ==
  IF offer.chunkSize = 0 THEN 0 ELSE offer.size \div offer.chunkSize

\* How many chunks the receiver waits for (ReceiveFileBody).
NumChunks(offer) ==
  IF offer.chunkSize = 0 THEN 0
  ELSE (offer.size + offer.chunkSize - 1) \div offer.chunkSize

\* SealFile with nonceFor(index).
Sealed(id, index, plain) == [key |-> id, index |-> index, nonce |-> index, data |-> plain]

\* Split: a chunk at every offset below the length, the last one cut short.
Split(id, data, chunkSize) ==
  LET offsets == {off \in 0 .. Len(data) - 1 : off % chunkSize = 0}
      last(off) == IF off + chunkSize > Len(data) THEN Len(data) ELSE off + chunkSize
  IN [k \in 1 .. Cardinality(offsets) |->
        LET off == (k - 1) * chunkSize
        IN Sealed(id, k - 1, SubSeq(data, off + 1, last(off)))]

\* OpenFile: the key and the nonce must be the ones that sealed the chunk.
Opens(offer, c) == c.key = offer.key /\ c.nonce = c.index

\* Variant: the chunks are taken in the order of their arrival.
ReassembleInOrder(offer, chunks) ==
  LET plain == FlattenSeq([i \in DOMAIN chunks |-> chunks[i].data])
      ok == /\ \A i \in DOMAIN chunks : chunks[i].index = i - 1 /\ Opens(offer, chunks[i])
            /\ Len(plain) = offer.size
            /\ plain = offer.hash
  IN [ok |-> ok, data |-> IF ok THEN plain ELSE <<>>]

\* Reassemble sorts the chunks by their indices, which must then be 0, 1, 2, ...:
\* each index below their number is there, so none is missing or twice.  The
\* result is a file or an error.
Reassemble(offer, chunks) ==
  LET there == \A i \in DOMAIN chunks : \E k \in DOMAIN chunks : chunks[k].index = i - 1
      ordered == [i \in DOMAIN chunks |->
                    chunks[CHOOSE k \in DOMAIN chunks : chunks[k].index = i - 1]]
      plain == FlattenSeq([i \in DOMAIN ordered |-> ordered[i].data])
      ok == /\ there
            /\ \A i \in DOMAIN ordered : Opens(offer, ordered[i])
            /\ Len(plain) = offer.size
            /\ plain = offer.hash
  IN [ok |-> ok, data |-> IF ok THEN plain ELSE <<>>]

-----------------------------------------------------------------------------
(* Properties *)

MaxSize == 3        \* sizes and chunk sizes that ReassembleExact goes through
MaxChunkSize == 2
MaxTaken == 3       \* chunks handed to Reassemble

\* Reassemble returns the file for its own chunks in every order of arrival, and
\* refuses every other collection: one missing, one twice, one of another file.
ReassembleExact ==
  \A n \in 0 .. MaxSize, cs \in 1 .. MaxChunkSize :
    LET data == Content("f", n)
        offer == OfferOf("f", data, cs)
        own == ToSet(Split("f", data, cs))
        others == ToSet(Split("g", Content("g", n), cs))
    IN \A k \in 0 .. MaxTaken : \A taken \in [1 .. k -> own \cup others] :
         LET file == Reassemble(offer, taken)
             complete == ToSet(taken) = own /\ k = Cardinality(own)
         IN file.ok = complete /\ (complete => file.data = data)
=============================================================================
