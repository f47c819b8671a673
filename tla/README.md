# Stunner: TLA+ models, checks and proofs

Stunner is a serverless messenger: a Go engine (`src/core`) that finds peers through a
DHT, connects to them over WebRTC, encrypts with X3DH and a Double Ratchet and keeps
its files sealed, and a Flutter application (`src/app`) that drives the engine through an
FFI or a mobile binding. This directory holds TLA+ models of the parts where
concurrency, ordering and failure decide whether the program is right, the TLC
configurations that check them, and TLAPS proofs of the most important invariants.

`PROJECT.json` maps every definition to the lines it models and lists the runs, the
mutants (a plausible bug for every checked property, which TLC detects), the hazards,
the findings and the theorems. Check a run with
`tlc -config <cfg> <module>`, a proof with `tlapm <module>.tla`.

## 1. The system

| part | state it keeps | operations | talks to |
| --- | --- | --- | --- |
| runtime engine (`core/pkg/runtime`) | link table, outbox channel, event queue, last inbound id, closed flag | Send, SendFile, SendTyping, MarkRead, Diagnose, Poll, Settings, SaveState, Stop; goroutines: send worker, accept loop, readvertise loop, one reader per link | node, signaler, transport, store |
| node and links (`core/pkg/node`) | a link: connection, session, send mutex `sendMu` | Connect, Listen, handshakes, Send, Receive, SendFile, ReceiveFileBody, receipts; SendOffline, FetchOffline | transport, session, store, mailbox |
| WebRTC transport (`core/pkg/transport/pion.go`) | per end: the channel of received frames, `done` | Dial, Accept, Send, Recv, Close | signaler, pion |
| in-process pipe (`core/pkg/transport/inproc.go`) | two channels of 64 frames, `done` | Send, Recv, Close | the headless harness and the tests |
| signaling (`core/pkg/signaling`) | queues of offers and answers, `lastRemote`, provider records, the context that Close cancels | Advertise, Find, SendSDP, RecvSDP, onStream, Close | libp2p, or the in-process Registry |
| secure session (`core/pkg/crypto`) | prekeys, root and chain keys, counters, skipped keys | X3DH, Encrypt, Decrypt | node |
| encrypted storage (`core/pkg/storage`, `vault`) | one sealed JSON document in memory and on disk | save, append, delete, blobs, open | runtime, node |
| account (`core/pkg/account`, `identity`) | identity file | LoadOrCreate | vault |
| offline mailbox (`core/pkg/mailbox`) | sealed frames per recipient | Put, Fetch | node (not used by the runtime) |
| files, contacts (`filetransfer`, `contact`, `safetynumber`) | none, or a map | Split, Reassemble, URI, ParseURI | node, runtime |
| bindings (`core/ffi`, `core/mobile`) | the runtime singleton | Start, Stop, forwarding | application, runtime |
| chat store (`app/lib/src/services/chat_store.dart`) | contacts, conversations, statuses, presence | add, delete, toggle, send, receive, mark | screens, messaging service |
| messaging service (`messaging_service.dart`) | poll timer, save timer, started flag | bootstrap, start, send, drain, save | bindings, chat store |
| user interface, `stunnerd`, settings, emoji, netcheck | presentation or pure data | | |

How a message travels: a screen calls the chat store, which appends it as "sending" and
hands it to the service; the service calls the runtime's `Send`, which puts it into the
outbox channel; the send worker takes it, looks for a link, or finds, dials and
handshakes; it writes the envelope and pushes "sent". At the other end a reader
surfaces the message, then writes a receipt; the sender's reader pushes "receipt". The
service polls the events into the store, whose listeners schedule a save.

What is hard: three kinds of goroutine change the link table; both peers may dial at
once; a connection may end between any two steps; Stop does not wait for the goroutines;
verdicts and receipts come from different goroutines; the signaler has one `lastRemote`
for all offers; channels are bounded, and their writers wait; FetchOffline empties the box
before it knows whether the frames open; ratchet messages arrive late, twice or never; files are rewritten in
place; the application may be ended at any time. What makes each part correct is
listed with its module below.

## 2. Modules

### Runtime (`Runtime.tla`, instantiated by `MCRuntime.tla`)

The engine, the live path of node and the connection object of pion, for any number of
nodes and connections.

* `pc[n][x]` is the program point of the send worker (`snd`), of a Diagnose goroutine
  (`diag`) and of the accept loop (`lst`); `rd[c][n]` is the one of the reader of n's end of
  connection c. Each goroutine step that touches shared state is one action: `DialOffer`,
  `DialAnswer`, `DialOpen`, `DialHandshake`, `Adopt` and `Announce` are the stages of
  Connect and adopt, `SndTake` ... `SndDrop` are deliver, `RdText` ... `RdOffline`
  the cases of recvLoop, `StopSwap` and `StopFinish` the two halves of Stop.
* `links` is the table, `closing` the table Stop has taken away, `done[c][n]` the closed
  channel of one end, `wire[c][n]` the frames on their way to n.
* `said`, `got` and `shown` are the event queue as the user interface sees it.

Abstractions. `dropLink`'s delete and Close are one step; MarkRead is one step, receiving
a frame and pushing its event is one step, its receipt another. A reader whose end is
done may stop at any frame (what pion had not delivered is lost), and a frame written
after the other end is done is lost. A send may fail at any time, with nothing on the wire; that an
error of Encrypt or of the data channel means so is their contract. Offers and answers have no order. Accept may fail after
it took the offer, its answer may be lost on the way, and a dialler takes any answer of its peer,
also one to the offer of another dialler of its node. A file is its offer and one frame that
stands for the run of chunks. The identity check of a link never fails, because both
nodes are honest. Find may always fail. `readvertiseLoop` repeats an Advertise that stays
true. Deadlock is not checked since an idle engine waits for input.

Correct means: no open link is forgotten by the table, every link in the table is read, the engine
implements Delivery, calls of Send return and requests are answered except behind the one wait without a
timeout, presence tells the truth. That every link is closed in the end is not shown: one adopted after Stop is not
(section 5).

### Delivery (`Delivery.tla`), the abstract specification

What the engine promises about a message, without nodes, links or goroutines: a request
gets one verdict at most; a message reaches its user once at most, and never after it was
reported as failed; nothing that has arrived is reported as failed; a receipt tells of a
message that has arrived, before or after the verdict. `Runtime` instantiates it as
`Promise`: `asked` is the set of messages whose Send was called, `verdict` and `receipts` are
what the events in `said` say, `arrived` counts the events "message" and "file" in `got`.
`ImplementsDelivery` is the property that the engine, through this mapping, takes only steps of
Delivery or stutters.

### Signaling (`Signaling.tla`, bounded by `MCSignaling.tla`)

Advertise, Find, the exchange of offers and answers and Close, for both implementations,
with the part of Dial and Accept that drives it. Every node has its send worker as a dialler and the nodes of
`Checking` also calls of Diagnose; the diallers of a node take the answers of a peer from one channel, so that each may take
the other's. `byStream` is chosen in Init: TRUE is the
DHTSignaler, where an offer or answer travels in a stream with a goroutine of its own
(`streams`), FALSE the Registry of the tests. Queues have their capacities, `lastRemote` is
the signaler's, `advert` holds the provider records, `up` the nodes that were not closed. A stream
may fail to open, which fails the dial or the Accept (`AnswerLost`), or break before it is
read (`StreamBroken`). Close cancels the context on which diallers, accept loops and stream
goroutines of a DHTSignaler wait (`DialReleased`, `AcceptReleased`, `StreamCancelled`); the
Registry's Close releases nobody. The transport does not use trickled candidates and nothing
calls Presence. `Places(o)` is where an offer, or the answer to it, is: streams, queues, the accept loop that
answers it, the dialler that has heard. Correct means: an answer goes to the node of the offer it answers, none is left
for a later dial to take, no offer is in two places and so none is handled twice, every dial is answered, and Close
leaves nobody waiting. In the Registry Accept does not fail after it took an offer; what a failing Accept
does to the dialler is in Runtime.

### Ratchet (`Ratchet.tla`)

X3DH, the set-up of the sessions and the Double Ratchet, with symbolic keys: a root key
is the history of the Diffie-Hellman outputs it was derived from, a chain key its root
and a number of steps, and a ciphertext opens exactly with the message key and the
associated data that sealed it. The network reorders, loses and repeats messages.
Correct means: no message key seals two messages, a message opens once at most, and the
only messages refused are the ones of `OpensInAnyOrder`'s three exceptions.

### ChatStore (`ChatStore.tla`, bounded by `MCChatStore.tla`)

The application: store and messaging service, with the runtime as an environment that may
answer requests and pushes events in the orders the engine allows. A Dart handler is one
step. `disk` is the state saved through the runtime, `tried` the one the last save was given, which the runtime's
store keeps in memory: a save may fail, nobody hears of it, and the state reaches the disk with the
next save or the next time the runtime writes its store (`Persist`). `timer` is a scheduled save, `mode` how
the service was started: `live`, `degraded` (no runtime) or `unsaved` (the
onboarding screen started the runtime after bootstrap had failed). A handler that
notifies listeners schedules a save, as `_scheduleSave` does. Left out: reactions, typing
marks, diagnostics, contacts without a fingerprint, the content of the preferences.
`toggleBlock` is a flag that nothing reads, and the application never calls
`MessagingService.stop`. Correct means: one conversation per contact, statuses that tell
the truth and do not go back, every change was given to a save or has one scheduled, every verdict of the runtime
is shown.

### Storage (`Storage.tla`)

`key.bin`, `identity.bin` and `store.bin`, the steps of Start that read or create them,
the singleton of the bindings, the store's operations and Stop. `os.WriteFile` truncates and
then writes: a file is torn between its two steps and stays so when the process ends
(`Crash`) or the write fails. A torn file, or one sealed with another key, does not open.
`inst[i]` is the store object of the i-th runtime, so the send worker of a stopped runtime, or a
SaveState or SetSettings that took the runtime from the singleton before Stop, can still write
(`LateCall`), also at the same time as its successor. `cut` remembers that the last write of the store was cut short, `late`
that a stopped runtime wrote over its successor's document. Operations of the store on which no
property depends (contacts, conversations, deletes) are there because each of them rewrites the file. Correct means:
nothing on disk is sealed with a lost key, the identity the application was given is never replaced, saved
state is what a store that opens holds and what the next runtime loads.

### FileTransfer, Pipe, Offline (instantiated together by `MCHarness.tla`)

The parts of the core that the headless harness and the tests use.

* `FileTransfer.tla` holds the pure functions `Split`, `Reassemble` and the number of chunks the
  receiver computes on its own, `NumChunks`, as operators over bytes and hashes that are their
  content. Reassemble is stated without the sort: sorted chunks have the indices 0, 1, 2, ... exactly when each
  index below their number is there. Correct means: for all sizes and chunk sizes, Reassemble returns the file for the
  chunks of Split in every order of arrival, and refuses collections with a chunk missing, repeated or
  of another file.
* `Pipe.tla` is the in-process connection with the links of node.Dial and node.Accept on it.
  `wire[e]` are the two channels, `done` is the closed one, `sendMu[e]` is held over a whole call that
  sends, with the append to the store (`Save`) after the frame (`Write`). A program is a set of
  goroutines with the calls they make (`Script`): `harness` is what stunnerd's `run` and the node
  tests do, one goroutine for both ends; `readers` has two senders on one link and a reader of its own,
  like the runtime, and may be closed at any moment; in `crossed` both ends write a file before
  they read. Inside a file ReceiveFileBody takes any envelope for a chunk: the body of a text or an offer
unmarshals to an empty one (`ReadChunk`), a typing mark has none and ends the file at once (`ReadNoChunk`).
  Correct means: files arrive whole, store and wire agree on the order, every call
  returns, and what was sent before Close is read.
* `Offline.tla` is the mailbox with SendOffline and FetchOffline. A frame carries the generation
  of the prekeys it was made with; `Restart` makes new ones, as LoadOrCreate does. `PutOther` leaves bytes that are no
  offline message, since Put takes any. `Places(l)` is where a
  message is: the box, the frames or the results of a call that fetches, what was returned. Correct means: no
  message is in two places, so that none is returned twice, and none is lost but in a batch that FetchOffline gives up.

The two share no variable, so `MCHarness` runs the mailbox in the instances without a program on
the pipe instead of multiplying their states.

## 3. Runs

| run | bounds | checks | states |
| --- | --- | --- | --- |
| `glare` | 2 nodes, 2 connections, one message each way, Diagnose, Stop of both | NoOrphanLink, RegisteredLinkIsRead, SurfacedOnce, OnlineHasReader | 1.2 M |
| `reconnect` | a file and a text of one sender, read receipts, typing, failing sends, one connection failure | TypeOK, FailedTextNeverArrives, FileBodyFollowsOffer, ImplementsDelivery | 1.4 M |
| `live` | a message and two to an unreadable contact, 2 attempts, outbox of 1, one failure or one Stop of either side, lost answers, fairness | EveryRequestAnswered, DeadLinkForgotten, SendReturns | 63 k |
| `send_blocks` | the same three messages, 1 attempt, nobody stops, fairness | SendReturnsAlways (violated) | |
| `presence` | one message, Diagnose, one failure | PresenceShowsLink (violated) | |
| `ratchet_session` | 4 and 3 messages, skip limit 2, one duplicate | TypeOK, KeysFresh, OpensOnce, OpensInAnyOrder, ChainsAgree | 0.25 M |
| `chat_store` | one contact, two messages out, one in, saves that fail, one end of the process, fairness | TypeOK, OneChatPerContact, DirtyIsScheduled, StatusTruthful, VerdictShown, ReceiptsNeverRegress | 0.48 M |
| `chat_regress` | one outgoing message | ReadNeverRegresses (violated) | |
| `sig_exchange` | 3 nodes, one with 2 diallers, both implementations, 4 offers in all through the Registry and one per node over streams, queues of 1, one lost stream, one node that closes, fairness | TypeOK, HandledOnce, RegistryAnswers, NoAnswerLeft, EveryDialAnswered, CloseReleases | 0.30 M |
| `sig_misrouted` | 3 nodes, one dial each over streams, no loss | AnswerToOfferer (violated) | |
| `harness` | channels of 3, chunks of 2, files of 0, 1, 4 and 5 bytes, 4 programs; 3 messages of 2 senders, one frame that is none, 2 fetches, one restart; fairness | ReassembleExact, FileIntact, HistoryOrder, EveryCallReturns, SentIsRead, FetchedOnce, LostOnlyInBatch | 50 k |
| `storage` | 3 starts, 3 changes, 1 file error, 2 crashes | TypeOK, SealedByKey, OneIdentity, StateSurvives | 2.2 M |

Why these bounds are enough to meet the interesting cases. Two connections are what a
replacement needs: a glare, or a reconnect after a failure. One attempt instead of 12 and
an outbox of 1 instead of 64 make exhaustion and a full queue happen early; `live` uses two
attempts so that a retry happens, and three calls, one in the hands of the worker, one in the outbox and one that
waits. Its constraint `LiveBounds` makes the calls one after the other, as the user interface's thread does, and
explores one trouble at a time beside lost answers and failed dials: a connection that breaks, bob's Stop, or
alice's Stop with one or all calls made. In `glare` the constraint `OneMore` lets one thing at a
time join alice's message (bob's message, a manual check, or the stops); the states
at which a second one joins are still checked, and not explored further; connections are
interchangeable there and in `reconnect` (`ConnSymmetry`), as those not yet used are all in the same state; in
`reconnect` nobody types once a second connection is dialled (`TypingOnFirst`). Three signaling
nodes are the fewest with two diallers and one answerer; queues of 1 make a second offer wait, and the
second dial through the Registry is the one that could meet an answer left by the first. A second dialler
at one node is what it takes for two to take each other's answers; four offers in all let both dial, be crossed by another
node and dial again. In `chat_store` two messages are sent while nothing comes in and no save failed, and failed saves, inbound
messages and restarts are combined with one message (`Bounds`).
A channel of 3 frames holds an offer and the two chunks of 4 bytes exactly, and is too small for 5; 0 and 1
are the empty file and one that is shorter than a chunk. Two fetches may overlap, or come before and
after the restart, and three messages put one before and one after a frame that does not open. Four ratchet messages one way and three the
other with a skip limit of 2 reach several DH steps, late messages of old chains and refused
gaps. Two blobs tell an old state from a new one, and three starts let a file be created,
torn and read again.

**Fairness.** Every assumption is weak fairness of something the program does by itself.
`Runtime`: goroutines are scheduled, timers fire, an end learns that the other end
closed, and a caller of Send that waits for room goes on when there is some. Find and the dial may
fail at any time. No fairness is assumed of the user, of
failures or of Stop (only of a Stop that has begun). `ChatStore`: the poll
timer fires. Nothing is assumed of the runtime there, as its worker may wait for ever, nor of the save timer, which each
change sets back.
`Signaling`: accept loops and diallers are scheduled, gathering of candidates ends, and a select whose
context is done does not wait; the goroutines of streams need no fairness beyond that. `Pipe`: the
goroutines of the program are scheduled; nobody has to close the pipe.

## 4. Proofs

All proofs hold for every value of the constants; they assume only the named ASSUMEs of
the modules, which TLC evaluates in the runs.

* `RuntimeProofs.tla`: `Invariance` proves `Spec => []IInv` with
  `IInv == TypeOK /\ BookInv /\ StopOK /\ LinkInv`. `TypeCorrect`, `NoLinkLeaks`
  (NoOrphanLink) and `TableIsRead` (RegisteredLinkIsRead) follow. Neither property is
  inductive alone: that adopt closes the link it replaces helps only if the link it adds
  is not in the table already and has no reader. So LinkInv says that an end of a
  connection passes through exactly one goroutine that builds the link (`HoldingOK`), is
  unknown to everybody else while it does (`BuildingOK`), and that only ends that were
  claimed by dialling or by taking the offer have readers or are registered
  (`ClaimedOK`). BookInv says which message and peer a goroutine works on.
* `DeliveryProofs.tla` follows a message through the engine: `MsgInvariance` proves
  `Spec => [](IInv /\ MsgInv)`. MsgInv has four parts. `WriterInv`: the link the send worker writes
  to leads to the recipient and is not one that a goroutine is still building. `FlowInv`: on a wire the
  chunks of a file follow their offer at once, or the sender is still between the two, or the link is being given
  up (`GivenUp`): an end is closed, or the send worker failed to write and is about to drop it. `PlaceInv`: a
  message is in one frame of one wire, in the hands of one reader, or surfaced, and nowhere else.
  `StageInv`: how far the sender is; a message that is queued, or worked on and not yet written, is
  nowhere beyond its sender, and of a file that failed no more than the offer left.
* `PromiseProofs.tla` draws the conclusions: `MessagesSurfaceOnce` (SurfacedOnce), `FailureIsFinal`
  (FailedTextNeverArrives), `BodiesFollowOffers` (FileBodyFollowsOffer), `PresenceIsBacked`
  (OnlineHasReader) and `EngineImplementsDelivery`, the refinement: initial states map to initial
  states of Delivery and each action of the engine to one action of Delivery or a stutter. The ids of
  texts, which the application gives, must differ from the ids of file offers (RuntimeAssumption), which `newID`
  of `frame.go` draws at random.
* `SignalingProofs.tla`: `RegistryAnswersOfferer` proves `Spec => []RegistryAnswers`, the routing of
  answers by the Registry (`~byStream`). The strengthening `RegistryInv` says that while an accept
  loop works on an offer, `lastRemote` is the dialler of that offer, because RecvSDP sets both and no
  stream exists that could move it. The DHT signaler breaks that: see the finding below.
  `SignalInvariance` proves SignalInv, which says where an offer or its answer can be; `SignalTypes`
  (TypeOK) and `OffersHandledOnce` (HandledOnce) follow, since every action moves one offer from one
  place to the next, makes one that was nowhere, or lets places go. `NoneLeft` (NoAnswerLeft), for any number of
  diallers per node, counts: through the Registry the offers of a node to a peer that are queued, being answered or
  answered are at most as many as the diallers that wait for that peer (`CountInv`), since every dial adds one to both
  and every answer that is taken removes one of both, whoever takes it.
* `RatchetProofs.tla`: `RatchetInvariance` proves RatchetInv, from which `SessionTypes` (TypeOK),
  `KeysSealOnce` (KeysFresh) and `MessagesOpenOnce` (OpensOnce) follow, for any number of messages in any
  order, any duplication and any maxSkip. Sealing: every sending chain but the responder's first is
  rooted in a key pair generated for it, so that its root is new, and within a chain the step is
  the counter. Opening: root keys only grow, so that a receiving chain is never entered twice, and
  within a chain a key is ahead, set aside once, or spent. These are about what each party does with its
  own keys. `AgreementInvariance` adds CalmInv, which relates the two sessions while nothing was refused: one
  party leads by one DH ratchet step and the other still reads its last chain; chains are counted without gaps and
  a header carries the length of the chain before, so every key is ahead, set aside or the key of a message
  that was opened. `ChainsStayTogether` (ChainsAgree) and the action property `OrderIsFree`
  (OpensInAnyOrder) follow from it.
* `StorageProofs.tla`: `StorageInvariance` proves `Spec => []StorageInv`; `FilesOpen`
  (SealedByKey) and `IdentityKept` (OneIdentity) follow. `BootOK` is the needed addition: the
  key and the identity that a Start in progress holds are the ones on disk, and while a key
  is being written nothing is sealed and no store is open, unless a readable key was
  written over. `SavedStateSurvives` (StateSurvives) needs `SurvivesInv`: the newest runtime that has
  read the store works on the blob last acknowledged or one tried since, a save in
  progress is in the document of its store, and a write by an older runtime sets `late` until the newer one
  saves; and `TornInv`: the store is torn only while it is written or after a write was cut short. `StoreTypes`
  is TypeOK, with the type of every document the operations of the store make.
* `ChatStoreProofs.tla`: `ChatInvariance` proves ChatInv, with `ChatTypes` (TypeOK), `OneChat`
  (OneChatPerContact), `DirtyScheduled` (DirtyIsScheduled), `StatusIsTrue` (StatusTruthful) and the action
  property `ReceiptsRise` (ReceiptsNeverRegress). StatusTruthful is not inductive: an event that is still queued,
  or a copy on disk that a restart restores, could contradict the runtime. So ChatInv says the same of
  memory and of disk, ties the status of a message to what its runtime did with it (`MessageOK`), and says that
  queued events agree with it (`EventsOK`); the state a failed save left in the runtime is a
  third copy of which the same holds (`tried`); unread messages are counted together with the events that
  will bring more (`UnreadOK`).
* `HarnessProofs.tla`: `MailInvariance` proves MailInv for the mailbox, with `MailFetchedOnce` (FetchedOnce) and
  the action property `MailLosses` (LostOnlyInBatch), for any number of calls of FetchOffline at the same time.
  Each step of a fetch takes a letter from the place where it was, so that the places after a step come from different
  places before it. Frames are dated (`FramesDated`): a letter is sealed for the prekeys of this process or an earlier
  one, so that a batch is given up only for a frame that is older, or no letter.

  The second part is file transfer and the pipe, for any channel capacity, chunk size and file sizes.
  `ReassembleTakes` is the unbounded form of ReassembleExact (`ReassembleIsExact`): Split makes as many chunks as NumChunks
  counts (`SplitIs`), the first m of them hold the file up to the end of the m-th (`SlicesJoin`), and chunks with the
  indices 0, 1, ..., each opened with the key of the file, are these. The inductions are by the least
  counterexample (`Least`), which needs no operator as a parameter. `PipeInvariance` proves
  PipeBase: types, who may hold sendMu (`Locked`), and that offers on the wire are the ones SendFile made. On it
  rest two invariants. FlowInv, for `HistoriesAgree` (HistoryOrder), gives each message a place
  in the flow from its sender to the receiver (received, being collected, on the wire):
  a message has one place, the store has them in the order of the flow, and one whose frame was sent and which is
  not yet saved is the last, because sendMu is still held. StreamInv, for `FilesArriveIntact` (FileIntact), says
  what a frame of a file awaits: the next chunk follows it on the wire, or the sender holds sendMu and has sent
  exactly the frames up to it; the chunks collected are the first ones. It holds until Close, after which a cut file
  may be followed by other frames (section 5).

Every invariant and action property that a passing run checks, and the refinement, is stated by a
theorem. Only model-checked are the liveness properties: EveryRequestAnswered, DeadLinkForgotten, SendReturns,
VerdictShown, EveryDialAnswered, CloseReleases, EveryCallReturns, SentIsRead. They need
ENABLED and fairness, which are out of this prover's reach. The programs on the pipe are the fixed list of
`Script`, also in the proofs.

## 5. Findings

Four runs show the code doing what one of its comments or tests rules out.

1. `presence`: recvLoop pushes "offline" when its link ends, also when adopt has replaced that
   link by one that is alive; the peer stays shown offline (`runtime.go:462`).
2. `chat_regress`: the read receipt may be polled before the "sent" event of the same
   message, and `markSent` sets the status without looking (`chat_store.dart:345`).
3. `sig_misrouted`: an offer that arrives while another is being answered moves `lastRemote`
   and redirects the answer (`libp2p.go:336`).
4. `send_blocks`: the send worker waits in RecvSDP without a timeout (`pion.go:76`). When the peer's answer does
   not come, because its Accept failed, a stream broke or it stopped, the outbox fills up and a further
   Send waits (`runtime.go:193`) until Stop, on the thread of the user interface, while its comment says that it returns
   immediately (`runtime.go:187`). EveryRequestAnswered and SendReturns hold with this wait as their only exception.

Met while modelling, and built into the models, without a run of their own:

* A link adopted after Stop emptied the table is filed in a table nobody looks at again: it is read and
  never closed by its node (`runtime.go:449`), while the comment of Stop says it closes all links (`runtime.go:320`). NoOrphanLink
  holds of such a link and says nothing of its end.
* After a glare each end closes the link it replaces, which may be the one the other end keeps: then neither
  survives, and the next send dials again.
* Start holds the lock of the singleton while it opens files, although `ffi.go:33` calls every export non-blocking.
* A failed message is not tried again when its peer reappears (`runtime.go:402`;
  `docs/ARCHITECTURE.md:146` says it is). ImplementsDelivery is a safety property and does not ask for it.
* The responder's messages sent before it received anything open only in order
  (`ratchet.go:124`); `maxSkip` bounds one gap and not a chain (`ratchet.go:127`); a refused or
  repeated message of an unknown ratchet key leaves a DH step behind, as the receiver's state is
  changed before the message is authenticated. ChainsAgree is therefore stated for sessions in
  which nothing was refused.
* The key of the responder's messages sent before it received anything comes from a nil chain
  (`ratchet.go:71`): it is no secret and the same in every session. The model has one session and equality of
  keys in place of secrecy, so no property shows this; KeysFresh is about one session.
* A read receipt marks failed and unsent messages as read too (`chat_store.dart:372`), while the comment of markReadByPeer
  speaks of "our sent messages" (`chat_store.dart:366`); StatusTruthful leaves "read" out.
* A message saved as "sending" stays so after a restart (`chat.dart:115`), as the runtime that had it is gone;
  VerdictShown is about verdicts that were pushed.
* A save that fails is not tried again: the error is freed unread (`stunner_ffi.dart:364`) and no timer is set
  (`messaging_service.dart:79`). The state reaches the disk with the next change that is saved or the next write of the
  runtime's store. DirtyIsScheduled says only that a save was tried with the current state or is scheduled; and
  since every change sets the timer back, a steady flow of changes puts the save off for as long as it lasts.
* When the onboarding screen starts the runtime after bootstrap failed, nothing is saved
  (`onboarding_screen.dart:50`); DirtyIsScheduled is about the other modes.
* A crash inside WriteFile leaves a store or an identity that does not open, and every later Start
  returns the error (`filestore.go:86`, `account.go:65`). Any write of the store will do, also the append of a message:
  state whose save was acknowledged is lost, while SaveState says "so it survives restarts" (`runtime.go:290`).
  StateSurvives names this (`cut`) and the late write below (`late`) as the only two ways to lose it.
* Any error of reading `key.bin` makes a new key that replaces it (`runtime.go:602`); what was sealed
  before does not open any more. SealedByKey excepts this (`rekeyed`).
* The send worker of a stopped runtime, or a SaveState that took the runtime before Stop, may write its
  document over what its successor saved; StateSurvives excepts this (`late`) until the successor saves again.
* SaveState and SetSettings return nil without a runtime in the mobile binding (`mobile/api.go`) and an
  error in the FFI (`ffi.go`).
* FetchOffline empties the mailbox and gives up at the first frame that does not open (`node.go:207-225`): one that is no
  offline message, or one made from a bundle of before the recipient's restart (`account.go:73`). The batch is lost with the
  messages that did open and those behind, while the comment of FetchOffline says it retrieves all messages queued for the node
  (`node.go:199`). LostOnlyInBatch shows that nothing is lost in any other way.
* Two ends of the pipe that both write a file larger than the channel before they read wait for ever
  (`inproc.go:38`), and so does one goroutine that does both; EveryCallReturns is about programs in which
  the file fits or somebody reads (`Unblocked`).
* After Close a Send on the pipe may still find room, since the select sees both: frames of another sender
  may follow a file that was cut, and Reassemble refuses it, or a typing mark ends it at once. FileIntact allows this once
  `done`.
* A provider record outlives the Close of its signaler: Find still returns the peer, and the dial fails
  (`libp2p.go:215`).

## 6. Not modelled

* The libsignal adapter (not used by the runtime), the user interface, preferences, settings, emoji and
  the STUN probe: they have no state that interacts with the rest, or wrap a library.
* Code without a caller: trickled candidates, Presence, the contact book, Progress of a file transfer.
* The text format of contact URIs; a contact that does not parse is an alternative of the send worker.
* The harness's demonstration over WebRTC, a sequence of calls that Runtime covers, and the printing of
  both.
* Bindings that forward one call to the runtime; those that outlive a Stop and write are `LateCall`.
* Reactions, typing marks and diagnostics in the chat store: display state that nothing else reads.
* Primitives and byte formats (AES-GCM, HKDF, JSON, SDP): abstracted to equality of keys and kinds
  of messages.
* libp2p and pion: environment, modelled by how they are used.

## 7. Plan

Done: Runtime with Delivery, Signaling, Ratchet, ChatStore, Storage, FileTransfer, Pipe and Offline with
the runs above, and the theorems of section 4, which cover every safety property of the runs.

Left: the liveness properties, which stay with TLC; the parts of section 6; and, in the proofs about the pipe, programs
given by a constant instead of the list in `Script`: the arguments use only what `CallOk` says of a program, that it
dials first and that one goroutine reads at an end.
