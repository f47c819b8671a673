------------------------------ MODULE Storage ------------------------------
(***************************************************************************)
(* What a node keeps on disk: the key (runtime.go, loadOrCreateKey), the   *)
(* identity sealed with it (account.go) and the store, a sealed document   *)
(* that every change rewrites (filestore.go); Start, which reads them, and *)
(* the singleton of ffi.go and mobile/api.go that Start and Stop set.      *)
(*                                                                         *)
(* os.WriteFile truncates the file and then writes it, so a file is torn   *)
(* between the two steps, and stays so if the process ends or the disk is  *)
(* full.  A torn or foreign file does not open (vault.Open authenticates   *)
(* it).  Stop does not wait for the goroutines, so the send worker of a    *)
(* stopped runtime may still append the message it has just sent; and the  *)
(* bindings let go of rtMu before they use the runtime they took under it. *)
(***************************************************************************)
EXTENDS Naturals, Sequences, FiniteSets

CONSTANTS
  Blobs,       \* application states the app saves
  Envelopes,   \* messages
  NoBlob,      \* nothing saved
  MaxStarts,   \* calls of Start (bound)
  MaxOps,      \* changes of the store (bound)
  MaxFaults,   \* file operations that fail (bound)
  MaxCrashes   \* ends of the process (bound)

ASSUME StorageAssumption ==
  /\ NoBlob \notin Blobs
  /\ MaxStarts \in Nat /\ MaxOps \in Nat /\ MaxFaults \in Nat /\ MaxCrashes \in Nat

VARIABLES
  keyFile,   \* key.bin
  idFile,    \* account/identity.bin
  dbFile,    \* store.bin ...
  dbDoc,     \* ... and the document last written to it
  boot,      \* the Start in progress: its step, and the key and identity it has
  rt,        \* the runtime the singleton holds, 0 for nil
  inst,      \* inst[i]: the store of the i-th runtime ...
  doc,       \* ... and its document in memory
  starts, keys, ids, ops, faults, crashes,   \* counters
  shown,     \* identities the application has been given
  acked,     \* the last blob whose save returned without an error
  tried,     \* blobs whose save has begun since
  late,      \* a stopped runtime wrote after a newer one had read the store, and
             \* the newest has not saved the application's state since
  cut,       \* the last write of the store was cut short: by the end of the
             \* process, an error, or another write at the same time
  rekeyed    \* a readable key file was written over

diskVars == <<keyFile, idFile, dbFile, dbDoc>>
storeVars == <<inst, doc>>
counters == <<starts, keys, ids, ops, faults, crashes>>
history == <<shown, acked, tried, late, cut, rekeyed>>
vars == <<diskVars, boot, rt, storeVars, counters, history>>

Starts == 1 .. MaxStarts
FileStates == {"none", "torn", "ok"}

-----------------------------------------------------------------------------
(* The document of the store and its changes *)

Data ==
  [settings : {"default", "custom"}, contact : BOOLEAN, conversation : BOOLEAN,
   messages : Seq(Envelopes), outbox : Seq(Envelopes), blob : Blobs \cup {NoBlob}]

EmptyData ==
  [settings |-> "default", contact |-> FALSE, conversation |-> FALSE,
   messages |-> <<>>, outbox |-> <<>>, blob |-> NoBlob]

SaveSettings(d) == [d EXCEPT !.settings = "custom"]
SaveContact(d) == [d EXCEPT !.contact = TRUE]
DeleteContact(d) == [d EXCEPT !.contact = FALSE]
UpsertConversation(d) == [d EXCEPT !.conversation = TRUE]
DeleteConversation(d) == [d EXCEPT !.conversation = FALSE, !.messages = <<>>]
AppendMessage(d, m) == [d EXCEPT !.messages = Append(@, m)]
\* kept, in their order: the envelopes but m.  The set has this one element.
DeleteMessage(d, m) ==
  LET T == {k \in DOMAIN d.messages : d.messages[k] # m} IN
  {[d EXCEPT !.messages = [k \in DOMAIN f |-> d.messages[f[k]]]] :
     f \in {g \in [1 .. Cardinality(T) -> T] : \A a, b \in DOMAIN g : a < b => g[a] < g[b]}}
EnqueueOutbox(d, m) == [d EXCEPT !.outbox = Append(@, m)]
SaveBlob(d, b) == [d EXCEPT !.blob = b]
CloseStore(d) == d

\* What a call other than SaveBlob may make of the document d.
Changes(d) ==
  {SaveSettings(d), SaveContact(d), DeleteContact(d), UpsertConversation(d),
   DeleteConversation(d), CloseStore(d)}
  \cup {AppendMessage(d, m) : m \in Envelopes}
  \cup {EnqueueOutbox(d, m) : m \in Envelopes}
  \cup (UNION {DeleteMessage(d, m) : m \in Envelopes})

NoStore == [st |-> "none", op |-> "none", key |-> 0, saving |-> NoBlob]
\* A Start at step p that has the key k and the identity d.
At(p, k, d) == [pc |-> p, key |-> k, id |-> d]
Idle == At("idle", 0, 0)

Init ==
  /\ keyFile = [st |-> "none", key |-> 0]
  /\ idFile = [st |-> "none", key |-> 0, id |-> 0]
  /\ dbFile = [st |-> "none", key |-> 0] /\ dbDoc = EmptyData
  /\ boot = Idle
  /\ rt = 0
  /\ inst = [i \in Starts |-> NoStore] /\ doc = [i \in Starts |-> EmptyData]
  /\ starts = 0 /\ keys = 0 /\ ids = 0 /\ ops = 0 /\ faults = 0 /\ crashes = 0
  /\ shown = {} /\ acked = NoBlob /\ tried = {} /\ late = FALSE /\ cut = FALSE
  /\ rekeyed = FALSE

-----------------------------------------------------------------------------
(* Start *)

Fault == faults < MaxFaults /\ faults' = faults + 1

\* StunnerStart with no runtime in the singleton.
StartCall ==
  /\ rt = 0 /\ boot.pc = "idle"
  /\ starts < MaxStarts
  /\ starts' = starts + 1
  /\ boot' = At("key", 0, 0)
  /\ UNCHANGED <<diskVars, rt, storeVars, keys, ids, ops, faults, crashes, history>>

\* Start returns an error: the singleton stays nil.
Abort == boot' = Idle

\* loadOrCreateKey finds a key of the right length.
KeyFound ==
  /\ boot.pc = "key"
  /\ keyFile.st = "ok"
  /\ boot' = At("account", keyFile.key, 0)
  /\ UNCHANGED <<diskVars, rt, storeVars, counters, history>>

\* It does not, or the read fails: a new key is written over the file.
KeyCreate ==
  /\ boot.pc = "key"
  /\ \/ keyFile.st # "ok" /\ UNCHANGED faults
     \/ keyFile.st = "ok" /\ Fault
  /\ keys' = keys + 1
  /\ boot' = At("keyWrite", keys + 1, 0)
  /\ keyFile' = [keyFile EXCEPT !.st = "torn"]
  /\ rekeyed' = (rekeyed \/ keyFile.st = "ok")
  /\ UNCHANGED <<idFile, dbFile, dbDoc, rt, storeVars, starts, ids, ops, crashes, shown, acked,
                 tried, late, cut>>

\* Variant: an error of the write is not looked at.
KeyWrittenOrNot ==
  /\ boot.pc = "keyWrite"
  /\ \/ /\ keyFile' = [st |-> "ok", key |-> boot.key]
        /\ UNCHANGED faults
     \/ Fault /\ UNCHANGED keyFile
  /\ boot' = At("account", boot.key, 0)
  /\ UNCHANGED <<idFile, dbFile, dbDoc, rt, storeVars, starts, keys, ids, ops, crashes, history>>

KeyWritten ==
  /\ boot.pc = "keyWrite"
  /\ \/ /\ keyFile' = [st |-> "ok", key |-> boot.key]
        /\ boot' = At("account", boot.key, 0)
        /\ UNCHANGED faults
     \/ Fault /\ Abort /\ UNCHANGED keyFile
  /\ UNCHANGED <<idFile, dbFile, dbDoc, rt, storeVars, starts, keys, ids, ops, crashes, history>>

\* LoadOrCreate opens the identity, or fails: it is torn or sealed with another
\* key.
AccountLoad ==
  /\ boot.pc = "account"
  /\ idFile.st # "none"
  /\ \/ /\ idFile.st = "ok" /\ idFile.key = boot.key
        /\ boot' = At("open", boot.key, idFile.id)
     \/ /\ idFile.st = "torn" \/ idFile.key # boot.key
        /\ Abort
  /\ UNCHANGED <<diskVars, rt, storeVars, counters, history>>

\* Variant: an identity that does not open is replaced.
AccountCreateAnew ==
  /\ boot.pc = "account"
  /\ idFile.st # "ok" \/ idFile.key # boot.key
  /\ ids' = ids + 1
  /\ boot' = At("idWrite", boot.key, ids + 1)
  /\ idFile' = [idFile EXCEPT !.st = "torn"]
  /\ UNCHANGED <<keyFile, dbFile, dbDoc, rt, storeVars, starts, keys, ops, faults, crashes, history>>

\* There is none: a new one is generated and written.
AccountCreate ==
  /\ boot.pc = "account"
  /\ idFile.st = "none"
  /\ ids' = ids + 1
  /\ boot' = At("idWrite", boot.key, ids + 1)
  /\ idFile' = [idFile EXCEPT !.st = "torn"]
  /\ UNCHANGED <<keyFile, dbFile, dbDoc, rt, storeVars, starts, keys, ops, faults, crashes, history>>

AccountWritten ==
  /\ boot.pc = "idWrite"
  /\ \/ /\ idFile' = [st |-> "ok", key |-> boot.key, id |-> boot.id]
        /\ boot' = At("open", boot.key, boot.id)
        /\ UNCHANGED faults
     \/ Fault /\ Abort /\ UNCHANGED idFile
  /\ UNCHANGED <<keyFile, dbFile, dbDoc, rt, storeVars, starts, keys, ids, ops, crashes, history>>

\* The store of this Start, over the document d.
Opened(d) ==
  /\ boot' = At("net", boot.key, boot.id)
  /\ inst' = [inst EXCEPT ![starts] =
                [st |-> "open", op |-> "none", key |-> boot.key, saving |-> NoBlob]]
  /\ doc' = [doc EXCEPT ![starts] = d]

\* Variant: a store that does not open is taken for a missing one.
OpenStoreAnyhow ==
  /\ boot.pc = "open"
  /\ IF dbFile.st = "ok" /\ dbFile.key = boot.key
       THEN Opened(dbDoc) ELSE Opened(EmptyData)
  /\ UNCHANGED <<diskVars, rt, counters, history>>

\* openFileStore: the document of the file, an empty one without a file, or an
\* error.
OpenStore ==
  /\ boot.pc = "open"
  /\ \/ dbFile.st = "ok" /\ dbFile.key = boot.key /\ Opened(dbDoc)
     \/ dbFile.st = "none" /\ Opened(EmptyData)
     \/ /\ dbFile.st = "torn" \/ (dbFile.st = "ok" /\ dbFile.key # boot.key)
        /\ Abort /\ UNCHANGED storeVars
  /\ UNCHANGED <<diskVars, rt, counters, history>>

\* A directory, or a file to be read or written, cannot be opened: Start returns
\* the error and leaves the files as they are.
StartRefused ==
  /\ boot.pc \in {"key", "account", "open"}
  /\ Fault /\ Abort
  /\ UNCHANGED <<diskVars, rt, storeVars, starts, keys, ids, ops, crashes, history>>

\* Transport and signaler come up, and the application is given the contact URI
\* of the identity; or they do not, and the store is dropped.
StartDone ==
  /\ boot.pc = "net"
  /\ boot' = Idle
  /\ \/ /\ rt' = starts
        /\ shown' = shown \cup {boot.id}
        /\ UNCHANGED <<inst, faults>>
     \/ /\ Fault
        /\ inst' = [inst EXCEPT ![starts] = NoStore]
        /\ UNCHANGED <<rt, shown>>
  /\ UNCHANGED <<diskVars, doc, starts, keys, ids, ops, crashes, acked, tried, late, cut,
                 rekeyed>>

-----------------------------------------------------------------------------
(* The store in use *)

Writing(i) == inst[i].op # "none"

\* A call of store i changes the document to d and flushes it: it takes the lock
\* until the write has ended.  Two stores may write the file at the same time.
Flush(i, d, b) ==
  /\ ~Writing(i)
  /\ ops < MaxOps /\ ops' = ops + 1
  /\ tried' = tried \cup ({b} \ {NoBlob})
  /\ doc' = [doc EXCEPT ![i] = d]
  /\ \/ LET others == {j \in Starts \ {i} : Writing(j)} IN
        /\ inst' = [j \in Starts |->
             IF j = i THEN [inst[i] EXCEPT !.saving = b,
                              !.op = IF others = {} THEN "write" ELSE "mixed"]
             ELSE IF j \in others THEN [inst[j] EXCEPT !.op = "mixed"]
             ELSE inst[j]]
        /\ dbFile' = [dbFile EXCEPT !.st = "torn"]
        /\ UNCHANGED faults
     \/ /\ Fault
        /\ UNCHANGED <<inst, dbFile>>
  /\ UNCHANGED <<keyFile, idFile, dbDoc, boot, rt, starts, keys, ids, crashes, shown, acked,
                 late, cut, rekeyed>>

\* The running runtime: SaveState, or another change of the store.
Call ==
  /\ rt # 0
  /\ \/ \E b \in Blobs : Flush(rt, SaveBlob(doc[rt], b), b)
     \/ \E d \in Changes(doc[rt]) : Flush(rt, d, NoBlob)

\* A stopped runtime: its send worker persists the message it has sent, or a
\* SaveState or SetSettings that took it from the singleton before Stop goes on.
LateCall(i) ==
  /\ inst[i].st = "stopped"
  /\ \/ \E m \in Envelopes : Flush(i, AppendMessage(doc[i], m), NoBlob)
     \/ \E b \in Blobs : Flush(i, SaveBlob(doc[i], b), b)
     \/ Flush(i, SaveSettings(doc[i]), NoBlob)

\* The write ends and the call returns; of two writes at the same time the later
\* may leave the tail of the other.
Flushed(i) ==
  /\ Writing(i)
  /\ inst' = [inst EXCEPT ![i].op = "none", ![i].saving = NoBlob]
  /\ acked' = IF inst[i].saving = NoBlob THEN acked ELSE inst[i].saving
  /\ tried' = IF inst[i].saving = NoBlob THEN tried ELSE {}
  /\ late' = \/ \E j \in Starts : j > i /\ inst[j].st # "none"
             \/ late /\ inst[i].saving = NoBlob
  /\ dbDoc' = doc[i]
  /\ \/ dbFile' = [st |-> "ok", key |-> inst[i].key] /\ cut' = FALSE
     \/ inst[i].op = "mixed" /\ dbFile' = [dbFile EXCEPT !.st = "torn"] /\ cut' = TRUE
  /\ UNCHANGED <<keyFile, idFile, boot, rt, doc, counters, shown, rekeyed>>

\* The write fails and the call returns an error; the change stays in memory.
FlushFailed(i) ==
  /\ Writing(i)
  /\ Fault
  /\ inst' = [inst EXCEPT ![i].op = "none", ![i].saving = NoBlob]
  /\ dbFile' = [dbFile EXCEPT !.st = "torn"]
  /\ cut' = TRUE
  /\ UNCHANGED <<keyFile, idFile, dbDoc, boot, rt, doc, starts, keys, ids, ops, crashes, shown,
                 acked, tried, late, rekeyed>>

\* Variant: the singleton keeps the stopped runtime.
StopKeepsRuntime ==
  /\ rt # 0
  /\ inst' = [inst EXCEPT ![rt].st = "stopped"]
  /\ UNCHANGED <<diskVars, boot, rt, doc, counters, history>>

\* StunnerStop: the singleton is emptied; the store is not closed.
Stop ==
  /\ rt # 0
  /\ inst' = [inst EXCEPT ![rt].st = "stopped"]
  /\ rt' = 0
  /\ UNCHANGED <<diskVars, boot, doc, counters, history>>

\* The process ends.
Crash ==
  /\ crashes < MaxCrashes
  /\ crashes' = crashes + 1
  /\ boot' = Idle
  /\ rt' = 0
  /\ inst' = [i \in Starts |-> NoStore]
  /\ doc' = [i \in Starts |-> EmptyData]
  /\ cut' = (cut \/ \E i \in Starts : Writing(i))
  /\ UNCHANGED <<diskVars, starts, keys, ids, ops, faults, shown, acked, tried, late, rekeyed>>

StartStep ==
  \/ StartCall \/ KeyFound \/ KeyCreate \/ KeyWritten
  \/ AccountLoad \/ AccountCreate \/ AccountWritten
  \/ OpenStore \/ StartRefused \/ StartDone

Next ==
  \/ StartStep \/ Call \/ Stop \/ Crash
  \/ \E i \in Starts : LateCall(i) \/ Flushed(i) \/ FlushFailed(i)

Spec == Init /\ [][Next]_vars

-----------------------------------------------------------------------------
(* Properties *)

FilesOK ==
  /\ keyFile \in [st : FileStates, key : Nat]
  /\ idFile \in [st : FileStates, key : Nat, id : Nat]
  /\ dbFile \in [st : FileStates, key : Nat]

StepOK ==
  /\ boot \in [pc : {"idle", "key", "keyWrite", "account", "idWrite", "open", "net"},
               key : Nat, id : Nat]
  /\ starts \in 0 .. MaxStarts /\ keys \in Nat /\ ids \in Nat
  /\ boot.pc # "idle" => starts # 0

Stores ==
  [st : {"none", "open", "stopped"}, op : {"none", "write", "mixed"}, key : Nat,
   saving : Blobs \cup {NoBlob}]

StoresOK ==
  /\ inst \in [Starts -> Stores]
  /\ \A i \in Starts : Writing(i) => inst[i].st # "none"

\* The singleton holds a runtime that is not stopped, and none while Start runs.
SingletonOK ==
  /\ rt \in 0 .. starts
  /\ rt # 0 => boot.pc = "idle" /\ inst[rt].st = "open"

\* Files, stores, documents and the Start in progress are well formed.
TypeOK ==
  /\ FilesOK /\ StepOK /\ StoresOK /\ SingletonOK
  /\ dbDoc \in Data /\ doc \in [Starts -> Data]
  /\ ops \in 0 .. MaxOps /\ faults \in 0 .. MaxFaults /\ crashes \in 0 .. MaxCrashes
  /\ acked \in Blobs \cup {NoBlob} /\ tried \subseteq Blobs
  /\ shown \subseteq Nat /\ late \in BOOLEAN /\ cut \in BOOLEAN /\ rekeyed \in BOOLEAN

\* The key on disk can be read and is k.
KeyIs(k) == keyFile.st = "ok" /\ keyFile.key = k

\* Whatever is sealed on disk, or about to be, opens with the key on disk, as
\* long as no readable key file was written over: a crash or an error between
\* the writes of Start leaves no file behind that nobody can open.
SealedByKey ==
  ~rekeyed =>
    /\ idFile.st = "ok" => KeyIs(idFile.key)
    /\ dbFile.st = "ok" => KeyIs(dbFile.key)
    /\ \A i \in Starts : inst[i].st # "none" =>
         KeyIs(inst[i].key)

\* The application never gets a second identity, and the one it was given stays
\* on disk, whatever happens to the key and the store.
OneIdentity ==
  \A d \in shown : idFile.st = "ok" /\ idFile.id = d

\* Application state whose save returned without an error, or whose save was
\* begun later, is what the running runtime works on and what a store that opens
\* holds.  It is lost in two ways only.  A write of the store, of this state or of
\* anything else, that is cut short leaves a store that does not open.  And a
\* stopped runtime that writes after its successor has read the store puts its
\* own document over the successor's, until that one saves again.
StateSurvives ==
  /\ ~late =>
       /\ rt # 0 => doc[rt].blob \in {acked} \cup tried
       /\ dbFile.st = "ok" => dbDoc.blob \in {acked} \cup tried
       /\ dbFile.st = "none" => acked = NoBlob
  /\ dbFile.st = "torn" => cut \/ \E i \in Starts : Writing(i)

-----------------------------------------------------------------------------
(* The inductive invariant behind SealedByKey and OneIdentity: what the Start *)
(* in progress holds is what is on disk.                                     *)

BootOK ==
  /\ boot.pc \in {"account", "idWrite", "open", "net"} /\ ~rekeyed =>
       KeyIs(boot.key)
  /\ boot.pc = "keyWrite" /\ ~rekeyed =>
       /\ idFile.st # "ok" /\ dbFile.st # "ok"
       /\ \A i \in Starts : inst[i].st = "none"
  /\ boot.pc = "idWrite" => shown = {} /\ idFile.st # "ok"
  /\ boot.pc \in {"open", "net"} => idFile.st = "ok" /\ idFile.id = boot.id
  /\ boot.pc = "net" => inst[starts].st = "open"

StorageInv ==
  FilesOK /\ StepOK /\ StoresOK /\ SingletonOK /\ BootOK /\ SealedByKey /\ OneIdentity

=============================================================================
