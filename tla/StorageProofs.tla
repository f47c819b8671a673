--------------------------- MODULE StorageProofs ---------------------------
(***************************************************************************)
(* Proofs about Storage, for every number of starts, changes, faults and   *)
(* crashes: the invariant StorageInv is inductive, and with it SealedByKey *)
(* and OneIdentity hold.  StateSurvives needs SurvivesInv on top of it:    *)
(* the newest runtime that has read the store works on an allowed blob,    *)
(* and a write of an older one sets late; and on TornInv: what tears the   *)
(* store is a write that still runs or was cut.  StoreTypes is TypeOK,     *)
(* with what the operations of the store make of a document.               *)
(***************************************************************************)
EXTENDS Storage, FiniteSetTheorems, TLAPS

USE DEF Starts, FileStates, At, Stores

\* The initial state has no files, no runtime and no Start in progress.
LEMMA StorageBegins == Init => StorageInv
<1> SUFFICES ASSUME Init PROVE StorageInv OBVIOUS
<1> USE StorageAssumption DEF Init, Idle, NoStore
<1>1. FilesOK BY DEF FilesOK
<1>2. StepOK BY DEF StepOK
<1>3. StoresOK BY DEF StoresOK, Writing
<1>4. SingletonOK BY DEF SingletonOK
<1>5. BootOK BY DEF BootOK
<1>6. SealedByKey BY DEF SealedByKey
<1>7. OneIdentity BY DEF OneIdentity
<1> QED BY <1>1, <1>2, <1>3, <1>4, <1>5, <1>6, <1>7 DEF StorageInv

\* loadOrCreateKey: a key found is the one on disk; a new one is written over a
\* readable one (rekeyed) or when nothing is sealed.
LEMMA KeySteps ==
  ASSUME StorageInv, StartCall \/ KeyFound \/ KeyCreate \/ KeyWritten
  PROVE  StorageInv'
<1> USE StorageAssumption DEF diskVars, storeVars, counters, history
<1>0. FilesOK /\ StepOK /\ StoresOK /\ SingletonOK /\ BootOK /\ SealedByKey /\ OneIdentity
      BY DEF StorageInv
<1>1. CASE StartCall
  <2> USE <1>1, <1>0 DEF StartCall, Idle
  <2>1. FilesOK' BY DEF FilesOK, StepOK, StoresOK
  <2>2. StepOK' BY DEF FilesOK, StepOK
  <2>3. StoresOK' BY DEF StepOK, StoresOK, Writing
  <2>4. SingletonOK' BY DEF StepOK, StoresOK, SingletonOK
  <2>5. BootOK' BY DEF FilesOK, StepOK, StoresOK, BootOK, SealedByKey, OneIdentity, KeyIs
  <2>6. SealedByKey' BY DEF FilesOK, StepOK, StoresOK, BootOK, SealedByKey, KeyIs, Writing
  <2>7. OneIdentity' BY DEF FilesOK, StepOK, BootOK, OneIdentity
  <2> QED BY <2>1, <2>2, <2>3, <2>4, <2>5, <2>6, <2>7 DEF StorageInv
<1>2. CASE KeyFound
  <2> USE <1>2, <1>0 DEF KeyFound
  <2>1. FilesOK' BY DEF FilesOK, StepOK, StoresOK
  <2>2. StepOK' BY DEF FilesOK, StepOK
  <2>3. StoresOK' BY DEF StepOK, StoresOK, Writing
  <2>4. SingletonOK' BY DEF StepOK, StoresOK, SingletonOK
  <2>5. BootOK' BY DEF FilesOK, StepOK, StoresOK, BootOK, SealedByKey, OneIdentity, KeyIs
  <2>6. SealedByKey' BY DEF FilesOK, StepOK, StoresOK, BootOK, SealedByKey, KeyIs, Writing
  <2>7. OneIdentity' BY DEF FilesOK, StepOK, BootOK, OneIdentity
  <2> QED BY <2>1, <2>2, <2>3, <2>4, <2>5, <2>6, <2>7 DEF StorageInv
<1>3. CASE KeyCreate
  <2> USE <1>3, <1>0 DEF KeyCreate
  <2>1. FilesOK' BY DEF FilesOK, StepOK, StoresOK
  <2>2. StepOK' BY DEF FilesOK, StepOK
  <2>3. StoresOK' BY DEF StepOK, StoresOK, Writing
  <2>4. SingletonOK' BY DEF StepOK, StoresOK, SingletonOK
  <2>5. BootOK' BY DEF FilesOK, StepOK, StoresOK, BootOK, SealedByKey, OneIdentity, KeyIs
  <2>6. SealedByKey' BY DEF FilesOK, StepOK, StoresOK, BootOK, SealedByKey, KeyIs, Writing
  <2>7. OneIdentity' BY DEF FilesOK, StepOK, BootOK, OneIdentity
  <2> QED BY <2>1, <2>2, <2>3, <2>4, <2>5, <2>6, <2>7 DEF StorageInv
<1>4. CASE KeyWritten
  <2> USE <1>4, <1>0 DEF KeyWritten, Abort, Idle
  <2>1. FilesOK' BY DEF FilesOK, StepOK, StoresOK
  <2>2. StepOK' BY DEF FilesOK, StepOK
  <2>3. StoresOK' BY DEF StepOK, StoresOK, Writing
  <2>4. SingletonOK' BY DEF StepOK, StoresOK, SingletonOK
  <2>5. BootOK' BY DEF FilesOK, StepOK, StoresOK, BootOK, SealedByKey, OneIdentity, KeyIs
  <2>6. SealedByKey' BY DEF FilesOK, StepOK, StoresOK, BootOK, SealedByKey, KeyIs, Writing
  <2>7. OneIdentity' BY DEF FilesOK, StepOK, BootOK, OneIdentity
  <2> QED BY <2>1, <2>2, <2>3, <2>4, <2>5, <2>6, <2>7 DEF StorageInv
<1> QED BY <1>1, <1>2, <1>3, <1>4

\* account.LoadOrCreate: an identity is written only where there is none, so
\* none has been given out.
LEMMA AccountSteps ==
  ASSUME StorageInv, AccountLoad \/ AccountCreate \/ AccountWritten
  PROVE  StorageInv'
<1> USE StorageAssumption DEF diskVars, storeVars, counters, history
<1>0. FilesOK /\ StepOK /\ StoresOK /\ SingletonOK /\ BootOK /\ SealedByKey /\ OneIdentity
      BY DEF StorageInv
<1>1. CASE AccountLoad
  <2> USE <1>1, <1>0 DEF AccountLoad, Abort, Idle
  <2>1. FilesOK' BY DEF FilesOK, StepOK, StoresOK
  <2>2. StepOK' BY DEF FilesOK, StepOK
  <2>3. StoresOK' BY DEF StepOK, StoresOK, Writing
  <2>4. SingletonOK' BY DEF StepOK, StoresOK, SingletonOK
  <2>5. BootOK' BY DEF FilesOK, StepOK, StoresOK, BootOK, SealedByKey, OneIdentity, KeyIs
  <2>6. SealedByKey' BY DEF FilesOK, StepOK, StoresOK, BootOK, SealedByKey, KeyIs, Writing
  <2>7. OneIdentity' BY DEF FilesOK, StepOK, BootOK, OneIdentity
  <2> QED BY <2>1, <2>2, <2>3, <2>4, <2>5, <2>6, <2>7 DEF StorageInv
<1>2. CASE AccountCreate
  <2> USE <1>2, <1>0 DEF AccountCreate
  <2>1. FilesOK' BY DEF FilesOK, StepOK, StoresOK
  <2>2. StepOK' BY DEF FilesOK, StepOK
  <2>3. StoresOK' BY DEF StepOK, StoresOK, Writing
  <2>4. SingletonOK' BY DEF StepOK, StoresOK, SingletonOK
  <2>5. BootOK' BY DEF FilesOK, StepOK, StoresOK, BootOK, SealedByKey, OneIdentity, KeyIs
  <2>6. SealedByKey' BY DEF FilesOK, StepOK, StoresOK, BootOK, SealedByKey, KeyIs, Writing
  <2>7. OneIdentity' BY DEF FilesOK, StepOK, BootOK, OneIdentity
  <2> QED BY <2>1, <2>2, <2>3, <2>4, <2>5, <2>6, <2>7 DEF StorageInv
<1>3. CASE AccountWritten
  <2> USE <1>3, <1>0 DEF AccountWritten, Abort, Idle
  <2>1. FilesOK' BY DEF FilesOK, StepOK, StoresOK
  <2>2. StepOK' BY DEF FilesOK, StepOK
  <2>3. StoresOK' BY DEF StepOK, StoresOK, Writing
  <2>4. SingletonOK' BY DEF StepOK, StoresOK, SingletonOK
  <2>5. BootOK' BY DEF FilesOK, StepOK, StoresOK, BootOK, SealedByKey, OneIdentity, KeyIs
  <2>6. SealedByKey' BY DEF FilesOK, StepOK, StoresOK, BootOK, SealedByKey, KeyIs, Writing
  <2>7. OneIdentity' BY DEF FilesOK, StepOK, BootOK, OneIdentity
  <2> QED BY <2>1, <2>2, <2>3, <2>4, <2>5, <2>6, <2>7 DEF StorageInv
<1> QED BY <1>1, <1>2, <1>3

\* A new operation leaves the type, the state and the key of a store's record.
LEMMA StoreChanges ==
  ASSUME NEW s \in Stores, NEW o \in {"none", "write", "mixed"}
  PROVE  /\ [s EXCEPT !.op = o] \in Stores
         /\ [s EXCEPT !.op = o].st = s.st /\ [s EXCEPT !.op = o].key = s.key
  OBVIOUS

\* A change of one store's record leaves the others alone.
LEMMA OneStore ==
  ASSUME inst \in [Starts -> Stores], NEW i \in Starts, NEW s \in Stores,
         inst' = [inst EXCEPT ![i] = s]
  PROVE  /\ inst' \in [Starts -> Stores]
         /\ inst'[i] = s
         /\ \A j \in Starts : j # i => inst'[j] = inst[j]
  OBVIOUS

\* The end of Start: the store is opened with the key on disk.
LEMMA OpenSteps ==
  ASSUME StorageInv, OpenStore \/ StartRefused \/ StartDone
  PROVE  StorageInv'
<1> USE StorageAssumption DEF diskVars, storeVars, counters, history
<1>0. FilesOK /\ StepOK /\ StoresOK /\ SingletonOK /\ BootOK /\ SealedByKey /\ OneIdentity
      BY DEF StorageInv
<1>1. CASE OpenStore
  <2> USE <1>1, <1>0 DEF OpenStore, Opened, Abort, Idle
  <2>1. FilesOK' BY DEF FilesOK, StepOK, StoresOK
  <2>2. StepOK' BY DEF FilesOK, StepOK
  <2>3. StoresOK'
    <3> DEFINE s == [st |-> "open", op |-> "none", key |-> boot.key, saving |-> NoBlob]
    <3>1. starts \in Starts /\ inst \in [Starts -> Stores] /\ s \in Stores
          BY DEF StepOK, StoresOK
    <3>2. CASE inst' = [inst EXCEPT ![starts] = s]
      <4>1. /\ inst' \in [Starts -> Stores]
            /\ inst'[starts] = s
            /\ \A j \in Starts : j # starts => inst'[j] = inst[j]
            BY <3>1, <3>2, OneStore
      <4>2. ASSUME NEW j \in Starts, inst'[j].op # "none"
            PROVE  inst'[j].st # "none"
        <5>1. j # starts BY <4>1, <4>2
        <5>2. inst'[j] = inst[j] BY <4>1, <5>1
        <5> QED BY <4>2, <5>2 DEF StoresOK, Writing
      <4> QED BY <4>1, <4>2 DEF StoresOK, Writing
    <3>3. CASE inst' = inst BY <3>3 DEF StoresOK, Writing
    <3> QED BY <3>2, <3>3
  <2>4. SingletonOK' BY DEF StepOK, StoresOK, SingletonOK
  <2>5. BootOK' BY DEF FilesOK, StepOK, StoresOK, BootOK, SealedByKey, OneIdentity, KeyIs
  <2>6. SealedByKey' BY DEF FilesOK, StepOK, StoresOK, BootOK, SealedByKey, KeyIs, Writing
  <2>7. OneIdentity' BY DEF FilesOK, StepOK, BootOK, OneIdentity
  <2> QED BY <2>1, <2>2, <2>3, <2>4, <2>5, <2>6, <2>7 DEF StorageInv
<1>2. CASE StartRefused
  <2> USE <1>2, <1>0 DEF StartRefused, Abort, Idle
  <2>1. FilesOK' BY DEF FilesOK, StepOK, StoresOK
  <2>2. StepOK' BY DEF FilesOK, StepOK
  <2>3. StoresOK' BY DEF StepOK, StoresOK, Writing
  <2>4. SingletonOK' BY DEF StepOK, StoresOK, SingletonOK
  <2>5. BootOK' BY DEF FilesOK, StepOK, StoresOK, BootOK, SealedByKey, OneIdentity, KeyIs
  <2>6. SealedByKey' BY DEF FilesOK, StepOK, StoresOK, BootOK, SealedByKey, KeyIs, Writing
  <2>7. OneIdentity' BY DEF FilesOK, StepOK, BootOK, OneIdentity
  <2> QED BY <2>1, <2>2, <2>3, <2>4, <2>5, <2>6, <2>7 DEF StorageInv
<1>3. CASE StartDone
  <2>0. starts \in Starts /\ inst \in [Starts -> Stores] BY <1>0, <1>3 DEF StartDone, StepOK, StoresOK
  <2>a. NoStore \in Stores /\ NoStore.op = "none" BY DEF NoStore
  <2>b. /\ inst' \in [Starts -> Stores]
        /\ \A j \in Starts : inst'[j] \in {inst[j], NoStore}
        /\ rt' # rt => inst' = inst /\ rt' = starts
        /\ rt' = rt \/ rt' = starts
        BY <1>3, <2>0, <2>a, OneStore DEF StartDone
  <2>c. UNCHANGED <<keyFile, idFile, dbFile, starts, keys, ids, rekeyed>> /\ boot.pc = "net"
        /\ boot' = Idle /\ shown' \in {shown, shown \cup {boot.id}}
        BY <1>3 DEF StartDone, diskVars
  <2>d. rt = 0 BY <1>0, <2>c DEF SingletonOK
  <2> USE <1>0, <2>0, <2>a, <2>b, <2>c, <2>d DEF Idle
  <2>1. FilesOK' BY DEF FilesOK
  <2>2. StepOK' BY DEF StepOK
  <2>3. StoresOK' BY DEF StoresOK, Writing
  <2>4. SingletonOK'
    <3>1. inst[starts].st = "open" BY DEF BootOK
    <3> QED BY <3>1 DEF StepOK, SingletonOK
  <2>5. BootOK' BY DEF BootOK
  <2>6. SealedByKey' BY DEF SealedByKey, KeyIs, NoStore
  <2>7. OneIdentity' BY DEF BootOK, OneIdentity
  <2> QED BY <2>1, <2>2, <2>3, <2>4, <2>5, <2>6, <2>7 DEF StorageInv
<1> QED BY <1>1, <1>2, <1>3

\* A flush only tears the store's file, whatever the document.
LEMMA FlushKeeps ==
  ASSUME StorageInv, NEW i \in Starts, inst[i].st # "none", NEW d,
         NEW b \in Blobs \cup {NoBlob}, Flush(i, d, b)
  PROVE  StorageInv'
<1> USE StorageAssumption
<1>0. FilesOK /\ StepOK /\ StoresOK /\ SingletonOK /\ BootOK /\ SealedByKey /\ OneIdentity
      BY DEF StorageInv
<1>1. UNCHANGED <<keyFile, idFile, boot, rt, starts, keys, ids, shown, rekeyed>>
      BY DEF Flush
<1>2. dbFile' \in {dbFile, [dbFile EXCEPT !.st = "torn"]} BY DEF Flush
<1>3. /\ inst' \in [Starts -> Stores]
      /\ \A j \in Starts : inst'[j].st = inst[j].st /\ inst'[j].key = inst[j].key
      /\ \A j \in Starts : inst'[j].op # "none" => j = i \/ inst[j].op # "none"
  <2>1. CASE UNCHANGED inst BY <1>0, <2>1 DEF StoresOK
  <2>2. CASE /\ inst' = [j \in Starts |-> inst'[j]]
             /\ \E o \in {"write", "mixed"} :
                  inst'[i] = [inst[i] EXCEPT !.saving = b, !.op = o]
             /\ \A j \in Starts \ {i} :
                  \/ inst'[j] = inst[j]
                  \/ inst[j].op # "none" /\ inst'[j] = [inst[j] EXCEPT !.op = "mixed"]
    <3>1. inst \in [Starts -> Stores] BY <1>0 DEF StoresOK
    <3>2. PICK o \in {"write", "mixed"} : inst'[i] = [inst[i] EXCEPT !.saving = b, !.op = o]
          BY <2>2
    <3>3. inst'[i] \in Stores /\ inst'[i].st = inst[i].st /\ inst'[i].key = inst[i].key
      <4>1. inst[i] \in Stores BY <3>1
      <4>2. SUFFICES ASSUME NEW s \in Stores, NEW t, t = [s EXCEPT !.saving = b, !.op = o]
                     PROVE  t \in Stores /\ t.st = s.st /\ t.key = s.key
            BY <3>2, <4>1
      <4> QED BY <4>2
    <3>4. ASSUME NEW j \in Starts, j # i
          PROVE  /\ inst'[j] \in Stores /\ inst'[j].st = inst[j].st /\ inst'[j].key = inst[j].key
                 /\ inst'[j].op # "none" => inst[j].op # "none"
      <4>1. inst[j] \in Stores BY <3>1
      <4>2. inst'[j] = inst[j] \/ (inst[j].op # "none" /\ inst'[j] = [inst[j] EXCEPT !.op = "mixed"])
            BY <2>2, <3>4
      <4>3. /\ [inst[j] EXCEPT !.op = "mixed"] \in Stores
            /\ [inst[j] EXCEPT !.op = "mixed"].st = inst[j].st
            /\ [inst[j] EXCEPT !.op = "mixed"].key = inst[j].key
            BY <4>1, StoreChanges
      <4> QED BY <4>1, <4>2, <4>3
    <3> QED BY <2>2, <3>3, <3>4
  <2> QED BY <2>1, <2>2 DEF Flush, Writing
<1>4. FilesOK' BY <1>0, <1>1, <1>2 DEF FilesOK
<1>5. StepOK' /\ SingletonOK' BY <1>0, <1>1, <1>3 DEF StepOK, SingletonOK
<1>6. StoresOK' BY <1>0, <1>1, <1>3 DEF StoresOK, Writing
<1>7. BootOK' BY <1>0, <1>1, <1>2, <1>3 DEF BootOK, KeyIs, FilesOK, StepOK
<1>8. SealedByKey' BY <1>0, <1>1, <1>2, <1>3 DEF SealedByKey, KeyIs, FilesOK
<1>9. OneIdentity' BY <1>0, <1>1 DEF OneIdentity
<1> QED BY <1>4, <1>5, <1>6, <1>7, <1>8, <1>9 DEF StorageInv

\* The store in use: calls, the ends of their writes, Stop and the end of the
\* process.
LEMMA StoreSteps ==
  ASSUME StorageInv,
         \/ Call \/ Stop \/ Crash
         \/ \E i \in Starts : LateCall(i) \/ Flushed(i) \/ FlushFailed(i)
  PROVE  StorageInv'
<1> USE StorageAssumption DEF diskVars, storeVars, counters, history
<1>0. FilesOK /\ StepOK /\ StoresOK /\ SingletonOK /\ BootOK /\ SealedByKey /\ OneIdentity
      BY DEF StorageInv
<1>1. CASE Call
  <2>1. rt \in Starts /\ inst[rt].st # "none" BY <1>0, <1>1 DEF Call, StepOK, SingletonOK
  <2> QED BY <1>1, <2>1, FlushKeeps DEF Call
<1>2. CASE Stop
  <2>0. rt \in Starts /\ inst \in [Starts -> Stores]
        BY <1>0, <1>2 DEF Stop, StepOK, SingletonOK, StoresOK
  <2> DEFINE s == [inst[rt] EXCEPT !.st = "stopped"]
  <2>a. /\ s \in Stores /\ s.st = "stopped" /\ s.key = inst[rt].key /\ s.op = inst[rt].op
        BY <2>0
  <2>b. inst' = [inst EXCEPT ![rt] = s] BY <1>2 DEF Stop
  <2>c. /\ inst' \in [Starts -> Stores]
        /\ inst'[rt] = s /\ \A j \in Starts : j # rt => inst'[j] = inst[j]
        BY <2>0, <2>a, <2>b, OneStore
  <2>d. inst[rt].st = "open" BY <1>0, <1>2 DEF Stop, SingletonOK
  <2>e. UNCHANGED <<keyFile, idFile, dbFile, boot, starts, keys, ids, shown, rekeyed>> /\ rt' = 0
        BY <1>2 DEF Stop
  <2> HIDE DEF s
  <2>f. \A j \in Starts : /\ inst'[j].key = inst[j].key /\ inst'[j].op = inst[j].op
                          /\ inst'[j].st = "none" <=> inst[j].st = "none"
        BY <2>0, <2>a, <2>c, <2>d
  <2> USE <1>0, <2>e, <2>f
  <2>1. FilesOK' BY DEF FilesOK
  <2>2. StepOK' BY DEF StepOK
  <2>3. StoresOK' BY <2>c DEF StoresOK, Writing
  <2>4. SingletonOK' BY DEF StepOK, SingletonOK
  <2>5. BootOK'
    <3>1. boot.pc = "idle" BY <1>2 DEF Stop, SingletonOK
    <3> QED BY <3>1 DEF BootOK
  <2>6. SealedByKey' BY DEF SealedByKey, KeyIs
  <2>7. OneIdentity' BY DEF OneIdentity
  <2> QED BY <2>1, <2>2, <2>3, <2>4, <2>5, <2>6, <2>7 DEF StorageInv
<1>3. CASE Crash
  <2> USE <1>3, <1>0 DEF Crash, Idle, NoStore
  <2>1. FilesOK' BY DEF FilesOK, StepOK, StoresOK
  <2>2. StepOK' BY DEF FilesOK, StepOK
  <2>3. StoresOK' BY DEF StepOK, StoresOK, Writing
  <2>4. SingletonOK' BY DEF StepOK, StoresOK, SingletonOK
  <2>5. BootOK' BY DEF FilesOK, StepOK, StoresOK, BootOK, SealedByKey, OneIdentity, KeyIs
  <2>6. SealedByKey' BY DEF FilesOK, StepOK, StoresOK, BootOK, SealedByKey, KeyIs, Writing
  <2>7. OneIdentity' BY DEF FilesOK, StepOK, BootOK, OneIdentity
  <2> QED BY <2>1, <2>2, <2>3, <2>4, <2>5, <2>6, <2>7 DEF StorageInv
<1>4. ASSUME NEW i \in Starts, LateCall(i) PROVE StorageInv'
  BY <1>4, FlushKeeps DEF LateCall
<1>5. ASSUME NEW i \in Starts, Flushed(i) PROVE StorageInv'
  <2> DEFINE s == [inst[i] EXCEPT !.op = "none", !.saving = NoBlob]
  <2>0. inst \in [Starts -> Stores] /\ inst[i].st # "none"
        BY <1>0, <1>5 DEF Flushed, StoresOK, Writing
  <2>a. s \in Stores /\ s.st = inst[i].st /\ s.key = inst[i].key /\ s.op = "none"
        BY <2>0
  <2>b. inst' = [inst EXCEPT ![i] = s] BY <1>5 DEF Flushed
  <2>c. /\ inst' \in [Starts -> Stores]
        /\ inst'[i] = s /\ \A j \in Starts : j # i => inst'[j] = inst[j]
        BY <2>0, <2>a, <2>b, OneStore
  <2>d. /\ UNCHANGED <<keyFile, idFile, boot, rt, starts, keys, ids, shown, rekeyed>>
        /\ dbFile' \in {[st |-> "ok", key |-> inst[i].key], [dbFile EXCEPT !.st = "torn"]}
        BY <1>5 DEF Flushed
  <2> HIDE DEF s
  <2>e. \A j \in Starts : /\ inst'[j].st = inst[j].st /\ inst'[j].key = inst[j].key
                          /\ inst'[j].op # "none" => inst[j].op # "none"
        BY <2>0, <2>a, <2>c
  <2> USE <1>0, <2>0, <2>d, <2>e
  <2>1. FilesOK' BY DEF FilesOK
  <2>2. StepOK' BY DEF StepOK
  <2>3. StoresOK' BY <2>c DEF StoresOK, Writing
  <2>4. SingletonOK' BY DEF StepOK, SingletonOK
  <2>5. BootOK' BY DEF BootOK, KeyIs, FilesOK, StepOK
  <2>6. SealedByKey' BY DEF SealedByKey, KeyIs, FilesOK
  <2>7. OneIdentity' BY DEF OneIdentity
  <2> QED BY <2>1, <2>2, <2>3, <2>4, <2>5, <2>6, <2>7 DEF StorageInv
<1>6. ASSUME NEW i \in Starts, FlushFailed(i) PROVE StorageInv'
  <2> DEFINE s == [inst[i] EXCEPT !.op = "none", !.saving = NoBlob]
  <2>0. inst \in [Starts -> Stores] /\ inst[i].st # "none"
        BY <1>0, <1>6 DEF FlushFailed, StoresOK, Writing
  <2>a. s \in Stores /\ s.st = inst[i].st /\ s.key = inst[i].key /\ s.op = "none"
        BY <2>0
  <2>b. inst' = [inst EXCEPT ![i] = s] BY <1>6 DEF FlushFailed
  <2>c. /\ inst' \in [Starts -> Stores]
        /\ inst'[i] = s /\ \A j \in Starts : j # i => inst'[j] = inst[j]
        BY <2>0, <2>a, <2>b, OneStore
  <2>d. /\ UNCHANGED <<keyFile, idFile, boot, rt, starts, keys, ids, shown, rekeyed>>
        /\ dbFile' = [dbFile EXCEPT !.st = "torn"]
        BY <1>6 DEF FlushFailed
  <2> HIDE DEF s
  <2>e. \A j \in Starts : /\ inst'[j].st = inst[j].st /\ inst'[j].key = inst[j].key
                          /\ inst'[j].op # "none" => inst[j].op # "none"
        BY <2>0, <2>a, <2>c
  <2> USE <1>0, <2>0, <2>d, <2>e
  <2>1. FilesOK' BY DEF FilesOK
  <2>2. StepOK' BY DEF StepOK
  <2>3. StoresOK' BY <2>c DEF StoresOK, Writing
  <2>4. SingletonOK' BY DEF StepOK, SingletonOK
  <2>5. BootOK' BY DEF BootOK, KeyIs, FilesOK, StepOK
  <2>6. SealedByKey' BY DEF SealedByKey, KeyIs, FilesOK
  <2>7. OneIdentity' BY DEF OneIdentity
  <2> QED BY <2>1, <2>2, <2>3, <2>4, <2>5, <2>6, <2>7 DEF StorageInv
<1> QED BY <1>1, <1>2, <1>3, <1>4, <1>5, <1>6

\* StorageInv holds in every reachable state: what the Start in progress holds
\* is what is on disk.
THEOREM StorageInvariance == Spec => []StorageInv
<1>1. StorageInv /\ [Next]_vars => StorageInv'
  <2> SUFFICES ASSUME StorageInv, [Next]_vars PROVE StorageInv' OBVIOUS
  <2>1. CASE StartStep
        BY <2>1, KeySteps, AccountSteps, OpenSteps DEF StartStep
  <2>2. CASE Next /\ ~StartStep BY <2>2, StoreSteps DEF Next
  <2>3. CASE UNCHANGED vars
        BY <2>3 DEF vars, diskVars, storeVars, counters, history, StorageInv, FilesOK,
           StepOK, StoresOK, SingletonOK, BootOK, SealedByKey, OneIdentity, KeyIs, Writing
  <2> QED BY <2>1, <2>2, <2>3
<1> QED BY <1>1, StorageBegins, PTL DEF Spec

\* Crashes and errors between the writes of Start leave nothing sealed with a
\* key that is not on disk (loadOrCreateKey, LoadOrCreate, flush).
THEOREM FilesOpen == Spec => []SealedByKey
<1>1. StorageInv => SealedByKey BY DEF StorageInv
<1> QED BY <1>1, StorageInvariance, PTL

\* The identity the application was given is never replaced or lost
\* (account.LoadOrCreate).
THEOREM IdentityKept == Spec => []OneIdentity
<1>1. StorageInv => OneIdentity BY DEF StorageInv
<1> QED BY <1>1, StorageInvariance, PTL

-----------------------------------------------------------------------------
(* Application state survives.                                             *)

\* What the application may find: the blob last saved without an error, or one
\* whose save has begun since.
Allowed == {acked} \cup tried

\* The i-th runtime is the last one that read the store, but for a Start that has
\* read it and is still bringing up the network.
Newest(i) ==
  /\ inst[i].st # "none"
  /\ \A j \in Starts : j > i /\ inst[j].st # "none" => j = starts /\ boot.pc = "net"

PlacedOK ==
  /\ rt # 0 => rt = starts
  /\ \A j \in Starts : inst[j].st # "none" => j <= starts
  /\ boot.pc \notin {"idle", "net"} => inst[starts].st = "none"
  /\ boot.pc = "net" => ~Writing(starts)
HasBlob(d) == "blob" \in DOMAIN d
DocsOK == DOMAIN doc = Starts /\ HasBlob(dbDoc) /\ \A i \in Starts : HasBlob(doc[i])
SavingOK == \A i \in Starts :
  inst[i].saving # NoBlob => Writing(i) /\ doc[i].blob = inst[i].saving
NewestOK == ~late => \A i \in Starts : Newest(i) => doc[i].blob \in Allowed
FileHolds ==
  ~late => /\ dbFile.st = "ok" => dbDoc.blob \in Allowed
           /\ dbFile.st = "none" => acked = NoBlob

SurvivesInv == PlacedOK /\ DocsOK /\ SavingOK /\ NewestOK /\ FileHolds

\* No change of the document but SaveBlob touches the blob.
LEMMA ChangesKeepBlob ==
  ASSUME NEW d, HasBlob(d)
  PROVE  /\ \A e \in Changes(d) : HasBlob(e) /\ e.blob = d.blob
         /\ \A b : HasBlob(SaveBlob(d, b)) /\ SaveBlob(d, b).blob = b
         /\ \A m : HasBlob(AppendMessage(d, m)) /\ AppendMessage(d, m).blob = d.blob
         /\ HasBlob(SaveSettings(d)) /\ SaveSettings(d).blob = d.blob
<1>1. \A b : HasBlob(SaveBlob(d, b)) /\ SaveBlob(d, b).blob = b
  BY DEF SaveBlob, HasBlob
<1>2. \A m : HasBlob(AppendMessage(d, m)) /\ AppendMessage(d, m).blob = d.blob
  BY DEF AppendMessage, HasBlob
<1>3. HasBlob(SaveSettings(d)) /\ SaveSettings(d).blob = d.blob
  BY DEF SaveSettings, HasBlob
<1>4. HasBlob(SaveContact(d)) /\ SaveContact(d).blob = d.blob
  BY DEF SaveContact, HasBlob
<1>5. HasBlob(DeleteContact(d)) /\ DeleteContact(d).blob = d.blob
  BY DEF DeleteContact, HasBlob
<1>6. HasBlob(UpsertConversation(d)) /\ UpsertConversation(d).blob = d.blob
  BY DEF UpsertConversation, HasBlob
<1>7. HasBlob(DeleteConversation(d)) /\ DeleteConversation(d).blob = d.blob
  BY DEF DeleteConversation, HasBlob
<1>8. HasBlob(CloseStore(d)) /\ CloseStore(d).blob = d.blob
  BY DEF CloseStore
<1>9. \A m : \A e \in DeleteMessage(d, m) : HasBlob(e) /\ e.blob = d.blob
  <2>1. SUFFICES ASSUME NEW q PROVE LET e == [d EXCEPT !.messages = q] IN HasBlob(e) /\ e.blob = d.blob
    BY DEF DeleteMessage
  <2>2. QED  BY DEF HasBlob
<1>10. \A m : HasBlob(EnqueueOutbox(d, m)) /\ EnqueueOutbox(d, m).blob = d.blob
  BY DEF EnqueueOutbox, HasBlob
<1>11. \A e \in Changes(d) : HasBlob(e) /\ e.blob = d.blob
  BY <1>2, <1>3, <1>4, <1>5, <1>6, <1>7, <1>8, <1>9, <1>10 DEF Changes
<1>12. QED  BY <1>1, <1>2, <1>3, <1>11

\* The steps of Start before the store is read touch neither store nor file.
LEMMA BootMoves ==
  ASSUME StorageInv, SurvivesInv, UNCHANGED <<inst, doc, acked, tried, late, dbFile, dbDoc, rt>>,
         boot.pc # "net", boot'.pc # "net",
         \/ starts' = starts /\ (boot'.pc = "idle" \/ boot.pc # "idle")
         \/ boot.pc = "idle" /\ rt = 0 /\ starts' = starts + 1 /\ starts + 1 \in Starts
  PROVE  SurvivesInv'
<1>1. starts \in Nat /\ starts' \in Nat
  BY StorageAssumption DEF StorageInv, StepOK
<1>2. PlacedOK'
  <2>1. rt' # 0 => rt' = starts'
    BY DEF SurvivesInv, PlacedOK
  <2>2. \A j \in Starts : inst'[j].st # "none" => j <= starts'
    BY <1>1 DEF SurvivesInv, PlacedOK
  <2>3. boot'.pc \notin {"idle", "net"} => inst'[starts'].st = "none"
    BY <1>1 DEF SurvivesInv, PlacedOK
  <2>4. QED  BY <2>1, <2>2, <2>3 DEF PlacedOK
<1>3. DocsOK' /\ SavingOK' /\ FileHolds'
  BY DEF SurvivesInv, DocsOK, SavingOK, FileHolds, Allowed, Writing
<1>4. NewestOK'
  BY DEF SurvivesInv, NewestOK, Newest, Allowed
<1>5. QED  BY <1>2, <1>3, <1>4 DEF SurvivesInv

\* They are such steps.
LEMMA BootKeeps ==
  ASSUME StorageInv, SurvivesInv,
         \/ StartCall \/ KeyFound \/ KeyCreate \/ KeyWritten \/ AccountLoad \/ AccountCreate
         \/ AccountWritten \/ StartRefused
  PROVE  SurvivesInv'
<1> USE DEF diskVars, storeVars, counters, history, Idle, Abort
<1>1. UNCHANGED <<inst, doc, acked, tried, late, dbFile, dbDoc, rt>>
  BY DEF StartCall, KeyFound, KeyCreate, KeyWritten, AccountLoad, AccountCreate,
         AccountWritten, StartRefused
<1>2. boot.pc # "net" /\ boot'.pc # "net"
  BY DEF StartCall, KeyFound, KeyCreate, KeyWritten, AccountLoad, AccountCreate,
         AccountWritten, StartRefused
<1>3. \/ starts' = starts /\ (boot'.pc = "idle" \/ boot.pc # "idle")
      \/ boot.pc = "idle" /\ rt = 0 /\ starts' = starts + 1 /\ starts + 1 \in Starts
  <2>1. CASE StartCall
    BY <2>1, StorageAssumption DEF StartCall, StorageInv, StepOK
  <2>2. CASE ~StartCall
    BY <2>2 DEF KeyFound, KeyCreate, KeyWritten, AccountLoad, AccountCreate,
         AccountWritten, StartRefused
  <2>3. QED  BY <2>1, <2>2
<1>4. QED  BY <1>1, <1>2, <1>3, BootMoves

\* What StorageInv says of the Start in progress and of the runtime.
LEMMA StorageTypes ==
  ASSUME StorageInv
  PROVE  /\ inst \in [Starts -> Stores] /\ starts \in 0 .. MaxStarts /\ MaxStarts \in Nat
         /\ boot.pc # "idle" => starts \in Starts
         /\ boot.pc = "net" => inst[starts].st = "open" /\ rt = 0
         /\ rt # 0 => rt \in Starts /\ inst[rt].st = "open" /\ boot.pc = "idle"
         /\ dbFile \in [st : FileStates, key : Nat]
         /\ \A i \in Starts : inst[i].op # "none" => inst[i].st # "none"
<1>1. starts \in 0 .. MaxStarts /\ MaxStarts \in Nat /\ rt \in 0 .. starts
  BY StorageAssumption DEF StorageInv, StepOK, SingletonOK
<1>2. rt # 0 => rt \in Starts /\ inst[rt].st = "open" /\ boot.pc = "idle"
  BY <1>1 DEF StorageInv, SingletonOK
<1>3. boot.pc # "idle" => starts \in Starts
  BY <1>1 DEF StorageInv, StepOK
<1>4. QED
  BY <1>1, <1>2, <1>3 DEF StorageInv, StoresOK, SingletonOK, BootOK, FilesOK, Writing

\* openFileStore gives the new runtime the document of the file; the older
\* runtimes stay as they are.
LEMMA OpenKeeps ==
  ASSUME StorageInv, SurvivesInv, OpenStore
  PROVE  SurvivesInv'
<1> USE DEF diskVars, storeVars, counters, history
<1>0. /\ UNCHANGED <<dbFile, dbDoc, rt, starts, acked, tried, late>> /\ boot.pc = "open"
  BY DEF OpenStore
<1>1. CASE Abort /\ UNCHANGED storeVars
  BY <1>0, <1>1, BootMoves DEF Abort, Idle
<1>2. ASSUME NEW d, Opened(d), HasBlob(d), ~late => d.blob \in Allowed
      PROVE  SurvivesInv'
  <2> DEFINE s == [st |-> "open", op |-> "none", key |-> boot.key, saving |-> NoBlob]
  <2>1. inst \in [Starts -> Stores] /\ starts \in Starts /\ rt = 0 /\ starts \in Nat
    BY <1>0, StorageTypes
  <2>2. inst' = [inst EXCEPT ![starts] = s] /\ doc' = [doc EXCEPT ![starts] = d] /\ boot'.pc = "net"
    BY <1>2 DEF Opened
  <2>3. /\ inst'[starts].st = "open" /\ inst'[starts].op = "none" /\ inst'[starts].saving = NoBlob
        /\ \A j \in Starts : j # starts => inst'[j] = inst[j]
    BY <2>1, <2>2
  <2>4. /\ DOMAIN doc' = Starts /\ doc'[starts] = d
        /\ \A j \in Starts : j # starts => doc'[j] = doc[j]
    BY <2>1, <2>2 DEF SurvivesInv, DocsOK
  <2>5. inst[starts].st = "none"
    BY <1>0 DEF SurvivesInv, PlacedOK
  <2> HIDE DEF s
  <2>6. PlacedOK'
    BY <1>0, <2>1, <2>2, <2>3 DEF SurvivesInv, PlacedOK, Writing
  <2>7. DocsOK'
    BY <1>0, <1>2, <2>4 DEF SurvivesInv, DocsOK
  <2>8. SavingOK'
    BY <2>3, <2>4 DEF SurvivesInv, SavingOK, Writing
  <2>9. NewestOK'
    <3> SUFFICES ASSUME ~late', NEW i \in Starts, Newest(i)'
                 PROVE  doc'[i].blob \in Allowed'
      BY DEF NewestOK
    <3>1. CASE i = starts
      BY <1>0, <1>2, <2>4, <3>1 DEF Allowed
    <3>2. CASE i # starts
      <4>1. Newest(i)
        <5>1. inst[i].st # "none"
          BY <2>3, <3>2 DEF Newest
        <5>2. ASSUME NEW j \in Starts, j > i, inst[j].st # "none" PROVE FALSE
          <6>1. j # starts /\ inst'[j].st # "none"
            BY <2>3, <2>5, <5>2
          <6>2. QED  BY <1>0, <5>2, <6>1 DEF Newest
        <5>3. QED  BY <5>1, <5>2 DEF Newest
      <4>2. QED  BY <1>0, <2>4, <3>2, <4>1 DEF SurvivesInv, NewestOK, Allowed
    <3>3. QED  BY <3>1, <3>2
  <2>10. FileHolds'
    BY <1>0 DEF SurvivesInv, FileHolds, Allowed
  <2>11. QED  BY <2>6, <2>7, <2>8, <2>9, <2>10 DEF SurvivesInv
<1>3. CASE dbFile.st = "ok" /\ Opened(dbDoc)
  BY <1>2, <1>3 DEF SurvivesInv, DocsOK, FileHolds
<1>4. CASE dbFile.st = "none" /\ Opened(EmptyData)
  <2>1. HasBlob(EmptyData) /\ EmptyData.blob = NoBlob
    BY DEF HasBlob, EmptyData
  <2>2. QED  BY <1>2, <1>4, <2>1 DEF SurvivesInv, FileHolds, Allowed
<1>5. QED  BY <1>1, <1>3, <1>4 DEF OpenStore

\* The new runtime becomes the one in use, or its store is dropped and the
\* runtime before it is the newest again.
LEMMA DoneKeeps ==
  ASSUME StorageInv, SurvivesInv, StartDone
  PROVE  SurvivesInv'
<1> USE DEF diskVars, storeVars, counters, history
<1>0. /\ UNCHANGED <<dbFile, dbDoc, doc, starts, acked, tried, late>> /\ boot.pc = "net"
      /\ boot'.pc = "idle"
  BY DEF StartDone, Idle
<1>1. /\ inst \in [Starts -> Stores] /\ starts \in Starts /\ rt = 0 /\ starts \in Nat
      /\ inst[starts].st = "open" /\ ~Writing(starts)
  BY <1>0, StorageTypes DEF SurvivesInv, PlacedOK
<1>2. CASE rt' = starts /\ UNCHANGED inst
  <2>1. PlacedOK'
    BY <1>0, <1>1, <1>2 DEF SurvivesInv, PlacedOK
  <2>2. DocsOK' /\ SavingOK' /\ FileHolds'
    BY <1>0, <1>2 DEF SurvivesInv, DocsOK, SavingOK, FileHolds, Allowed, Writing
  <2>3. \A i \in Starts : Newest(i)' => Newest(i)
    BY <1>0, <1>2 DEF Newest
  <2>4. NewestOK'
    BY <1>0, <2>3 DEF SurvivesInv, NewestOK, Allowed
  <2>5. QED  BY <2>1, <2>2, <2>4 DEF SurvivesInv
<1>3. CASE inst' = [inst EXCEPT ![starts] = NoStore] /\ UNCHANGED rt
  <2>1. /\ inst'[starts].st = "none" /\ inst'[starts].saving = NoBlob
        /\ \A j \in Starts : j # starts => inst'[j] = inst[j]
    BY <1>1, <1>3 DEF NoStore
  <2>2. PlacedOK'
    BY <1>0, <1>1, <1>3, <2>1 DEF SurvivesInv, PlacedOK
  <2>3. DocsOK' /\ FileHolds'
    BY <1>0 DEF SurvivesInv, DocsOK, FileHolds, Allowed
  <2>4. SavingOK'
    BY <1>0, <2>1 DEF SurvivesInv, SavingOK, Writing
  <2>5. ASSUME NEW i \in Starts, Newest(i)' PROVE Newest(i)
    <3>1. i # starts /\ inst[i].st # "none"
      BY <2>1, <2>5 DEF Newest
    <3>2. ASSUME NEW j \in Starts, j > i, inst[j].st # "none" PROVE j = starts
      BY <1>0, <2>1, <2>5, <3>2 DEF Newest
    <3>3. QED  BY <1>0, <3>1, <3>2 DEF Newest
  <2>6. NewestOK'
    BY <1>0, <2>5 DEF SurvivesInv, NewestOK, Allowed
  <2>7. QED  BY <2>2, <2>3, <2>4, <2>6 DEF SurvivesInv
<1>4. QED  BY <1>2, <1>3 DEF StartDone

\* What a flush does to the records of the stores.
LEMMA FlushStores ==
  ASSUME StorageInv, NEW i \in Starts, NEW d, NEW b \in Blobs \cup {NoBlob}, Flush(i, d, b)
  PROVE  /\ inst'[i].st = inst[i].st
         /\ inst'[i] = inst[i] \/ (inst'[i].saving = b /\ inst'[i].op # "none")
         /\ \A j \in Starts : j # i =>
              /\ inst'[j].st = inst[j].st /\ inst'[j].saving = inst[j].saving
              /\ inst'[j].op # "none" <=> inst[j].op # "none"
<1>1. inst \in [Starts -> Stores]
  BY StorageTypes
<1>2. CASE UNCHANGED inst
  BY <1>2
<1>3. CASE /\ \E o \in {"write", "mixed"} :
                inst'[i] = [inst[i] EXCEPT !.saving = b, !.op = o]
           /\ \A j \in Starts \ {i} :
                \/ inst'[j] = inst[j]
                \/ inst[j].op # "none" /\ inst'[j] = [inst[j] EXCEPT !.op = "mixed"]
  <2>1. PICK o \in {"write", "mixed"} : inst'[i] = [inst[i] EXCEPT !.saving = b, !.op = o]
    BY <1>3
  <2>2. inst'[i].st = inst[i].st /\ inst'[i].saving = b /\ inst'[i].op # "none"
    <3>1. inst[i] \in Stores
      BY <1>1
    <3>2. SUFFICES ASSUME NEW s \in Stores, NEW t, t = [s EXCEPT !.saving = b, !.op = o]
                   PROVE  t.st = s.st /\ t.saving = b /\ t.op # "none"
      BY <2>1, <3>1
    <3>3. QED  BY <3>2
  <2>3. ASSUME NEW j \in Starts, j # i
        PROVE  /\ inst'[j].st = inst[j].st /\ inst'[j].saving = inst[j].saving
               /\ inst'[j].op # "none" <=> inst[j].op # "none"
    <3>1. inst[j] \in Stores
      BY <1>1
    <3>2. inst'[j] = inst[j] \/ (inst[j].op # "none" /\ inst'[j] = [inst[j] EXCEPT !.op = "mixed"])
      BY <1>3, <2>3
    <3>3. \A s \in Stores : [s EXCEPT !.op = "mixed"].st = s.st
                            /\ [s EXCEPT !.op = "mixed"].saving = s.saving
                            /\ [s EXCEPT !.op = "mixed"].op # "none"
      OBVIOUS
    <3>4. QED  BY <3>1, <3>2, <3>3
  <2>4. QED  BY <2>2, <2>3
<1>4. QED  BY <1>2, <1>3 DEF Flush, Writing

\* A flush changes one document: to a blob whose save begins, or not its blob.
LEMMA FlushSurvives ==
  ASSUME StorageInv, SurvivesInv, NEW i \in Starts, inst[i].st # "none", i # starts \/ boot.pc # "net",
         NEW d, NEW b \in Blobs \cup {NoBlob}, Flush(i, d, b), HasBlob(d),
         b = NoBlob => d.blob = doc[i].blob, b # NoBlob => d.blob = b
  PROVE  SurvivesInv'
<1>1. /\ UNCHANGED <<dbDoc, boot, rt, starts, acked, late>> /\ ~Writing(i)
      /\ tried' = tried \cup ({b} \ {NoBlob}) /\ doc' = [doc EXCEPT ![i] = d]
      /\ dbFile' = dbFile \/ dbFile' = [dbFile EXCEPT !.st = "torn"]
  BY DEF Flush
<1>2. /\ inst'[i].st = inst[i].st
      /\ inst'[i] = inst[i] \/ (inst'[i].saving = b /\ inst'[i].op # "none")
      /\ \A j \in Starts : j # i =>
           /\ inst'[j].st = inst[j].st /\ inst'[j].saving = inst[j].saving
           /\ inst'[j].op # "none" <=> inst[j].op # "none"
  BY FlushStores
<1>3. DOMAIN doc' = Starts /\ doc'[i] = d /\ \A j \in Starts : j # i => doc'[j] = doc[j]
  BY <1>1 DEF SurvivesInv, DocsOK
<1>4. PlacedOK'
  <2>1. \A j \in Starts : inst'[j].st = inst[j].st
    BY <1>2
  <2>2. boot.pc # "idle" => starts \in Starts
    BY StorageTypes
  <2>3. QED  BY <1>1, <1>2, <2>1, <2>2 DEF SurvivesInv, PlacedOK, Writing
<1>5. DocsOK'
  BY <1>1, <1>3 DEF SurvivesInv, DocsOK
<1>6. SavingOK'
  <2>1. inst[i].saving = NoBlob
    BY <1>1 DEF SurvivesInv, SavingOK
  <2>2. QED  BY <1>2, <1>3, <2>1 DEF SurvivesInv, SavingOK, Writing
<1>7. \A x \in Allowed : x \in Allowed'
  BY <1>1 DEF Allowed
<1>8. NewestOK'
  <2>1. \A j \in Starts : Newest(j)' => Newest(j)
    BY <1>1, <1>2 DEF Newest
  <2>2. b # NoBlob => b \in Allowed'
    BY <1>1 DEF Allowed
  <2>3. QED  BY <1>1, <1>3, <1>7, <2>1, <2>2 DEF SurvivesInv, NewestOK
<1>9. FileHolds'
  <2>1. dbFile'.st = dbFile.st \/ dbFile'.st = "torn"
    BY <1>1, StorageTypes
  <2>2. QED  BY <1>1, <1>7, <2>1 DEF SurvivesInv, FileHolds
<1>10. QED  BY <1>4, <1>5, <1>6, <1>8, <1>9 DEF SurvivesInv

\* The calls of the running and of the stopped runtimes are such flushes.
LEMMA CallSurvives ==
  ASSUME StorageInv, SurvivesInv, Call \/ \E i \in Starts : LateCall(i)
  PROVE  SurvivesInv'
<1>1. CASE Call
  <2>1. rt # 0 /\ rt \in Starts /\ inst[rt].st # "none" /\ boot.pc # "net" /\ HasBlob(doc[rt])
    BY <1>1, StorageTypes DEF Call, SurvivesInv, DocsOK
  <2>2. ASSUME NEW b \in Blobs, Flush(rt, SaveBlob(doc[rt], b), b) PROVE SurvivesInv'
    <3>1. b # NoBlob /\ b \in Blobs \cup {NoBlob}
      BY StorageAssumption
    <3>2. HasBlob(SaveBlob(doc[rt], b)) /\ SaveBlob(doc[rt], b).blob = b
      BY <2>1, ChangesKeepBlob
    <3>3. QED  BY <2>1, <2>2, <3>1, <3>2, FlushSurvives
  <2>3. ASSUME NEW d \in Changes(doc[rt]), Flush(rt, d, NoBlob) PROVE SurvivesInv'
    <3>1. HasBlob(d) /\ d.blob = doc[rt].blob /\ NoBlob \in Blobs \cup {NoBlob}
      BY <2>1, ChangesKeepBlob
    <3>2. QED  BY <2>1, <2>3, <3>1, FlushSurvives
  <2>4. QED  BY <1>1, <2>2, <2>3 DEF Call
<1>2. ASSUME NEW i \in Starts, LateCall(i) PROVE SurvivesInv'
  <2>1. inst[i].st # "none" /\ (i # starts \/ boot.pc # "net") /\ HasBlob(doc[i])
    BY <1>2, StorageTypes DEF LateCall, SurvivesInv, DocsOK
  <2>2. ASSUME NEW b \in Blobs, Flush(i, SaveBlob(doc[i], b), b) PROVE SurvivesInv'
    <3>1. b # NoBlob /\ b \in Blobs \cup {NoBlob}
      BY StorageAssumption
    <3>2. HasBlob(SaveBlob(doc[i], b)) /\ SaveBlob(doc[i], b).blob = b
      BY <2>1, ChangesKeepBlob
    <3>3. QED  BY <2>1, <2>2, <3>1, <3>2, FlushSurvives
  <2>3. ASSUME NEW d, HasBlob(d), d.blob = doc[i].blob, Flush(i, d, NoBlob) PROVE SurvivesInv'
    <3>1. NoBlob \in Blobs \cup {NoBlob}
      OBVIOUS
    <3>2. QED  BY <2>1, <2>3, <3>1, FlushSurvives
  <2>4. ASSUME NEW m \in Envelopes, Flush(i, AppendMessage(doc[i], m), NoBlob) PROVE SurvivesInv'
    <3>1. HasBlob(AppendMessage(doc[i], m)) /\ AppendMessage(doc[i], m).blob = doc[i].blob
      BY <2>1, ChangesKeepBlob
    <3>2. QED  BY <2>3, <2>4, <3>1
  <2>5. ASSUME Flush(i, SaveSettings(doc[i]), NoBlob) PROVE SurvivesInv'
    <3>1. HasBlob(SaveSettings(doc[i])) /\ SaveSettings(doc[i]).blob = doc[i].blob
      BY <2>1, ChangesKeepBlob
    <3>2. QED  BY <2>3, <2>5, <3>1
  <2>6. QED  BY <1>2, <2>2, <2>4, <2>5 DEF LateCall
<1>3. QED  BY <1>1, <1>2

\* A write that ends without an error: either a newer runtime has read the store
\* (late), or this is the newest, and its blob is the one saved last.
LEMMA FlushedSurvives ==
  ASSUME StorageInv, SurvivesInv, NEW i \in Starts, Flushed(i)
  PROVE  SurvivesInv'
<1> DEFINE s == [inst[i] EXCEPT !.op = "none", !.saving = NoBlob]
<1>1. /\ UNCHANGED <<boot, rt, starts, doc>> /\ Writing(i)
      /\ inst' = [inst EXCEPT ![i] = s]
      /\ acked' = IF inst[i].saving = NoBlob THEN acked ELSE inst[i].saving
      /\ tried' = IF inst[i].saving = NoBlob THEN tried ELSE {}
      /\ late' = ((\E j \in Starts : j > i /\ inst[j].st # "none") \/ (late /\ inst[i].saving = NoBlob))
      /\ dbDoc' = doc[i]
  BY DEF Flushed, counters
<1>2. inst \in [Starts -> Stores] /\ inst[i].st # "none" /\ inst[i] \in Stores
  BY <1>1, StorageTypes DEF Writing
<1>3. s \in Stores /\ s.st = inst[i].st /\ s.op = "none" /\ s.saving = NoBlob
  BY <1>2
<1> HIDE DEF s
<1>4. /\ inst'[i].st = inst[i].st /\ inst'[i].op = "none" /\ inst'[i].saving = NoBlob
      /\ \A j \in Starts : j # i => inst'[j] = inst[j]
  BY <1>1, <1>2, <1>3
<1>5. dbFile'.st # "none"
  BY StorageTypes DEF Flushed
<1>6. PlacedOK'
  <2>1. \A j \in Starts : inst'[j].st = inst[j].st /\ (inst'[j].op # "none" => inst[j].op # "none")
    BY <1>4
  <2>2. boot.pc # "idle" => starts \in Starts
    BY StorageTypes
  <2>3. QED  BY <1>1, <2>1, <2>2 DEF SurvivesInv, PlacedOK, Writing
<1>7. DocsOK'
  BY <1>1 DEF SurvivesInv, DocsOK
<1>8. SavingOK'
  BY <1>1, <1>4 DEF SurvivesInv, SavingOK, Writing
<1>9. ASSUME ~late'
      PROVE  /\ doc[i].blob \in Allowed' /\ (\A j \in Starts : Newest(j)' => j = i)
  <2>1. /\ late => inst[i].saving # NoBlob
        /\ \A j \in Starts : j > i => inst[j].st = "none"
    BY <1>1, <1>9
  <2>2. Newest(i)
    BY <1>2, <2>1 DEF Newest
  <2>3. doc[i].blob \in Allowed'
    <3>1. ~late => doc[i].blob \in Allowed
      BY <2>2 DEF SurvivesInv, NewestOK
    <3>2. inst[i].saving # NoBlob => doc[i].blob = inst[i].saving
      BY DEF SurvivesInv, SavingOK
    <3>3. QED  BY <1>1, <2>1, <3>1, <3>2 DEF Allowed
  <2>4. ASSUME NEW j \in Starts, Newest(j)' PROVE j = i
    <3>1. inst[j].st # "none" /\ ~(j > i)
      BY <1>4, <2>1, <2>4 DEF Newest
    <3>2. ASSUME j < i PROVE FALSE
      <4>1. i > j /\ inst'[i].st # "none"
        BY <1>2, <1>4, <3>2
      <4>2. i = starts /\ boot.pc = "net"
        BY <1>1, <2>4, <4>1 DEF Newest
      <4>3. QED  BY <1>1, <4>2 DEF SurvivesInv, PlacedOK
    <3>3. i \in Nat /\ j \in Nat
      OBVIOUS
    <3>4. QED  BY <3>1, <3>2, <3>3
  <2>5. QED  BY <2>3, <2>4
<1>10. NewestOK'
  BY <1>1, <1>9 DEF NewestOK
<1>11. FileHolds'
  BY <1>1, <1>5, <1>9 DEF FileHolds
<1>12. QED  BY <1>6, <1>7, <1>8, <1>10, <1>11 DEF SurvivesInv

\* A write that fails leaves a torn file; the document stays in memory.
LEMMA FailedSurvives ==
  ASSUME StorageInv, SurvivesInv, NEW i \in Starts, FlushFailed(i)
  PROVE  SurvivesInv'
<1> DEFINE s == [inst[i] EXCEPT !.op = "none", !.saving = NoBlob]
<1>1. /\ UNCHANGED <<boot, rt, starts, doc, dbDoc, acked, tried, late>>
      /\ inst' = [inst EXCEPT ![i] = s] /\ dbFile' = [dbFile EXCEPT !.st = "torn"]
  BY DEF FlushFailed, history
<1>2. inst \in [Starts -> Stores] /\ inst[i] \in Stores /\ dbFile'.st = "torn"
  BY <1>1, StorageTypes
<1>3. s \in Stores /\ s.st = inst[i].st /\ s.op = "none" /\ s.saving = NoBlob
  BY <1>2
<1> HIDE DEF s
<1>4. /\ inst'[i].st = inst[i].st /\ inst'[i].op = "none" /\ inst'[i].saving = NoBlob
      /\ \A j \in Starts : j # i => inst'[j] = inst[j]
  BY <1>1, <1>2, <1>3
<1>5. \A j \in Starts : inst'[j].st = inst[j].st /\ (inst'[j].op # "none" => inst[j].op # "none")
  BY <1>4
<1>6. PlacedOK'
  <2>1. boot.pc # "idle" => starts \in Starts
    BY StorageTypes
  <2>2. QED  BY <1>1, <1>5, <2>1 DEF SurvivesInv, PlacedOK, Writing
<1>7. DocsOK' /\ FileHolds'
  BY <1>1, <1>2 DEF SurvivesInv, DocsOK, FileHolds
<1>8. SavingOK'
  BY <1>1, <1>4 DEF SurvivesInv, SavingOK, Writing
<1>9. NewestOK'
  <2>1. \A j \in Starts : Newest(j)' => Newest(j)
    BY <1>1, <1>5 DEF Newest
  <2>2. QED  BY <1>1, <2>1 DEF SurvivesInv, NewestOK, Allowed
<1>10. QED  BY <1>6, <1>7, <1>8, <1>9 DEF SurvivesInv

\* Stop leaves the store open; a crash leaves the files only.
LEMMA EndSurvives ==
  ASSUME StorageInv, SurvivesInv, Stop \/ Crash
  PROVE  SurvivesInv'
<1> USE DEF diskVars, storeVars, counters, history
<1>1. UNCHANGED <<starts, dbDoc, dbFile, acked, tried, late>> /\ rt' = 0
  BY DEF Stop, Crash
<1>2. CASE Stop
  <2>1. rt \in Starts /\ inst[rt].st = "open" /\ inst[rt] \in Stores /\ inst \in [Starts -> Stores]
    BY <1>2, StorageTypes DEF Stop
  <2>2. UNCHANGED <<boot, doc>> /\ inst' = [inst EXCEPT ![rt].st = "stopped"]
    BY <1>2 DEF Stop
  <2>3. \A j \in Starts : /\ inst'[j].st # "none" <=> inst[j].st # "none"
                          /\ inst'[j].op = inst[j].op /\ inst'[j].saving = inst[j].saving
    BY <2>1, <2>2
  <2>4. boot.pc = "idle"
    BY <1>2, StorageTypes DEF Stop
  <2>5. PlacedOK'
    BY <1>1, <2>2, <2>3, <2>4 DEF SurvivesInv, PlacedOK
  <2>6. DocsOK' /\ FileHolds' /\ SavingOK'
    BY <1>1, <2>2, <2>3 DEF SurvivesInv, DocsOK, FileHolds, SavingOK, Allowed, Writing
  <2>7. NewestOK'
    BY <1>1, <2>2, <2>3 DEF SurvivesInv, NewestOK, Newest, Allowed
  <2>8. QED  BY <2>5, <2>6, <2>7 DEF SurvivesInv
<1>3. CASE Crash
  <2>1. /\ boot'.pc = "idle" /\ DOMAIN doc' = Starts
        /\ \A j \in Starts : inst'[j] = NoStore /\ doc'[j] = EmptyData
    BY <1>3 DEF Crash, Idle
  <2>2. NoStore.st = "none" /\ NoStore.saving = NoBlob /\ HasBlob(EmptyData)
    BY DEF NoStore, EmptyData, HasBlob
  <2>3. PlacedOK' /\ SavingOK' /\ NewestOK'
    BY <1>1, <2>1, <2>2 DEF PlacedOK, SavingOK, NewestOK, Newest
  <2>4. DocsOK' /\ FileHolds'
    BY <1>1, <2>1, <2>2 DEF SurvivesInv, DocsOK, FileHolds, Allowed
  <2>5. QED  BY <2>3, <2>4 DEF SurvivesInv
<1>4. QED  BY <1>2, <1>3

\* At first there is no store and nothing was saved.
LEMMA SurvivesBegins == Init => SurvivesInv
<1> SUFFICES ASSUME Init PROVE SurvivesInv
  OBVIOUS
<1>1. \A j \in Starts : inst[j] = NoStore /\ doc[j] = EmptyData
  BY DEF Init
<1>2. NoStore.st = "none" /\ NoStore.saving = NoBlob /\ HasBlob(EmptyData)
  BY DEF NoStore, EmptyData, HasBlob
<1>3. PlacedOK /\ SavingOK /\ NewestOK
  BY <1>1, <1>2 DEF Init, Idle, PlacedOK, SavingOK, NewestOK, Newest
<1>4. DocsOK /\ FileHolds
  BY <1>1, <1>2 DEF Init, DocsOK, FileHolds
<1>5. QED  BY <1>3, <1>4 DEF SurvivesInv

\* What tears the store is a write that still runs, or one that was cut.
TornInv == dbFile.st = "torn" => cut \/ \E j \in Starts : Writing(j)

\* Only flushes and the end of the process touch the file, the writes or cut.
LEMMA TornStep ==
  ASSUME StorageInv, SurvivesInv, TornInv, [Next]_vars
  PROVE  TornInv'
<1> USE DEF diskVars, storeVars, counters, history
<1>1. inst \in [Starts -> Stores] /\ dbFile \in [st : FileStates, key : Nat]
  BY StorageTypes
<1>2. CASE UNCHANGED <<dbFile, inst, cut>>
  BY <1>2 DEF TornInv, Writing
<1>3. CASE StartStep
  <2>1. CASE OpenStore
    <3>1. boot.pc = "open" /\ UNCHANGED <<dbFile, cut>>
      BY <2>1 DEF OpenStore
    <3>2. starts \in Starts /\ ~Writing(starts)
      <4>1. starts \in Starts /\ inst[starts].st = "none"
        BY <3>1, StorageTypes DEF SurvivesInv, PlacedOK
      <4>2. QED  BY <4>1, StorageTypes DEF Writing
    <3>3. \A j \in Starts : j # starts => inst'[j] = inst[j]
      BY <1>1, <2>1 DEF OpenStore, Opened
    <3>4. QED  BY <3>1, <3>2, <3>3 DEF TornInv, Writing
  <2>2. CASE StartDone
    <3>1. boot.pc = "net" /\ UNCHANGED <<dbFile, cut>>
      BY <2>2 DEF StartDone
    <3>2. starts \in Starts /\ ~Writing(starts)
      BY <3>1, StorageTypes DEF SurvivesInv, PlacedOK
    <3>3. \A j \in Starts : j # starts => inst'[j] = inst[j]
      BY <1>1, <2>2 DEF StartDone
    <3>4. QED  BY <3>1, <3>2, <3>3 DEF TornInv, Writing
  <2>3. CASE StartStep /\ ~OpenStore /\ ~StartDone
    BY <1>2, <2>3 DEF StartStep, StartCall, KeyFound, KeyCreate, KeyWritten, AccountLoad,
       AccountCreate, AccountWritten, StartRefused
  <2>4. QED  BY <1>3, <2>1, <2>2, <2>3
<1>4. ASSUME NEW i \in Starts, NEW d, NEW b \in Blobs \cup {NoBlob}, Flush(i, d, b) PROVE TornInv'
  <2>1. CASE UNCHANGED <<inst, dbFile>>
    BY <1>2, <1>4, <2>1 DEF Flush
  <2>2. CASE \E o \in {"write", "mixed"} : inst'[i] = [inst[i] EXCEPT !.saving = b, !.op = o]
    <3>1. PICK o \in {"write", "mixed"} : inst'[i] = [inst[i] EXCEPT !.saving = b, !.op = o]
      BY <2>2
    <3>2. inst'[i].op # "none"
      BY <1>1, <3>1
    <3>3. QED  BY <3>2 DEF TornInv, Writing
  <2>3. QED  BY <1>4, <2>1, <2>2 DEF Flush
<1>5. CASE Call
  <2>1. rt \in Starts
    BY <1>5, StorageTypes DEF Call
  <2>2. QED  BY <1>4, <1>5, <2>1 DEF Call
<1>6. ASSUME NEW i \in Starts, LateCall(i) PROVE TornInv'
  BY <1>4, <1>6 DEF LateCall
<1>7. ASSUME NEW i \in Starts, Flushed(i) PROVE TornInv'
  BY <1>7 DEF Flushed, TornInv
<1>8. ASSUME NEW i \in Starts, FlushFailed(i) PROVE TornInv'
  BY <1>8 DEF FlushFailed, TornInv
<1>9. CASE Stop
  <2>1. UNCHANGED <<dbFile, cut>> /\ inst' = [inst EXCEPT ![rt].st = "stopped"]
    BY <1>9 DEF Stop
  <2>2. \A j \in Starts : inst'[j].op = inst[j].op
    BY <1>1, <2>1
  <2>3. QED  BY <2>1, <2>2 DEF TornInv, Writing
<1>10. CASE Crash
  BY <1>10 DEF Crash, TornInv, Writing
<1>11. CASE UNCHANGED vars
  BY <1>2, <1>11 DEF vars
<1>12. QED  BY <1>3, <1>5, <1>6, <1>7, <1>8, <1>9, <1>10, <1>11 DEF Next

\* Application state whose save returned without an error is what the running
\* runtime works on and what a store that opens holds, or a later one is, whatever
\* crashes, restarts, failed writes and calls of stopped runtimes happen.  It can
\* be lost by a write that is cut short, which leaves a store that does not open,
\* and by a stopped runtime that writes after its successor has read the store,
\* until the successor saves again: by nothing else (flush, openFileStore).
THEOREM SavedStateSurvives == Spec => []StateSurvives
<1>1. StorageInv /\ SurvivesInv /\ [Next]_vars => SurvivesInv'
  <2> SUFFICES ASSUME StorageInv, SurvivesInv, [Next]_vars PROVE SurvivesInv'
    OBVIOUS
  <2>1. CASE StartStep
    BY <2>1, BootKeeps, OpenKeeps, DoneKeeps DEF StartStep
  <2>2. CASE Next /\ ~StartStep
    BY <2>2, CallSurvives, FlushedSurvives, FailedSurvives, EndSurvives DEF Next
  <2>3. CASE UNCHANGED vars
    BY <2>3 DEF vars, diskVars, storeVars, counters, history, SurvivesInv, PlacedOK, DocsOK,
       SavingOK, NewestOK, Newest, FileHolds, Allowed, Writing
  <2>4. QED  BY <2>1, <2>2, <2>3
<1>2. StorageInv /\ SurvivesInv /\ TornInv => StateSurvives
  <2> SUFFICES ASSUME StorageInv, SurvivesInv, ~late
               PROVE  /\ rt # 0 => doc[rt].blob \in Allowed
                      /\ dbFile.st = "ok" => dbDoc.blob \in Allowed
                      /\ dbFile.st = "none" => acked = NoBlob
    BY DEF StateSurvives, TornInv, Allowed
  <2>1. ASSUME rt # 0 PROVE doc[rt].blob \in Allowed
    <3>1. rt \in Starts /\ inst[rt].st = "open" /\ rt = starts
      BY <2>1, StorageTypes DEF SurvivesInv, PlacedOK
    <3>2. \A j \in Starts : j > rt => inst[j].st = "none"
      BY <3>1 DEF SurvivesInv, PlacedOK
    <3>3. Newest(rt)
      BY <3>1, <3>2 DEF Newest
    <3>4. QED  BY <3>1, <3>3 DEF SurvivesInv, NewestOK
  <2>2. QED  BY <2>1 DEF SurvivesInv, FileHolds
<1>3. StorageInv /\ SurvivesInv /\ TornInv /\ [Next]_vars => TornInv'
  BY TornStep
<1>4. Init => TornInv
  BY DEF Init, TornInv
<1>5. QED  BY <1>1, <1>2, <1>3, <1>4, SurvivesBegins, StorageInvariance, PTL DEF Spec

-----------------------------------------------------------------------------
(* Types.                                                                  *)

DocTypes == dbDoc \in Data /\ doc \in [Starts -> Data]
CountTypes ==
  /\ ops \in 0 .. MaxOps /\ faults \in 0 .. MaxFaults /\ crashes \in 0 .. MaxCrashes
  /\ acked \in Blobs \cup {NoBlob} /\ tried \subseteq Blobs
  /\ shown \subseteq Nat /\ late \in BOOLEAN /\ cut \in BOOLEAN /\ rekeyed \in BOOLEAN

\* What is selected from a sequence by positions is a sequence of the same kind.
LEMMA SelectedType ==
  ASSUME NEW S, NEW s \in Seq(S), NEW T \in SUBSET DOMAIN s, NEW f \in [1 .. Cardinality(T) -> T]
  PROVE  [k \in DOMAIN f |-> s[f[k]]] \in Seq(S)
<1>1. Len(s) \in Nat /\ DOMAIN s = 1 .. Len(s)
  OBVIOUS
<1>2. Cardinality(T) \in Nat
  <2>1. IsFiniteSet(1 .. Len(s))
    BY <1>1, FS_Interval
  <2>2. IsFiniteSet(T)
    BY <1>1, <2>1, FS_Subset
  <2>3. QED  BY <2>2, FS_CardinalityType
<1>3. PICK n : n = Cardinality(T)
  OBVIOUS
<1>4. \A k \in 1 .. n : s[f[k]] \in S
  BY <1>1, <1>3
<1>5. QED  BY <1>2, <1>3, <1>4

\* A document stays one when its messages, its outbox or its blob are replaced.
LEMMA DataParts ==
  ASSUME NEW d \in Data
  PROVE  /\ \A q \in Seq(Envelopes) : [d EXCEPT !.messages = q] \in Data
         /\ \A q \in Seq(Envelopes) : [d EXCEPT !.outbox = q] \in Data
         /\ \A b \in Blobs \cup {NoBlob} : [d EXCEPT !.blob = b] \in Data
         /\ \A q \in Seq(Envelopes) : [d EXCEPT !.conversation = FALSE, !.messages = q] \in Data
         /\ d.messages \in Seq(Envelopes) /\ d.outbox \in Seq(Envelopes)
BY DEF Data

\* DeleteMessage leaves a document whose messages are envelopes.
LEMMA DeletedType ==
  ASSUME NEW d \in Data, NEW m, NEW e \in DeleteMessage(d, m)
  PROVE  e \in Data
<1> DEFINE s == d.messages
           T == {k \in DOMAIN s : s[k] # m}
           order(g) == \A a, b \in DOMAIN g : a < b => g[a] < g[b]
<1>1. e \in {[d EXCEPT !.messages = [k \in DOMAIN f |-> s[f[k]]]] :
               f \in {g \in [1 .. Cardinality(T) -> T] : order(g)}}
  BY Zenon DEF DeleteMessage
<1>2. s \in Seq(Envelopes)
  BY DataParts
<1>3. T \in SUBSET DOMAIN s
  OBVIOUS
<1> HIDE DEF s, T, order
<1>4. PICK f \in {g \in [1 .. Cardinality(T) -> T] : order(g)} :
        e = [d EXCEPT !.messages = [k \in DOMAIN f |-> s[f[k]]]]
  BY <1>1, Zenon
<1>5. f \in [1 .. Cardinality(T) -> T]
  BY <1>4
<1>6. PICK t : t = [k \in DOMAIN f |-> s[f[k]]]
  OBVIOUS
<1>7. t \in Seq(Envelopes)
  BY <1>2, <1>3, <1>5, <1>6, SelectedType
<1>8. e = [d EXCEPT !.messages = t]
  BY <1>4, <1>6
<1>9. QED  BY <1>7, <1>8, DataParts

\* Every call on the store makes a document of a document.
LEMMA ChangesType ==
  ASSUME NEW d \in Data
  PROVE  /\ \A e \in Changes(d) : e \in Data
         /\ \A b \in Blobs : SaveBlob(d, b) \in Data
         /\ \A m \in Envelopes : AppendMessage(d, m) \in Data
         /\ SaveSettings(d) \in Data
<1>1. \A b \in Blobs : SaveBlob(d, b) \in Data
  BY DataParts DEF SaveBlob
<1>2. ASSUME NEW m \in Envelopes PROVE AppendMessage(d, m) \in Data /\ EnqueueOutbox(d, m) \in Data
  <2>1. PICK s, u : s = d.messages /\ u = d.outbox
    OBVIOUS
  <2>3. s \in Seq(Envelopes) /\ u \in Seq(Envelopes)
    BY <2>1, DataParts
  <2>2. Append(s, m) \in Seq(Envelopes) /\ Append(u, m) \in Seq(Envelopes)
    BY <2>3
  <2>4. QED  BY <2>1, <2>2, DataParts DEF AppendMessage, EnqueueOutbox
<1>3. DeleteConversation(d) \in Data
  <2>1. <<>> \in Seq(Envelopes)
    OBVIOUS
  <2>2. QED  BY <2>1, DataParts DEF DeleteConversation
<1>4. SaveSettings(d) \in Data /\ SaveContact(d) \in Data /\ DeleteContact(d) \in Data
  BY DEF SaveSettings, SaveContact, DeleteContact, Data
<1>5. UpsertConversation(d) \in Data /\ CloseStore(d) \in Data
  BY DEF UpsertConversation, CloseStore, Data
<1>6. \A m \in Envelopes : \A e \in DeleteMessage(d, m) : e \in Data
  BY DeletedType
<1>7. \A e \in Changes(d) : e \in Data
  BY <1>2, <1>3, <1>4, <1>5, <1>6 DEF Changes
<1>8. QED  BY <1>1, <1>2, <1>4, <1>7

\* flush, begun with a document.
LEMMA FlushTypes ==
  ASSUME DocTypes, CountTypes, NEW i \in Starts, NEW d \in Data, NEW b \in Blobs \cup {NoBlob},
         Flush(i, d, b)
  PROVE  DocTypes' /\ CountTypes'
<1>1. doc' = [doc EXCEPT ![i] = d] /\ UNCHANGED <<dbDoc, crashes, shown, acked, late, cut, rekeyed>>
  BY DEF Flush
<1>2. DocTypes'
  BY <1>1 DEF DocTypes
<1>3. ops' \in 0 .. MaxOps /\ faults' \in 0 .. MaxFaults
  <2>1. /\ ops < MaxOps /\ ops' = ops + 1
        /\ faults' = faults \/ (faults < MaxFaults /\ faults' = faults + 1)
    BY DEF Flush, Fault
  <2>2. QED  BY <2>1, StorageAssumption DEF CountTypes
<1>4. tried' \subseteq Blobs
  BY DEF Flush, CountTypes
<1>5. QED  BY <1>1, <1>2, <1>3, <1>4 DEF CountTypes

\* Files, stores, documents and the Start in progress stay well formed, whatever
\* calls, failures and crashes happen (Start, flush and the operations of fileStore).
THEOREM StoreTypes == Spec => []TypeOK
<1>1. StorageInv /\ DocTypes /\ CountTypes /\ [Next]_vars => DocTypes' /\ CountTypes'
  <2> SUFFICES ASSUME StorageInv, DocTypes, CountTypes, [Next]_vars
               PROVE  DocTypes' /\ CountTypes'
    OBVIOUS
  <2> USE DEF diskVars, storeVars, counters, history
  <2>0. EmptyData \in Data
    BY DEF EmptyData, Data
  <2>1. CASE StartCall \/ KeyFound \/ AccountLoad \/ AccountCreate
    <3>1. UNCHANGED <<dbDoc, doc, ops, faults, crashes, history>>
      BY <2>1 DEF StartCall, KeyFound, AccountLoad, AccountCreate
    <3>2. QED  BY <3>1 DEF DocTypes, CountTypes
  <2>2. CASE KeyCreate \/ KeyWritten \/ AccountWritten \/ StartRefused
    <3>1. /\ UNCHANGED <<dbDoc, doc, ops, crashes, shown, acked, tried, late, cut>>
          /\ faults' = faults \/ (faults < MaxFaults /\ faults' = faults + 1)
          /\ rekeyed' = rekeyed \/ rekeyed' = (rekeyed \/ keyFile.st = "ok")
      BY <2>2 DEF KeyCreate, KeyWritten, AccountWritten, StartRefused, Fault
    <3>2. rekeyed' \in BOOLEAN
      BY <3>1, Zenon DEF CountTypes
    <3>3. QED  BY <3>1, <3>2, StorageAssumption DEF DocTypes, CountTypes
  <2>3. CASE OpenStore
    <3>1. UNCHANGED <<dbDoc, ops, faults, crashes, history>>
      BY <2>3 DEF OpenStore
    <3>2. doc' = doc \/ \E d \in Data : doc' = [doc EXCEPT ![starts] = d]
      BY <2>3, <2>0 DEF OpenStore, Opened, DocTypes
    <3>3. QED  BY <3>1, <3>2 DEF DocTypes, CountTypes
  <2>4. CASE StartDone
    <3>1. /\ UNCHANGED <<dbDoc, doc, ops, crashes, acked, tried, late, cut, rekeyed>>
          /\ faults' = faults \/ (faults < MaxFaults /\ faults' = faults + 1)
          /\ shown' = shown \/ shown' = shown \cup {boot.id}
      BY <2>4 DEF StartDone, Fault
    <3>2. boot.id \in Nat
      BY DEF StorageInv, StepOK
    <3>3. shown' \subseteq Nat
      BY <3>1, <3>2 DEF CountTypes
    <3>4. faults' \in 0 .. MaxFaults
      BY <3>1, StorageAssumption DEF CountTypes
    <3>5. QED  BY <3>1, <3>3, <3>4 DEF DocTypes, CountTypes
  <2>5. CASE Call
    <3>1. rt \in Starts /\ doc[rt] \in Data
      BY <2>5, StorageAssumption DEF Call, StorageInv, SingletonOK, StepOK, DocTypes
    <3>2. QED  BY <2>5, <3>1, ChangesType, FlushTypes DEF Call
  <2>6. CASE Stop
    BY <2>6 DEF Stop, DocTypes, CountTypes
  <2>7. CASE Crash
    BY <2>7, <2>0, StorageAssumption DEF Crash, DocTypes, CountTypes
  <2>8. ASSUME NEW i \in Starts, LateCall(i) PROVE DocTypes' /\ CountTypes'
    <3>1. doc[i] \in Data
      BY DEF DocTypes
    <3>2. QED  BY <2>8, <3>1, ChangesType, FlushTypes DEF LateCall
  <2>9. ASSUME NEW i \in Starts, Flushed(i) PROVE DocTypes' /\ CountTypes'
    <3>1. inst[i].saving \in Blobs \cup {NoBlob} /\ doc[i] \in Data
      BY DEF StorageInv, StoresOK, DocTypes
    <3>2. /\ UNCHANGED <<doc, ops, faults, crashes, shown, rekeyed>> /\ dbDoc' = doc[i]
          /\ acked' \in Blobs \cup {NoBlob} /\ tried' \subseteq Blobs /\ late' \in BOOLEAN /\ cut' \in BOOLEAN
      BY <2>9, <3>1 DEF Flushed, CountTypes
    <3>3. QED  BY <3>1, <3>2 DEF DocTypes, CountTypes
  <2>10. ASSUME NEW i \in Starts, FlushFailed(i) PROVE DocTypes' /\ CountTypes'
    <3>1. /\ UNCHANGED <<dbDoc, doc, ops, crashes, shown, acked, tried, late, rekeyed>> /\ cut' = TRUE
          /\ faults < MaxFaults /\ faults' = faults + 1
      BY <2>10 DEF FlushFailed, Fault
    <3>2. QED  BY <3>1, StorageAssumption DEF DocTypes, CountTypes
  <2>11. CASE UNCHANGED vars
    BY <2>11 DEF vars, DocTypes, CountTypes
  <2>12. QED
    BY <2>1, <2>2, <2>3, <2>4, <2>5, <2>6, <2>7, <2>8, <2>9, <2>10, <2>11 DEF Next, StartStep
<1>2. Init => DocTypes /\ CountTypes
  <2>1. EmptyData \in Data
    BY DEF EmptyData, Data
  <2>2. Init => /\ ops \in 0 .. MaxOps /\ faults \in 0 .. MaxFaults /\ crashes \in 0 .. MaxCrashes
                /\ shown \subseteq Nat /\ acked \in Blobs \cup {NoBlob} /\ tried \subseteq Blobs
    BY StorageAssumption DEF Init
  <2>3. Init => late \in BOOLEAN /\ cut \in BOOLEAN /\ rekeyed \in BOOLEAN
    BY Zenon DEF Init
  <2>4. Init => DocTypes
    BY <2>1, Zenon DEF Init, DocTypes
  <2>5. QED  BY <2>2, <2>3, <2>4 DEF CountTypes
<1>3. StorageInv /\ DocTypes /\ CountTypes => TypeOK
  BY DEF StorageInv, DocTypes, CountTypes, TypeOK
<1>4. QED  BY <1>1, <1>2, <1>3, StorageInvariance, PTL DEF Spec

=============================================================================
