----------------------------- MODULE ChatStore -----------------------------
(***************************************************************************)
(* The application side: ChatStore (contacts and conversations shared by   *)
(* every screen) and MessagingService (which polls the runtime's events    *)
(* into the store and saves the store through the runtime), of             *)
(* app/lib/src/services.  Dart code runs on one isolate, so a handler is   *)
(* one step; a batch of polled events is applied one event per step, which *)
(* allows no order of steps that separate polls do not.                    *)
(*                                                                         *)
(* The runtime is the environment: it writes, answers or loses what it was *)
(* given, and its goroutines push events in any order their code allows:   *)
(* the receipt of a message comes from recvLoop and its "sent" from the    *)
(* send worker.                                                            *)
(*                                                                         *)
(* A contact is named by its fingerprint, an outgoing message by its       *)
(* number; inbound messages have number 0, which no event names.           *)
(***************************************************************************)
EXTENDS Naturals, Sequences, FiniteSets, SequencesExt

CONSTANTS
  Peers,        \* fingerprints
  MaxOut,       \* outgoing messages (bound)
  MaxIn,        \* inbound messages (bound)
  MaxKills,     \* ends of the application's process (bound)
  Flags,        \* contact flags the user may toggle
  Repairs       \* the onboarding screen may start the runtime after bootstrap
                \* could not

ASSUME ChatStoreAssumption ==
  /\ MaxOut \in Nat /\ MaxIn \in Nat /\ MaxKills \in Nat
  /\ Flags \subseteq {"muted", "blocked"}
  /\ Repairs \in BOOLEAN

VARIABLES
  contacts,   \* contacts[p]: the contact, or NoContact
  chats,      \* conversations, most recent first
  online,     \* contacts shown online (kept in memory only)
  notes,      \* notifications pushed
  mode,       \* down, live, degraded (no runtime), unsaved (no autosave)
  timer,      \* a save is scheduled
  disk,       \* the state last saved
  tried,      \* the state the runtime's store holds in memory: of the last save
              \* tried, or restored
  next,       \* outgoing messages so far
  owner,      \* owner[i]: the contact message i was sent to
  files,      \* the messages that are files
  out,        \* out[i]: what the runtime has done with message i
  wrote,      \* messages written to a link
  acked, readBy, \* messages the peer acknowledged, and has read
  events,     \* the runtime's event queue
  came,       \* inbound messages so far
  kills       \* process ends so far

storeVars == <<contacts, chats, online, notes>>
runtimeVars == <<out, wrote, acked, readBy, events, came>>
vars == <<storeVars, mode, timer, disk, tried, next, owner, files, runtimeVars, kills>>

Ids == 1 .. MaxOut
Statuses == {"sending", "sent", "delivered", "read", "failed"}
NoContact == [code |-> FALSE, flags |-> {"none"}]
Known(p) == contacts[p] # NoContact

Snapshot == [contacts |-> contacts, chats |-> chats]

-----------------------------------------------------------------------------
(* ChatStore *)

\* notifyListeners runs _scheduleSave, a listener only after bootstrap.
Notify == timer' = (timer \/ mode = "live")

MoveToTop(s, i) == <<s[i]>> \o RemoveAt(s, i)

ChatsWith(s, p) == {i \in DOMAIN s : s[i].peer = p}
NewChat(p) == [peer |-> p, msgs |-> <<>>, unread |-> 0]

\* Variant: a conversation is created although there is one.
OpenedAnew(s, p) == <<NewChat(p)>> \o s

\* startChatWith: the conversation with p is first in the list, new or old.
Opened(s, p) ==
  IF ChatsWith(s, p) = {} THEN <<NewChat(p)>> \o s
  ELSE MoveToTop(s, CHOOSE i \in ChatsWith(s, p) : \A j \in ChatsWith(s, p) : i <= j)

\* Sets the status of the outgoing message i, wherever it is, unless it has one
\* of the statuses kept.
Restated(s, i, kept, status) ==
  [j \in DOMAIN s |-> [s[j] EXCEPT !.msgs =
     [k \in DOMAIN @ |-> IF @[k].id = i /\ @[k].mine /\ @[k].status \notin kept
                           THEN [@[k] EXCEPT !.status = status] ELSE @[k]]]]

\* The message i is still in some conversation.
Present(s, i) == \E j \in DOMAIN s : \E k \in DOMAIN s[j].msgs : s[j].msgs[k].id = i

SetStatus(s, i, status) == Restated(s, i, {}, status)

\* Variants: a receipt is applied to a message already read; to every message
\* of a conversation that has the one it names.
MarkDeliveredAlways(s, i) == SetStatus(s, i, "delivered")
MarkDeliveredAll(s, i) ==
  [j \in DOMAIN s |-> [s[j] EXCEPT !.msgs =
     [k \in DOMAIN @ |-> IF @[k].mine /\ \E l \in DOMAIN @ : @[l].id = i
                           THEN [@[k] EXCEPT !.status = "delivered"] ELSE @[k]]]]

MarkDelivered(s, i) == Restated(s, i, {"read"}, "delivered")

MarkReadByPeer(s, p) ==
  [j \in DOMAIN s |-> IF s[j].peer # p THEN s[j] ELSE [s[j] EXCEPT !.msgs =
     [k \in DOMAIN @ |-> IF @[k].mine THEN [@[k] EXCEPT !.status = "read"] ELSE @[k]]]]

\* addContact: by fingerprint; an existing one keeps its flags.
Added(c, p, code) ==
  IF c[p] = NoContact THEN [c EXCEPT ![p] = [code |-> code, flags |-> {}]]
  ELSE [c EXCEPT ![p].code = @ \/ code]

AddContact(p) ==
  /\ mode # "down"
  /\ \E code \in BOOLEAN : contacts' = Added(contacts, p, code)
  /\ Notify
  /\ UNCHANGED <<chats, online, notes, mode, disk, tried, next, owner, files, runtimeVars, kills>>

\* removeWhere: the elements of s at the positions T, in their order.  The set has
\* this one element.
Kept(s, T) ==
  {[k \in DOMAIN f |-> s[f[k]]] :
     f \in {g \in [1 .. Cardinality(T) -> T] :
             \A a, b \in DOMAIN g : a < b => g[a] < g[b]}}

DeleteContact(p) ==
  /\ mode # "down" /\ Known(p)
  /\ contacts' = [contacts EXCEPT ![p] = NoContact]
  /\ chats' \in Kept(chats, DOMAIN chats \ ChatsWith(chats, p))
  /\ online' = online \ {p}
  /\ Notify
  /\ UNCHANGED <<notes, mode, disk, tried, next, owner, files, runtimeVars, kills>>

\* Variant: no check that the contact exists.
ToggleUnchecked(p, f) ==
  /\ mode # "down"
  /\ contacts' = [contacts EXCEPT ![p].flags =
                    IF f \in @ THEN @ \ {f} ELSE @ \cup {f}]
  /\ Notify
  /\ UNCHANGED <<chats, online, notes, mode, disk, tried, next, owner, files, runtimeVars, kills>>

\* toggleMute and toggleBlock.
Toggle(p, f) ==
  /\ mode # "down" /\ Known(p)
  /\ contacts' = [contacts EXCEPT ![p].flags =
                    IF f \in @ THEN @ \ {f} ELSE @ \cup {f}]
  /\ Notify
  /\ UNCHANGED <<chats, online, notes, mode, disk, tried, next, owner, files, runtimeVars, kills>>

StartChatWith(p) ==
  /\ mode # "down" /\ Known(p)
  /\ chats' = Opened(chats, p)
  /\ Notify
  /\ UNCHANGED <<contacts, online, notes, mode, disk, tried, next, owner, files, runtimeVars, kills>>

DeleteChat(j) ==
  /\ mode # "down" /\ j \in DOMAIN chats
  /\ chats' = RemoveAt(chats, j)
  /\ Notify
  /\ UNCHANGED <<contacts, online, notes, mode, disk, tried, next, owner, files, runtimeVars, kills>>

DeleteMessage(j, k) ==
  /\ mode # "down" /\ j \in DOMAIN chats /\ k \in DOMAIN chats[j].msgs
  /\ chats' = [chats EXCEPT ![j].msgs = RemoveAt(@, k)]
  /\ Notify
  /\ UNCHANGED <<contacts, online, notes, mode, disk, tried, next, owner, files, runtimeVars, kills>>

\* sendText and sendFile: with a runtime and a contact code the message is
\* handed over, otherwise it has failed.
Send(j, file) ==
  LET p == chats[j].peer
      i == next + 1
      given == mode \in {"live", "unsaved"} /\ contacts[p].code
      m == [id |-> i, mine |-> TRUE, status |-> IF given THEN "sending" ELSE "failed"]
  IN
  /\ mode # "down" /\ j \in DOMAIN chats
  /\ next < MaxOut
  /\ next' = i
  /\ owner' = [owner EXCEPT ![i] = p]
  /\ files' = IF file THEN files \cup {i} ELSE files
  /\ out' = IF given THEN [out EXCEPT ![i] = "queued"] ELSE out
  /\ chats' = MoveToTop([chats EXCEPT ![j].msgs = Append(@, m)], j)
  /\ Notify
  /\ UNCHANGED <<contacts, online, notes, mode, disk, tried, wrote, acked, readBy, events,
                 came, kills>>

\* markRead: the conversation is shown (its read receipt is the runtime's).
MarkRead(j) ==
  /\ mode # "down" /\ j \in DOMAIN chats /\ chats[j].unread # 0
  /\ chats' = [chats EXCEPT ![j].unread = 0]
  /\ Notify
  /\ UNCHANGED <<contacts, online, notes, mode, disk, tried, next, owner, files, runtimeVars, kills>>

-----------------------------------------------------------------------------
(* MessagingService: events *)

TakeEvent == events' = Tail(events)

\* _drain takes an event of one of the kinds.
Drained(kinds) ==
  /\ mode \in {"live", "unsaved"}
  /\ events # <<>> /\ Head(events).kind \in kinds
  /\ TakeEvent

\* Variant: the verdict is not passed on to the listeners.
DrainStatusSilent ==
  LET e == Head(events) IN
  /\ Drained({"sent", "sendFailed"})
  /\ chats' = SetStatus(chats, e.id, IF e.kind = "sent" THEN "sent" ELSE "failed")
  /\ UNCHANGED <<contacts, online, notes, mode, timer, disk, tried, next, owner, files, out,
                 wrote, acked, readBy, came, kills>>

\* Variant: failed sends are not reported to the store.
DrainSentOnly ==
  LET e == Head(events) IN
  /\ Drained({"sent", "sendFailed"})
  /\ chats' = IF e.kind = "sent" THEN SetStatus(chats, e.id, "sent") ELSE chats
  /\ Notify
  /\ UNCHANGED <<contacts, online, notes, mode, disk, tried, next, owner, files, out,
                 wrote, acked, readBy, came, kills>>

\* markSent and markFailed.
DrainStatus ==
  LET e == Head(events) IN
  /\ Drained({"sent", "sendFailed"})
  /\ chats' = SetStatus(chats, e.id, IF e.kind = "sent" THEN "sent" ELSE "failed")
  /\ IF Present(chats, e.id) THEN Notify ELSE UNCHANGED timer
  /\ UNCHANGED <<contacts, online, notes, mode, disk, tried, next, owner, files, out,
                 wrote, acked, readBy, came, kills>>

DrainReceipt ==
  LET e == Head(events) IN
  /\ Drained({"DELIVERED", "READ"})
  /\ chats' = IF e.kind = "DELIVERED" THEN MarkDelivered(chats, e.id)
              ELSE MarkReadByPeer(chats, e.peer)
  /\ IF chats' # chats THEN Notify ELSE UNCHANGED timer
  /\ UNCHANGED <<contacts, online, notes, mode, disk, tried, next, owner, files, out,
                 wrote, acked, readBy, came, kills>>

DrainPresence ==
  LET e == Head(events) IN
  /\ Drained({"online", "offline"})
  /\ online' = IF ~Known(e.peer) THEN online
               ELSE IF e.kind = "online" THEN online \cup {e.peer}
               ELSE online \ {e.peer}
  /\ IF online' # online THEN Notify ELSE UNCHANGED timer
  /\ UNCHANGED <<contacts, chats, notes, mode, disk, tried, next, owner, files, out,
                 wrote, acked, readBy, came, kills>>

\* receiveFromPeer and receiveFileFromPeer: an unknown peer becomes a contact
\* that can be replied to.
DrainMessage ==
  LET p == Head(events).peer
      s == Opened(chats, p)
      m == [id |-> 0, mine |-> FALSE, status |-> "sent"] IN
  /\ Drained({"message"})
  /\ contacts' = Added(contacts, p, TRUE)
  /\ chats' = [s EXCEPT ![1].msgs = Append(@, m), ![1].unread = @ + 1]
  /\ notes' = IF "muted" \in contacts'[p].flags THEN notes ELSE notes + 1
  /\ Notify
  /\ UNCHANGED <<online, mode, disk, tried, next, owner, files, out, wrote, acked, readBy,
                 came, kills>>

-----------------------------------------------------------------------------
(* MessagingService: the application's life and what it saves *)

\* _saveNow, 800 ms after the last change.  The error of a save that fails is
\* freed unread, and the save is not tried again: the state stays in memory.
SaveNow ==
  /\ mode = "live" /\ timer
  /\ timer' = FALSE
  /\ tried' = Snapshot
  /\ disk' \in {disk, Snapshot}
  /\ UNCHANGED <<storeVars, mode, next, owner, files, runtimeVars, kills>>

\* bootstrap: the runtime starts and the saved state is restored, or it does
\* not start and the application goes on without it.
Bootstrap ==
  /\ mode = "down"
  /\ \/ /\ mode' = "live"
        /\ contacts' = disk.contacts /\ chats' = disk.chats
     \/ /\ mode' = "degraded"
        /\ contacts' = [p \in Peers |-> NoContact] /\ chats' = <<>>
  /\ online' = {}
  /\ tried' = disk
  /\ UNCHANGED <<notes, timer, disk, next, owner, files, runtimeVars, kills>>

\* The onboarding screen's start: the hooks are wired, bootstrap is not run
\* again.
OnboardingStart ==
  /\ Repairs
  /\ mode = "degraded"
  /\ mode' = "unsaved"
  /\ UNCHANGED <<storeVars, timer, disk, tried, next, owner, files, runtimeVars, kills>>

\* The process ends: what was not saved is gone, and so is the runtime.
Kill ==
  /\ mode # "down"
  /\ kills < MaxKills
  /\ kills' = kills + 1
  /\ mode' = "down"
  /\ timer' = FALSE
  /\ contacts' = [p \in Peers |-> NoContact]
  /\ chats' = <<>> /\ online' = {} /\ notes' = 0
  /\ out' = [i \in Ids |-> IF out[i] \in {"queued", "written"} THEN "lost" ELSE out[i]]
  /\ events' = <<>>
  /\ UNCHANGED <<disk, tried, next, owner, files, wrote, acked, readBy, came>>

-----------------------------------------------------------------------------
(* The runtime, as the events of runtime.go make it look *)

Push(e) == events' = Append(events, e)

\* The runtime changes something else in its store, which writes the whole document
\* again, the state of a save that failed before included; its error is ignored.
Persist == disk' \in {disk, tried} /\ UNCHANGED tried

Running == mode \in {"live", "unsaved"}

\* The user saves the runtime's own settings, which are in the same document.
SetSettings ==
  /\ Running
  /\ Persist
  /\ UNCHANGED <<storeVars, mode, timer, next, owner, files, runtimeVars, kills>>

RtWrite(i) ==
  /\ Running /\ out[i] = "queued"
  /\ out' = [out EXCEPT ![i] = "written"]
  /\ wrote' = wrote \cup {i}
  /\ UNCHANGED <<storeVars, mode, timer, disk, tried, next, owner, files, acked, readBy,
                 events, came, kills>>

\* The message that was written is appended to the store.
RtSent(i) ==
  /\ Running /\ out[i] = "written"
  /\ out' = [out EXCEPT ![i] = "answered"]
  /\ Persist
  /\ Push([kind |-> "sent", id |-> i])
  /\ UNCHANGED <<storeVars, mode, timer, next, owner, files, wrote, acked, readBy,
                 came, kills>>

\* Of a file that fails the offer may have been written, and appended.
RtFail(i) ==
  /\ Running /\ out[i] = "queued"
  /\ out' = [out EXCEPT ![i] = "answered"]
  /\ IF i \in files THEN Persist ELSE UNCHANGED <<disk, tried>>
  /\ Push([kind |-> "sendFailed", id |-> i])
  /\ UNCHANGED <<storeVars, mode, timer, next, owner, files, wrote, acked, readBy,
                 came, kills>>

\* The DELIVERED receipt of a file names its offer, not the message.
RtDelivered(i) ==
  /\ Running /\ i \in wrote \ acked
  /\ acked' = acked \cup {i}
  /\ Push([kind |-> "DELIVERED", id |-> IF i \in files THEN 0 ELSE i])
  /\ UNCHANGED <<storeVars, mode, timer, disk, tried, next, owner, files, out, wrote, readBy,
                 came, kills>>

RtRead(i) ==
  /\ Running /\ i \in wrote \ readBy
  /\ readBy' = readBy \cup {i}
  /\ Push([kind |-> "READ", peer |-> owner[i]])
  /\ UNCHANGED <<storeVars, mode, timer, disk, tried, next, owner, files, out, wrote, acked,
                 came, kills>>

\* An inbound message, with the presence event of the link it came over.
RtMessage(p) ==
  /\ Running /\ came < MaxIn
  /\ came' = came + 1
  /\ \E k \in {"online", "offline"} :
       events' = events \o <<[kind |-> k, peer |-> p], [kind |-> "message", peer |-> p]>>
  /\ UNCHANGED <<storeVars, mode, timer, disk, tried, next, owner, files, out, wrote, acked,
                 readBy, kills>>

-----------------------------------------------------------------------------
Init ==
  /\ contacts = [p \in Peers |-> NoContact]
  /\ chats = <<>>
  /\ online = {}
  /\ notes = 0
  /\ mode = "down"
  /\ timer = FALSE
  /\ disk = Snapshot /\ tried = Snapshot
  /\ next = 0
  /\ owner = [i \in Ids |-> "none"]
  /\ files = {}
  /\ out = [i \in Ids |-> "new"]
  /\ wrote = {} /\ acked = {} /\ readBy = {}
  /\ events = <<>>
  /\ came = 0
  /\ kills = 0

UserStep ==
  \/ \E p \in Peers :
       \/ AddContact(p) \/ DeleteContact(p) \/ StartChatWith(p)
       \/ \E f \in Flags : Toggle(p, f)
  \/ \E j \in DOMAIN chats :
       \/ DeleteChat(j) \/ MarkRead(j)
       \/ \E file \in BOOLEAN : Send(j, file)
       \/ \E k \in DOMAIN chats[j].msgs : DeleteMessage(j, k)

Drain == DrainStatus \/ DrainReceipt \/ DrainPresence \/ DrainMessage

RuntimeStep(i) == RtWrite(i) \/ RtSent(i) \/ RtFail(i)

Next ==
  \/ UserStep \/ Drain
  \/ SaveNow \/ SetSettings \/ Bootstrap \/ OnboardingStart \/ Kill
  \/ \E i \in Ids : RuntimeStep(i) \/ RtDelivered(i) \/ RtRead(i)
  \/ \E p \in Peers : RtMessage(p)

Spec == Init /\ [][Next]_vars

\* The poll timer fires again and again.  Nothing is assumed of the runtime (its
\* worker may wait for ever) nor of the save timer (each change sets it back).
FairSpec == Spec /\ WF_vars(Drain)

-----------------------------------------------------------------------------
(* Properties *)

Messages(s) == UNION {{s[j].msgs[k] : k \in DOMAIN s[j].msgs} : j \in DOMAIN s}
Mine(s) == {m \in Messages(s) : m.mine}

\* Contacts, conversations and messages are well formed, and a contact shown
\* online is known.
TypeOK ==
  /\ \A p \in Peers : Known(p) => contacts[p] \in [code : BOOLEAN, flags : SUBSET Flags]
  /\ online \subseteq {p \in Peers : Known(p)}
  /\ mode \in {"down", "live", "degraded", "unsaved"}
  /\ timer \in BOOLEAN
  /\ \A j \in DOMAIN chats :
       chats[j] \in [peer : Peers, msgs : Seq(Messages(chats)), unread : 0 .. MaxIn]
  /\ \A m \in Mine(chats) : m.id \in 1 .. next /\ m.status \in Statuses
  /\ out \in [Ids -> {"new", "queued", "written", "answered", "lost"}]
  /\ readBy \cup acked \subseteq wrote

\* There is one conversation per contact and none without a contact, in memory
\* and on disk: what a screen opens for a contact is where its messages go.
OneChatPerContact ==
  \A s \in {[contacts |-> contacts, chats |-> chats], disk} :
    /\ \A i, j \in DOMAIN s.chats : s.chats[i].peer = s.chats[j].peer => i = j
    /\ \A i \in DOMAIN s.chats : s.contacts[s.chats[i].peer] # NoContact

\* While the service saves, whatever the store holds beyond what the last save
\* was given has a save scheduled: no handler changes persistent state silently.
\* (Of a save that failed nothing more is promised; see SaveNow.)
DirtyIsScheduled ==
  mode = "live" /\ Snapshot # tried => timer

\* "Delivered" and "failed" are told apart by what happened: a delivered message
\* was written to a link, a failed one never was.
StatusTruthful ==
  \A m \in Mine(chats) \cup Mine(disk.chats) :
    /\ m.status = "delivered" => m.id \in wrote
    /\ m.status = "failed" => m.id \notin wrote

Rank(status) ==
  CASE status \in {"sending", "failed"} -> 0
    [] status = "sent" -> 1
    [] status = "delivered" -> 2
    [] status = "read" -> 3

\* For a message present before and after a step: the status only rises.
Rises ==
  \A m \in Mine(chats), n \in Mine(chats') :
    m.id = n.id => Rank(m.status) <= Rank(n.status)

\* Receipts never lower the status of a message (the comment in markDelivered).
ReceiptsNeverRegress ==
  [][events # <<>> /\ Head(events).kind \in {"DELIVERED", "READ"}
       /\ events' = Tail(events) => Rises]_vars

\* No event lowers the status of a message already read (the comment in
\* markDelivered and the test of receipts).
ReadNeverRegresses ==
  [][\A m \in Mine(chats), n \in Mine(chats') :
       m.id = n.id /\ m.status = "read" => n.status = "read"]_vars

Pushed(i, kind) == \E j \in DOMAIN events : events[j].kind = kind /\ events[j].id = i
Shows(i, status) == \A m \in Mine(chats) : m.id = i => m.status = status

\* A verdict the runtime has pushed comes to be shown by its message, wherever
\* that is by then and whatever events are queued before it, unless the message
\* is deleted or the process ends first.
VerdictShown ==
  \A i \in Ids : /\ Pushed(i, "sent") ~> Shows(i, "sent")
                 /\ Pushed(i, "sendFailed") ~> Shows(i, "failed")

=============================================================================
