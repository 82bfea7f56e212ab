--------------------------- MODULE InboundMessage ---------------------------
(***************************************************************************)
(* handleIncomingMessage: a Message webhook of Evolution GO becomes a      *)
(* message of a Chatwoot conversation.  The webhooks of one contact, who   *)
(* may write to several instances; every webhook, a duplicate included, is *)
(* executed by a goroutine of its own, and nothing but Redis and Chatwoot  *)
(* orders them.                                                            *)
(*                                                                         *)
(* Each action is one Redis command, one SQL query or one HTTP exchange    *)
(* with Chatwoot, which is modelled as far as the code relies on it: one   *)
(* contact per phone number, conversations with an inbox, a status and the *)
(* evolution_instance attribute, 404 for what was deleted.  The operator   *)
(* may rebind an instance, agents may resolve and delete conversations or  *)
(* the contact at any time.                                                *)
(***************************************************************************)
EXTENDS Naturals, Sequences

CONSTANTS
  Webhooks,     \* executions of the handler
  Messages,     \* WhatsApp message ids
  Kinds,        \* what they may carry
  Instances, NoInstance,  \* WhatsApp numbers of the company
  Inboxes, NoInbox,
  MaxContacts,  \* bound: contacts ever created for the phone number
  MaxConvs,     \* bound: conversations ever created for it
  Faults        \* may HTTP exchanges, Redis commands or the process fail?
                \* (the write of the attribute may in any case)

ASSUME InboundAssumption ==
  /\ NoInbox \notin Inboxes /\ NoInstance \notin Instances
  /\ Kinds \subseteq {"text", "media", "unsupported"}
  /\ MaxContacts \in Nat /\ MaxConvs \in Nat
  /\ Faults \in BOOLEAN

VARIABLES
  kind,      \* what each message carries
  from,      \* the instance each message was written to
  marked,    \* ids with a processed: key in Redis
  binding,   \* chatwoot_inbox_id of each instance's row
  contact,   \* Chatwoot: the contact with the phone number, 0 for none
  contacts,  \* Chatwoot: contacts ever created
  convs,     \* Chatwoot: conversations ever created, by id
  copies,    \* Chatwoot: times each message was created, 2 for more
  pc, msg,   \* the executions: where each is, and the id it carries
  local,     \* the local variables of each
  overlapped, \* history: ids two executions of which were under way at once
  excused    \* history: ids whose deduplication a fault or expiry undid

payload == <<kind, from, msg>>
people == <<contact, contacts>>
chatwoot == <<people, convs, copies>>
history == <<overlapped, excused>>
vars == <<payload, marked, binding, chatwoot, pc, local, history>>

Convs == [contact : Nat, inbox : Inboxes, status : {"open", "resolved", "gone"},
          tag : Instances \cup {NoInstance}]

(* tagged is history: did Chatwoot store the attribute that the execution  *)
(* wrote in the conversation it has chosen.                                *)
Fresh == [inbox |-> NoInbox, contact |-> 0, conv |-> 0, recovering |-> FALSE, tagged |-> FALSE]

At(e, l) == pc[e] = l
Goto(e, l) == pc' = [pc EXCEPT ![e] = l]
UnderWay(e) == pc[e] \notin {"idle", "done"}

Init ==
  /\ kind \in [Messages -> Kinds]
  /\ from \in [Messages -> Instances]
  /\ marked = {}
  /\ binding \in [Instances -> Inboxes \cup {NoInbox}]
  /\ contact = 0 /\ contacts = 0 /\ convs = <<>>
  /\ copies = [m \in Messages |-> 0]
  /\ pc = [e \in Webhooks |-> "idle"]
  /\ msg \in [Webhooks -> Messages]
  /\ local = [e \in Webhooks |-> Fresh]
  /\ overlapped = {} /\ excused = {}

Return(e, l) == Goto(e, l) /\ local' = [local EXCEPT ![e] = Fresh]

(* The handler returns: its deferred call marks the id, but not after an   *)
(* error.                                                                  *)
Succeed(e) == Return(e, "mark")

MutFail(e) == Return(e, "mark")
Fail(e) == Return(e, "done")

----------------------------------------------------------------------------
(* IsProcessed.  An error of Redis is logged and the message processed.    *)
MutCheckProcessed(e) ==
  /\ At(e, "idle")
  /\ Goto(e, "route")
  /\ UNCHANGED <<payload, marked, binding, chatwoot, local, history>>

CheckProcessed(e) ==
  LET m == msg[e] IN
  /\ At(e, "idle")
  /\ \/ m \in marked /\ Goto(e, "done") /\ UNCHANGED history
     \/ /\ m \notin marked \/ Faults
        /\ Goto(e, "route")
        /\ overlapped' = IF \E d \in Webhooks \ {e} : UnderWay(d) /\ msg[d] = m
                         THEN overlapped \cup {m} ELSE overlapped
        /\ excused' = IF m \in marked THEN excused \cup {m} ELSE excused
  /\ UNCHANGED <<payload, marked, binding, chatwoot, local>>

(* FindByInstanceName; no bound inbox is an error.                         *)
Bound(e) == binding[from[msg[e]]]

MutRoute(e) ==
  /\ At(e, "route")
  /\ local' = [local EXCEPT ![e].inbox = Bound(e)]
  /\ Goto(e, "searchContact")
  /\ UNCHANGED <<payload, marked, binding, chatwoot, history>>

Route(e) ==
  /\ At(e, "route")
  /\ \/ /\ Bound(e) # NoInbox
        /\ local' = [local EXCEPT ![e].inbox = Bound(e)]
        /\ Goto(e, "searchContact")
     \/ (Bound(e) = NoInbox \/ Faults) /\ Fail(e)
  /\ UNCHANGED <<payload, marked, binding, chatwoot, history>>

(* FindOrCreateContact: search by phone number, then create; anything but  *)
(* a 200 counts as none found, and a 422 says that the contact exists, and *)
(* who it is.                                                              *)
UseContact(e, c) ==
  /\ local' = [local EXCEPT ![e].contact = c]
  /\ Goto(e, "searchConv")

SearchContact(e) ==
  /\ At(e, "searchContact")
  /\ \/ contact # 0 /\ UseContact(e, contact)
     \/ (contact = 0 \/ Faults) /\ Goto(e, "createContact") /\ UNCHANGED local
     \/ Faults /\ Fail(e)
  /\ UNCHANGED <<payload, marked, binding, chatwoot, history>>

CreateContact(e) ==
  /\ At(e, "createContact")
  /\ \/ /\ contact = 0 /\ contacts < MaxContacts
        /\ contacts' = contacts + 1 /\ contact' = contacts + 1
     \/ contact # 0 /\ UNCHANGED people
     \/ Faults /\ UNCHANGED people
  /\ \/ contact' # 0 /\ UseContact(e, contact')
     \/ Faults /\ Fail(e)
  /\ UNCHANGED <<payload, marked, binding, convs, copies, history>>

(* FindOrCreateConversation: an open (or pending) conversation of the      *)
(* contact in the inbox, or a new one.  Anything but a 200 counts as none  *)
(* found.                                                                  *)
Open(e) == {i \in DOMAIN convs : /\ convs[i].contact = local[e].contact
                                 /\ convs[i].inbox = local[e].inbox
                                 /\ convs[i].status = "open"}

UseConv(e, i) ==
  /\ local' = [local EXCEPT ![e].conv = i]
  /\ Goto(e, "prepare")

MutSearchConv(e) ==
  /\ At(e, "searchConv")
  /\ \/ \E i \in DOMAIN convs :
          /\ convs[i].contact = local[e].contact /\ convs[i].status = "open"
          /\ UseConv(e, i)
     \/ Open(e) = {} /\ Goto(e, "createConv") /\ UNCHANGED local
  /\ UNCHANGED <<payload, marked, binding, chatwoot, history>>

SearchConv(e) ==
  /\ At(e, "searchConv")
  /\ \/ \E i \in Open(e) : UseConv(e, i)
     \/ (Open(e) = {} \/ Faults) /\ Goto(e, "createConv") /\ UNCHANGED local
     \/ Faults /\ Fail(e)
  /\ UNCHANGED <<payload, marked, binding, chatwoot, history>>

(* The contact may have been deleted: an error.                            *)
CreateConv(e) ==
  LET l == local[e] IN
  /\ At(e, "createConv")
  /\ \/ /\ contact = l.contact /\ Len(convs) < MaxConvs
        /\ convs' = Append(convs, [contact |-> l.contact, inbox |-> l.inbox,
                                   status |-> "open", tag |-> NoInstance])
        /\ \/ UseConv(e, Len(convs'))
           \/ Faults /\ Fail(e)
     \/ (contact # l.contact \/ Faults) /\ Fail(e) /\ UNCHANGED convs
  /\ UNCHANGED <<payload, marked, binding, people, copies, history>>

(* SetCustomAttribute evolution_instance (of the other two attributes      *)
(* nothing is read back).  Nobody looks at its error, and it does not look *)
(* at the status of the answer: the conversation may be gone, the request  *)
(* may fail, and Chatwoot may answer it and drop a key that the account    *)
(* has no definition for, as this one, which the bridge never defines.     *)
SetTag(e, stored) ==
  LET i == local[e].conv IN
  \/ stored /\ convs[i].status # "gone" /\ convs' = [convs EXCEPT ![i].tag = from[msg[e]]]
  \/ ~stored /\ UNCHANGED convs

(* The attribute; then, without touching shared state, the content: an     *)
(* unsupported or empty one ends the handler without an error, a media may *)
(* fail to download or decrypt.  A recovery has its content already.       *)
MutPrepare(e) ==
  /\ At(e, "prepare")
  /\ \E stored \in BOOLEAN :
       /\ IF local[e].recovering THEN stored /\ UNCHANGED convs ELSE SetTag(e, stored)
       /\ \/ kind[msg[e]] = "unsupported" /\ Succeed(e)
          \/ /\ kind[msg[e]] # "unsupported"
             /\ Goto(e, "send") /\ local' = [local EXCEPT ![e].tagged = stored]
  /\ UNCHANGED <<payload, marked, binding, people, copies, history>>

Prepare(e) ==
  LET k == kind[msg[e]] IN
  /\ At(e, "prepare")
  /\ \E stored \in BOOLEAN :
       /\ SetTag(e, stored)
       /\ \/ k = "unsupported" /\ Succeed(e)
          \/ /\ k # "unsupported"
             /\ Goto(e, "send") /\ local' = [local EXCEPT ![e].tagged = stored]
          \/ k = "media" /\ ~local[e].recovering /\ Faults /\ Fail(e)
  /\ UNCHANGED <<payload, marked, binding, people, copies, history>>

(* CreateMessage or CreateMessageWithAttachment.  The first 404 restarts   *)
(* from the contact, with the inbox already resolved; the second one is an *)
(* error.  The answer may get lost after Chatwoot created the message, and *)
(* the HTTP client may then post it again.                                 *)
Deliver(m) == copies' = [copies EXCEPT ![m] = IF @ < 2 THEN @ + 1 ELSE 2]

Send(e) ==
  LET gone == convs[local[e].conv].status = "gone"
      m == msg[e]
  IN
  /\ At(e, "send")
  /\ \/ /\ ~gone /\ Deliver(m)
        /\ \/ Succeed(e) /\ UNCHANGED excused
           \/ /\ Faults /\ excused' = excused \cup {m}
              /\ Fail(e) \/ UNCHANGED <<pc, local>>
     \/ /\ gone /\ ~local[e].recovering
        /\ local' = [local EXCEPT ![e] =
                    [Fresh EXCEPT !.inbox = local[e].inbox, !.recovering = TRUE]]
        /\ Goto(e, "searchContact")
        /\ UNCHANGED <<copies, excused>>
     \/ /\ (gone /\ local[e].recovering) \/ Faults
        /\ Fail(e)
        /\ UNCHANGED <<copies, excused>>
  /\ UNCHANGED <<payload, marked, binding, people, convs, overlapped>>

(* The deferred MarkProcessed, when the handler returns no error.          *)
Mark(e) ==
  /\ At(e, "mark")
  /\ \/ marked' = marked \cup {msg[e]} /\ UNCHANGED excused
     \/ Faults /\ excused' = excused \cup {msg[e]} /\ UNCHANGED marked
  /\ Goto(e, "done")
  /\ UNCHANGED <<payload, binding, chatwoot, local, overlapped>>

----------------------------------------------------------------------------
(* The key expires after 24 hours.                                         *)
MarkExpires(m) ==
  /\ m \in marked
  /\ marked' = marked \ {m}
  /\ excused' = excused \cup {m}
  /\ UNCHANGED <<payload, binding, chatwoot, pc, local, overlapped>>

(* The process dies with its executions.                                   *)
Crash ==
  /\ Faults
  /\ pc' = [e \in Webhooks |-> IF UnderWay(e) THEN "done" ELSE pc[e]]
  /\ excused' = excused \cup {msg[e] : e \in {d \in Webhooks : At(d, "mark")}}
  /\ local' = [e \in Webhooks |-> Fresh]
  /\ UNCHANGED <<payload, marked, binding, chatwoot, overlapped>>

(* PUT and DELETE of an instance's inbox binding, by the operator; several *)
(* instances may share an inbox.                                           *)
Rebind ==
  /\ \E g \in Instances, i \in Inboxes \cup {NoInbox} :
       i # binding[g] /\ binding' = [binding EXCEPT ![g] = i]
  /\ UNCHANGED <<payload, marked, chatwoot, pc, local, history>>

(* In Chatwoot an agent resolves or deletes a conversation, or deletes the *)
(* contact and its conversations with it.                                  *)
Agent ==
  /\ \/ \E i \in DOMAIN convs, s \in {"resolved", "gone"} :
          /\ convs[i].status = "open"
          /\ convs' = [convs EXCEPT ![i].status = s]
          /\ UNCHANGED contact
     \/ /\ contact # 0 /\ contact' = 0
        /\ convs' = [i \in DOMAIN convs |-> [convs[i] EXCEPT !.status = "gone"]]
  /\ UNCHANGED <<payload, marked, binding, contacts, copies, pc, local, history>>

Handle(e) ==
  \/ CheckProcessed(e) \/ Route(e) \/ SearchContact(e) \/ CreateContact(e)
  \/ SearchConv(e) \/ CreateConv(e) \/ Prepare(e) \/ Send(e) \/ Mark(e)

Next ==
  \/ \E e \in Webhooks : Handle(e)
  \/ \E m \in Messages : MarkExpires(m)
  \/ Crash \/ Rebind \/ Agent

Spec == Init /\ [][Next]_vars

----------------------------------------------------------------------------
(* The types of the payloads, of Chatwoot and of an execution.             *)
PayloadTypes ==
  /\ kind \in [Messages -> Kinds] /\ from \in [Messages -> Instances]
  /\ msg \in [Webhooks -> Messages]
  /\ marked \subseteq Messages
  /\ overlapped \subseteq Messages /\ excused \subseteq Messages

ChatwootTypes ==
  /\ binding \in [Instances -> Inboxes \cup {NoInbox}]
  /\ contacts \in 0..MaxContacts /\ contact \in 0..contacts
  /\ convs \in Seq(Convs) /\ Len(convs) <= MaxConvs
  /\ copies \in [Messages -> 0..2]

Places ==
  {"idle", "route", "searchContact", "createContact", "searchConv", "createConv", "prepare",
   "send", "mark", "done"}

Locals ==
  [inbox : Inboxes \cup {NoInbox}, contact : 0..MaxContacts, conv : 0..MaxConvs,
   recovering : BOOLEAN, tagged : BOOLEAN]

(* Type invariant.                                                         *)
TypeOK ==
  /\ PayloadTypes /\ ChatwootTypes
  /\ pc \in [Webhooks -> Places] /\ local \in [Webhooks -> Locals]

(* An id is marked processed, and its duplicates are then dropped for a    *)
(* day, only once Chatwoot has the message or the bridge has decided not   *)
(* to forward it: no error path marks it (bridge.go, the deferred mark).   *)
MarkedIsSettled == \A m \in marked : copies[m] > 0 \/ kind[m] = "unsupported"

(* Chatwoot gets a message twice only if two webhooks with its id were     *)
(* executed at the same time, or a fault or the expiry of the key undid    *)
(* the deduplication.                                                      *)
DuplicateNeedsOverlap == \A m \in Messages : copies[m] > 1 => m \in overlapped \cup excused

(* A message goes to a conversation of the contact and of the inbox that   *)
(* was bound when its execution read the binding, through the recovery     *)
(* from a 404 as well, whatever the operator rebinds meanwhile.            *)
RoutedInbox ==
  \A e \in Webhooks : At(e, "send") =>
    LET c == convs[local[e].conv] IN
      c.inbox = local[e].inbox /\ c.contact = local[e].contact

(* The inductive strengthening the proofs use.  Whoever has passed Route   *)
(* keeps an inbox, and whoever has chosen a conversation one of that inbox *)
(* and its contact.                                                        *)
OnRoute ==
  \A e \in Webhooks :
    /\ pc[e] \in {"searchContact", "createContact", "searchConv", "createConv"} =>
         local[e].inbox \in Inboxes
    /\ pc[e] \in {"prepare", "send"} =>
         /\ local[e].conv \in DOMAIN convs
         /\ convs[local[e].conv].inbox = local[e].inbox
         /\ convs[local[e].conv].contact = local[e].contact

SettledAtMark ==
  \A e \in Webhooks : At(e, "mark") => copies[msg[e]] > 0 \/ kind[msg[e]] = "unsupported"

(* Without overlap and excuse an id has one execution under way at most,   *)
(* and none before its mark once Chatwoot has the message.                 *)
Carries(e, m) == UnderWay(e) /\ msg[e] = m

CreatedOnce ==
  \A m \in Messages \ (overlapped \cup excused) :
    /\ \A d, e \in Webhooks : Carries(d, m) /\ Carries(e, m) => d = e
    /\ copies[m] > 0 =>
         /\ copies[m] = 1
         /\ \A e \in Webhooks : Carries(e, m) => At(e, "mark")
         /\ m \in marked \/ \E e \in Webhooks : Carries(e, m)

IInv == TypeOK /\ MarkedIsSettled /\ OnRoute /\ SettledAtMark /\ CreatedOnce

(* What bridge.go:322 says of the deduplication: it protects against       *)
(* duplicated webhooks and race conditions.  Without faults and within the *)
(* life of the key, a message is created once.                             *)
NoDuplicate == \A m \in Messages : copies[m] > 1 => m \in excused

=============================================================================
