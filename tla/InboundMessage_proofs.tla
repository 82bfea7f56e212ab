------------------------ MODULE InboundMessage_proofs ------------------------
(***************************************************************************)
(* Theorems about InboundMessage, for any webhooks, messages, instances    *)
(* and inboxes, any number of contacts and conversations, with faults or   *)
(* without.                                                                *)
(***************************************************************************)
EXTENDS InboundMessage, TLAPS, SequenceTheorems

----------------------------------------------------------------------------
(* A conversation appended to Chatwoot's, and one that is updated.         *)
LEMMA ConvAppended ==
  ASSUME NEW s \in Seq(Convs), NEW c \in Convs
  PROVE  /\ Append(s, c) \in Seq(Convs) /\ Len(Append(s, c)) = Len(s) + 1
         /\ DOMAIN Append(s, c) = 1 .. (Len(s) + 1)
         /\ \A i \in DOMAIN s : i \in DOMAIN Append(s, c) /\ Append(s, c)[i] = s[i]
         /\ Append(s, c)[Len(s) + 1] = c
  BY AppendProperties, LenProperties

(* Conversations that change without one being added.                      *)
LEMMA ConvsUpdated ==
  ASSUME NEW s \in Seq(Convs), NEW t, DOMAIN t = DOMAIN s, t = [i \in DOMAIN t |-> t[i]],
         \A i \in DOMAIN s : t[i] \in Convs
  PROVE  t \in Seq(Convs) /\ Len(t) = Len(s)
<1>1. Len(s) \in Nat /\ DOMAIN t = 1 .. Len(s)
  BY LenProperties
<1>2. t \in [1 .. Len(s) -> Convs]
  BY <1>1
<1>3. t \in Seq(Convs)
  BY <1>1, <1>2
<1>4. QED
  BY <1>1, <1>3, LenProperties

(* The blank local variables are of their type.                            *)
LEMMA FreshLocals == Fresh \in Locals
  BY InboundAssumption DEF Fresh, Locals

----------------------------------------------------------------------------
(* What a step of an execution does to the places and the local variables: *)
(* the other executions keep theirs.                                       *)
LEMMA HandleLocals ==
  ASSUME TypeOK, OnRoute, NEW e \in Webhooks, Handle(e)
  PROVE  /\ \E l \in Places \ {"idle"} : pc' = [pc EXCEPT ![e] = l]
         /\ \E v \in Locals : local' = [local EXCEPT ![e] = v]
<1> USE DEF At, Goto
<1>1. /\ PayloadTypes /\ ChatwootTypes /\ local[e] \in Locals
      /\ local = [local EXCEPT ![e] = local[e]] /\ pc \in [Webhooks -> Places]
      /\ pc = [pc EXCEPT ![e] = pc[e]]
  BY DEF TypeOK
<1>2. CASE CheckProcessed(e)
  BY <1>1, <1>2 DEF CheckProcessed, Places
<1>3. CASE Route(e)
  <2>1. CASE Fail(e)
    BY <2>1, FreshLocals DEF Fail, Return, Places
  <2>2. CASE local' = [local EXCEPT ![e].inbox = Bound(e)] /\ Goto(e, "searchContact")
    <3>1. Bound(e) \in Inboxes \cup {NoInbox}
      BY <1>1 DEF Bound, PayloadTypes, ChatwootTypes
    <3>2. [local[e] EXCEPT !.inbox = Bound(e)] \in Locals
      BY <1>1, <3>1 DEF Locals
    <3>3. local' = [local EXCEPT ![e] = [local[e] EXCEPT !.inbox = Bound(e)]]
      BY <2>2
    <3>4. QED
      BY <2>2, <3>2, <3>3 DEF Places
  <2>3. QED
    BY <1>3, <2>1, <2>2 DEF Route
<1>4. ASSUME NEW c \in 0..MaxContacts, UseContact(e, c)
      PROVE  /\ \E l \in Places \ {"idle"} : pc' = [pc EXCEPT ![e] = l]
             /\ \E v \in Locals : local' = [local EXCEPT ![e] = v]
  <2>1. [local[e] EXCEPT !.contact = c] \in Locals
    BY <1>1, <1>4 DEF Locals
  <2>2. local' = [local EXCEPT ![e] = [local[e] EXCEPT !.contact = c]]
    BY <1>4 DEF UseContact
  <2>3. QED
    BY <1>4, <2>1, <2>2 DEF UseContact, Places
<1>5. CASE SearchContact(e)
  <2>1. contact \in 0..MaxContacts
    BY <1>1, InboundAssumption DEF ChatwootTypes
  <2>2. QED
    BY <1>1, <1>4, <1>5, <2>1, FreshLocals DEF SearchContact, Fail, Return, Places
<1>6. CASE CreateContact(e)
  <2>1. contact' \in 0..MaxContacts
    BY <1>1, <1>6, InboundAssumption DEF CreateContact, ChatwootTypes, people
  <2>2. QED
    BY <1>4, <1>6, <2>1, FreshLocals DEF CreateContact, Fail, Return, Places
<1>7. ASSUME NEW i \in 0..MaxConvs, UseConv(e, i)
      PROVE  /\ \E l \in Places \ {"idle"} : pc' = [pc EXCEPT ![e] = l]
             /\ \E v \in Locals : local' = [local EXCEPT ![e] = v]
  <2>1. [local[e] EXCEPT !.conv = i] \in Locals
    BY <1>1, <1>7 DEF Locals
  <2>2. local' = [local EXCEPT ![e] = [local[e] EXCEPT !.conv = i]]
    BY <1>7 DEF UseConv
  <2>3. QED
    BY <1>7, <2>1, <2>2 DEF UseConv, Places
<1>8. CASE SearchConv(e)
  <2>1. \A i \in Open(e) : i \in 0..MaxConvs
    BY <1>1, LenProperties, InboundAssumption DEF Open, ChatwootTypes
  <2>2. QED
    BY <1>1, <1>7, <1>8, <2>1, FreshLocals DEF SearchConv, Fail, Return, Places
<1>9. CASE CreateConv(e)
  <2>1. ASSUME UseConv(e, Len(convs')), Len(convs) < MaxConvs,
               convs' = Append(convs, [contact |-> local[e].contact, inbox |-> local[e].inbox,
                                       status |-> "open", tag |-> NoInstance])
        PROVE  Len(convs') \in 0..MaxConvs
    BY <1>1, <2>1, AppendProperties, LenProperties, InboundAssumption DEF ChatwootTypes
  <2>2. QED
    BY <1>7, <1>9, <2>1, FreshLocals DEF CreateConv, Fail, Return, Places
<1>10. CASE Prepare(e)
  <2>1. CASE Succeed(e) \/ Fail(e)
    BY <2>1, FreshLocals DEF Succeed, Fail, Return, Places
  <2>2. ASSUME NEW b \in BOOLEAN, local' = [local EXCEPT ![e].tagged = b]
        PROVE  \E v \in Locals : local' = [local EXCEPT ![e] = v]
    <3>1. [local[e] EXCEPT !.tagged = b] \in Locals
      BY <1>1 DEF Locals
    <3>2. local' = [local EXCEPT ![e] = [local[e] EXCEPT !.tagged = b]]
      BY <2>2
    <3>3. QED
      BY <3>1, <3>2
  <2>3. QED
    BY <1>10, <2>1, <2>2 DEF Prepare, Places
<1>11. CASE Send(e)
  <2>1. [Fresh EXCEPT !.inbox = local[e].inbox, !.recovering = TRUE] \in Locals
    BY <1>1, FreshLocals DEF Locals
  <2>2. CASE Succeed(e) \/ Fail(e)
    BY <2>2, FreshLocals DEF Succeed, Fail, Return, Places
  <2>3. CASE UNCHANGED <<pc, local>>
    BY <1>1, <1>11, <2>3 DEF Send, Places
  <2>4. QED
    BY <1>11, <2>1, <2>2, <2>3 DEF Send, Places
<1>12. CASE Mark(e)
  BY <1>1, <1>12 DEF Mark, Places
<1>13. QED
  BY <1>2, <1>3, <1>5, <1>6, <1>8, <1>9, <1>10, <1>11, <1>12 DEF Handle

(* What a step of an execution may do to the conversations: add one, or    *)
(* set the attribute of one.                                               *)
LEMMA HandleConvs ==
  ASSUME TypeOK, OnRoute, NEW e \in Webhooks, Handle(e)
  PROVE  /\ convs' \in Seq(Convs) /\ Len(convs') <= MaxConvs
         /\ \A i \in DOMAIN convs :
              /\ i \in DOMAIN convs'
              /\ convs'[i].inbox = convs[i].inbox /\ convs'[i].contact = convs[i].contact
              /\ convs'[i].status = convs[i].status
<1>1. /\ PayloadTypes /\ ChatwootTypes /\ local[e] \in Locals
      /\ convs \in Seq(Convs) /\ Len(convs) \in Nat /\ Len(convs) <= MaxConvs
      /\ DOMAIN convs = 1 .. Len(convs)
  BY LenProperties DEF TypeOK, ChatwootTypes
<1>2. CASE UNCHANGED convs
  BY <1>1, <1>2
<1>3. CASE CreateConv(e)
  <2> DEFINE c == [contact |-> local[e].contact, inbox |-> local[e].inbox,
                   status |-> "open", tag |-> NoInstance]
  <2>1. CASE convs' = Append(convs, c) /\ Len(convs) < MaxConvs
    <3>1. local[e].inbox \in Inboxes
      BY <1>3 DEF CreateConv, At, OnRoute
    <3>2. c \in Convs
      BY <1>1, <3>1, InboundAssumption DEF Convs, Locals
    <3> HIDE DEF c
    <3>3. QED
      BY <1>1, <2>1, <3>2, ConvAppended, InboundAssumption
  <2>2. QED
    BY <1>2, <1>3, <2>1 DEF CreateConv
<1>4. CASE Prepare(e)
  <2> DEFINE i == local[e].conv
  <2>1. CASE convs' = [convs EXCEPT ![i].tag = from[msg[e]]]
    <3>1. i \in DOMAIN convs /\ convs[i] \in Convs
      BY <1>1, <1>4, ElementOfSeq DEF Prepare, At, OnRoute
    <3>2. from[msg[e]] \in Instances
      BY <1>1 DEF PayloadTypes
    <3> DEFINE c == [convs[i] EXCEPT !.tag = from[msg[e]]]
    <3>3. /\ c \in Convs /\ c.inbox = convs[i].inbox
          /\ c.contact = convs[i].contact /\ c.status = convs[i].status
      BY <3>1, <3>2 DEF Convs
    <3>4. convs' = [convs EXCEPT ![i] = c]
      BY <2>1
    <3> HIDE DEF c
    <3>5. convs' \in Seq(Convs) /\ Len(convs') = Len(convs)
      BY <1>1, <3>1, <3>3, <3>4, ExceptSeq
    <3>6. QED
      BY <1>1, <3>1, <3>3, <3>4, <3>5, LenProperties
  <2>2. QED
    BY <1>2, <1>4, <2>1 DEF Prepare, SetTag
<1>5. QED
  BY <1>2, <1>3, <1>4
  DEF Handle, CheckProcessed, Route, SearchContact, CreateContact, SearchConv, Send, Mark, chatwoot

(* An agent in Chatwoot changes no conversation's contact or inbox, and    *)
(* what is deleted stays so.                                               *)
LEMMA AgentConvs ==
  ASSUME TypeOK, Agent
  PROVE  /\ convs' \in Seq(Convs) /\ Len(convs') = Len(convs)
         /\ \A i \in DOMAIN convs :
              /\ i \in DOMAIN convs'
              /\ convs'[i].inbox = convs[i].inbox /\ convs'[i].contact = convs[i].contact
              /\ convs'[i].tag = convs[i].tag
              /\ convs[i].status = "gone" => convs'[i].status = "gone"
<1>1. /\ convs \in Seq(Convs) /\ Len(convs) \in Nat
      /\ DOMAIN convs = 1 .. Len(convs)
      /\ \A i \in DOMAIN convs : convs[i] \in Convs
  BY LenProperties, ElementOfSeq DEF TypeOK, ChatwootTypes
<1>2. ASSUME NEW i \in DOMAIN convs, NEW s \in {"resolved", "gone"}, convs[i].status = "open",
             convs' = [convs EXCEPT ![i].status = s]
      PROVE  /\ convs' \in Seq(Convs) /\ Len(convs') = Len(convs)
             /\ \A k \in DOMAIN convs :
                  /\ k \in DOMAIN convs'
                  /\ convs'[k].inbox = convs[k].inbox /\ convs'[k].contact = convs[k].contact
                  /\ convs'[k].tag = convs[k].tag
                  /\ convs[k].status = "gone" => convs'[k].status = "gone"
  <2> DEFINE c == [convs[i] EXCEPT !.status = s]
  <2>1. c \in Convs /\ c.inbox = convs[i].inbox /\ c.contact = convs[i].contact
        /\ c.tag = convs[i].tag
    BY <1>1 DEF Convs
  <2>2. convs' = [convs EXCEPT ![i] = c]
    BY <1>2
  <2> HIDE DEF c
  <2>3. convs' \in Seq(Convs) /\ Len(convs') = Len(convs)
    BY <1>1, <2>1, <2>2, ExceptSeq
  <2>4. QED
    BY <1>1, <1>2, <2>1, <2>2, <2>3, LenProperties
<1>3. CASE convs' = [i \in DOMAIN convs |-> [convs[i] EXCEPT !.status = "gone"]]
  <2>1. DOMAIN convs' = DOMAIN convs /\ convs' = [i \in DOMAIN convs' |-> convs'[i]]
    BY <1>3
  <2>2. \A i \in DOMAIN convs :
          /\ convs'[i] \in Convs
          /\ convs'[i].inbox = convs[i].inbox /\ convs'[i].contact = convs[i].contact
          /\ convs'[i].tag = convs[i].tag /\ convs'[i].status = "gone"
    BY <1>1, <1>3 DEF Convs
  <2>3. convs' \in Seq(Convs) /\ Len(convs') = Len(convs)
    BY <1>1, <2>1, <2>2, ConvsUpdated
  <2>4. QED
    BY <2>1, <2>2, <2>3
<1>4. QED
  BY <1>2, <1>3 DEF Agent

----------------------------------------------------------------------------
(* Every step keeps the types.                                             *)
LEMMA TypeStep ==
  ASSUME TypeOK, OnRoute, [Next]_vars
  PROVE  TypeOK'
<1> USE DEF payload, people, chatwoot, history
<1>1. /\ PayloadTypes /\ ChatwootTypes
      /\ pc \in [Webhooks -> Places] /\ local \in [Webhooks -> Locals]
  BY DEF TypeOK
<1>2. PayloadTypes'
  <2>1. UNCHANGED payload
    BY DEF Next, Handle, CheckProcessed, Route, SearchContact, CreateContact, SearchConv, CreateConv,
       Prepare, Send, Mark, MarkExpires, Crash, Rebind, Agent, vars
  <2>2. ASSUME NEW e \in Webhooks, Handle(e)
        PROVE  /\ marked' \in {marked, marked \cup {msg[e]}}
               /\ overlapped' \in {overlapped, overlapped \cup {msg[e]}}
               /\ excused' \in {excused, excused \cup {msg[e]}}
    BY <2>2 DEF Handle, CheckProcessed, Route, SearchContact, CreateContact, SearchConv, CreateConv,
       Prepare, Send, Mark
  <2>3. marked' \subseteq Messages /\ overlapped' \subseteq Messages /\ excused' \subseteq Messages
    <3>1. ASSUME NEW e \in Webhooks, Handle(e)
          PROVE  marked' \subseteq Messages /\ overlapped' \subseteq Messages
                 /\ excused' \subseteq Messages
      BY <1>1, <2>2, <3>1 DEF PayloadTypes
    <3>2. CASE ~\E e \in Webhooks : Handle(e)
      BY <1>1, <3>2 DEF PayloadTypes, Next, MarkExpires, Crash, Rebind, Agent, vars
    <3>3. QED
      BY <3>1, <3>2
  <2>4. kind' = kind /\ from' = from /\ msg' = msg
    BY <2>1
  <2>5. QED
    BY <1>1, <2>3, <2>4 DEF PayloadTypes
<1>3. ChatwootTypes'
  <2>1. convs' \in Seq(Convs) /\ Len(convs') <= MaxConvs
    BY <1>1, HandleConvs, AgentConvs
    DEF Next, MarkExpires, Crash, Rebind, vars, ChatwootTypes
  <2>2. contacts' \in 0..MaxContacts /\ contact' \in 0..contacts'
    <3>1. ASSUME NEW e \in Webhooks, CreateContact(e)
          PROVE  contacts' \in 0..MaxContacts /\ contact' \in 0..contacts'
      BY <1>1, <3>1, InboundAssumption DEF ChatwootTypes, CreateContact
    <3>2. CASE Agent
      BY <1>1, <3>2, InboundAssumption DEF ChatwootTypes, Agent
    <3>3. CASE UNCHANGED <<contact, contacts>>
      BY <1>1, <3>3 DEF ChatwootTypes
    <3>4. QED
      BY <3>1, <3>2, <3>3
      DEF Next, Handle, CheckProcessed, Route, SearchContact, SearchConv, CreateConv, Prepare, Send,
          Mark, MarkExpires, Crash, Rebind, vars
  <2>3. binding' \in [Instances -> Inboxes \cup {NoInbox}]
    BY <1>1
    DEF ChatwootTypes, Next, Handle, CheckProcessed, Route, SearchContact, CreateContact, SearchConv,
        CreateConv, Prepare, Send, Mark, MarkExpires, Crash, Rebind, Agent, vars
  <2>4. copies' \in [Messages -> 0..2]
    <3>1. ASSUME NEW e \in Webhooks, Send(e) PROVE copies' \in [Messages -> 0..2]
      BY <1>1, <3>1 DEF Send, Deliver, ChatwootTypes
    <3>2. CASE ~\E e \in Webhooks : Send(e)
      BY <1>1, <3>2
      DEF ChatwootTypes, Next, Handle, CheckProcessed, Route, SearchContact, CreateContact,
          SearchConv, CreateConv, Prepare, Mark, MarkExpires, Crash, Rebind, Agent, vars
    <3>3. QED
      BY <3>1, <3>2
  <2>5. QED
    BY <2>1, <2>2, <2>3, <2>4 DEF ChatwootTypes
<1>4. pc' \in [Webhooks -> Places] /\ local' \in [Webhooks -> Locals]
  <2>1. ASSUME NEW e \in Webhooks, Handle(e)
        PROVE  pc' \in [Webhooks -> Places] /\ local' \in [Webhooks -> Locals]
    BY <1>1, <2>1, HandleLocals
  <2>2. CASE Crash
    <3>1. "done" \in Places
      BY DEF Places
    <3>2. QED
      BY <1>1, <2>2, <3>1, FreshLocals DEF Crash
  <2>3. QED
    BY <1>1, <2>1, <2>2 DEF Next, MarkExpires, Rebind, Agent, vars
<1>5. QED
  BY <1>2, <1>3, <1>4 DEF TypeOK

(* Once an execution has its inbox it keeps it, and its conversation is    *)
(* one of that inbox, through a recovery as well.                          *)
LEMMA RouteStep ==
  ASSUME TypeOK, OnRoute, [Next]_vars
  PROVE  OnRoute'
<1> USE DEF At, Goto, payload, people, chatwoot, history
<1>1. /\ PayloadTypes /\ ChatwootTypes /\ OnRoute
      /\ pc \in [Webhooks -> Places] /\ local \in [Webhooks -> Locals]
  BY DEF TypeOK
<1>2. ASSUME \A i \in DOMAIN convs :
               /\ i \in DOMAIN convs'
               /\ convs'[i].inbox = convs[i].inbox /\ convs'[i].contact = convs[i].contact,
             NEW d \in Webhooks, pc'[d] = pc[d], local'[d] = local[d]
      PROVE  /\ pc'[d] \in {"searchContact", "createContact", "searchConv", "createConv"} =>
                  local'[d].inbox \in Inboxes
             /\ pc'[d] \in {"prepare", "send"} =>
                  /\ local'[d].conv \in DOMAIN convs'
                  /\ convs'[local'[d].conv].inbox = local'[d].inbox
                  /\ convs'[local'[d].conv].contact = local'[d].contact
  BY <1>1, <1>2 DEF OnRoute
<1>3. ASSUME NEW e \in Webhooks, Handle(e) PROVE OnRoute'
  <2>1. /\ \A i \in DOMAIN convs :
             /\ i \in DOMAIN convs'
             /\ convs'[i].inbox = convs[i].inbox /\ convs'[i].contact = convs[i].contact
        /\ \A d \in Webhooks \ {e} : pc'[d] = pc[d] /\ local'[d] = local[d]
    BY <1>1, <1>3, HandleLocals, HandleConvs
  <2> SUFFICES
        /\ pc'[e] \in {"searchContact", "createContact", "searchConv", "createConv"} =>
             local'[e].inbox \in Inboxes
        /\ pc'[e] \in {"prepare", "send"} =>
             /\ local'[e].conv \in DOMAIN convs'
             /\ convs'[local'[e].conv].inbox = local'[e].inbox
             /\ convs'[local'[e].conv].contact = local'[e].contact
    <3>1. \A d \in Webhooks \ {e} :
            /\ pc'[d] \in {"searchContact", "createContact", "searchConv", "createConv"} =>
                 local'[d].inbox \in Inboxes
            /\ pc'[d] \in {"prepare", "send"} =>
                 /\ local'[d].conv \in DOMAIN convs'
                 /\ convs'[local'[d].conv].inbox = local'[d].inbox
                 /\ convs'[local'[d].conv].contact = local'[d].contact
      BY <1>2, <2>1
    <3>2. QED
      BY <3>1 DEF OnRoute
  <2>2. local[e] \in Locals
    BY <1>1
  <2>3. CASE CheckProcessed(e) \/ Mark(e)
    BY <1>1, <2>3 DEF CheckProcessed, Mark
  <2>4. CASE Succeed(e) \/ Fail(e)
    BY <1>1, <2>4 DEF Succeed, Fail, Return
  <2>5. CASE Route(e)
    <3>1. Bound(e) \in Inboxes \cup {NoInbox}
      BY <1>1 DEF Bound, PayloadTypes, ChatwootTypes
    <3>2. CASE Bound(e) # NoInbox /\ local' = [local EXCEPT ![e].inbox = Bound(e)]
               /\ Goto(e, "searchContact")
      BY <1>1, <2>2, <3>1, <3>2 DEF Locals
    <3>3. QED
      BY <2>4, <2>5, <3>2 DEF Route
  <2>6. CASE SearchContact(e) \/ CreateContact(e)
    <3>1. local[e].inbox \in Inboxes
      BY <1>1, <2>6 DEF SearchContact, CreateContact, OnRoute
    <3>2. ASSUME NEW c, UseContact(e, c)
          PROVE  local'[e].inbox = local[e].inbox /\ pc'[e] = "searchConv"
      BY <1>1, <2>2, <3>2 DEF UseContact, Locals
    <3>3. CASE Goto(e, "createContact") /\ UNCHANGED local
      BY <1>1, <3>1, <3>3
    <3>4. QED
      BY <2>4, <2>6, <3>1, <3>2, <3>3 DEF SearchContact, CreateContact
  <2>7. CASE SearchConv(e)
    <3>1. local[e].inbox \in Inboxes
      BY <1>1, <2>7 DEF SearchConv, OnRoute
    <3>2. ASSUME NEW i \in Open(e), UseConv(e, i)
          PROVE  /\ pc'[e] = "prepare" /\ local'[e].conv = i /\ i \in DOMAIN convs
                 /\ local'[e].inbox = convs[i].inbox /\ local'[e].contact = convs[i].contact
      BY <1>1, <2>2, <3>2 DEF UseConv, Locals, Open
    <3>3. CASE Goto(e, "createConv") /\ UNCHANGED local
      BY <1>1, <3>1, <3>3
    <3>4. QED
      BY <2>1, <2>4, <2>7, <3>2, <3>3 DEF SearchConv
  <2>8. CASE CreateConv(e)
    <3> DEFINE c == [contact |-> local[e].contact, inbox |-> local[e].inbox,
                     status |-> "open", tag |-> NoInstance]
    <3>1. local[e].inbox \in Inboxes
      BY <2>8 DEF CreateConv, OnRoute
    <3>2. CASE convs' = Append(convs, c) /\ UseConv(e, Len(convs'))
      <4>1. /\ pc'[e] = "prepare" /\ local'[e].conv = Len(convs')
            /\ local'[e].inbox = local[e].inbox /\ local'[e].contact = local[e].contact
        BY <1>1, <2>2, <3>2 DEF UseConv, Locals
      <4>2. c \in Convs /\ c.inbox = local[e].inbox /\ c.contact = local[e].contact
        BY <2>2, <3>1, InboundAssumption DEF Convs, Locals
      <4> HIDE DEF c
      <4>3. Len(convs') \in DOMAIN convs' /\ convs'[Len(convs')] = c
        BY <1>1, <3>2, <4>2, ConvAppended, LenProperties DEF ChatwootTypes
      <4>4. QED
        BY <4>1, <4>2, <4>3
    <3>3. QED
      BY <2>4, <2>8, <3>2 DEF CreateConv
  <2>9. CASE Prepare(e)
    <3>1. ASSUME NEW b \in BOOLEAN, Goto(e, "send"), local' = [local EXCEPT ![e].tagged = b]
          PROVE  /\ local'[e].conv \in DOMAIN convs'
                 /\ convs'[local'[e].conv].inbox = local'[e].inbox
                 /\ convs'[local'[e].conv].contact = local'[e].contact
                 /\ pc'[e] = "send"
      <4>1. /\ pc[e] = "prepare" /\ pc'[e] = "send" /\ local'[e].conv = local[e].conv
            /\ local'[e].inbox = local[e].inbox /\ local'[e].contact = local[e].contact
        BY <1>1, <2>2, <2>9, <3>1 DEF Prepare, Locals
      <4>2. QED
        BY <1>1, <2>1, <4>1 DEF OnRoute
    <3>2. QED
      BY <2>4, <2>9, <3>1 DEF Prepare
  <2>10. CASE Send(e)
    <3>1. local[e].inbox \in Inboxes
      <4>1. local[e].conv \in DOMAIN convs /\ convs[local[e].conv].inbox = local[e].inbox
        BY <2>10 DEF Send, OnRoute
      <4>2. convs[local[e].conv] \in Convs
        BY <1>1, <4>1, ElementOfSeq, LenProperties DEF ChatwootTypes
      <4>3. QED
        BY <4>1, <4>2 DEF Convs
    <3>2. CASE /\ local' = [local EXCEPT ![e] =
                           [Fresh EXCEPT !.inbox = local[e].inbox, !.recovering = TRUE]]
               /\ Goto(e, "searchContact")
      BY <1>1, <3>1, <3>2 DEF Fresh
    <3>3. CASE UNCHANGED <<pc, local>>
      BY <1>2, <2>1, <3>3
    <3>4. QED
      BY <2>4, <2>10, <3>2, <3>3 DEF Send
  <2>11. QED
    BY <1>3, <2>3, <2>5, <2>6, <2>7, <2>8, <2>9, <2>10 DEF Handle
<1>4. CASE Agent
  BY <1>2, <1>4, AgentConvs DEF Agent, OnRoute
<1>5. CASE Crash
  BY <1>1, <1>5 DEF Crash, OnRoute, UnderWay
<1>6. CASE Rebind \/ UNCHANGED vars \/ \E m \in Messages : MarkExpires(m)
  BY <1>2, <1>6 DEF Rebind, MarkExpires, vars, OnRoute
<1>7. QED
  BY <1>3, <1>4, <1>5, <1>6 DEF Next

(* Nothing is marked, or about to be, that is not settled: no error path   *)
(* leads to the deferred mark.                                             *)
LEMMA SettledStep ==
  ASSUME TypeOK, OnRoute, MarkedIsSettled, SettledAtMark, [Next]_vars
  PROVE  MarkedIsSettled' /\ SettledAtMark'
<1> USE DEF At, Goto, payload, chatwoot, history
<1>1. /\ PayloadTypes /\ ChatwootTypes /\ MarkedIsSettled /\ SettledAtMark
      /\ pc \in [Webhooks -> Places]
  BY DEF TypeOK
<1>2. CASE UNCHANGED <<payload, copies>> /\ marked' \subseteq marked
           /\ \A e \in Webhooks : pc'[e] = "mark" => pc[e] = "mark"
  BY <1>1, <1>2 DEF MarkedIsSettled, SettledAtMark
<1>3. ASSUME NEW e \in Webhooks, Handle(e) PROVE MarkedIsSettled' /\ SettledAtMark'
  <2>1. \A d \in Webhooks \ {e} : pc'[d] = pc[d]
    BY <1>1, <1>3, HandleLocals
  <2>2. CASE Send(e)
    <3>1. /\ UNCHANGED <<payload, marked>>
          /\ \A m \in Messages : copies[m] > 0 => copies'[m] > 0
          /\ pc'[e] = "mark" => copies'[msg[e]] > 0
      BY <1>1, <2>2 DEF Send, Succeed, Fail, Return, Deliver, PayloadTypes, ChatwootTypes
    <3>2. QED
      BY <1>1, <2>1, <3>1 DEF MarkedIsSettled, SettledAtMark, PayloadTypes
  <2>3. CASE Mark(e)
    <3>1. /\ UNCHANGED <<payload, copies>> /\ marked' \subseteq marked \cup {msg[e]}
          /\ pc[e] = "mark" /\ pc'[e] = "done"
      BY <1>1, <2>3 DEF Mark
    <3>2. QED
      BY <1>1, <2>1, <3>1 DEF MarkedIsSettled, SettledAtMark
  <2>4. CASE Prepare(e)
    <3>1. /\ UNCHANGED <<payload, marked, copies>>
          /\ pc'[e] = "mark" => kind[msg[e]] = "unsupported"
      BY <1>1, <2>4 DEF Prepare, Succeed, Fail, Return
    <3>2. QED
      BY <1>1, <2>1, <3>1 DEF MarkedIsSettled, SettledAtMark
  <2>5. CASE ~Send(e) /\ ~Mark(e) /\ ~Prepare(e)
    <3>1. pc'[e] # "mark" /\ UNCHANGED <<payload, marked, copies>>
      BY <1>1, <1>3, <2>5 DEF Handle, CheckProcessed, Route, SearchContact, CreateContact, UseContact,
         SearchConv, UseConv, CreateConv, Fail, Return
    <3>2. QED
      BY <1>2, <2>1, <3>1
  <2>6. QED
    BY <2>2, <2>3, <2>4, <2>5
<1>4. CASE Crash
  BY <1>1, <1>2, <1>4 DEF Crash
<1>5. QED
  BY <1>2, <1>3, <1>4 DEF Next, MarkExpires, Rebind, Agent, vars

(* The deduplication works as long as executions of one id do not overlap  *)
(* and its key is neither lost nor expired.                                *)
LEMMA CreatedStep ==
  ASSUME TypeOK, OnRoute, CreatedOnce, [Next]_vars
  PROVE  CreatedOnce'
<1>1. /\ PayloadTypes /\ ChatwootTypes /\ CreatedOnce
      /\ pc \in [Webhooks -> Places]
  BY DEF TypeOK
<1> USE DEF At, Goto, payload, chatwoot, history, UnderWay, Carries
<1>2. /\ UNCHANGED msg
      /\ overlapped \subseteq overlapped' /\ excused \subseteq excused'
  BY DEF Next, Handle, CheckProcessed, Route, SearchContact, CreateContact, SearchConv, CreateConv,
     Prepare, Send, Mark, MarkExpires, Crash, Rebind, Agent, vars
<1> SUFFICES ASSUME NEW m \in Messages, m \notin overlapped' \cup excused'
             PROVE  /\ \A d, e \in Webhooks : Carries(d, m)' /\ Carries(e, m)' => d = e
                    /\ copies'[m] > 0 =>
                         /\ copies'[m] = 1
                         /\ \A e \in Webhooks : Carries(e, m)' => pc'[e] = "mark"
                         /\ m \in marked' \/ \E e \in Webhooks : Carries(e, m)'
  BY DEF CreatedOnce
<1>3. /\ \A d, e \in Webhooks : Carries(d, m) /\ Carries(e, m) => d = e
      /\ copies[m] > 0 => /\ copies[m] = 1
                          /\ \A e \in Webhooks : Carries(e, m) => pc[e] = "mark"
                          /\ m \in marked \/ \E e \in Webhooks : Carries(e, m)
  BY <1>1, <1>2 DEF CreatedOnce
<1> DEFINE Goal == /\ \A d, e \in Webhooks : Carries(d, m)' /\ Carries(e, m)' => d = e
                   /\ copies'[m] > 0 =>
                         /\ copies'[m] = 1
                         /\ \A e \in Webhooks : Carries(e, m)' => pc'[e] = "mark"
                         /\ m \in marked' \/ \E e \in Webhooks : Carries(e, m)'
<1>4. CASE UNCHANGED <<pc, marked, copies>>
  BY <1>2, <1>3, <1>4
<1>5. ASSUME NEW e \in Webhooks, Handle(e) PROVE Goal
  <2>1. \A d \in Webhooks \ {e} : pc'[d] = pc[d]
    BY <1>1, <1>5, HandleLocals
  <2>2. CASE msg[e] # m
    <3>1. \A d \in Webhooks : Carries(d, m)' <=> Carries(d, m)
      BY <1>2, <2>1, <2>2
    <3>2. copies'[m] = copies[m] /\ (m \in marked' <=> m \in marked)
      BY <1>1, <1>5, <2>2 DEF Handle, CheckProcessed, Route, SearchContact, CreateContact,
         SearchConv, CreateConv, Prepare, Send, Mark, Deliver, PayloadTypes, ChatwootTypes
    <3>3. \A d \in Webhooks : Carries(d, m) => pc'[d] = pc[d]
      BY <2>1, <2>2
    <3>4. QED
      BY <1>3, <3>1, <3>2, <3>3
  <2>3. CASE msg[e] = m /\ CheckProcessed(e)
    <3>1. UNCHANGED <<marked, copies>> /\ pc[e] = "idle" /\ pc'[e] \in {"done", "route"}
      BY <1>1, <2>3 DEF CheckProcessed
    <3>2. CASE pc'[e] = "done"
      BY <1>2, <1>3, <2>1, <3>1, <3>2
    <3>3. CASE pc'[e] = "route"
      <4>1. m \notin marked /\ \A d \in Webhooks \ {e} : ~Carries(d, m)
        <5>1. pc'[e] # "done"
          BY <3>3
        <5>2. /\ overlapped' = IF \E d \in Webhooks \ {e} : UnderWay(d) /\ msg[d] = m
                               THEN overlapped \cup {m} ELSE overlapped
              /\ excused' = IF m \in marked THEN excused \cup {m} ELSE excused
          BY <1>1, <2>3, <5>1 DEF CheckProcessed
        <5>3. QED
          BY <5>2
      <4>2. ~(copies[m] > 0)
        BY <1>3, <3>1, <4>1
      <4>3. QED
        BY <1>2, <2>1, <3>1, <4>1, <4>2
    <3>4. QED
      BY <3>1, <3>2, <3>3
  <2>4. CASE msg[e] = m /\ ~CheckProcessed(e)
    <3>1. Carries(e, m)
      BY <1>5, <2>4 DEF Handle, Route, SearchContact, CreateContact, SearchConv, CreateConv,
         Prepare, Send, Mark
    <3>2. \A d \in Webhooks \ {e} : ~Carries(d, m) /\ ~Carries(d, m)'
      BY <1>2, <1>3, <2>1, <3>1
    <3>3. CASE Mark(e)
      <4>1. pc'[e] = "done" /\ UNCHANGED copies /\ m \in marked'
        BY <1>1, <2>4, <3>3 DEF Mark
      <4>2. QED
        BY <1>3, <3>2, <4>1
    <3>4. CASE Send(e)
      <4>1. ~(copies[m] > 0) /\ copies[m] = 0
        BY <1>1, <1>3, <3>1, <3>4 DEF Send, ChatwootTypes
      <4>2. \/ UNCHANGED copies
            \/ copies' = [copies EXCEPT ![m] = IF @ < 2 THEN @ + 1 ELSE 2] /\ pc'[e] = "mark"
        BY <1>1, <2>4, <3>4 DEF Send, Deliver, Succeed, Return
      <4>3. CASE UNCHANGED copies
        BY <3>2, <4>1, <4>3
      <4>4. CASE copies'[m] = 1 /\ pc'[e] = "mark"
        BY <1>2, <2>4, <3>2, <4>4
      <4>5. QED
        BY <1>1, <4>1, <4>2, <4>3, <4>4 DEF ChatwootTypes
    <3>5. CASE ~Mark(e) /\ ~Send(e)
      <4>1. pc[e] # "mark" /\ UNCHANGED copies
        BY <1>5, <2>4, <3>5 DEF Handle, Route, SearchContact, CreateContact, SearchConv, CreateConv,
           Prepare
      <4>2. QED
        BY <1>3, <3>1, <3>2, <4>1
    <3>6. QED
      BY <3>3, <3>4, <3>5
  <2>5. QED
    BY <2>2, <2>3, <2>4
<1>6. CASE Crash
  <2>1. \A e \in Webhooks : ~Carries(e, m)' /\ (Carries(e, m) => pc[e] # "mark")
    BY <1>1, <1>2, <1>6 DEF Crash
  <2>2. QED
    BY <1>3, <1>6, <2>1 DEF Crash
<1>7. ASSUME NEW n \in Messages, MarkExpires(n) PROVE Goal
  <2>1. n # m
    BY <1>7 DEF MarkExpires
  <2>2. UNCHANGED <<pc, copies>> /\ (m \in marked' <=> m \in marked)
    BY <1>7, <2>1 DEF MarkExpires
  <2>3. QED
    BY <1>2, <1>3, <2>2
<1>8. QED
  BY <1>4, <1>5, <1>6, <1>7 DEF Next, Rebind, Agent, vars

----------------------------------------------------------------------------
(* IInv holds in every reachable state.                                    *)
LEMMA InitInvariant == Init => IInv
<1> SUFFICES ASSUME Init PROVE IInv
  OBVIOUS
<1> USE DEF Init
<1>1. TypeOK
  BY InboundAssumption, FreshLocals, EmptySeq
  DEF TypeOK, PayloadTypes, ChatwootTypes, Places
<1>2. MarkedIsSettled /\ OnRoute /\ SettledAtMark /\ CreatedOnce
  BY DEF MarkedIsSettled, OnRoute, SettledAtMark, CreatedOnce, Carries, UnderWay, At
<1>3. QED
  BY <1>1, <1>2 DEF IInv

(* IInv holds in every reachable state.                                    *)
THEOREM Inductive == Spec => []IInv
<1>1. IInv /\ [Next]_vars => IInv'
  BY TypeStep, RouteStep, SettledStep, CreatedStep DEF IInv
<1>2. QED
  BY <1>1, InitInvariant, PTL DEF Spec

(* Type correctness.                                                       *)
THEOREM TypeCorrect == Spec => []TypeOK
<1>1. IInv => TypeOK
  BY DEF IInv
<1>2. QED
  BY <1>1, Inductive, PTL

(* A mark is never set for a message that an error kept from Chatwoot.     *)
THEOREM MarksSettled == Spec => []MarkedIsSettled
<1>1. IInv => MarkedIsSettled
  BY DEF IInv
<1>2. QED
  BY <1>1, Inductive, PTL

(* A duplicate in Chatwoot needs overlapping webhooks, a fault or a key    *)
(* that expired, however many webhooks carry the id.                       *)
THEOREM NoOtherDuplicates == Spec => []DuplicateNeedsOverlap
<1>1. IInv => DuplicateNeedsOverlap
  BY DEF IInv, TypeOK, ChatwootTypes, CreatedOnce, DuplicateNeedsOverlap
<1>2. QED
  BY <1>1, Inductive, PTL

(* Every message is sent to a conversation of the inbox and contact its    *)
(* execution found.                                                        *)
THEOREM RoutedRight == Spec => []RoutedInbox
<1>1. IInv => RoutedInbox
  BY DEF IInv, OnRoute, RoutedInbox, At
<1>2. QED
  BY <1>1, Inductive, PTL

=============================================================================
