-------------------------- MODULE AgentReply_proofs --------------------------
(***************************************************************************)
(* Theorems about AgentReply, for any replies, webhooks and instances.     *)
(***************************************************************************)
EXTENDS AgentReply, InboundMessage_proofs

----------------------------------------------------------------------------
(* The steps of the inbound bridge are those of InboundMessage.            *)
LEMMA InboundIsNext == Inbound => Next
  BY DEF Inbound, Next

(* A step of an execution gives an attribute to one conversation at most,  *)
(* the one it has chosen, and takes none away.                             *)
LEMMA HandleTags ==
  ASSUME TypeOK, OnRoute, NEW e \in Webhooks, Handle(e), NEW i \in DOMAIN convs'
  PROVE  /\ \/ i \in DOMAIN convs /\ convs'[i].tag = convs[i].tag
            \/ i \notin DOMAIN convs /\ convs'[i].tag = NoInstance
            \/ i = local[e].conv /\ convs'[i].tag = from[msg[e]]
         /\ i \in DOMAIN convs /\ convs[i].tag # NoInstance => convs'[i].tag # NoInstance
<1>1. /\ convs \in Seq(Convs) /\ Len(convs) \in Nat /\ DOMAIN convs = 1 .. Len(convs)
      /\ local[e] \in Locals /\ from[msg[e]] \in Instances
  BY LenProperties DEF TypeOK, ChatwootTypes, PayloadTypes
<1>2. CASE UNCHANGED convs
  BY <1>2
<1>3. CASE CreateConv(e)
  <2> DEFINE c == [contact |-> local[e].contact, inbox |-> local[e].inbox,
                   status |-> "open", tag |-> NoInstance]
  <2>1. c \in Convs /\ c.tag = NoInstance
    BY <1>1, <1>3, InboundAssumption DEF CreateConv, At, OnRoute, Convs, Locals
  <2> HIDE DEF c
  <2>2. CASE convs' = Append(convs, c)
    <3>1. i = Len(convs) + 1 \/ i \in DOMAIN convs
      BY <1>1, <2>1, <2>2, ConvAppended
    <3>2. QED
      BY <1>1, <2>1, <2>2, <3>1, ConvAppended
  <2>3. QED
    BY <1>2, <1>3, <2>2 DEF CreateConv, c
<1>4. CASE Prepare(e)
  <2> DEFINE k == local[e].conv
  <2>1. CASE convs' = [convs EXCEPT ![k].tag = from[msg[e]]]
    <3>1. k \in DOMAIN convs /\ convs[k] \in Convs
      BY <1>1, <1>4, ElementOfSeq DEF Prepare, At, OnRoute
    <3>2. DOMAIN convs' = DOMAIN convs /\ \A n \in DOMAIN convs : n # k => convs'[n] = convs[n]
      BY <1>1, <2>1
    <3>3. convs'[k].tag = from[msg[e]]
      BY <1>1, <2>1, <3>1 DEF Convs
    <3>4. QED
      BY <1>1, <3>2, <3>3, InboundAssumption
  <2>2. QED
    BY <1>2, <1>4, <2>1 DEF Prepare, SetTag
<1>5. QED
  BY <1>2, <1>3, <1>4
  DEF Handle, CheckProcessed, Route, SearchContact, CreateContact, SearchConv, Send, Mark, chatwoot

(* The same of every step of the bridge, the operator and the agents.      *)
LEMMA InboundTags ==
  ASSUME TypeOK, OnRoute, Inbound, NEW i \in DOMAIN convs'
  PROVE  /\ \/ i \in DOMAIN convs /\ convs'[i].tag = convs[i].tag
            \/ i \notin DOMAIN convs /\ convs'[i].tag = NoInstance
            \/ \E e \in Webhooks : i = local[e].conv /\ convs'[i].tag = from[msg[e]]
         /\ i \in DOMAIN convs /\ convs[i].tag # NoInstance => convs'[i].tag # NoInstance
<1>1. convs \in Seq(Convs)
  BY DEF TypeOK, ChatwootTypes
<1>2. ASSUME Agent PROVE i \in DOMAIN convs /\ convs'[i].tag = convs[i].tag
  BY <1>1, <1>2, AgentConvs, LenProperties
<1>3. ASSUME Crash \/ Rebind PROVE i \in DOMAIN convs /\ convs'[i].tag = convs[i].tag
  BY <1>3 DEF Crash, Rebind, chatwoot
<1>4. QED
  BY <1>2, <1>3, HandleTags DEF Inbound

(* Conversations stay, and so do deletions.                                *)
LEMMA InboundConvs ==
  ASSUME TypeOK, OnRoute, Inbound
  PROVE  /\ convs' \in Seq(Convs) /\ Len(convs') <= MaxConvs
         /\ \A i \in DOMAIN convs :
              i \in DOMAIN convs' /\ (convs[i].status = "gone" => convs'[i].status = "gone")
<1>1. convs \in Seq(Convs) /\ Len(convs) <= MaxConvs
  BY DEF TypeOK, ChatwootTypes
<1>2. CASE Agent
  BY <1>1, <1>2, AgentConvs
<1>3. CASE Crash \/ Rebind
  BY <1>1, <1>3 DEF Crash, Rebind, chatwoot
<1>4. QED
  BY <1>2, <1>3, HandleConvs DEF Inbound

(* The messages routed to a conversation are noted before its attribute    *)
(* can tell of them, and never forgotten.                                  *)
LEMMA InboundNotes ==
  ASSUME ReplyTypeOK, OnRoute, Inbound
  PROVE  /\ customers' \in [1..MaxConvs -> SUBSET Instances]
         /\ \A i \in 1..MaxConvs : customers[i] \subseteq customers'[i]
         /\ ChoicesNoted'
         /\ local' \in [Webhooks -> Locals]
<1>1. /\ customers \in [1..MaxConvs -> SUBSET Instances]
      /\ \A e \in Webhooks : from[msg[e]] \in Instances
  BY DEF ReplyTypeOK, TypeOK, PayloadTypes
<1>2. TypeOK'
  BY InboundIsNext, TypeStep DEF ReplyTypeOK
<1>3. local' \in [Webhooks -> Locals] /\ \A e \in Webhooks : local'[e].conv \in 0..MaxConvs
  <2>1. local' \in [Webhooks -> Locals]
    BY <1>2 DEF TypeOK
  <2>2. \A v \in Locals : v.conv \in 0..MaxConvs
    BY DEF Locals
  <2>3. QED
    BY <2>1, <2>2
<1>4. UNCHANGED payload
  BY DEF Inbound, Handle, CheckProcessed, Route, SearchContact, CreateContact, SearchConv,
     CreateConv, Prepare, Send, Mark, Crash, Rebind, Agent
<1>5. customers' = [i \in 1..MaxConvs |->
        customers[i] \cup {from[msg[e]] : e \in {d \in Webhooks : local'[d].conv = i}}]
  BY <1>1 DEF Inbound
<1>6. ASSUME NEW e \in Webhooks, local'[e].conv # 0
      PROVE  from[msg[e]] \in customers'[local'[e].conv]
  BY <1>3, <1>5, <1>6, InboundAssumption
<1>7. ChoicesNoted'
  BY <1>4, <1>6 DEF ChoicesNoted, payload
<1>8. QED
  BY <1>1, <1>3, <1>5, <1>7

(* An agent's new conversation changes none of the others.                 *)
LEMMA OpensConv ==
  ASSUME TypeOK, AgentOpens
  PROVE  /\ convs' \in Seq(Convs) /\ Len(convs') <= MaxConvs
         /\ \A i \in DOMAIN convs : i \in DOMAIN convs' /\ convs'[i] = convs[i]
         /\ \A i \in DOMAIN convs' : i \in DOMAIN convs \/ convs'[i].tag = NoInstance
<1>1. convs \in Seq(Convs) /\ Len(convs) \in Nat /\ DOMAIN convs = 1 .. Len(convs)
  BY LenProperties DEF TypeOK, ChatwootTypes
<1>2. PICK k \in Inboxes :
        convs' = Append(convs, [contact |-> contact, inbox |-> k, status |-> "open",
                                tag |-> NoInstance])
  BY DEF AgentOpens
<1> DEFINE c == [contact |-> contact, inbox |-> k, status |-> "open", tag |-> NoInstance]
<1>3. c \in Convs /\ c.tag = NoInstance
  BY InboundAssumption DEF TypeOK, ChatwootTypes, Convs
<1>4. convs' = Append(convs, c)
  BY <1>2
<1> HIDE DEF c
<1>5. Len(convs) + 1 <= MaxConvs
  BY <1>1, InboundAssumption DEF AgentOpens
<1>6. \A i \in 1 .. (Len(convs) + 1) : i \in DOMAIN convs \/ i = Len(convs) + 1
  BY <1>1
<1>7. QED
  BY <1>1, <1>3, <1>4, <1>5, <1>6, ConvAppended

(* The instance a reply leaves by.                                         *)
LEMMA Resolved ==
  ASSUME NEW tag \in Instances \cup {NoInstance}, NEW c \in Resolve(tag)
  PROVE  /\ c.via \in Instances /\ c.lost \in BOOLEAN
         /\ tag = NoInstance \/ c.lost => c.via = Default
         /\ tag # NoInstance /\ ~c.lost => c.via = tag
<1>1. CASE tag = NoInstance
  <2>1. c = [via |-> Default, lost |-> FALSE]
    BY <1>1 DEF Resolve
  <2>2. QED
    BY <1>1, <2>1, ReplyAssumption
<1>2. CASE tag # NoInstance
  <2>1. CASE c = [via |-> tag, lost |-> FALSE]
    <3>1. c.via = tag /\ c.lost = FALSE
      BY <2>1
    <3>2. QED
      BY <1>2, <3>1
  <2>2. CASE c = [via |-> Default, lost |-> TRUE]
    <3>1. c.via = Default /\ c.lost = TRUE
      BY <2>2
    <3>2. QED
      BY <3>1, ReplyAssumption
  <2>3. QED
    BY <1>2, <2>1, <2>2 DEF Resolve
<1>3. QED
  BY <1>1, <1>2

----------------------------------------------------------------------------
(* Every step keeps the types, and the conversations the executions and    *)
(* the replies refer to.                                                   *)
LEMMA ReplyTypeStep ==
  ASSUME ReplyTypeOK, OnRoute, WrittenSomewhere, [ReplyNext]_replyVars
  PROVE  ReplyTypeOK' /\ OnRoute' /\ WrittenSomewhere'
<1>1. /\ TypeOK /\ OnRoute /\ WrittenSomewhere
      /\ reply \in [Replies -> Reply] /\ sent \subseteq Sent
      /\ customers \in [1..MaxConvs -> SUBSET Instances] /\ heard \subseteq 1..MaxConvs
      /\ convs \in Seq(Convs) /\ DOMAIN convs \subseteq 1..MaxConvs
  <2>1. convs \in Seq(Convs) /\ DOMAIN convs = 1 .. Len(convs) /\ Len(convs) \in Nat
        /\ Len(convs) <= MaxConvs
    BY LenProperties DEF ReplyTypeOK, TypeOK, ChatwootTypes
  <2>2. QED
    BY <2>1, InboundAssumption DEF ReplyTypeOK
<1>2. CASE Inbound
  <2>1. TypeOK' /\ OnRoute'
    BY <1>1, <1>2, InboundIsNext, TypeStep, RouteStep
  <2>2. UNCHANGED <<reply, sent>> /\ customers' \in [1..MaxConvs -> SUBSET Instances]
    BY <1>1, <1>2, InboundNotes DEF Inbound
  <2>3. \A e \in Webhooks : At(e, "send") => local[e].conv \in DOMAIN convs
    BY <1>1 DEF OnRoute, At
  <2>4. heard' \subseteq 1..MaxConvs
    BY <1>1, <1>2, <2>3 DEF Inbound
  <2>5. WrittenSomewhere'
    BY <1>1, <1>2, <2>2, InboundConvs DEF WrittenSomewhere
  <2>6. QED
    BY <1>1, <2>1, <2>2, <2>4, <2>5 DEF ReplyTypeOK
<1>3. CASE AgentOpens
  <2>1. UNCHANGED <<payload, marked, binding, people, copies, pc, local, history,
                    reply, sent, customers, heard>>
    BY <1>3 DEF AgentOpens
  <2>2. TypeOK'
    BY <1>1, <1>3, <2>1, OpensConv
    DEF TypeOK, PayloadTypes, ChatwootTypes, payload, people, history
  <2>3. OnRoute'
    BY <1>1, <1>3, <2>1, OpensConv DEF OnRoute
  <2>4. QED
    BY <1>1, <1>3, <2>1, <2>2, <2>3, OpensConv DEF ReplyTypeOK, WrittenSomewhere
<1>4. ASSUME UNCHANGED vars PROVE TypeOK' /\ OnRoute' /\ convs' = convs
  BY <1>1, <1>4 DEF vars, payload, people, chatwoot, history, TypeOK, PayloadTypes, ChatwootTypes,
     OnRoute
<1>5. ASSUME NEW r \in Replies, Write(r) PROVE ReplyTypeOK' /\ OnRoute' /\ WrittenSomewhere'
  <2>1. PICK i \in DOMAIN convs :
          reply' = [reply EXCEPT ![r] = [at |-> "written", conv |-> i, asked |-> i \in heard]]
    BY <1>5 DEF Write
  <2>2. [at |-> "written", conv |-> i, asked |-> i \in heard] \in Reply
    BY <1>1 DEF Reply
  <2>3. reply' \in [Replies -> Reply] /\ \A q \in Replies \ {r} : reply'[q] = reply[q]
    BY <1>1, <2>1, <2>2
  <2>4. WrittenSomewhere'
    BY <1>1, <1>4, <1>5, <2>1, <2>3 DEF Write, WrittenSomewhere
  <2>5. QED
    BY <1>1, <1>4, <1>5, <2>3, <2>4 DEF Write, ReplyTypeOK
<1>6. ASSUME NEW r \in Replies, Receive(r) PROVE ReplyTypeOK' /\ OnRoute' /\ WrittenSomewhere'
  <2>1. reply[r].conv \in DOMAIN convs /\ reply[r] \in Reply
    BY <1>1, <1>6 DEF Receive, WrittenSomewhere
  <2>2. convs[reply[r].conv].tag \in Instances \cup {NoInstance}
    <3>1. convs[reply[r].conv] \in Convs
      BY <1>1, <2>1, ElementOfSeq, LenProperties
    <3>2. QED
      BY <3>1 DEF Convs
  <2>3. \A c \in Resolve(convs[reply[r].conv].tag) : c.via \in Instances /\ c.lost \in BOOLEAN
    BY <2>2, Resolved
  <2>4. sent' \subseteq Sent
    <3>1. reply[r].conv \in 1..MaxConvs /\ reply[r].asked \in BOOLEAN
      BY <1>1, <2>1 DEF Reply
    <3>2. \A c \in Resolve(convs[reply[r].conv].tag) :
            [conv |-> reply[r].conv, asked |-> reply[r].asked, via |-> c.via, lost |-> c.lost] \in Sent
      BY <2>3, <3>1 DEF Sent
    <3>3. QED
      BY <1>1, <1>6, <3>2 DEF Receive
  <2>5. Blank("done") \in Reply /\ Blank("done").at = "done"
    BY InboundAssumption DEF Blank, Reply
  <2>6. reply' = [reply EXCEPT ![r] = Blank("done")]
    BY <1>6 DEF Receive
  <2>7. reply' \in [Replies -> Reply] /\ WrittenSomewhere'
    BY <1>1, <1>4, <1>6, <2>5, <2>6 DEF Receive, WrittenSomewhere
  <2>8. QED
    BY <1>1, <1>4, <1>6, <2>4, <2>7 DEF Receive, ReplyTypeOK
<1>7. CASE UNCHANGED replyVars
  BY <1>1, <1>4, <1>7 DEF replyVars, ReplyTypeOK, WrittenSomewhere
<1>8. QED
  BY <1>2, <1>3, <1>5, <1>6, <1>7 DEF ReplyNext

(* The attribute of a conversation names an instance that a message routed *)
(* to it was written to.                                                   *)
LEMMA NotedStep ==
  ASSUME ReplyTypeOK, OnRoute, TagsNoted, ChoicesNoted, [ReplyNext]_replyVars
  PROVE  TagsNoted' /\ ChoicesNoted'
<1>1. /\ TypeOK /\ TagsNoted /\ ChoicesNoted
      /\ \A i \in DOMAIN convs : i \in 1..MaxConvs
  <2>1. DOMAIN convs = 1 .. Len(convs) /\ Len(convs) \in Nat /\ Len(convs) <= MaxConvs
    BY LenProperties DEF ReplyTypeOK, TypeOK, ChatwootTypes
  <2>2. QED
    BY <2>1, InboundAssumption DEF ReplyTypeOK
<1>2. CASE Inbound
  <2>1. /\ \A i \in 1..MaxConvs : customers[i] \subseteq customers'[i]
        /\ ChoicesNoted'
    BY <1>2, InboundNotes
  <2>2. ASSUME NEW i \in DOMAIN convs', convs'[i].tag # NoInstance
        PROVE  convs'[i].tag \in customers'[i]
    <3>1. i \in 1..MaxConvs
      <4>1. convs' \in Seq(Convs) /\ Len(convs') <= MaxConvs
        BY <1>1, <1>2, InboundConvs
      <4>2. DOMAIN convs' = 1 .. Len(convs') /\ Len(convs') \in Nat
        BY <4>1, LenProperties
      <4>3. QED
        BY <2>2, <4>1, <4>2, InboundAssumption
    <3>2. CASE i \in DOMAIN convs /\ convs'[i].tag = convs[i].tag
      BY <1>1, <2>1, <2>2, <3>1, <3>2 DEF TagsNoted
    <3>3. CASE \E e \in Webhooks : i = local[e].conv /\ convs'[i].tag = from[msg[e]]
      <4>1. PICK e \in Webhooks : i = local[e].conv /\ convs'[i].tag = from[msg[e]]
        BY <3>3
      <4>2. i # 0
        BY <3>1
      <4>3. from[msg[e]] \in customers[i]
        BY <1>1, <4>1, <4>2 DEF ChoicesNoted
      <4>4. QED
        BY <2>1, <3>1, <4>1, <4>3
    <3>4. QED
      BY <1>1, <1>2, <2>2, <3>2, <3>3, InboundTags
  <2>3. QED
    BY <2>1, <2>2 DEF TagsNoted
<1>3. CASE AgentOpens
  BY <1>1, <1>3, OpensConv DEF AgentOpens, payload, TagsNoted, ChoicesNoted
<1>4. ASSUME NEW r \in Replies, Write(r) \/ Receive(r) PROVE TagsNoted' /\ ChoicesNoted'
  BY <1>1, <1>4 DEF Write, Receive, vars, payload, chatwoot, TagsNoted, ChoicesNoted
<1>5. CASE UNCHANGED replyVars
  BY <1>1, <1>5 DEF replyVars, vars, payload, chatwoot, TagsNoted, ChoicesNoted
<1>6. QED
  BY <1>2, <1>3, <1>4, <1>5 DEF ReplyNext

(* The attribute comes first: an execution that is about to send and whose *)
(* attribute Chatwoot stored has a conversation that carries one.          *)
LEMMA TaggedStep ==
  ASSUME ReplyTypeOK, OnRoute, TagsNoted, ChoicesNoted, WrittenSomewhere, TaggedFirst,
         [ReplyNext]_replyVars
  PROVE  TaggedFirst'
<1> DEFINE TaggedNext(i) == i \in DOMAIN convs' /\ convs'[i].tag # NoInstance
<1>1. /\ TypeOK /\ pc \in [Webhooks -> Places] /\ reply \in [Replies -> Reply]
      /\ convs \in Seq(Convs) /\ local \in [Webhooks -> Locals]
      /\ \A e \in Webhooks : pc[e] = "send" /\ local[e].tagged => Tagged(local[e].conv)
      /\ \A i \in heard : Tagged(i)
      /\ \A r \in Replies : reply[r].at = "written" /\ reply[r].asked => reply[r].conv \in heard
  BY DEF ReplyTypeOK, TypeOK, ChatwootTypes, TaggedFirst, At
<1>2. CASE Inbound
  <2>1. \A i : Tagged(i) => TaggedNext(i)
    BY <1>1, <1>2, InboundTags, InboundConvs DEF Tagged
  <2>2. ASSUME NEW d \in Webhooks, pc[d] = "send", local'[d] = local[d], local'[d].tagged
        PROVE  TaggedNext(local'[d].conv)
    BY <1>1, <2>1, <2>2
  <2>3. ASSUME NEW e \in Webhooks, Handle(e), NEW d \in Webhooks, pc'[d] = "send", local'[d].tagged
        PROVE  TaggedNext(local'[d].conv)
    <3>1. CASE d # e
      <4>1. pc'[d] = pc[d] /\ local'[d] = local[d]
        BY <1>1, <2>3, <3>1, HandleLocals DEF TypeOK
      <4>2. QED
        BY <2>2, <2>3, <4>1
    <3>2. CASE d = e /\ UNCHANGED <<pc, local>>
      BY <2>2, <2>3, <3>2
    <3>3. CASE d = e /\ ~UNCHANGED <<pc, local>>
      <4>1. Prepare(e)
        BY <1>1, <2>3, <3>3 DEF Handle, CheckProcessed, Route, SearchContact, CreateContact,
           UseContact, SearchConv, UseConv, CreateConv, Send, Mark, Succeed, Fail, Return, Goto
      <4>2. PICK b \in BOOLEAN : SetTag(e, b) /\ local' = [local EXCEPT ![e].tagged = b]
        BY <1>1, <2>3, <3>3, <4>1 DEF Prepare, Succeed, Fail, Return, Goto
      <4>3. local[e] \in Locals
        BY <1>1
      <4>4. local'[e].conv = local[e].conv /\ local'[e].tagged = b
        BY <1>1, <4>2, <4>3 DEF Locals
      <4>5. local[e].conv \in DOMAIN convs /\ convs[local[e].conv] \in Convs
        BY <1>1, <4>1, ElementOfSeq, LenProperties DEF Prepare, At, OnRoute
      <4>6. convs' = [convs EXCEPT ![local[e].conv].tag = from[msg[e]]]
        BY <2>3, <3>3, <4>2, <4>4 DEF SetTag
      <4>7. DOMAIN convs' = DOMAIN convs /\ convs'[local[e].conv].tag = from[msg[e]]
        BY <4>5, <4>6 DEF Convs
      <4>8. from[msg[e]] \in Instances
        BY <1>1 DEF TypeOK, PayloadTypes
      <4>9. QED
        BY <3>3, <4>4, <4>5, <4>7, <4>8, InboundAssumption
    <3>4. QED
      BY <3>1, <3>2, <3>3
  <2>4. ASSUME Agent \/ Rebind, NEW d \in Webhooks, pc'[d] = "send", local'[d].tagged
        PROVE  TaggedNext(local'[d].conv)
    BY <2>2, <2>4 DEF Agent, Rebind
  <2>5. \A d \in Webhooks : pc'[d] = "send" /\ local'[d].tagged => TaggedNext(local'[d].conv)
    <3>1. ASSUME Crash, NEW d \in Webhooks PROVE pc'[d] # "send"
      BY <1>1, <3>1 DEF Crash, UnderWay
    <3>2. QED
      BY <1>2, <2>3, <2>4, <3>1 DEF Inbound
  <2>6. \A i \in heard' : TaggedNext(i)
    BY <1>1, <1>2, <2>1 DEF Inbound, At
  <2>7. UNCHANGED reply /\ heard \subseteq heard'
    BY <1>2 DEF Inbound
  <2>8. QED
    BY <1>1, <2>5, <2>6, <2>7 DEF TaggedFirst, Tagged, At
<1>3. CASE AgentOpens
  <2>1. \A i : Tagged(i) => TaggedNext(i)
    BY <1>1, <1>3, OpensConv DEF Tagged
  <2>2. UNCHANGED <<pc, local, reply, heard>>
    BY <1>3 DEF AgentOpens
  <2>3. QED
    BY <1>1, <2>1, <2>2 DEF TaggedFirst, Tagged, At
<1>4. ASSUME UNCHANGED <<vars, heard>>,
             \A r \in Replies : reply'[r].at = "written" /\ reply'[r].asked =>
               reply'[r].conv \in heard
      PROVE  TaggedFirst'
  BY <1>1, <1>4 DEF vars, chatwoot, TaggedFirst, At, Tagged
<1>5. ASSUME NEW r \in Replies, Write(r) PROVE TaggedFirst'
  <2>1. PICK i \in DOMAIN convs :
          reply' = [reply EXCEPT ![r] = [at |-> "written", conv |-> i, asked |-> i \in heard]]
    BY <1>5 DEF Write
  <2>2. \A q \in Replies : reply'[q].at = "written" /\ reply'[q].asked => reply'[q].conv \in heard
    BY <1>1, <2>1
  <2>3. QED
    BY <1>4, <1>5, <2>2 DEF Write
<1>6. ASSUME NEW r \in Replies, Receive(r) PROVE TaggedFirst'
  <2>1. \A q \in Replies : reply'[q].at = "written" /\ reply'[q].asked => reply'[q].conv \in heard
    BY <1>1, <1>6 DEF Receive, Blank
  <2>2. QED
    BY <1>4, <1>6, <2>1 DEF Receive
<1>7. CASE UNCHANGED replyVars
  BY <1>1, <1>4, <1>7 DEF replyVars
<1>8. QED
  BY <1>2, <1>3, <1>5, <1>6, <1>7 DEF ReplyNext

(* What leaves leaves by such an instance, or for a reason by the default. *)
LEMMA AnsweredStep ==
  ASSUME ReplyTypeOK, OnRoute, TagsNoted, WrittenSomewhere, TaggedFirst,
         AnsweredWhereAsked, [ReplyNext]_replyVars
  PROVE  AnsweredWhereAsked'
<1>1. sent \subseteq Sent /\ AnsweredWhereAsked
  BY DEF ReplyTypeOK
<1>2. CASE Inbound
  <2>1. UNCHANGED sent /\ \A i \in 1..MaxConvs : customers[i] \subseteq customers'[i]
    BY <1>2, InboundNotes DEF Inbound
  <2>2. QED
    BY <1>1, <2>1 DEF AnsweredWhereAsked, Sent
<1>3. ASSUME NEW r \in Replies, Receive(r) PROVE AnsweredWhereAsked'
  <2> DEFINE i == reply[r].conv
  <2>1. UNCHANGED customers
    BY <1>3 DEF Receive
  <2>2. CASE UNCHANGED sent
    BY <1>1, <2>1, <2>2 DEF AnsweredWhereAsked
  <2>3. ASSUME NEW c \in Resolve(convs[i].tag),
               sent' = sent \cup {[conv |-> i, asked |-> reply[r].asked, via |-> c.via,
                                   lost |-> c.lost]}
        PROVE  AnsweredWhereAsked'
    <3>1. i \in DOMAIN convs
      BY <1>3 DEF Receive, WrittenSomewhere
    <3>2. convs[i].tag \in Instances \cup {NoInstance}
      <4>1. convs[i] \in Convs
        BY <3>1, ElementOfSeq, LenProperties DEF ReplyTypeOK, TypeOK, ChatwootTypes
      <4>2. QED
        BY <4>1 DEF Convs
    <3>3. c.via \notin customers[i] => c.via = Default /\ (c.lost \/ ~reply[r].asked)
      <4>1. reply[r].asked => convs[i].tag # NoInstance
        BY <1>3 DEF Receive, TaggedFirst, Tagged
      <4>2. convs[i].tag # NoInstance => convs[i].tag \in customers[i]
        BY <3>1 DEF TagsNoted
      <4>3. /\ c.lost \in BOOLEAN
            /\ convs[i].tag = NoInstance \/ c.lost => c.via = Default
            /\ convs[i].tag # NoInstance /\ ~c.lost => c.via = convs[i].tag
        BY <2>3, <3>2, Resolved
      <4>4. QED
        BY <4>1, <4>2, <4>3
    <3>4. QED
      BY <1>1, <2>1, <2>3, <3>3 DEF AnsweredWhereAsked
  <2>4. QED
    BY <1>3, <2>2, <2>3 DEF Receive
<1>4. CASE AgentOpens \/ (\E r \in Replies : Write(r)) \/ UNCHANGED replyVars
  BY <1>1, <1>4 DEF AgentOpens, Write, replyVars, AnsweredWhereAsked
<1>5. QED
  BY <1>2, <1>3, <1>4 DEF ReplyNext

----------------------------------------------------------------------------
(* ReplyIInv holds in every reachable state.                               *)
THEOREM ReplyInductive == ReplySpec => []ReplyIInv
<1>1. ReplyInit => ReplyIInv
  <2> SUFFICES ASSUME ReplyInit PROVE ReplyIInv
    OBVIOUS
  <2>1. TypeOK /\ OnRoute
    BY InitInvariant DEF ReplyInit, IInv
  <2>2. convs = <<>> /\ DOMAIN convs = {} /\ \A e \in Webhooks : local[e].conv = 0 /\ pc[e] = "idle"
    BY DEF ReplyInit, Init, Fresh
  <2>3. ReplyTypeOK
    BY <2>1, InboundAssumption DEF ReplyInit, ReplyTypeOK, Blank, Reply
  <2>4. TagsNoted /\ ChoicesNoted /\ WrittenSomewhere /\ TaggedFirst /\ AnsweredWhereAsked
    BY <2>2 DEF ReplyInit, TagsNoted, ChoicesNoted, WrittenSomewhere, TaggedFirst,
       AnsweredWhereAsked, Blank, At
  <2>5. QED
    BY <2>1, <2>3, <2>4 DEF ReplyIInv
<1>2. ReplyIInv /\ [ReplyNext]_replyVars => ReplyIInv'
  BY ReplyTypeStep, NotedStep, TaggedStep, AnsweredStep DEF ReplyIInv
<1>3. QED
  BY <1>1, <1>2, PTL DEF ReplySpec

(* Type correctness of the composition.                                    *)
THEOREM ReplyTypeCorrect == ReplySpec => []ReplyTypeOK
<1>1. ReplyIInv => ReplyTypeOK
  BY DEF ReplyIInv
<1>2. QED
  BY <1>1, ReplyInductive, PTL

(* For any number of instances that share inboxes, and whatever fails: a   *)
(* customer is answered from a number they wrote to, or from the default   *)
(* one for want of the instance's row or of a stored attribute.            *)
THEOREM AnsweredRight == ReplySpec => []AnsweredWhereAsked
<1>1. ReplyIInv => AnsweredWhereAsked
  BY DEF ReplyIInv
<1>2. QED
  BY <1>1, ReplyInductive, PTL

=============================================================================
