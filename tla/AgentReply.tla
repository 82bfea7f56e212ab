----------------------------- MODULE AgentReply -----------------------------
(***************************************************************************)
(* handleOutgoingMessage composed with the inbound bridge: an agent        *)
(* answers in a Chatwoot conversation, Chatwoot sends a message_created    *)
(* webhook with the conversation's attributes as they are by then, and the *)
(* bridge sends the text through the instance the attributes name, or else *)
(* through the default one.                                                *)
(*                                                                         *)
(* The two directions meet only in the conversation: the inbound webhooks  *)
(* write the attribute, and two instances that share an inbox overwrite    *)
(* each other's.                                                           *)
(***************************************************************************)
EXTENDS InboundMessage

CONSTANTS
  Replies,  \* messages agents write
  Default   \* what FindDefault returns

ASSUME ReplyAssumption == Default \in Instances

VARIABLES
  reply,     \* the replies on their way, from the agent's click on
  sent,      \* WhatsApp: what left for the customer
  customers, \* history: by conversation, the instances the messages routed
             \* to it were written to
  heard      \* history: conversations Chatwoot stored the attribute of and
             \* then acknowledged the message it came with

replyVars == <<vars, reply, sent, customers, heard>>

(* A reply; asked: its conversation was heard before the agent wrote it.   *)
(* What was sent for it; lost: the query for its instance failed.          *)
Reply == [at : {"unwritten", "written", "done"}, conv : 0..MaxConvs, asked : BOOLEAN]
Sent == [conv : 1..MaxConvs, asked : BOOLEAN, via : Instances, lost : BOOLEAN]

Blank(l) == [at |-> l, conv |-> 0, asked |-> FALSE]

ReplyInit ==
  /\ Init
  /\ reply = [r \in Replies |-> Blank("unwritten")]
  /\ sent = {}
  /\ customers = [i \in 1..MaxConvs |-> {}]
  /\ heard = {}

----------------------------------------------------------------------------
(* A step of the inbound bridge, the operator or an agent, and what the    *)
(* histories note of it.  The deduplication keys do not expire here.       *)
Inbound ==
  /\ (\E e \in Webhooks : Handle(e)) \/ Crash \/ Rebind \/ Agent
  /\ customers' = [i \in DOMAIN customers |->
       customers[i] \cup {from[msg[e]] : e \in {d \in Webhooks : local'[d].conv = i}}]
  /\ heard' = heard \cup {local[e].conv : e \in {d \in Webhooks :
                 At(d, "send") /\ pc'[d] = "mark" /\ local[d].tagged}}
  /\ UNCHANGED <<reply, sent>>

(* An agent opens a conversation, which carries no attribute.              *)
AgentOpens ==
  /\ contact # 0 /\ Len(convs) < MaxConvs
  /\ \E i \in Inboxes :
       convs' = Append(convs, [contact |-> contact, inbox |-> i, status |-> "open",
                               tag |-> NoInstance])
  /\ UNCHANGED <<payload, marked, binding, people, copies, pc, local, history,
                 reply, sent, customers, heard>>

(* An agent writes in a conversation.                                      *)
Write(r) ==
  /\ reply[r].at = "unwritten"
  /\ \E i \in DOMAIN convs :
       /\ convs[i].status # "gone"
       /\ reply' = [reply EXCEPT ![r] = [at |-> "written", conv |-> i, asked |-> i \in heard]]
  /\ UNCHANGED <<vars, sent, customers, heard>>

(* FindByInstanceName for the attribute in the payload; without one, or    *)
(* when the query fails, FindDefault.                                      *)
MutResolve(tag) == {[via |-> tag, lost |-> FALSE]}

Resolve(tag) ==
  IF tag = NoInstance
  THEN {[via |-> Default, lost |-> FALSE]}
  ELSE {[via |-> tag, lost |-> FALSE], [via |-> Default, lost |-> TRUE]}

(* HandleWebhook, HandleChatwootWebhook and handleOutgoingMessage, with    *)
(* the attributes as they are when Chatwoot builds the payload.  All that  *)
(* the execution reads afterwards is the instance's row, so that it is one *)
(* step, the posts the HTTP client repeats included.  Nothing leaves for a *)
(* private note or an empty message, when no row is found, the posts fail  *)
(* or the webhook never arrives; that is final, because an error is        *)
(* answered with 200 as well.                                              *)
Receive(r) ==
  /\ reply[r].at = "written"
  /\ \/ UNCHANGED sent
     \/ \E c \in Resolve(convs[reply[r].conv].tag) :
          sent' = sent \cup {[conv |-> reply[r].conv, asked |-> reply[r].asked,
                             via |-> c.via, lost |-> c.lost]}
  /\ reply' = [reply EXCEPT ![r] = Blank("done")]
  /\ UNCHANGED <<vars, customers, heard>>

ReplyNext == Inbound \/ AgentOpens \/ \E r \in Replies : Write(r) \/ Receive(r)

ReplySpec == ReplyInit /\ [][ReplyNext]_replyVars

----------------------------------------------------------------------------
(* Type invariant.                                                         *)
ReplyTypeOK ==
  /\ TypeOK
  /\ reply \in [Replies -> Reply]
  /\ sent \subseteq Sent
  /\ customers \in [1..MaxConvs -> SUBSET Instances]
  /\ heard \subseteq 1..MaxConvs

(* Who wrote to one number of the company is answered from a number they   *)
(* wrote to: a reply leaves by an instance some message routed to its      *)
(* conversation was written to.  For it the default one steps in only when *)
(* the query for the instance failed, or when the agent replied before     *)
(* Chatwoot had stored the attribute and then acknowledged the message the *)
(* attribute came with: the bridge writes the attribute first, after a     *)
(* recovery from a 404 too, whoever overwrites it, and whatever else fails *)
(* (bridge.go:435-438, 536-561, 1010-1029).                                *)
AnsweredWhereAsked ==
  \A s \in sent : s.via \notin customers[s.conv] => s.via = Default /\ (s.lost \/ ~s.asked)

(* The inductive strengthening the proofs use.  A conversation carries the *)
(* attribute of an instance whose message was routed to it; so does what   *)
(* an execution has chosen.                                                *)
TagsNoted == \A i \in DOMAIN convs : convs[i].tag # NoInstance => convs[i].tag \in customers[i]

ChoicesNoted == \A e \in Webhooks : local[e].conv # 0 => from[msg[e]] \in customers[local[e].conv]

WrittenSomewhere == \A r \in Replies : reply[r].at = "written" => reply[r].conv \in DOMAIN convs

(* The attribute, once stored, is there before the message is, and no      *)
(* reply that was asked for goes without it.                               *)
Tagged(i) == i \in DOMAIN convs /\ convs[i].tag # NoInstance

TaggedFirst ==
  /\ \A e \in Webhooks : At(e, "send") /\ local[e].tagged => Tagged(local[e].conv)
  /\ \A i \in heard : Tagged(i)
  /\ \A r \in Replies : reply[r].at = "written" /\ reply[r].asked => reply[r].conv \in heard

ReplyIInv ==
  /\ ReplyTypeOK /\ OnRoute /\ TagsNoted /\ ChoicesNoted /\ WrittenSomewhere
  /\ TaggedFirst /\ AnsweredWhereAsked

=============================================================================
