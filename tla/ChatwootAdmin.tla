---------------------------- MODULE ChatwootAdmin ----------------------------
(***************************************************************************)
(* The admin requests that change the Chatwoot account: agents (create     *)
(* with compensation, remove), the widget's inbox, its account webhook and *)
(* the attribute definitions.  The service keeps nothing of its own and    *)
(* takes no lock: concurrent requests meet in Chatwoot, whose answers      *)
(* each request remembers from one exchange to the next.                   *)
(*                                                                         *)
(* Each action is one HTTP exchange.  Any may fail, take effect although   *)
(* no answer arrives, and be sent again (retryablehttp): sending again is  *)
(* a step that stays where it is, so the resends need no counter.  All     *)
(* agents have one e-mail; Chatwoot is modelled as far as the code relies  *)
(* on it: one user per e-mail, found again by CreateUser; users deleted by *)
(* a job some time after the call; one account webhook per URL (422).      *)
(***************************************************************************)
EXTENDS Naturals, Sequences

CONSTANTS
  Requests,         \* executions of the admin handlers
  Events,           \* subscriptions a webhook can have
  Widget,           \* widgetWebhookSubscriptions
  Attributes,       \* profileCustomAttributeDefinitions
  NoHook,           \* no webhook has the widget's URL
  MaxUsers,         \* bound: users ever created for the e-mail
  MaxHooks          \* bound: webhooks ever created for the URL

ASSUME AdminAssumption ==
  /\ Widget \subseteq Events /\ MaxUsers \in Nat \ {0} /\ MaxHooks \in Nat \ {0}
  /\ NoHook \notin [id : 1..MaxHooks, subs : SUBSET Events]

VARIABLES
  users,       \* Chatwoot: the users the e-mail ever had, by id
  hook, hooks, \* Chatwoot: the widget's webhook; webhooks ever created
  attributes,  \* Chatwoot: attribute definitions
  inboxes,     \* Chatwoot: widget inboxes, 2 for more
  kind,        \* what each request is
  pc,          \* its next exchange, or the answer it gave
  user, fresh, \* id of CreateUser's answer; had that user no account?
  seen, todo,  \* webhook found by the list; definitions to create
  agents,      \* history: users confirmed as agents and not removed since
  known,       \* history: requests that found such a user
  abandoned,   \* history: users a failure left to themselves
  edited,      \* history: requests that have not listed since the panel's
               \* last edit, or since a PATCH that ignored such an edit
  troubled     \* history: requests one of whose exchanges failed

chatwoot == <<users, hook, hooks, attributes, inboxes>>
locals == <<kind, user, fresh, seen, todo>>
history == <<agents, known, abandoned, edited, troubled>>
vars == <<chatwoot, pc, locals, history>>

Kinds == {"createAgent", "removeAgent", "createWidget", "syncWidget"}
Answers == {"ok", "noSecret", "error"}
Accounts == {"ours", "other"}
User == [accounts : SUBSET Accounts, state : {"live", "doomed", "gone"}]
Hook == [id : 1..MaxHooks, subs : SUBSET Events]

FirstStep == [createAgent |-> "createUser", removeAgent |-> "remove",
              createWidget |-> "createInbox", syncWidget |-> "listAttributes"]

At(r, l) == pc[r] = l
Goto(r, l) == pc' = [pc EXCEPT ![r] = l]
UnderWay(r) == pc[r] \notin Answers
Trouble(r) == troubled' = troubled \cup {r}

Init ==
  /\ users \in {<<>>} \cup {<<[accounts |-> {a}, state |-> "live"]>> : a \in Accounts}
  /\ hook \in {NoHook} \cup [id : {1}, subs : SUBSET Events]
  /\ hooks = IF hook = NoHook THEN 0 ELSE 1
  /\ attributes = {} /\ inboxes = 0
  /\ kind \in [Requests -> Kinds]
  /\ pc = [r \in Requests |-> FirstStep[kind[r]]]
  /\ user = [r \in Requests |-> 0]
  /\ fresh = [r \in Requests |-> FALSE]
  /\ seen = [r \in Requests |-> NoHook]
  /\ todo = [r \in Requests |-> {}]
  /\ agents = {} /\ known = {} /\ abandoned = {} /\ edited = {} /\ troubled = {}

----------------------------------------------------------------------------
(* CreateAgent.  CreateUser gives the e-mail's user, old or new; its       *)
(* answer lists the accounts the user is in.  (An exchange that fails and  *)
(* has no effect is Abort.)                                                *)
Existing == {i \in DOMAIN users : users[i].state # "gone"}

CreateUser(r) ==
  /\ At(r, "createUser")
  /\ \E i \in IF Existing # {} THEN Existing ELSE {Len(users) + 1} :
       /\ i <= MaxUsers
       /\ users' = IF i \in DOMAIN users THEN users
                   ELSE Append(users, [accounts |-> {}, state |-> "live"])
       /\ \/ /\ user' = [user EXCEPT ![r] = i]
             /\ fresh' = [fresh EXCEPT ![r] = (users'[i].accounts = {})]
             /\ known' = IF i \in agents THEN known \cup {r} ELSE known
             /\ abandoned' = abandoned \ {i}
             /\ Goto(r, "link")
          \/ /\ abandoned' = IF i \in DOMAIN users THEN abandoned ELSE abandoned \cup {i}
             /\ pc' \in {pc, [pc EXCEPT ![r] = "error"]}
             /\ UNCHANGED <<user, fresh, known>>
  /\ UNCHANGED <<hook, hooks, attributes, inboxes, kind, seen, todo, agents, edited, troubled>>

(* linkOrRollbackAgent: AddUserToAccount, and after an error the user that *)
(* had no account is deleted.                                              *)
MutAfterFailedLink(r) == "rollback"
AfterFailedLink(r) == IF fresh[r] THEN "rollback" ELSE "error"

LinkAgent(r) ==
  LET i == user[r] IN
  /\ At(r, "link")
  /\ \/ /\ users[i].state # "gone"
        /\ users' = [users EXCEPT ![i].accounts = @ \cup {"ours"}]
        /\ pc' \in {[pc EXCEPT ![r] = l] : l \in {"link", "email", AfterFailedLink(r)}}
     \/ UNCHANGED users /\ Goto(r, AfterFailedLink(r))
  /\ UNCHANGED <<hook, hooks, attributes, inboxes, locals, history>>

MutRollBack(r) == At(r, "rollback") /\ Goto(r, "error") /\ UNCHANGED <<chatwoot, locals, history>>

RollBack(r) ==
  LET i == user[r] IN
  /\ At(r, "rollback")
  /\ \/ /\ users' = IF users[i].state = "live"
                    THEN [users EXCEPT ![i].state = "doomed"] ELSE users
        /\ UNCHANGED abandoned
     \/ UNCHANGED users /\ abandoned' = abandoned \cup {i}
  /\ Goto(r, "error")
  /\ UNCHANGED <<hook, hooks, attributes, inboxes, locals, agents, known, edited, troubled>>

(* RequestPasswordReset, whose failure only shows in email_sent; then the  *)
(* request answers with the agent's id.                                    *)
SendEmail(r) ==
  /\ At(r, "email")
  /\ agents' = IF "ours" \in users[user[r]].accounts THEN agents \cup {user[r]} ELSE agents
  /\ Goto(r, "ok")
  /\ UNCHANGED <<chatwoot, locals, known, abandoned, edited, troubled>>

(* RemoveAgent: the user leaves the account, and is deleted if that was    *)
(* its last one.  A 404 is a success.                                      *)
Leaves(i) ==
  /\ "ours" \in users[i].accounts
  /\ users' = [users EXCEPT
       ![i] = [accounts |-> @.accounts \ {"ours"},
               state |-> IF @.accounts = {"ours"} THEN "doomed" ELSE @.state]]
  /\ agents' = agents \ {i}

RemoveAgent(r) ==
  /\ At(r, "remove")
  /\ \/ \E i \in DOMAIN users : Leaves(i)
     \/ UNCHANGED <<users, agents>>
  /\ pc' \in {[pc EXCEPT ![r] = l] : l \in {"remove", "ok", "error"}}
  /\ UNCHANGED <<hook, hooks, attributes, inboxes, locals, known, abandoned, edited, troubled>>

----------------------------------------------------------------------------
(* CreateWidgetInbox creates an inbox first, SyncWidgetWebhook the missing *)
(* attribute definitions (best effort, every error is skipped).            *)
CreateInbox(r) ==
  /\ At(r, "createInbox")
  /\ \/ /\ inboxes' = IF inboxes < 2 THEN inboxes + 1 ELSE 2
        /\ pc' \in {[pc EXCEPT ![r] = l] : l \in {"createInbox", "listHooks", "error"}}
     \/ UNCHANGED inboxes /\ Goto(r, "error")
  /\ UNCHANGED <<users, hook, hooks, attributes, locals, history>>

ListAttributes(r) ==
  /\ At(r, "listAttributes")
  /\ \E have \in {attributes, {}} : todo' = [todo EXCEPT ![r] = Attributes \ have]
  /\ Goto(r, "createAttributes")
  /\ UNCHANGED <<chatwoot, kind, user, fresh, seen, history>>

CreateAttribute(r) ==
  /\ At(r, "createAttributes")
  /\ \/ \E a \in todo[r] :
          /\ attributes' \in {attributes, attributes \cup {a}}
          /\ todo' = [todo EXCEPT ![r] = @ \ {a}]
          /\ UNCHANGED pc
     \/ todo[r] = {} /\ Goto(r, "listHooks") /\ UNCHANGED <<attributes, todo>>
  /\ UNCHANGED <<users, hook, hooks, inboxes, kind, user, fresh, seen, history>>

(* ensureWidgetWebhook.  CreateWidgetInbox survives its failure without a  *)
(* secret, SyncWidgetWebhook does not.                                     *)
WithoutSecret(r) == Goto(r, IF kind[r] = "createWidget" THEN "noSecret" ELSE "error")

Missing(s) == Widget \ s

MutListHooks(r) ==
  /\ At(r, "listHooks")
  /\ edited' = edited \ {r}
  /\ Goto(r, IF hook = NoHook THEN "createHook" ELSE "ok")
  /\ UNCHANGED <<chatwoot, locals, agents, known, abandoned, troubled>>

MutListAnything(r) ==
  /\ At(r, "listHooks")
  /\ seen' = [seen EXCEPT ![r] = hook]
  /\ edited' = edited \ {r}
  /\ Goto(r, "patchHook")
  /\ UNCHANGED <<chatwoot, kind, user, fresh, todo, agents, known, abandoned, troubled>>

ListHooks(r) ==
  /\ At(r, "listHooks")
  /\ \/ /\ hook = NoHook
        /\ edited' = edited \ {r}
        /\ Goto(r, "createHook") /\ UNCHANGED <<seen, troubled>>
     \/ /\ hook # NoHook
        /\ edited' = edited \ {r}
        /\ seen' = [seen EXCEPT ![r] = hook]
        /\ Goto(r, IF Missing(hook.subs) = {} THEN "ok" ELSE "patchHook")
        /\ UNCHANGED troubled
     \/ Trouble(r) /\ WithoutSecret(r) /\ UNCHANGED <<seen, edited>>
  /\ UNCHANGED <<chatwoot, kind, user, fresh, todo, agents, known, abandoned>>

(* PATCH of the webhook that was listed, with the list's subscriptions and *)
(* the missing ones.  A failure does not matter to the answer.             *)
MutMerged(r) == Missing(seen[r].subs)
Merged(r) == seen[r].subs \cup Missing(seen[r].subs)

PatchHook(r) ==
  /\ At(r, "patchHook")
  /\ \/ /\ hook' = IF hook # NoHook /\ hook.id = seen[r].id
                   THEN [hook EXCEPT !.subs = Merged(r)] ELSE hook
        /\ edited' = IF r \in edited THEN Requests ELSE edited
        /\ UNCHANGED troubled
     \/ Trouble(r) /\ UNCHANGED <<hook, edited>>
  /\ Goto(r, "ok")
  /\ UNCHANGED <<users, hooks, attributes, inboxes, locals, agents, known, abandoned>>

(* POST; the URL is unique, so the webhook somebody else created since the *)
(* list is a 422, and so is the one of a lost answer.                      *)
CreateHook(r) ==
  /\ At(r, "createHook")
  /\ \/ /\ hook = NoHook /\ hooks < MaxHooks
        /\ hook' = [id |-> hooks + 1, subs |-> Widget] /\ hooks' = hooks + 1
        /\ \/ Goto(r, "ok") /\ UNCHANGED troubled
           \/ Trouble(r) /\ (UNCHANGED pc \/ WithoutSecret(r))
     \/ hook # NoHook /\ WithoutSecret(r) /\ UNCHANGED <<hook, hooks, troubled>>
     \/ Trouble(r) /\ WithoutSecret(r) /\ UNCHANGED <<hook, hooks>>
  /\ UNCHANGED <<users, attributes, inboxes, locals, agents, known, abandoned, edited>>

----------------------------------------------------------------------------
(* The rest of the world: Chatwoot's job deletes a user, another account   *)
(* takes the user in, Chatwoot's own panel removes an agent and edits or   *)
(* deletes the webhook, a request ends with the process or its client's    *)
(* connection.                                                             *)
DeleteJob(i) ==
  /\ users[i].state = "doomed"
  /\ users' = [users EXCEPT ![i] = [accounts |-> {}, state |-> "gone"]]
  /\ agents' = agents \ {i}
  /\ UNCHANGED <<hook, hooks, attributes, inboxes, pc, locals, known, abandoned, edited, troubled>>

OtherAccountLinks(i) ==
  /\ users[i].state # "gone"
  /\ users' = [users EXCEPT ![i].accounts = @ \cup {"other"}]
  /\ UNCHANGED <<hook, hooks, attributes, inboxes, pc, locals, history>>

PanelRemoves(i) ==
  /\ Leaves(i)
  /\ UNCHANGED <<hook, hooks, attributes, inboxes, pc, locals, known, abandoned, edited, troubled>>

EditHook ==
  /\ hook # NoHook
  /\ \/ \E s \in SUBSET Events : hook' = [hook EXCEPT !.subs = s]
     \/ hooks < MaxHooks /\ hook' = NoHook
  /\ edited' = Requests
  /\ UNCHANGED <<users, hooks, attributes, inboxes, pc, locals, agents, known, abandoned, troubled>>

Abort(r) ==
  /\ UnderWay(r)
  /\ Goto(r, "error")
  /\ abandoned' = IF user[r] = 0 THEN abandoned ELSE abandoned \cup {user[r]}
  /\ UNCHANGED <<chatwoot, locals, agents, known, edited, troubled>>

Agent(r) == CreateUser(r) \/ LinkAgent(r) \/ RollBack(r) \/ SendEmail(r) \/ RemoveAgent(r)

WidgetStep(r) ==
  CreateInbox(r) \/ ListAttributes(r) \/ CreateAttribute(r) \/ ListHooks(r) \/ PatchHook(r) \/ CreateHook(r)

Next ==
  \/ \E r \in Requests : Agent(r) \/ WidgetStep(r) \/ Abort(r)
  \/ \E i \in DOMAIN users : DeleteJob(i) \/ OtherAccountLinks(i) \/ PanelRemoves(i)
  \/ EditHook

Spec == Init /\ [][Next]_vars

----------------------------------------------------------------------------
(* Where a request can stand.                                              *)
Places == Answers \cup {"createUser", "link", "rollback", "email", "remove", "createInbox",
                        "listAttributes", "createAttributes", "listHooks", "patchHook", "createHook"}

(* Type invariant.                                                         *)
TypeOK ==
  /\ users \in Seq(User) /\ Len(users) <= MaxUsers
  /\ hook \in Hook \cup {NoHook} /\ hooks \in 0..MaxHooks
  /\ attributes \subseteq Attributes /\ inboxes \in 0..2
  /\ kind \in [Requests -> Kinds]
  /\ pc \in [Requests -> Places]
  /\ user \in [Requests -> 0..MaxUsers] /\ fresh \in [Requests -> BOOLEAN]
  /\ seen \in [Requests -> Hook \cup {NoHook}]
  /\ \A r \in Requests : At(r, "patchHook") => seen[r] # NoHook
  /\ todo \in [Requests -> SUBSET Attributes]
  /\ agents \cup abandoned \subseteq 1..MaxUsers
  /\ known \cup edited \cup troubled \subseteq Requests

(* No user is left in Chatwoot without an account unless a request died,   *)
(* an answer was lost or the compensating delete failed: whatever the      *)
(* order of concurrent creates, removals and deletion jobs                 *)
(* (linkOrRollbackAgent).                                                  *)
NoOrphanUser ==
  \A i \in DOMAIN users : users[i].state = "live" /\ users[i].accounts = {} =>
    \/ i \in abandoned
    \/ \E r \in Requests : user[r] = i /\ pc[r] \in {"link", "rollback"}

(* A create that found an agent some earlier create had confirmed never    *)
(* deletes the user, whatever happens to its link: only creates that       *)
(* overlap may delete each other's user.                                   *)
ConfirmedAgentSpared == \A r \in known : ~At(r, "rollback")

(* The migration of the webhook drops no subscription, also when several   *)
(* requests migrate at once, unless the panel edited the webhook after the *)
(* request listed it, or another request's PATCH ignored such an edit      *)
(* (ensureWidgetWebhook merges into a list that may be stale).             *)
MigrationOnlyAdds ==
  [][\A r \in Requests \ edited :
       pc'[r] # pc[r] /\ hook # NoHook /\ hook' # NoHook => hook.subs \subseteq hook'.subs]_vars

(* A request that answered with the secret leaves the webhook subscribed   *)
(* to all that the widget needs, until the panel edits it or if an         *)
(* exchange failed: no concurrent request undoes it.                       *)
SyncSubscribes ==
  \A r \in Requests \ (edited \cup troubled) :
    At(r, "ok") /\ kind[r] \in {"createWidget", "syncWidget"} =>
      hook # NoHook /\ Widget \subseteq hook.subs

(* The inductive strengthening the proofs use.  Where a request stands     *)
(* says what it is, and once CreateUser answered there is a user.          *)
OnTrack ==
  \A r \in Requests :
    /\ pc[r] \in {"createUser", "link", "rollback", "email"} => kind[r] = "createAgent"
    /\ At(r, "remove") => kind[r] = "removeAgent"
    /\ pc[r] \in {"link", "rollback", "email"} => user[r] \in DOMAIN users

(* A user that a create may not delete has an account while it lives; an   *)
(* agent is in this account; who found an agent takes its user for an old  *)
(* one.                                                                    *)
OldUserKept ==
  \A r \in Requests :
    At(r, "link") /\ ~fresh[r] /\ users[user[r]].state = "live" => users[user[r]].accounts # {}

AgentsLinked == \A i \in agents : i \in DOMAIN users /\ "ours" \in users[i].accounts

KnownIsOld == \A r \in known : ~fresh[r] /\ pc[r] \notin {"createUser", "rollback"}

(* What a request listed differs from the webhook in the widget's          *)
(* subscriptions at most, unless the panel edited it.                      *)
ListedHook ==
  \A r \in Requests \ edited : At(r, "patchHook") =>
    /\ hook # NoHook /\ hook.id = seen[r].id
    /\ hook.subs \cup Widget = seen[r].subs \cup Widget

IInv == /\ TypeOK /\ OnTrack /\ NoOrphanUser /\ OldUserKept /\ AgentsLinked /\ KnownIsOld
        /\ ListedHook /\ SyncSubscribes

=============================================================================
