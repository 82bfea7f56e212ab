------------------------ MODULE ChatwootAdmin_proofs ------------------------
(***************************************************************************)
(* Theorems about ChatwootAdmin, for any number of concurrent requests and *)
(* any bounds on the users and webhooks of the account.                    *)
(***************************************************************************)
EXTENDS ChatwootAdmin, TLAPS, SequenceTheorems

----------------------------------------------------------------------------
(* The users are those of the e-mail, by id.                               *)
LEMMA UserTypes ==
  ASSUME TypeOK
  PROVE  /\ users \in Seq(User) /\ Len(users) \in 0..MaxUsers /\ DOMAIN users = 1 .. Len(users)
         /\ DOMAIN users \subseteq 1..MaxUsers
         /\ \A i \in DOMAIN users : users[i] \in User
<1>1. users \in Seq(User) /\ Len(users) \in Nat /\ DOMAIN users = 1 .. Len(users)
      /\ Len(users) <= MaxUsers
  BY LenProperties DEF TypeOK
<1>2. \A i \in DOMAIN users : users[i] \in User
  BY <1>1, ElementOfSeq
<1>3. QED
  BY <1>1, <1>2, AdminAssumption

(* One user changes.                                                       *)
LEMMA UserChanged ==
  ASSUME TypeOK, NEW i \in DOMAIN users, NEW u \in User, users' = [users EXCEPT ![i] = u]
  PROVE  /\ users' \in Seq(User) /\ Len(users') <= MaxUsers /\ DOMAIN users' = DOMAIN users
         /\ users'[i] = u /\ \A j \in DOMAIN users : j # i => users'[j] = users[j]
<1>1. /\ users \in Seq(User) /\ Len(users) \in Nat /\ Len(users) <= MaxUsers
      /\ DOMAIN users = 1 .. Len(users) /\ \A j \in DOMAIN users : users[j] \in User
  BY UserTypes, LenProperties DEF TypeOK
<1>2. users' \in [1 .. Len(users) -> User]
  BY <1>1
<1>3. users' \in Seq(User)
  BY <1>1, <1>2
<1>4. DOMAIN users' = 1 .. Len(users)
  BY <1>2
<1>5. Len(users') = Len(users)
  BY <1>1, <1>3, <1>4, LenProperties
<1>6. QED
  BY <1>1, <1>3, <1>4, <1>5

(* A request moves alone, from one exchange to the next.                   *)
LEMMA Moves ==
  ASSUME pc \in [Requests -> Places], NEW r \in Requests, Agent(r) \/ WidgetStep(r) \/ Abort(r)
  PROVE  pc' \in [Requests -> Places] /\ \A q \in Requests : q # r => pc'[q] = pc[q]
<1>1. CASE \E l \in Places : pc' = [pc EXCEPT ![r] = l]
  BY <1>1
<1>2. CASE UNCHANGED pc
  BY <1>2
<1>3. CASE Agent(r)
  BY <1>1, <1>2, <1>3
  DEF Agent, CreateUser, LinkAgent, RollBack, SendEmail, RemoveAgent, AfterFailedLink, Goto, Places,
      Answers
<1>4. CASE WidgetStep(r)
  BY <1>1, <1>2, <1>4
  DEF WidgetStep, CreateInbox, ListAttributes, CreateAttribute, ListHooks, PatchHook, CreateHook,
      WithoutSecret, Goto, Places, Answers
<1>5. CASE Abort(r)
  BY <1>1, <1>5 DEF Abort, Goto, Places, Answers
<1>6. QED
  BY <1>3, <1>4, <1>5

(* What the requests of one part leave to the other.                       *)
LEMMA AgentLeaves ==
  ASSUME pc \in [Requests -> Places], NEW r \in Requests, Agent(r)
  PROVE  /\ UNCHANGED <<hook, hooks, attributes, inboxes, kind, seen, todo, edited, troubled>>
         /\ pc[r] \in {"createUser", "link", "rollback", "email", "remove"}
         /\ pc'[r] # "patchHook" /\ (At(r, "remove") <=> pc[r] = "remove")
         /\ pc'[r] = "ok" => pc[r] \in {"email", "remove"}
  BY DEF Agent, CreateUser, LinkAgent, RollBack, SendEmail, RemoveAgent, AfterFailedLink, At, Goto,
     chatwoot, locals, history

(* The same of a step for the widget.                                      *)
LEMMA WidgetLeaves ==
  ASSUME pc \in [Requests -> Places], NEW r \in Requests, WidgetStep(r)
  PROVE  /\ UNCHANGED <<users, kind, user, fresh, agents, known, abandoned>>
         /\ pc[r] \notin {"createUser", "link", "rollback", "email", "remove"}
         /\ pc'[r] \notin {"createUser", "link", "rollback", "email", "remove"}
  BY DEF WidgetStep, CreateInbox, ListAttributes, CreateAttribute, ListHooks, PatchHook, CreateHook,
     WithoutSecret, At, Goto, chatwoot, locals, history

----------------------------------------------------------------------------
(* What any step does to the users: none becomes an orphan, none who stays *)
(* an agent leaves the account.                                            *)
UsersKept ==
  /\ users' \in Seq(User) /\ Len(users') <= MaxUsers
  /\ \A i \in DOMAIN users :
       /\ i \in DOMAIN users'
       /\ users'[i].state = "live" /\ users'[i].accounts = {} =>
            users[i].state = "live" /\ users[i].accounts = {}
  /\ AgentsLinked'

(* One user changes, and keeps the promises above.                         *)
LEMMA UserKept ==
  ASSUME TypeOK, AgentsLinked, NEW i \in DOMAIN users, NEW u \in User,
         users' = [users EXCEPT ![i] = u],
         u.state = "live" /\ u.accounts = {} => users[i].state = "live" /\ users[i].accounts = {},
         agents' \subseteq agents,
         i \in agents' => "ours" \in u.accounts
  PROVE  UsersKept
<1>1. /\ users' \in Seq(User) /\ Len(users') <= MaxUsers /\ DOMAIN users' = DOMAIN users
      /\ users'[i] = u /\ \A j \in DOMAIN users : j # i => users'[j] = users[j]
  BY UserChanged
<1>2. QED
  BY <1>1 DEF UsersKept, AgentsLinked

(* A user who leaves the account is one of no account only if doomed.      *)
LEMMA LeaveKept ==
  ASSUME TypeOK, AgentsLinked, NEW i \in DOMAIN users, Leaves(i)
  PROVE  UsersKept
<1> DEFINE u == [accounts |-> users[i].accounts \ {"ours"},
                 state |-> IF users[i].accounts = {"ours"} THEN "doomed" ELSE users[i].state]
<1>1. users[i] \in User
  BY UserTypes
<1>2. u \in User /\ (u.state = "live" => u.accounts # {})
  BY <1>1 DEF User, Leaves
<1>3. users' = [users EXCEPT ![i] = u] /\ agents' = agents \ {i}
  BY DEF Leaves
<1> HIDE DEF u
<1>4. QED
  BY <1>2, <1>3, UserKept

(* Every step keeps the users so.                                          *)
LEMMA UsersStep ==
  ASSUME TypeOK, OnTrack, AgentsLinked, [Next]_vars
  PROVE  UsersKept
<1>1. /\ \A i \in DOMAIN users : users[i] \in User
      /\ users \in Seq(User) /\ Len(users) <= MaxUsers /\ pc \in [Requests -> Places]
      /\ DOMAIN users = 1 .. Len(users) /\ Len(users) \in Nat
  BY UserTypes DEF TypeOK
<1>2. ASSUME UNCHANGED <<users, agents>> PROVE UsersKept
  BY <1>1, <1>2 DEF UsersKept, AgentsLinked
<1>3. ASSUME NEW r \in Requests, CreateUser(r) PROVE UsersKept
  <2>1. PICK i \in Nat \ {0} :
          /\ i \in DOMAIN users \/ i = Len(users) + 1
          /\ i <= MaxUsers
          /\ users' = IF i \in DOMAIN users THEN users
                      ELSE Append(users, [accounts |-> {}, state |-> "live"])
    BY <1>1, <1>3 DEF CreateUser, Existing
  <2>2. UNCHANGED agents
    BY <1>3 DEF CreateUser
  <2>3. CASE i \notin DOMAIN users
    <3> DEFINE u == [accounts |-> {}, state |-> "live"]
    <3>1. u \in User
      BY DEF User
    <3>2. users' = Append(users, u) /\ Len(users) + 1 <= MaxUsers
      BY <2>1, <2>3
    <3> HIDE DEF u
    <3>3. users' \in Seq(User) /\ Len(users') = Len(users) + 1
          /\ \A j \in 1 .. Len(users) : users'[j] = users[j]
      BY <1>1, <3>1, <3>2, AppendProperties
    <3>4. DOMAIN users' = 1 .. (Len(users) + 1)
      BY <3>3, LenProperties
    <3>5. QED
      BY <1>1, <2>2, <3>2, <3>3, <3>4 DEF UsersKept, AgentsLinked
  <2>4. QED
    BY <1>2, <2>1, <2>2, <2>3
<1>4. ASSUME NEW r \in Requests, LinkAgent(r) PROVE UsersKept
  <2> DEFINE i == user[r]
             u == [users[i] EXCEPT !.accounts = @ \cup {"ours"}]
  <2>1. i \in DOMAIN users /\ UNCHANGED agents
    BY <1>4 DEF LinkAgent, OnTrack, At, history
  <2>2. CASE users' = [users EXCEPT ![i].accounts = @ \cup {"ours"}]
    <3>1. u \in User /\ u.accounts # {} /\ "ours" \in u.accounts
      BY <1>1, <2>1 DEF User, Accounts
    <3>2. users' = [users EXCEPT ![i] = u]
      BY <2>2
    <3> HIDE DEF u
    <3>3. QED
      BY <2>1, <3>1, <3>2, UserKept
  <2>3. QED
    BY <1>2, <1>4, <2>1, <2>2 DEF LinkAgent
<1>5. ASSUME NEW r \in Requests, RollBack(r) PROVE UsersKept
  <2> DEFINE i == user[r]
             u == [users[i] EXCEPT !.state = "doomed"]
  <2>1. i \in DOMAIN users /\ UNCHANGED agents
    BY <1>5 DEF RollBack, OnTrack, At
  <2>2. CASE users' = [users EXCEPT ![i].state = "doomed"]
    <3>1. u \in User /\ u.state = "doomed" /\ u.accounts = users[i].accounts
      BY <1>1, <2>1 DEF User
    <3>2. users' = [users EXCEPT ![i] = u]
      BY <2>2
    <3> HIDE DEF u
    <3>3. i \in agents' => "ours" \in u.accounts
      BY <2>1, <3>1 DEF AgentsLinked
    <3>4. QED
      BY <2>1, <3>1, <3>2, <3>3, UserKept
  <2>3. QED
    BY <1>2, <1>5, <2>1, <2>2 DEF RollBack
<1>6. ASSUME NEW r \in Requests, SendEmail(r) PROVE UsersKept
  <2>1. user[r] \in DOMAIN users /\ UNCHANGED users
    BY <1>6 DEF SendEmail, OnTrack, At, chatwoot
  <2>2. QED
    BY <1>1, <1>6, <2>1 DEF SendEmail, UsersKept, AgentsLinked
<1>7. ASSUME NEW r \in Requests, RemoveAgent(r) PROVE UsersKept
  BY <1>2, <1>7, LeaveKept DEF RemoveAgent
<1>8. ASSUME NEW r \in Requests, WidgetStep(r) \/ Abort(r) PROVE UsersKept
  BY <1>1, <1>2, <1>8, WidgetLeaves DEF Abort, chatwoot
<1>9. ASSUME NEW i \in DOMAIN users, DeleteJob(i) PROVE UsersKept
  <2> DEFINE u == [accounts |-> {}, state |-> "gone"]
  <2>1. u \in User /\ u.state # "live"
    BY DEF User
  <2>2. users' = [users EXCEPT ![i] = u] /\ agents' = agents \ {i}
    BY <1>9 DEF DeleteJob
  <2> HIDE DEF u
  <2>3. QED
    BY <2>1, <2>2, UserKept
<1>10. ASSUME NEW i \in DOMAIN users, OtherAccountLinks(i) PROVE UsersKept
  <2> DEFINE u == [users[i] EXCEPT !.accounts = @ \cup {"other"}]
  <2>1. u \in User /\ u.accounts # {} /\ ("ours" \in users[i].accounts => "ours" \in u.accounts)
    BY <1>1 DEF User, Accounts
  <2>2. users' = [users EXCEPT ![i] = u] /\ UNCHANGED agents
    BY <1>10 DEF OtherAccountLinks, history
  <2> HIDE DEF u
  <2>3. i \in agents' => "ours" \in u.accounts
    BY <2>1, <2>2 DEF AgentsLinked
  <2>4. QED
    BY <2>1, <2>2, <2>3, UserKept
<1>11. ASSUME NEW i \in DOMAIN users, PanelRemoves(i) PROVE UsersKept
  BY <1>11, LeaveKept DEF PanelRemoves
<1>12. CASE EditHook \/ UNCHANGED vars
  BY <1>2, <1>12 DEF EditHook, vars, chatwoot, history
<1>13. QED
  BY <1>3, <1>4, <1>5, <1>6, <1>7, <1>8, <1>9, <1>10, <1>11, <1>12 DEF Next, Agent

----------------------------------------------------------------------------
(* Every step keeps the types.                                             *)
LEMMA TypeStep ==
  ASSUME TypeOK, OnTrack, AgentsLinked, [Next]_vars
  PROVE  TypeOK'
<1> DEFINE ChatwootTypes ==
             /\ hook' \in Hook \cup {NoHook} /\ hooks' \in 0..MaxHooks
             /\ attributes' \subseteq Attributes /\ inboxes' \in 0..2
           LocalTypes ==
             /\ pc' \in [Requests -> Places]
             /\ user' \in [Requests -> 0..MaxUsers] /\ fresh' \in [Requests -> BOOLEAN]
             /\ seen' \in [Requests -> Hook \cup {NoHook}]
             /\ \A r \in Requests : pc'[r] = "patchHook" => seen'[r] # NoHook
             /\ todo' \in [Requests -> SUBSET Attributes]
           HistoryTypes ==
             abandoned' \subseteq 1..MaxUsers /\ known' \cup edited' \cup troubled' \subseteq Requests
<1>1. /\ hook \in Hook \cup {NoHook} /\ hooks \in 0..MaxHooks
      /\ attributes \subseteq Attributes /\ inboxes \in 0..2
      /\ pc \in [Requests -> Places]
      /\ user \in [Requests -> 0..MaxUsers] /\ fresh \in [Requests -> BOOLEAN]
      /\ seen \in [Requests -> Hook \cup {NoHook}]
      /\ \A r \in Requests : pc[r] = "patchHook" => seen[r] # NoHook
      /\ todo \in [Requests -> SUBSET Attributes]
      /\ abandoned \subseteq 1..MaxUsers /\ known \cup edited \cup troubled \subseteq Requests
  BY DEF TypeOK, At
<1>2. UNCHANGED kind
  BY DEF Next, Agent, CreateUser, LinkAgent, RollBack, SendEmail, RemoveAgent, WidgetStep,
     CreateInbox, ListAttributes, CreateAttribute, ListHooks, PatchHook, CreateHook, Abort, DeleteJob,
     OtherAccountLinks, PanelRemoves, EditHook, vars, locals
<1>3. users' \in Seq(User) /\ Len(users') <= MaxUsers /\ agents' \subseteq 1..MaxUsers
  <2>1. users' \in Seq(User) /\ Len(users') <= MaxUsers /\ agents' \subseteq DOMAIN users'
    BY UsersStep DEF UsersKept, AgentsLinked
  <2>2. DOMAIN users' = 1 .. Len(users') /\ Len(users') \in Nat
    BY <2>1, LenProperties
  <2>3. QED
    BY <2>1, <2>2, AdminAssumption
<1>4. ASSUME NEW r \in Requests, CreateUser(r) PROVE ChatwootTypes /\ LocalTypes /\ HistoryTypes
  <2>1. pc' \in [Requests -> Places] /\ \A q \in Requests : q # r => pc'[q] = pc[q]
    BY <1>1, <1>4, Moves DEF Agent
  <2>2. UNCHANGED <<hook, hooks, attributes, inboxes, kind, seen, todo, edited, troubled>>
        /\ pc'[r] # "patchHook"
    BY <1>1, <1>4, AgentLeaves DEF Agent
  <2>3. PICK i : i \in 1..MaxUsers /\
          \/ /\ user' = [user EXCEPT ![r] = i]
             /\ fresh' = [fresh EXCEPT ![r] = (users'[i].accounts = {})]
             /\ known' = IF i \in agents THEN known \cup {r} ELSE known
             /\ abandoned' = abandoned \ {i}
          \/ /\ abandoned' = IF i \in DOMAIN users THEN abandoned ELSE abandoned \cup {i}
             /\ UNCHANGED <<user, fresh, known>>
    <3>1. \A i \in Existing : i \in 1..MaxUsers
      BY UserTypes DEF Existing
    <3>2. Len(users) + 1 <= MaxUsers => Len(users) + 1 \in 1..MaxUsers
      BY UserTypes, AdminAssumption
    <3>3. QED
      BY <1>4, <3>1, <3>2 DEF CreateUser
  <2>4. user' \in [Requests -> 0..MaxUsers]
    <3>1. i \in 0..MaxUsers
      BY <2>3, AdminAssumption
    <3>2. QED
      BY <1>1, <2>3, <3>1
  <2>5. fresh' \in [Requests -> BOOLEAN]
    <3>1. (users'[i].accounts = {}) \in BOOLEAN
      OBVIOUS
    <3>2. QED
      BY <1>1, <2>3, <3>1, Zenon
  <2>6. HistoryTypes
    BY <1>1, <2>2, <2>3
  <2>7. QED
    BY <1>1, <2>1, <2>2, <2>4, <2>5, <2>6
<1>5. ASSUME NEW r \in Requests, LinkAgent(r) \/ RollBack(r) \/ SendEmail(r) \/ RemoveAgent(r)
      PROVE  ChatwootTypes /\ LocalTypes /\ HistoryTypes
  <2>1. pc' \in [Requests -> Places] /\ \A q \in Requests : q # r => pc'[q] = pc[q]
    BY <1>1, <1>5, Moves DEF Agent
  <2>2. UNCHANGED <<hook, hooks, attributes, inboxes, kind, seen, todo, edited, troubled>>
        /\ pc'[r] # "patchHook"
    BY <1>1, <1>5, AgentLeaves DEF Agent
  <2>3. UNCHANGED <<user, fresh, known>>
    BY <1>5 DEF LinkAgent, RollBack, SendEmail, RemoveAgent, locals, history
  <2>4. abandoned' \subseteq 1..MaxUsers
    <3>1. At(r, "rollback") => user[r] \in 1..MaxUsers
      BY UserTypes DEF OnTrack, At
    <3>2. QED
      BY <1>1, <1>5, <3>1 DEF LinkAgent, RollBack, SendEmail, RemoveAgent, history
  <2>5. QED
    BY <1>1, <2>1, <2>2, <2>3, <2>4
<1>6. ASSUME NEW r \in Requests, WidgetStep(r) PROVE ChatwootTypes /\ LocalTypes /\ HistoryTypes
  <2>1. pc' \in [Requests -> Places] /\ \A q \in Requests : q # r => pc'[q] = pc[q]
    BY <1>1, <1>6, Moves
  <2>2. UNCHANGED <<users, kind, user, fresh, agents, known, abandoned>>
    BY <1>1, <1>6, WidgetLeaves
  <2>3. CASE CreateInbox(r)
    BY <1>1, <2>1, <2>2, <2>3 DEF CreateInbox, Goto, locals, history
  <2>4. CASE ListAttributes(r)
    <3>1. \A have \in {attributes, {}} :
            [todo EXCEPT ![r] = Attributes \ have] \in [Requests -> SUBSET Attributes]
      BY <1>1
    <3>2. todo' \in [Requests -> SUBSET Attributes]
      BY <2>4, <3>1 DEF ListAttributes
    <3>3. QED
      BY <1>1, <2>1, <2>2, <2>4, <3>2 DEF ListAttributes, Goto, chatwoot, history
  <2>5. CASE CreateAttribute(r)
    <3>1. todo[r] \subseteq Attributes
      BY <1>1
    <3>2. todo' \in [Requests -> SUBSET Attributes] /\ attributes' \subseteq Attributes
      BY <1>1, <2>5, <3>1 DEF CreateAttribute
    <3>3. QED
      BY <1>1, <2>1, <2>2, <2>5, <3>2 DEF CreateAttribute, Goto, history
  <2>6. CASE ListHooks(r)
    <3>1. seen' \in [Requests -> Hook \cup {NoHook}]
      BY <1>1, <2>6 DEF ListHooks
    <3>2. /\ pc'[r] = "patchHook" => seen'[r] # NoHook
          /\ \A q \in Requests : q # r => seen'[q] = seen[q]
      BY <1>1, <2>6 DEF ListHooks, Goto, WithoutSecret
    <3>3. QED
      BY <1>1, <2>1, <2>2, <2>6, <3>1, <3>2 DEF ListHooks, Trouble, chatwoot
  <2>7. CASE PatchHook(r)
    <3>1. hook' \in Hook \cup {NoHook}
      <4>1. seen[r] \in Hook
        BY <1>1, <2>7 DEF PatchHook, At
      <4>2. Merged(r) \subseteq Events
        BY <4>1, AdminAssumption DEF Merged, Missing, Hook
      <4>3. hook # NoHook => [hook EXCEPT !.subs = Merged(r)] \in Hook
        BY <1>1, <4>2 DEF Hook
      <4>4. QED
        BY <1>1, <2>7, <4>3 DEF PatchHook
    <3>2. QED
      BY <1>1, <2>1, <2>2, <2>7, <3>1 DEF PatchHook, Trouble, Goto, locals
  <2>8. CASE CreateHook(r)
    <3>1. hooks < MaxHooks => /\ [id |-> hooks + 1, subs |-> Widget] \in Hook
                              /\ hooks + 1 \in 0..MaxHooks
      BY <1>1, AdminAssumption DEF Hook
    <3>2. hook' \in Hook \cup {NoHook} /\ hooks' \in 0..MaxHooks
      BY <1>1, <2>8, <3>1 DEF CreateHook
    <3>3. pc'[r] # "patchHook"
      BY <1>1, <2>8 DEF CreateHook, Goto, WithoutSecret, At
    <3>4. QED
      BY <1>1, <2>1, <2>2, <2>8, <3>2, <3>3 DEF CreateHook, Trouble, locals
  <2>9. QED
    BY <1>6, <2>3, <2>4, <2>5, <2>6, <2>7, <2>8 DEF WidgetStep
<1>7. ASSUME NEW r \in Requests, Abort(r) PROVE ChatwootTypes /\ LocalTypes /\ HistoryTypes
  <2>1. pc' \in [Requests -> Places] /\ \A q \in Requests : q # r => pc'[q] = pc[q]
    BY <1>1, <1>7, Moves
  <2>2. pc'[r] = "error"
    BY <1>1, <1>7 DEF Abort, Goto
  <2>3. abandoned' \subseteq 1..MaxUsers
    <3>1. user[r] # 0 => user[r] \in 1..MaxUsers
      BY <1>1, AdminAssumption
    <3>2. QED
      BY <1>1, <1>7, <3>1 DEF Abort
  <2>4. QED
    BY <1>1, <1>7, <2>1, <2>2, <2>3 DEF Abort, chatwoot, locals
<1>8. ASSUME NEW i \in DOMAIN users, DeleteJob(i) \/ OtherAccountLinks(i) \/ PanelRemoves(i)
      PROVE  ChatwootTypes /\ LocalTypes /\ HistoryTypes
  BY <1>1, <1>8 DEF DeleteJob, OtherAccountLinks, PanelRemoves, locals, history
<1>9. ASSUME EditHook PROVE ChatwootTypes /\ LocalTypes /\ HistoryTypes
  <2>1. hook' \in Hook \cup {NoHook}
    BY <1>1, <1>9 DEF EditHook, Hook
  <2>2. QED
    <3>1. ChatwootTypes
      BY <1>1, <1>9, <2>1 DEF EditHook
    <3>2. LocalTypes
      BY <1>1, <1>9 DEF EditHook, locals
    <3>3. HistoryTypes
      BY <1>1, <1>9 DEF EditHook
    <3>4. QED
      BY <3>1, <3>2, <3>3
<1>10. ASSUME UNCHANGED vars PROVE ChatwootTypes /\ LocalTypes /\ HistoryTypes
  <2>1. ChatwootTypes
    BY <1>1, <1>10 DEF vars, chatwoot
  <2>2. LocalTypes
    BY <1>1, <1>10 DEF vars, locals
  <2>3. HistoryTypes
    BY <1>1, <1>10 DEF vars, history
  <2>4. QED
    BY <2>1, <2>2, <2>3
<1> HIDE DEF ChatwootTypes, LocalTypes, HistoryTypes
<1>11. ChatwootTypes /\ LocalTypes /\ HistoryTypes
  BY <1>4, <1>5, <1>6, <1>7, <1>8, <1>9, <1>10 DEF Next, Agent
<1>12. QED
  BY <1>2, <1>3, <1>11 DEF TypeOK, At, ChatwootTypes, LocalTypes, HistoryTypes

----------------------------------------------------------------------------
(* A request's place still tells its kind, and its user is there.          *)
LEMMA TrackStep ==
  ASSUME TypeOK, OnTrack, AgentsLinked, [Next]_vars
  PROVE  OnTrack'
<1>1. /\ pc \in [Requests -> Places] /\ user \in [Requests -> 0..MaxUsers]
      /\ \A i \in DOMAIN users : i \in DOMAIN users'
  BY UsersStep DEF TypeOK, UsersKept
<1>2. ASSUME UNCHANGED <<pc, kind, user>> PROVE OnTrack'
  BY <1>1, <1>2 DEF OnTrack, At
<1>3. ASSUME NEW r \in Requests, CreateUser(r) PROVE OnTrack'
  <2>1. UNCHANGED kind /\ kind[r] = "createAgent" /\ (\A q \in Requests : q # r => pc'[q] = pc[q])
    BY <1>1, <1>3, Moves, AgentLeaves DEF Agent, CreateUser, At, OnTrack
  <2>2. CASE UNCHANGED user /\ pc' \in {pc, [pc EXCEPT ![r] = "error"]}
    BY <1>1, <2>1, <2>2 DEF OnTrack, At
  <2>3. ASSUME NEW i, user' = [user EXCEPT ![r] = i], Goto(r, "link"), i \in DOMAIN users'
        PROVE  OnTrack'
    BY <1>1, <2>1, <2>3 DEF OnTrack, At, Goto
  <2>4. \A i : (i \in DOMAIN users \/ i = Len(users) + 1) /\
               users' = (IF i \in DOMAIN users THEN users
                         ELSE Append(users, [accounts |-> {}, state |-> "live"])) => i \in DOMAIN users'
    <3> DEFINE u == [accounts |-> {}, state |-> "live"]
    <3>1. u \in User
      BY DEF User
    <3> HIDE DEF u
    <3>2. ASSUME users' = Append(users, u) PROVE Len(users) + 1 \in DOMAIN users'
      <4>1. users' \in Seq(User) /\ Len(users') = Len(users) + 1 /\ Len(users) \in Nat
        BY <3>1, <3>2, UserTypes, AppendProperties
      <4>2. QED
        BY <4>1, LenProperties
    <3>3. QED
      BY <3>2 DEF u
  <2>5. QED
    BY <1>3, <2>2, <2>3, <2>4 DEF CreateUser, Existing
<1>4. ASSUME NEW r \in Requests, LinkAgent(r) \/ RollBack(r) \/ SendEmail(r) PROVE OnTrack'
  <2>1. UNCHANGED <<kind, user>> /\ (\A q \in Requests : q # r => pc'[q] = pc[q])
    BY <1>1, <1>4, Moves DEF Agent, LinkAgent, RollBack, SendEmail, locals
  <2>2. pc[r] \in {"link", "rollback", "email"} /\ pc'[r] \notin {"createUser", "remove"}
    BY <1>1, <1>4 DEF LinkAgent, RollBack, SendEmail, AfterFailedLink, At, Goto
  <2>3. QED
    BY <1>1, <2>1, <2>2 DEF OnTrack, At
<1>5. ASSUME NEW r \in Requests, RemoveAgent(r) PROVE OnTrack'
  <2>1. UNCHANGED <<kind, user>> /\ (\A q \in Requests : q # r => pc'[q] = pc[q])
    BY <1>1, <1>5, Moves DEF Agent, RemoveAgent, locals
  <2>2. pc[r] = "remove" /\ pc'[r] \in {"remove", "ok", "error"}
    BY <1>1, <1>5 DEF RemoveAgent, At
  <2>3. QED
    BY <1>1, <2>1, <2>2 DEF OnTrack, At
<1>6. ASSUME NEW r \in Requests, WidgetStep(r) \/ Abort(r) PROVE OnTrack'
  <2>1. UNCHANGED <<kind, user>> /\ (\A q \in Requests : q # r => pc'[q] = pc[q])
    BY <1>1, <1>6, Moves, WidgetLeaves DEF Abort, locals
  <2>2. pc'[r] \notin {"createUser", "link", "rollback", "email", "remove"}
    BY <1>1, <1>6, WidgetLeaves DEF Abort, Goto
  <2>3. QED
    BY <1>1, <2>1, <2>2 DEF OnTrack, At
<1>7. QED
  BY <1>2, <1>3, <1>4, <1>5, <1>6
  DEF Next, Agent, DeleteJob, OtherAccountLinks, PanelRemoves, EditHook, vars, locals

(* Who may not delete its user has one with an account, or with a deletion *)
(* job.                                                                    *)
LEMMA OldUserStep ==
  ASSUME TypeOK, OnTrack, AgentsLinked, OldUserKept, [Next]_vars
  PROVE  OldUserKept'
<1>1. /\ pc \in [Requests -> Places] /\ fresh \in [Requests -> BOOLEAN]
      /\ user \in [Requests -> 0..MaxUsers]
      /\ \A r \in Requests : pc[r] = "link" => user[r] \in DOMAIN users
      /\ \A i \in DOMAIN users :
           users'[i].state = "live" /\ users'[i].accounts = {} =>
             users[i].state = "live" /\ users[i].accounts = {}
  BY UsersStep DEF TypeOK, UsersKept, OnTrack
<1>2. ASSUME UNCHANGED <<user, fresh>>, \A r \in Requests : pc'[r] = "link" => pc[r] = "link"
      PROVE  OldUserKept'
  BY <1>1, <1>2 DEF OldUserKept, At
<1>3. ASSUME NEW r \in Requests, CreateUser(r) PROVE OldUserKept'
  <2>1. \A q \in Requests : q # r => pc'[q] = pc[q]
    BY <1>1, <1>3, Moves DEF Agent
  <2>2. CASE UNCHANGED <<user, fresh>> /\ pc' \in {pc, [pc EXCEPT ![r] = "error"]}
    BY <1>1, <1>2, <2>2
  <2>3. ASSUME NEW i, user' = [user EXCEPT ![r] = i],
               fresh' = [fresh EXCEPT ![r] = (users'[i].accounts = {})]
        PROVE  OldUserKept'
    <3>1. user'[r] = i /\ \A q \in Requests : q # r => user'[q] = user[q]
      BY <1>1, <2>3
    <3>2. fresh'[r] = (users'[i].accounts = {}) /\ \A q \in Requests : q # r => fresh'[q] = fresh[q]
      BY <1>1, <2>3, Zenon
    <3>3. ASSUME NEW q \in Requests, pc'[q] = "link", ~fresh'[q], users'[user'[q]].state = "live"
          PROVE  users'[user'[q]].accounts # {}
      <4>1. CASE q = r
        BY <3>1, <3>2, <3>3, <4>1
      <4>2. CASE q # r
        BY <1>1, <2>1, <3>1, <3>2, <3>3, <4>2 DEF OldUserKept, At
      <4>3. QED
        BY <4>1, <4>2
    <3>4. QED
      BY <3>3 DEF OldUserKept, At
  <2>4. QED
    BY <1>3, <2>2, <2>3 DEF CreateUser
<1>4. ASSUME NEW r \in Requests,
             LinkAgent(r) \/ RollBack(r) \/ SendEmail(r) \/ RemoveAgent(r) \/ WidgetStep(r) \/ Abort(r)
      PROVE  OldUserKept'
  <2>1. \A q \in Requests : q # r => pc'[q] = pc[q]
    BY <1>1, <1>4, Moves DEF Agent
  <2>2. UNCHANGED <<user, fresh>>
    BY <1>1, <1>4, WidgetLeaves DEF LinkAgent, RollBack, SendEmail, RemoveAgent, Abort, locals
  <2>3. pc'[r] = "link" => pc[r] = "link"
    BY <1>1, <1>4, WidgetLeaves DEF LinkAgent, RollBack, SendEmail, RemoveAgent, Abort, At, Goto
  <2>4. QED
    BY <1>2, <2>1, <2>2, <2>3
<1>5. QED
  BY <1>2, <1>3, <1>4
  DEF Next, Agent, DeleteJob, OtherAccountLinks, PanelRemoves, EditHook, vars, locals

(* An orphan is left to a failure, or a request is about to deal with it.  *)
LEMMA OrphanStep ==
  ASSUME TypeOK, OnTrack, AgentsLinked, OldUserKept, NoOrphanUser, [Next]_vars
  PROVE  NoOrphanUser'
<1> DEFINE Orphan(i) == i \in DOMAIN users /\ users[i].state = "live" /\ users[i].accounts = {}
           Cared(i) == \E r \in Requests : user[r] = i /\ pc[r] \in {"link", "rollback"}
           CaredNext(i) == \E r \in Requests : user'[r] = i /\ pc'[r] \in {"link", "rollback"}
<1>1. /\ pc \in [Requests -> Places] /\ user \in [Requests -> 0..MaxUsers]
      /\ \A i \in DOMAIN users :
           users'[i].state = "live" /\ users'[i].accounts = {} => Orphan(i)
      /\ \A i : Orphan(i) => i \in abandoned \/ Cared(i)
  BY UsersStep DEF TypeOK, UsersKept, NoOrphanUser
<1>2. ASSUME UNCHANGED user, DOMAIN users' = DOMAIN users, abandoned \subseteq abandoned',
             \A r \in Requests :
               pc[r] \in {"link", "rollback"} =>
                 \/ pc'[r] \in {"link", "rollback"}
                 \/ user[r] \in abandoned'
                 \/ ~(users'[user[r]].state = "live" /\ users'[user[r]].accounts = {})
      PROVE  NoOrphanUser'
  BY <1>1, <1>2 DEF NoOrphanUser
<1>3. ASSUME NEW r \in Requests, CreateUser(r) PROVE NoOrphanUser'
  <2>1. /\ \A q \in Requests : q # r => pc'[q] = pc[q]
        /\ pc[r] = "createUser"
    BY <1>1, <1>3, Moves DEF Agent, CreateUser, At
  <2>2. PICK i :
          /\ i \in DOMAIN users \/ i = Len(users) + 1
          /\ users' = (IF i \in DOMAIN users THEN users
                       ELSE Append(users, [accounts |-> {}, state |-> "live"]))
          /\ \/ /\ user' = [user EXCEPT ![r] = i]
                /\ abandoned' = abandoned \ {i}
                /\ Goto(r, "link")
             \/ /\ abandoned' = (IF i \in DOMAIN users THEN abandoned ELSE abandoned \cup {i})
                /\ UNCHANGED user
    BY <1>3 DEF CreateUser, Existing
  <2>3. \A j \in DOMAIN users' : j \in DOMAIN users \/ j = i
    <3> DEFINE u == [accounts |-> {}, state |-> "live"]
    <3>1. u \in User
      BY DEF User
    <3> HIDE DEF u
    <3>2. ASSUME users' = Append(users, u), i = Len(users) + 1
          PROVE  \A j \in DOMAIN users' : j \in DOMAIN users \/ j = i
      <4>1. /\ users' \in Seq(User) /\ Len(users') = Len(users) + 1 /\ Len(users) \in Nat
            /\ DOMAIN users = 1 .. Len(users)
        BY <3>1, <3>2, UserTypes, AppendProperties
      <4>2. QED
        BY <3>2, <4>1, LenProperties
    <3>3. QED
      BY <2>2, <3>2 DEF u
  <2>4. \A j : Cared(j) => CaredNext(j)
    BY <1>1, <2>1, <2>2
  <2>5. CaredNext(i) \/ i \in abandoned' \/ (i \in DOMAIN users /\ abandoned' = abandoned)
    BY <1>1, <2>2 DEF Goto
  <2>6. \A j : j # i /\ j \in abandoned => j \in abandoned'
    BY <2>2
  <2>7. QED
    BY <1>1, <2>3, <2>4, <2>5, <2>6 DEF NoOrphanUser
<1>4. ASSUME NEW r \in Requests, LinkAgent(r) PROVE NoOrphanUser'
  <2>1. /\ \A q \in Requests : q # r => pc'[q] = pc[q]
        /\ UNCHANGED <<user, abandoned>> /\ pc[r] = "link" /\ user[r] \in DOMAIN users
    BY <1>1, <1>4, Moves DEF Agent, LinkAgent, locals, history, At, OnTrack
  <2>2. users[user[r]] \in User
    BY <2>1, UserTypes
  <2>3. CASE UNCHANGED users /\ Goto(r, AfterFailedLink(r))
    <3>1. fresh[r] => pc'[r] = "rollback"
      BY <1>1, <2>3 DEF Goto, AfterFailedLink
    <3>2. ~fresh[r] => ~(users'[user[r]].state = "live" /\ users'[user[r]].accounts = {})
      BY <2>1, <2>3 DEF OldUserKept, At
    <3>3. QED
      BY <1>2, <2>1, <2>3, <3>1, <3>2
  <2>4. CASE users' = [users EXCEPT ![user[r]].accounts = @ \cup {"ours"}]
    <3>1. users'[user[r]].accounts # {} /\ DOMAIN users' = DOMAIN users
      BY <2>1, <2>2, <2>4, UserTypes DEF User
    <3>2. QED
      BY <1>2, <2>1, <3>1
  <2>5. QED
    BY <1>4, <2>3, <2>4 DEF LinkAgent
<1>5. ASSUME NEW r \in Requests, RollBack(r) PROVE NoOrphanUser'
  <2>1. /\ \A q \in Requests : q # r => pc'[q] = pc[q]
        /\ UNCHANGED user /\ user[r] \in DOMAIN users
    BY <1>1, <1>5, Moves DEF Agent, RollBack, locals, At, OnTrack
  <2>2. users[user[r]] \in User
    BY <2>1, UserTypes
  <2>3. /\ DOMAIN users' = DOMAIN users /\ abandoned \subseteq abandoned'
        /\ user[r] \in abandoned' \/ users'[user[r]].state # "live"
    BY <1>5, <2>1, <2>2, UserTypes DEF RollBack, User
  <2>4. QED
    BY <1>2, <2>1, <2>3
<1>6. ASSUME NEW r \in Requests, SendEmail(r) \/ RemoveAgent(r) \/ WidgetStep(r) PROVE NoOrphanUser'
  <2>1. /\ \A q \in Requests : q # r => pc'[q] = pc[q]
        /\ pc[r] \notin {"link", "rollback"}
    BY <1>1, <1>6, Moves, WidgetLeaves DEF Agent, SendEmail, RemoveAgent, At
  <2>2. UNCHANGED <<user, abandoned>>
    BY <1>1, <1>6, WidgetLeaves DEF SendEmail, RemoveAgent, locals, history
  <2>3. DOMAIN users' = DOMAIN users
    BY <1>1, <1>6, WidgetLeaves DEF SendEmail, RemoveAgent, Leaves, chatwoot
  <2>4. QED
    BY <1>2, <2>1, <2>2, <2>3
<1>7. ASSUME NEW r \in Requests, Abort(r) PROVE NoOrphanUser'
  <2>1. /\ \A q \in Requests : q # r => pc'[q] = pc[q]
        /\ UNCHANGED <<users, user>> /\ abandoned \subseteq abandoned'
        /\ user[r] # 0 => user[r] \in abandoned'
    BY <1>1, <1>7, Moves DEF Abort, locals, chatwoot
  <2>2. pc[r] \in {"link", "rollback"} => user[r] # 0
    BY UserTypes DEF OnTrack
  <2>3. QED
    BY <1>2, <2>1, <2>2
<1>8. ASSUME NEW i \in DOMAIN users, DeleteJob(i) \/ OtherAccountLinks(i) \/ PanelRemoves(i)
      PROVE  NoOrphanUser'
  <2>1. UNCHANGED <<pc, user, abandoned>> /\ DOMAIN users' = DOMAIN users
    BY <1>8 DEF DeleteJob, OtherAccountLinks, PanelRemoves, Leaves, locals, history
  <2>2. QED
    BY <1>2, <2>1
<1>9. CASE EditHook \/ UNCHANGED vars
  <2>1. UNCHANGED <<pc, users, user, abandoned>>
    BY <1>9 DEF EditHook, vars, chatwoot, locals, history
  <2>2. QED
    BY <1>2, <2>1
<1>10. QED
  BY <1>3, <1>4, <1>5, <1>6, <1>7, <1>8, <1>9 DEF Next, Agent

(* Who found an agent has a user with an account.                          *)
LEMMA KnownStep ==
  ASSUME TypeOK, OnTrack, AgentsLinked, KnownIsOld, [Next]_vars
  PROVE  KnownIsOld'
<1>1. pc \in [Requests -> Places] /\ fresh \in [Requests -> BOOLEAN] /\ known \subseteq Requests
  BY DEF TypeOK
<1>2. ASSUME UNCHANGED <<known, fresh>>,
             \A r \in known : pc'[r] \in {"createUser", "rollback"} => pc'[r] = pc[r]
      PROVE  KnownIsOld'
  BY <1>2 DEF KnownIsOld
<1>3. ASSUME NEW r \in Requests, CreateUser(r) PROVE KnownIsOld'
  <2>1. \A q \in Requests : q # r => pc'[q] = pc[q]
    BY <1>1, <1>3, Moves DEF Agent
  <2>2. r \notin known
    BY <1>3 DEF CreateUser, KnownIsOld, At
  <2>3. CASE UNCHANGED <<fresh, known>>
    BY <1>1, <1>2, <2>1, <2>2, <2>3
  <2>4. ASSUME NEW i, fresh' = [fresh EXCEPT ![r] = (users'[i].accounts = {})],
               known' = IF i \in agents THEN known \cup {r} ELSE known,
               users' = (IF i \in DOMAIN users THEN users
                         ELSE Append(users, [accounts |-> {}, state |-> "live"])),
               Goto(r, "link")
        PROVE  KnownIsOld'
    <3>1. fresh'[r] = (users'[i].accounts = {}) /\ \A q \in Requests : q # r => fresh'[q] = fresh[q]
      BY <1>1, <2>4, Zenon
    <3>2. i \in agents => users'[i].accounts # {}
      BY <2>4 DEF AgentsLinked
    <3>3. pc'[r] = "link"
      BY <1>1, <2>4 DEF Goto
    <3>4. ASSUME NEW q \in known' PROVE ~fresh'[q] /\ pc'[q] \notin {"createUser", "rollback"}
      <4>1. CASE q = r
        <5>1. i \in agents
          BY <2>2, <2>4, <3>4, <4>1
        <5>2. ~fresh'[r]
          BY <3>1, <3>2, <5>1
        <5>3. QED
          BY <3>3, <4>1, <5>2
      <4>2. CASE q # r
        BY <1>1, <2>1, <2>4, <3>1, <3>4, <4>2 DEF KnownIsOld
      <4>3. QED
        BY <4>1, <4>2
    <3>5. QED
      BY <3>4 DEF KnownIsOld
  <2>5. QED
    BY <1>3, <2>3, <2>4 DEF CreateUser
<1>4. ASSUME NEW r \in Requests,
             LinkAgent(r) \/ RollBack(r) \/ SendEmail(r) \/ RemoveAgent(r) \/ WidgetStep(r) \/ Abort(r)
      PROVE  KnownIsOld'
  <2>1. \A q \in Requests : q # r => pc'[q] = pc[q]
    BY <1>1, <1>4, Moves DEF Agent
  <2>2. UNCHANGED <<known, fresh>>
    BY <1>1, <1>4, WidgetLeaves DEF LinkAgent, RollBack, SendEmail, RemoveAgent, Abort, locals, history
  <2>3. pc'[r] \in {"createUser", "rollback"} => pc'[r] = "rollback" /\ fresh[r]
    BY <1>1, <1>4, WidgetLeaves
    DEF LinkAgent, RollBack, SendEmail, RemoveAgent, Abort, AfterFailedLink, At, Goto
  <2>4. QED
    BY <1>1, <1>2, <2>1, <2>2, <2>3 DEF KnownIsOld
<1>5. QED
  BY <1>2, <1>3, <1>4
  DEF Next, Agent, DeleteJob, OtherAccountLinks, PanelRemoves, EditHook, vars, locals, history

----------------------------------------------------------------------------
(* A PATCH by a request that no edit overtook writes what it listed and    *)
(* the widget's subscriptions to the webhook it listed.                    *)
LEMMA PatchAdds ==
  ASSUME TypeOK, ListedHook, NEW r \in Requests \ edited, PatchHook(r), hook' # hook
  PROVE  /\ hook # NoHook /\ hook' # NoHook /\ hook'.id = hook.id
         /\ hook'.subs = hook.subs \cup Widget
<1>1. /\ hook # NoHook /\ hook.id = seen[r].id
      /\ hook.subs \cup Widget = seen[r].subs \cup Widget
  BY DEF PatchHook, ListedHook
<1>2. hook \in Hook
  BY <1>1 DEF TypeOK
<1>3. hook' = [hook EXCEPT !.subs = seen[r].subs \cup Widget]
  BY <1>1 DEF PatchHook, Merged, Missing
<1>4. hook'.id = hook.id /\ hook'.subs = seen[r].subs \cup Widget
  BY <1>2, <1>3 DEF Hook
<1>5. hook' \in Hook
  <2>1. seen[r] \in Hook
    BY DEF TypeOK, PatchHook
  <2>2. QED
    BY <1>2, <1>3, <2>1, AdminAssumption DEF Hook
<1>6. QED
  BY <1>1, <1>4, <1>5, AdminAssumption DEF Hook

(* What a step does to the webhook, for the requests no edit overtook.     *)
LEMMA HookStep ==
  ASSUME TypeOK, ListedHook, [Next]_vars
  PROVE  \/ hook' = hook
         \/ edited' = Requests
         \/ hook = NoHook /\ hook' # NoHook /\ hook'.subs = Widget
         \/ /\ hook # NoHook /\ hook' # NoHook /\ hook'.id = hook.id
            /\ hook'.subs = hook.subs \cup Widget
<1>1. ASSUME NEW r \in Requests, PatchHook(r)
      PROVE  \/ hook' = hook
             \/ edited' = Requests
             \/ /\ hook # NoHook /\ hook' # NoHook /\ hook'.id = hook.id
                /\ hook'.subs = hook.subs \cup Widget
  BY <1>1, PatchAdds DEF PatchHook
<1>2. ASSUME NEW r \in Requests, CreateHook(r)
      PROVE  hook' = hook \/ (hook = NoHook /\ hook' # NoHook /\ hook'.subs = Widget)
  <2>1. ASSUME hooks < MaxHooks, hook' = [id |-> hooks + 1, subs |-> Widget]
        PROVE  hook' # NoHook /\ hook'.subs = Widget
    <3>1. hook' \in [id : 1..MaxHooks, subs : SUBSET Events]
      BY <2>1, AdminAssumption DEF TypeOK
    <3>2. QED
      BY <2>1, <3>1, AdminAssumption
  <2>2. QED
    BY <1>2, <2>1 DEF CreateHook
<1>3. QED
  BY <1>1, <1>2
  DEF Next, Agent, CreateUser, LinkAgent, RollBack, SendEmail, RemoveAgent, WidgetStep,
     CreateInbox, ListAttributes, CreateAttribute, ListHooks, Abort, DeleteJob,
     OtherAccountLinks, PanelRemoves, EditHook, vars, chatwoot

(* Only a request's own listing makes it current again.                    *)
LEMMA EditedStep ==
  ASSUME TypeOK, [Next]_vars, NEW q \in Requests, q \notin edited'
  PROVE  \/ q \notin edited
         \/ ListHooks(q) /\ UNCHANGED hook /\ edited' = edited \ {q}
<1>1. pc \in [Requests -> Places]
  BY DEF TypeOK
<1>2. CASE edited \subseteq edited'
  BY <1>2
<1>3. ASSUME NEW r \in Requests, Agent(r) PROVE edited \subseteq edited'
  BY <1>1, <1>3, AgentLeaves
<1>4. ASSUME NEW r \in Requests, PatchHook(r) PROVE edited \subseteq edited'
  BY <1>4 DEF PatchHook, TypeOK
<1>5. ASSUME NEW r \in Requests, ListHooks(r)
      PROVE  edited \subseteq edited' \/ (UNCHANGED hook /\ edited' = edited \ {r})
  BY <1>5 DEF ListHooks, chatwoot
<1>6. ASSUME NEW r \in Requests,
             CreateInbox(r) \/ ListAttributes(r) \/ CreateAttribute(r) \/ CreateHook(r) \/ Abort(r)
      PROVE  edited \subseteq edited'
  BY <1>6 DEF CreateInbox, ListAttributes, CreateAttribute, CreateHook, Abort, history
<1>7. ASSUME NEW i \in DOMAIN users, DeleteJob(i) \/ OtherAccountLinks(i) \/ PanelRemoves(i)
      PROVE  edited \subseteq edited'
  BY <1>7 DEF DeleteJob, OtherAccountLinks, PanelRemoves, history
<1>8. CASE EditHook \/ UNCHANGED vars
  BY <1>8 DEF EditHook, vars, history
<1>9. QED
  BY <1>2, <1>3, <1>4, <1>5, <1>6, <1>7, <1>8 DEF Next, WidgetStep

(* A request reaches the PATCH through its listing, which nobody else      *)
(* changes.                                                                *)
LEMMA ListStep ==
  ASSUME TypeOK, [Next]_vars, NEW q \in Requests, pc'[q] = "patchHook"
  PROVE  \/ pc[q] = "patchHook" /\ seen'[q] = seen[q]
         \/ UNCHANGED hook /\ hook # NoHook /\ seen'[q] = hook
<1>1. pc \in [Requests -> Places] /\ seen \in [Requests -> Hook \cup {NoHook}]
  BY DEF TypeOK
<1>2. ASSUME UNCHANGED <<pc, seen>> PROVE pc[q] = "patchHook" /\ seen'[q] = seen[q]
  BY <1>2
<1>3. ASSUME NEW r \in Requests, Agent(r) \/ Abort(r)
      PROVE  pc[q] = "patchHook" /\ seen'[q] = seen[q]
  <2>1. UNCHANGED seen /\ pc'[r] # "patchHook"
    BY <1>1, <1>3, AgentLeaves DEF Abort, Goto, locals
  <2>2. QED
    BY <1>1, <1>3, <2>1, Moves
<1>4. ASSUME NEW r \in Requests, WidgetStep(r), ~ListHooks(r)
      PROVE  pc[q] = "patchHook" /\ seen'[q] = seen[q]
  <2>1. UNCHANGED seen /\ pc'[r] # "patchHook"
    BY <1>1, <1>4 DEF WidgetStep, CreateInbox, ListAttributes, CreateAttribute, PatchHook, CreateHook,
       WithoutSecret, At, Goto, locals
  <2>2. QED
    BY <1>1, <1>4, <2>1, Moves
<1>5. ASSUME NEW r \in Requests, ListHooks(r)
      PROVE  \/ pc[q] = "patchHook" /\ seen'[q] = seen[q]
             \/ UNCHANGED hook /\ hook # NoHook /\ seen'[q] = hook
  <2>1. pc'[r] = "patchHook" => UNCHANGED hook /\ hook # NoHook /\ seen'[r] = hook
    BY <1>1, <1>5 DEF ListHooks, WithoutSecret, Goto, chatwoot
  <2>2. \A p \in Requests : p # r => pc'[p] = pc[p] /\ seen'[p] = seen[p]
    BY <1>1, <1>5, Moves DEF WidgetStep, ListHooks
  <2>3. QED
    BY <2>1, <2>2
<1>6. QED
  BY <1>2, <1>3, <1>4, <1>5
  DEF Next, WidgetStep, DeleteJob, OtherAccountLinks, PanelRemoves, EditHook, vars, locals

(* What a request listed stays true up to the widget's subscriptions.      *)
LEMMA ListedStep ==
  ASSUME TypeOK, ListedHook, [Next]_vars
  PROVE  ListedHook'
<1>1. ASSUME NEW q \in Requests \ edited', pc'[q] = "patchHook"
      PROVE  /\ hook' # NoHook /\ hook'.id = seen'[q].id
             /\ hook'.subs \cup Widget = seen'[q].subs \cup Widget
  <2>1. CASE UNCHANGED hook /\ hook # NoHook /\ seen'[q] = hook
    BY <2>1
  <2>2. CASE pc[q] = "patchHook" /\ seen'[q] = seen[q]
    <3>1. q \notin edited
      BY <1>1, <2>2, EditedStep DEF ListHooks, At
    <3>2. /\ hook # NoHook /\ hook.id = seen[q].id
          /\ hook.subs \cup Widget = seen[q].subs \cup Widget
      BY <1>1, <2>2, <3>1 DEF ListedHook, At
    <3>3. \/ hook' = hook
          \/ hook' # NoHook /\ hook'.id = hook.id /\ hook'.subs = hook.subs \cup Widget
      BY <1>1, <3>2, HookStep
    <3>4. QED
      BY <2>2, <3>2, <3>3
  <2>3. QED
    BY <1>1, <2>1, <2>2, ListStep
<1>2. QED
  BY <1>1 DEF ListedHook, At

(* A request answers with the secret only when the webhook has all the     *)
(* widget's subscriptions.                                                 *)
LEMMA OkStep ==
  ASSUME TypeOK, OnTrack, ListedHook, [Next]_vars,
         NEW q \in Requests, pc'[q] = "ok", pc[q] # "ok", q \notin edited', q \notin troubled',
         kind[q] \in {"createWidget", "syncWidget"}
  PROVE  hook' # NoHook /\ Widget \subseteq hook'.subs
<1>1. /\ pc \in [Requests -> Places] /\ hook \in Hook \cup {NoHook}
  BY DEF TypeOK
<1>2. ASSUME NEW r \in Requests, Agent(r) \/ Abort(r) PROVE FALSE
  <2>1. pc'[r] = "ok" => pc[r] \in {"email", "remove"}
    BY <1>1, <1>2, AgentLeaves DEF Abort, Goto
  <2>2. q # r
    BY <2>1 DEF OnTrack, At
  <2>3. QED
    BY <1>1, <1>2, <2>2, Moves
<1>3. ASSUME NEW r \in Requests, WidgetStep(r) PROVE q = r
  BY <1>1, <1>3, Moves
<1>4. CASE ListHooks(q)
  BY <1>1, <1>4 DEF ListHooks, WithoutSecret, Goto, Missing, chatwoot
<1>5. CASE PatchHook(q)
  <2>1. q \notin edited
    BY <1>5 DEF PatchHook
  <2>2. ~(Trouble(q) /\ UNCHANGED <<hook, edited>>)
    BY DEF Trouble
  <2>3. /\ hook # NoHook /\ hook.id = seen[q].id
        /\ hook' = [hook EXCEPT !.subs = seen[q].subs \cup Widget]
    BY <1>5, <2>1, <2>2 DEF PatchHook, ListedHook, Merged, Missing
  <2>4. hook'.subs = seen[q].subs \cup Widget
    BY <1>1, <2>3 DEF Hook
  <2>5. hook' # NoHook
    BY <1>5, <2>1, <2>3, PatchAdds
  <2>6. QED
    BY <2>4, <2>5
<1>6. CASE CreateHook(q)
  <2>1. ~Trouble(q) /\ (WithoutSecret(q) => pc'[q] # "ok")
    BY <1>1 DEF Trouble, WithoutSecret, Goto
  <2>2. hook = NoHook /\ hooks < MaxHooks /\ hook' = [id |-> hooks + 1, subs |-> Widget]
    BY <1>6, <2>1 DEF CreateHook
  <2>3. hook' \in [id : 1..MaxHooks, subs : SUBSET Events]
    BY <2>2, AdminAssumption DEF TypeOK
  <2>4. QED
    BY <2>2, <2>3, AdminAssumption
<1>7. CASE CreateInbox(q) \/ ListAttributes(q) \/ CreateAttribute(q)
  BY <1>1, <1>7 DEF CreateInbox, ListAttributes, CreateAttribute, Goto
<1>8. QED
  BY <1>2, <1>3, <1>4, <1>5, <1>6, <1>7
  DEF Next, WidgetStep, DeleteJob, OtherAccountLinks, PanelRemoves, EditHook, vars

(* And nothing but an edit takes a subscription of the widget's away.      *)
LEMMA SyncStep ==
  ASSUME TypeOK, OnTrack, ListedHook, SyncSubscribes, [Next]_vars
  PROVE  SyncSubscribes'
<1>1. UNCHANGED kind
  BY DEF Next, Agent, CreateUser, LinkAgent, RollBack, SendEmail, RemoveAgent, WidgetStep,
     CreateInbox, ListAttributes, CreateAttribute, ListHooks, PatchHook, CreateHook, Abort, DeleteJob,
     OtherAccountLinks, PanelRemoves, EditHook, vars, locals
<1>2. troubled \subseteq troubled'
  BY DEF Next, Agent, CreateUser, LinkAgent, RollBack, SendEmail, RemoveAgent, WidgetStep,
     CreateInbox, ListAttributes, CreateAttribute, ListHooks, PatchHook, CreateHook, Abort, DeleteJob,
     OtherAccountLinks, PanelRemoves, EditHook, vars, history, Trouble
<1>3. ASSUME NEW q \in Requests \ (edited' \cup troubled'), pc'[q] = "ok",
             kind[q] \in {"createWidget", "syncWidget"}
      PROVE  hook' # NoHook /\ Widget \subseteq hook'.subs
  <2>1. CASE pc[q] # "ok"
    BY <1>3, <2>1, OkStep
  <2>2. CASE pc[q] = "ok"
    <3>1. q \notin edited
      BY <1>3, <2>2, EditedStep DEF ListHooks, At
    <3>2. hook # NoHook /\ Widget \subseteq hook.subs
      BY <1>2, <1>3, <2>2, <3>1 DEF SyncSubscribes, At
    <3>3. QED
      BY <1>3, <3>2, HookStep
  <2>3. QED
    BY <2>1, <2>2
<1>4. QED
  BY <1>1, <1>3 DEF SyncSubscribes, At

----------------------------------------------------------------------------
(* The invariant holds at the start, when there may be one user of any     *)
(* account and a webhook.                                                  *)
LEMMA InitInvariant == Init => IInv
<1> SUFFICES ASSUME Init PROVE IInv
  OBVIOUS
<1>1. /\ users \in Seq(User) /\ Len(users) <= 1
      /\ \A i \in DOMAIN users : users[i].accounts # {}
  <2>1. CASE users = <<>>
    BY <2>1
  <2>2. ASSUME NEW a \in Accounts, users = <<[accounts |-> {a}, state |-> "live"]>>
        PROVE  /\ users \in Seq(User) /\ Len(users) <= 1
               /\ \A i \in DOMAIN users : users[i].accounts # {}
    <3> DEFINE u == [accounts |-> {a}, state |-> "live"]
    <3>1. u \in User /\ u.accounts # {}
      BY DEF User
    <3>2. users = <<u>>
      BY <2>2
    <3> HIDE DEF u
    <3>3. QED
      BY <3>1, <3>2
  <2>3. QED
    BY <2>1, <2>2 DEF Init
<1>2. \A r \in Requests :
        pc[r] \in {"createUser", "remove", "createInbox", "listAttributes"}
        /\ (pc[r] = "createUser" => kind[r] = "createAgent")
        /\ (pc[r] = "remove" => kind[r] = "removeAgent")
  <2>1. ASSUME NEW r \in Requests
        PROVE  /\ pc[r] = FirstStep[kind[r]]
               /\ \/ kind[r] = "createAgent" \/ kind[r] = "removeAgent"
                  \/ kind[r] = "createWidget" \/ kind[r] = "syncWidget"
    BY DEF Init, Kinds
  <2>2. /\ FirstStep["createAgent"] = "createUser" /\ FirstStep["removeAgent"] = "remove"
        /\ FirstStep["createWidget"] = "createInbox" /\ FirstStep["syncWidget"] = "listAttributes"
    BY DEF FirstStep
  <2>3. QED
    BY <2>1, <2>2
<1>3. pc \in [Requests -> Places]
  BY <1>2 DEF Init, Places
<1>4. hook \in Hook \cup {NoHook} /\ hooks \in 0..MaxHooks
  <2>1. 1 \in 1..MaxHooks /\ 0 \in 0..MaxHooks /\ 1 \in 0..MaxHooks
    BY AdminAssumption
  <2>2. QED
    BY <2>1 DEF Init, Hook
<1>5. TypeOK
  <2>1. 0 \in 0..MaxUsers /\ 1 <= MaxUsers
    BY AdminAssumption
  <2>2. Len(users) <= MaxUsers
    BY <1>1, <2>1, LenProperties, AdminAssumption
  <2>3. \A r \in Requests : At(r, "patchHook") => seen[r] # NoHook
    BY <1>2 DEF At
  <2>4. QED
    BY <1>1, <1>3, <1>4, <2>1, <2>2, <2>3 DEF Init, TypeOK
<1>6. QED
  BY <1>1, <1>2, <1>5
  DEF Init, IInv, OnTrack, NoOrphanUser, OldUserKept, AgentsLinked, KnownIsOld, ListedHook,
      SyncSubscribes, At

(* IInv holds in every reachable state.                                    *)
THEOREM Inductive == Spec => []IInv
<1>1. IInv /\ [Next]_vars => IInv'
  <2> SUFFICES ASSUME IInv, [Next]_vars PROVE IInv'
    OBVIOUS
  <2>1. TypeOK /\ OnTrack /\ NoOrphanUser /\ OldUserKept /\ AgentsLinked /\ KnownIsOld
        /\ ListedHook /\ SyncSubscribes
    BY DEF IInv
  <2>2. TypeOK' /\ OnTrack' /\ AgentsLinked'
    BY <2>1, TypeStep, TrackStep, UsersStep DEF UsersKept
  <2>3. NoOrphanUser' /\ OldUserKept' /\ KnownIsOld'
    BY <2>1, OrphanStep, OldUserStep, KnownStep
  <2>4. ListedHook' /\ SyncSubscribes'
    BY <2>1, ListedStep, SyncStep
  <2>5. QED
    BY <2>2, <2>3, <2>4 DEF IInv
<1>2. QED
  BY <1>1, InitInvariant, PTL DEF Spec

(* Type correctness.                                                       *)
THEOREM TypeCorrect == Spec => []TypeOK
<1>1. IInv => TypeOK
  BY DEF IInv
<1>2. QED
  BY <1>1, Inductive, PTL

(* A create's compensation (linkOrRollbackAgent) leaves no user without an *)
(* account, for any number of concurrent requests.                         *)
THEOREM NoOrphanLeft == Spec => []NoOrphanUser
<1>1. IInv => NoOrphanUser
  BY DEF IInv
<1>2. QED
  BY <1>1, Inductive, PTL

(* A create that found a confirmed agent never deletes the user.           *)
THEOREM AgentSpared == Spec => []ConfirmedAgentSpared
<1>1. IInv => ConfirmedAgentSpared
  BY DEF IInv, KnownIsOld, ConfirmedAgentSpared, At
<1>2. QED
  BY <1>1, Inductive, PTL

(* A request that answered with the secret leaves the webhook subscribed   *)
(* to all that the widget needs, however many requests migrate it at once. *)
THEOREM SecretMeansSubscribed == Spec => []SyncSubscribes
<1>1. IInv => SyncSubscribes
  BY DEF IInv
<1>2. QED
  BY <1>1, Inductive, PTL

(* Migrating the webhook (ensureWidgetWebhook) drops no subscription.      *)
THEOREM MigrationAdds == Spec => MigrationOnlyAdds
<1> DEFINE Adds ==
             \A r \in Requests \ edited :
               pc'[r] # pc[r] /\ hook # NoHook /\ hook' # NoHook => hook.subs \subseteq hook'.subs
<1>1. ASSUME IInv, [Next]_vars PROVE Adds
  <2>1. TypeOK /\ ListedHook
    BY <1>1 DEF IInv
  <2>2. ASSUME NEW r \in Requests \ edited, pc'[r] # pc[r], hook # NoHook, hook' # NoHook
        PROVE  hook.subs \subseteq hook'.subs
    <3>1. CASE hook' = hook
      BY <3>1
    <3>2. ASSUME NEW q \in Requests, PatchHook(q), hook' # hook
          PROVE  hook.subs \subseteq hook'.subs
      <4>1. q = r
        BY <2>1, <2>2, <3>2, Moves DEF WidgetStep, TypeOK
      <4>2. QED
        BY <2>1, <2>2, <3>2, <4>1, PatchAdds
    <3>3. CASE EditHook
      BY <2>2, <3>3 DEF EditHook
    <3>4. ASSUME NEW q \in Requests, CreateHook(q) PROVE hook' = hook
      BY <2>2, <3>4 DEF CreateHook
    <3>5. QED
      BY <1>1, <3>1, <3>2, <3>3, <3>4
      DEF Next, Agent, CreateUser, LinkAgent, RollBack, SendEmail, RemoveAgent, WidgetStep,
          CreateInbox, ListAttributes, CreateAttribute, ListHooks, Abort, DeleteJob,
          OtherAccountLinks, PanelRemoves, vars, chatwoot
  <2>3. QED
    BY <2>2
<1> HIDE DEF Adds
<1>2. IInv /\ [Next]_vars => [Adds]_vars
  BY <1>1
<1>3. Spec => [][Adds]_vars
  BY <1>2, Inductive, PTL DEF Spec
<1>4. QED
  BY <1>3 DEF MigrationOnlyAdds, Adds

=============================================================================
