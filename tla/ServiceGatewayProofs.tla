------------------------- MODULE ServiceGatewayProofs -------------------------
(***************************************************************************)
(* What holds of the service in every deployment, with any number of       *)
(* requests: the ledger has an event once and only what a handler put      *)
(* there, and handlers that overlap or die leave rows, deliveries and      *)
(* audits that the ledger explains.                                        *)
(***************************************************************************)
EXTENDS ServiceGateway, NumberFacts, FiniteSetTheorems, SequenceTheorems

-----------------------------------------------------------------------------
(* The calls of a handler.                                                 *)

\* The calls of a handler come in this order; only evaluations are repeated.
Turn == [evaluate |-> 0, update |-> 1, delete |-> 1, deliver |-> 2, event |-> 3, audit |-> 4]

InOrder(s) ==
    /\ s \in Seq(Calls)
    /\ \A k, l \in DOMAIN s : k < l =>
           Turn[s[k]] < Turn[s[l]] \/ (s[k] = "evaluate" /\ s[l] = "evaluate")

\* The calls ahead of a handler after its next one: the next one is not among
\* them unless it is an evaluation, and none comes before it (Proceed).
LEMMA Proceeding ==
    ASSUME NEW s, InOrder(s), s # << >>
    PROVE  /\ InOrder(Tail(s)) /\ Head(s) \in Calls
           /\ ToSet(s) = {Head(s)} \cup ToSet(Tail(s))
           /\ Head(s) # "evaluate" => Head(s) \notin ToSet(Tail(s))
           /\ \A c \in ToSet(Tail(s)) : Turn[Head(s)] < Turn[c] \/ c = "evaluate"
<1> DEFINE t == Tail(s)
<1>1. s \in Seq(Calls) /\ Len(s) \in Nat /\ Len(s) >= 1 /\ Head(s) = s[1] /\ s[1] \in Calls
  BY DEF InOrder
<1>2. t \in Seq(Calls) /\ Len(t) = Len(s) - 1 /\ DOMAIN t = 1..(Len(s) - 1) /\ DOMAIN s = 1..Len(s)
  BY <1>1
<1>3. \A k \in DOMAIN t : t[k] = s[k + 1] /\ k + 1 \in DOMAIN s /\ 1 < k + 1
  BY <1>1, <1>2
<1>4. \A c \in Calls : Turn[c] \in 0..4 /\ (Turn[c] = 0 => c = "evaluate")
  BY DEF Calls, Turn
<1> HIDE DEF t
<1>5. InOrder(t)
  <2> SUFFICES ASSUME NEW k \in DOMAIN t, NEW l \in DOMAIN t, k < l
               PROVE  Turn[t[k]] < Turn[t[l]] \/ (t[k] = "evaluate" /\ t[l] = "evaluate")
    BY <1>2 DEF InOrder
  <2>1. k + 1 < l + 1
    BY <1>1, <1>2
  <2> QED BY <2>1, <1>3 DEF InOrder
<1>6. ToSet(s) = {s[1]} \cup ToSet(t)
  <2>1. ASSUME NEW k \in DOMAIN s PROVE s[k] \in {s[1]} \cup ToSet(t)
    <3>1. CASE k = 1
      BY <3>1
    <3>2. CASE k # 1
      <4>1. k - 1 \in DOMAIN t /\ k = (k - 1) + 1
        BY <3>2, <1>1, <1>2
      <4>2. t[k - 1] = s[k]
        BY <4>1, <1>3
      <4> QED BY <4>1, <4>2 DEF ToSet
    <3> QED BY <3>1, <3>2
  <2>2. 1 \in DOMAIN s
    BY <1>1, <1>2
  <2> QED BY <2>1, <2>2, <1>3 DEF ToSet
<1>7. ASSUME NEW k \in DOMAIN t
      PROVE  Turn[s[1]] < Turn[t[k]] \/ (s[1] = "evaluate" /\ t[k] = "evaluate")
  <2>1. 1 \in DOMAIN s /\ k + 1 \in DOMAIN s /\ 1 < k + 1 /\ t[k] = s[k + 1]
    BY <1>1, <1>2, <1>3
  <2> QED BY <2>1 DEF InOrder
<1>8. s[1] # "evaluate" => s[1] \notin ToSet(t)
  BY <1>7, <1>4, <1>1 DEF ToSet
<1> QED BY <1>1, <1>5, <1>6, <1>7, <1>8 DEF ToSet, t

\* A handler's record: what it starts with, and its own fields besides.
IsJob(k, handler, steps, fields) ==
    /\ k.handler = handler /\ k.steps = steps /\ ~k.cut /\ k.since = Ids(ledger)
    /\ DOMAIN k = {"handler", "steps", "cut", "since"} \cup DOMAIN fields
    /\ \A f \in DOMAIN fields \ {"handler", "steps", "cut", "since"} : k[f] = fields[f]

\* This is what Job builds.
LEMMA JobFields ==
    ASSUME NEW handler, NEW steps, NEW fields
    PROVE  IsJob(Job(handler, steps, fields), handler, steps, fields)
BY DEF Job, Over, IsJob
-----------------------------------------------------------------------------
(* Handlers.                                                               *)

\* What the handlers of each kind call, and the fields their records have.
CallsOf ==
    [create |-> {"event", "audit"}, resolve |-> {"evaluate", "update", "event"},
     webhook |-> {"update", "deliver", "event"}, check |-> {"evaluate", "update", "event"},
     ticket |-> {"update", "delete", "event"}, admin |-> {"audit"}, agent |-> {}]

FieldsOf ==
    [create |-> {"route", "code", "presented", "audit", "served"},
     resolve |-> {"row", "event", "request", "headers", "mission", "actor", "context"},
     webhook |-> {"delivery", "event"},
     check |-> {"row", "request", "headers", "mission", "actor", "decided", "conclusion",
                "event"},
     ticket |-> {"event"}, admin |-> {"route", "code", "presented", "served", "audit"},
     agent |-> {"route", "headers", "request", "actor", "mission", "operation"}]

Common == {"handler", "steps", "cut", "since"}

\* k is the record of handler j: its calls are in order, its event comes after
\* the calls that precede it, and event and audit are named after the handler.
ServedBy(j, k) ==
    /\ k.handler \in Handlers
    /\ Common \cup FieldsOf[k.handler] \subseteq DOMAIN k
    /\ InOrder(k.steps) /\ ToSet(k.steps) \subseteq CallsOf[k.handler]
    /\ ToSet(k.steps) \subseteq {"audit"} \/ "event" \in ToSet(k.steps)
    /\ "event" \in ToSet(k.steps) => "event" \in DOMAIN k
    /\ "event" \in DOMAIN k => k.event.id = <<j, "event">>
    /\ {"update", "delete"} \cap ToSet(k.steps) # {} => "row" \in DOMAIN k
    /\ k.handler \in {"admin", "create"} =>
           k.audit.id = <<j, "audit">> /\ k.audit.mission = ""

SettingOK == setting \in Deployments /\ store = setting.store

JobsOK ==
    /\ jobs = [j \in Jobs |-> jobs[j]]
    /\ \A j \in Jobs : jobs[j] = NotStarted \/ ServedBy(j, jobs[j])

\* The calls a handler starts with are in order.
LEMMA StepsInOrder ==
    /\ InOrder(<< >>) /\ ToSet(<< >>) = {}
    /\ \A a \in Calls : InOrder(<<a>>) /\ ToSet(<<a>>) = {a}
    /\ \A a, b \in Calls : Turn[a] < Turn[b] =>
           InOrder(<<a, b>>) /\ ToSet(<<a, b>>) = {a, b}
    /\ \A a, b, c \in Calls : Turn[a] < Turn[b] /\ Turn[b] < Turn[c] =>
           InOrder(<<a, b, c>>) /\ ToSet(<<a, b, c>>) = {a, b, c}
<1>1. \A c \in Calls : Turn[c] \in 0..4
  BY DEF Calls, Turn
<1>2. InOrder(<< >>) /\ ToSet(<< >>) = {}
  BY DEF InOrder, ToSet
<1>3. ASSUME NEW a \in Calls PROVE InOrder(<<a>>) /\ ToSet(<<a>>) = {a}
  BY DEF InOrder, ToSet
<1>4. ASSUME NEW a \in Calls, NEW b \in Calls, Turn[a] < Turn[b]
      PROVE  InOrder(<<a, b>>) /\ ToSet(<<a, b>>) = {a, b}
  BY <1>1, <1>4 DEF InOrder, ToSet
<1>5. ASSUME NEW a \in Calls, NEW b \in Calls, NEW c \in Calls,
             Turn[a] < Turn[b], Turn[b] < Turn[c]
      PROVE  InOrder(<<a, b, c>>) /\ ToSet(<<a, b, c>>) = {a, b, c}
  <2> DEFINE s == <<a, b, c>>
  <2>1. s \in Seq(Calls) /\ DOMAIN s = {1, 2, 3} /\ s[1] = a /\ s[2] = b /\ s[3] = c
    OBVIOUS
  <2>2. Turn[a] < Turn[c]
    BY <1>1, <1>5
  <2> HIDE DEF s
  <2>3. InOrder(s) /\ ToSet(s) = {a, b, c}
    BY <2>1, <2>2, <1>5 DEF InOrder, ToSet
  <2> QED BY <2>3 DEF s
<1> QED BY <1>2, <1>3, <1>4, <1>5

\* A check evaluates its files before anything else (PlanCheckRun).
LEMMA CheckSteps ==
    ASSUME NEW n \in Nat, NEW s,
           s = [k \in 1..n |-> "evaluate"] \o <<"update", "event">>
    PROVE  /\ InOrder(s) /\ Len(s) = n + 2 /\ s[n + 1] = "update" /\ s[n + 2] = "event"
           /\ ToSet(s) \subseteq {"evaluate", "update", "event"} /\ "event" \in ToSet(s)
<1> DEFINE e == [k \in 1..n |-> "evaluate"]
           t == <<"update", "event">>
<1>1. e \in Seq(Calls) /\ t \in Seq(Calls) /\ Len(e) = n /\ Len(t) = 2
  BY DEF Calls
<1>2. \A k \in 1..n : e[k] = "evaluate"
  OBVIOUS
<1>3. t[1] = "update" /\ t[2] = "event"
  OBVIOUS
<1> HIDE DEF e, t
<1>4. s = e \o t
  BY DEF e, t
<1>5. s \in Seq(Calls) /\ Len(s) = n + 2 /\ DOMAIN s = 1..(n + 2)
  BY <1>1, <1>4
<1>6. \A k \in 1..n : s[k] = "evaluate"
  BY <1>1, <1>2, <1>4
<1>7. s[n + 1] = "update" /\ s[n + 2] = "event"
  BY <1>1, <1>3, <1>4
<1>8. \A k \in DOMAIN s : k \in 1..n \/ k = n + 1 \/ k = n + 2
  BY <1>5
<1>9. Turn["evaluate"] = 0 /\ Turn["update"] = 1 /\ Turn["event"] = 3
  BY DEF Turn
<1>10. InOrder(s)
  BY <1>5, <1>6, <1>7, <1>8, <1>9 DEF InOrder
<1>11. n + 2 \in DOMAIN s
  BY <1>5
<1> QED BY <1>5, <1>6, <1>7, <1>8, <1>10, <1>11 DEF ToSet

\* m is what handler k becomes with its next call, or when it ends early or dies:
\* only a check changes more than what is ahead of it.
Moved(k, m) ==
    /\ DOMAIN m = DOMAIN k
    /\ \A f \in DOMAIN k \ {"steps", "cut", "decided", "conclusion", "row", "since"} : m[f] = k[f]
    /\ k.handler # "check" =>
           \A f \in DOMAIN k \cap {"decided", "conclusion", "row", "since"} : m[f] = k[f]
    /\ m.steps \in {Tail(k.steps), << >>} /\ m.cut \in {k.cut, TRUE}
    /\ "row" \in DOMAIN k =>
           DOMAIN m.row = DOMAIN k.row
           /\ \A f \in DOMAIN k.row \ {"lastCheck"} : m.row[f] = k.row[f]

\* A handler stays what it is, and what is ahead of it only shrinks.
LEMMA MovedIsServed ==
    ASSUME NEW j, NEW k, NEW m, ServedBy(j, k), Moved(k, m), k.steps # << >>
    PROVE  /\ ServedBy(j, m) /\ ToSet(m.steps) \subseteq ToSet(k.steps)
           /\ m.handler = k.handler
<1> DEFINE s == k.steps
           t == m.steps
<1>1. InOrder(s) /\ s # << >> /\ ToSet(s) \subseteq CallsOf[k.handler]
  BY DEF ServedBy
<1>2. t \in {Tail(s), << >>}
  BY DEF Moved
<1>3. /\ m.handler = k.handler
      /\ "event" \in DOMAIN k => m.event = k.event
      /\ k.handler \in {"admin", "create"} => m.audit = k.audit
  <2>1. m.handler = k.handler /\ ("event" \in DOMAIN k => m.event = k.event)
    BY DEF ServedBy, Moved, Common
  <2>2. k.handler \in {"admin", "create"} => m.audit = k.audit
    <3>1. k.handler \in {"admin", "create"} => "audit" \in DOMAIN k
      <4>1. "audit" \in FieldsOf["admin"] /\ "audit" \in FieldsOf["create"]
        BY DEF FieldsOf
      <4>2. FieldsOf[k.handler] \subseteq DOMAIN k
        BY DEF ServedBy
      <4> QED BY <4>1, <4>2
    <3> QED BY <3>1 DEF Moved
  <2> QED BY <2>1, <2>2
<1> HIDE DEF s, t
<1>4. InOrder(t) /\ ToSet(t) \subseteq ToSet(s)
  <2>1. CASE t = << >>
    BY <2>1, StepsInOrder
  <2>2. CASE t = Tail(s)
    <3>1. InOrder(Tail(s)) /\ ToSet(s) = {Head(s)} \cup ToSet(Tail(s))
      BY <1>1, Proceeding
    <3> QED BY <3>1, <2>2
  <2> QED BY <1>2, <2>1, <2>2
<1>5. ToSet(t) \subseteq {"audit"} \/ "event" \in ToSet(t)
  <2>1. CASE t = << >>
    BY <2>1, StepsInOrder
  <2>2. CASE t = Tail(s)
    <3>1. ToSet(s) \subseteq {"audit"} \/ "event" \in ToSet(s)
      BY DEF ServedBy, s
    <3>2. /\ ToSet(s) = {Head(s)} \cup ToSet(t) /\ Head(s) \in Calls
          /\ \A c \in ToSet(t) : c \in Calls /\ (Turn[Head(s)] < Turn[c] \/ c = "evaluate")
      <4>1. \A c \in ToSet(t) : c \in Calls
        BY <1>4 DEF InOrder, ToSet
      <4> QED BY <1>1, <2>2, <4>1, Proceeding
    <3>3. ASSUME Head(s) = "event" PROVE ToSet(t) \subseteq {"audit"}
      <4> SUFFICES ASSUME NEW c \in ToSet(t) PROVE c = "audit"
        OBVIOUS
      <4>1. CASE c # "evaluate"
        BY <3>2, <3>3, <4>1 DEF Calls, Turn
      <4>2. CASE c = "evaluate"
        <5>1. PICK l \in DOMAIN t : t[l] = "evaluate"
          BY <4>2 DEF ToSet
        <5>2. t \in Seq(Calls) /\ s \in Seq(Calls) /\ Len(s) >= 1
          BY <1>1, <1>4 DEF InOrder
        <5>3. l + 1 \in DOMAIN s /\ s[l + 1] = "evaluate" /\ 1 \in DOMAIN s /\ 1 < l + 1
              /\ s[1] = "event"
          BY <5>1, <5>2, <2>2, <3>3
        <5> QED BY <5>3, <1>1 DEF InOrder, Turn
      <4> QED BY <4>1, <4>2
    <3> QED BY <3>1, <3>2, <3>3
  <2> QED BY <2>1, <2>2, <1>2
<1>6. DOMAIN m = DOMAIN k
  BY DEF Moved
<1>7. InOrder(t) /\ ToSet(t) \subseteq CallsOf[m.handler]
  BY <1>1, <1>3, <1>4
<1>8. ("event" \in ToSet(t) => "event" \in DOMAIN m)
      /\ ({"update", "delete"} \cap ToSet(t) # {} => "row" \in DOMAIN m)
  BY <1>4, <1>6 DEF ServedBy, s
<1> QED BY <1>3, <1>4, <1>5, <1>6, <1>7, <1>8 DEF ServedBy, s, t

\* The call of a handler that goes on (Continue).
LEMMA Continuing ==
    ASSUME JobsOK, NEW j \in Jobs, Continue(j)
    PROVE  /\ jobs[j] # NotStarted /\ jobs[j].steps # << >> /\ ServedBy(j, jobs[j])
           /\ \E m : /\ jobs' = [jobs EXCEPT ![j] = m]
                     /\ Moved(jobs[j], m) /\ m.cut = jobs[j].cut
<1> DEFINE k == jobs[j]
<1>1. k.steps # << >>
  BY DEF Continue, EvaluateBound, EvaluateFile, UpdateBinding, SaveWebhookDelivery,
         DeleteRow, AppendHandlerEvent, RecordAdminAction, Waiting
<1>2. k # NotStarted
  BY <1>1 DEF NotStarted
<1>3. ServedBy(j, k) /\ Common \subseteq DOMAIN k
  BY <1>2 DEF JobsOK, ServedBy
<1>4. ASSUME NEW m, m \in {Proceed(k), Finish(k)}
      PROVE  Moved(k, m) /\ m.cut = k.cut
  BY <1>3, <1>4 DEF Moved, Proceed, Finish, Common
<1>5. CASE jobs' \in {[jobs EXCEPT ![j] = Proceed(k)], [jobs EXCEPT ![j] = Finish(k)]}
  BY <1>1, <1>2, <1>3, <1>4, <1>5
<1>6. ASSUME EvaluateFile(j)
      PROVE  \/ jobs' \in {[jobs EXCEPT ![j] = Proceed(k)], [jobs EXCEPT ![j] = Finish(k)]}
             \/ \E m : /\ jobs' = [jobs EXCEPT ![j] = m]
                       /\ Moved(k, m) /\ m.cut = k.cut
  <2>1. CASE jobs' = [jobs EXCEPT ![j] = Finish(@)]
    BY <2>1
  <2>2. ASSUME NEW d, NEW c, NEW m,
               m = [Proceed(k) EXCEPT !.decided = d, !.conclusion = c,
                                      !.row.lastCheck = c, !.since = Ids(ledger)],
               k.handler = "check"
        PROVE  Moved(k, m) /\ m.cut = k.cut
    <3>1. PICK p : p = Proceed(k)
      OBVIOUS
    <3>2. DOMAIN p = DOMAIN k /\ p.steps = Tail(k.steps) /\ p.cut = k.cut
          /\ \A f \in DOMAIN k \ {"steps"} : p[f] = k[f]
      BY <1>3, <3>1 DEF Proceed, Common
    <3>3. m = [p EXCEPT !.decided = d, !.conclusion = c,
                        !.row.lastCheck = c, !.since = Ids(ledger)]
      BY <2>2, <3>1
    <3>4. DOMAIN m = DOMAIN p /\ m.steps = p.steps /\ m.cut = p.cut
          /\ \A f \in DOMAIN p \ {"decided", "conclusion", "row", "since"} : m[f] = p[f]
      BY <3>2, <3>3, <1>3 DEF Common
    <3>5. "row" \in DOMAIN p => m.row = [p.row EXCEPT !.lastCheck = c]
      BY <3>3
    <3>6. "row" \in DOMAIN k => p.row = k.row
      BY <3>2
    <3>7. "row" \in DOMAIN k =>
             DOMAIN m.row = DOMAIN k.row
             /\ \A f \in DOMAIN k.row \ {"lastCheck"} : m.row[f] = k.row[f]
      BY <3>2, <3>5, <3>6
    <3> QED BY <3>2, <3>4, <3>7, <2>2 DEF Moved
  <2>3. k.handler = "check"
    BY <1>6 DEF EvaluateFile
  <2>4. CASE \E d, c : jobs' = [jobs EXCEPT ![j] = [Proceed(k) EXCEPT
                !.decided = d, !.conclusion = c, !.row.lastCheck = c, !.since = Ids(ledger)]]
    <3>1. PICK d, c : jobs' = [jobs EXCEPT ![j] = [Proceed(k) EXCEPT
                !.decided = d, !.conclusion = c, !.row.lastCheck = c, !.since = Ids(ledger)]]
      BY <2>4
    <3>2. PICK m : m = [Proceed(k) EXCEPT
                !.decided = d, !.conclusion = c, !.row.lastCheck = c, !.since = Ids(ledger)]
      OBVIOUS
    <3>3. jobs' = [jobs EXCEPT ![j] = m]
      BY <3>1, <3>2
    <3> QED BY <2>2, <2>3, <3>2, <3>3
  <2>5. \/ jobs' = [jobs EXCEPT ![j] = Finish(@)]
        \/ \E d, c : jobs' = [jobs EXCEPT ![j] = [Proceed(k) EXCEPT
                !.decided = d, !.conclusion = c, !.row.lastCheck = c, !.since = Ids(ledger)]]
    <3> HIDE DEF k
    <3>1. \/ jobs' = [jobs EXCEPT ![j] = Finish(@)]
          \/ \E decision \in Decisions :
               \E evaluation, conclusion :
               jobs' = [jobs EXCEPT ![j] = [Proceed(k) EXCEPT
                            !.decided = Append(@, evaluation), !.conclusion = conclusion,
                            !.row.lastCheck = conclusion, !.since = Ids(ledger)]]
      BY <1>6 DEF EvaluateFile, k
    <3> QED BY <3>1
  <2> QED BY <2>1, <2>4, <2>5
<1>7. \/ jobs' \in {[jobs EXCEPT ![j] = Proceed(k)], [jobs EXCEPT ![j] = Finish(k)]}
      \/ EvaluateFile(j)
  BY DEF Continue, EvaluateBound, UpdateBinding, SaveWebhookDelivery,
         DeleteRow, AppendHandlerEvent, RecordAdminAction
<1> QED BY <1>1, <1>2, <1>3, <1>5, <1>6, <1>7

-----------------------------------------------------------------------------
(* Handlers arrive.                                                        *)

\* What a handler's record needs to be one the invariant is about.
LEMMA NewHandler ==
    ASSUME NEW j, NEW k, NEW h \in Handlers, NEW s, NEW g, IsJob(k, h, s, g),
           FieldsOf[h] \subseteq DOMAIN g, InOrder(s), ToSet(s) \subseteq CallsOf[h],
           ToSet(s) \subseteq {"audit"} \/ "event" \in ToSet(s),
           "event" \in ToSet(s) => "event" \in DOMAIN g,
           "event" \in DOMAIN g => g.event.id = <<j, "event">>,
           {"update", "delete"} \cap ToSet(s) # {} => "row" \in DOMAIN g,
           h \in {"admin", "create"} =>
               "audit" \in DOMAIN g /\ g.audit.id = <<j, "audit">> /\ g.audit.mission = ""
    PROVE  ServedBy(j, k)
<1>1. k.handler = h /\ k.steps = s /\ DOMAIN k = Common \cup DOMAIN g
  BY DEF IsJob, Common
<1>2. \A f \in {"event", "audit", "row"} \cap DOMAIN g : k[f] = g[f]
  BY DEF IsJob
<1>3. "event" \in DOMAIN k => k.event.id = <<j, "event">>
  <2>1. "event" \in DOMAIN k => "event" \in DOMAIN g
    BY <1>1 DEF Common
  <2> QED BY <1>2, <2>1
<1>4. h \in {"admin", "create"} => k.audit.id = <<j, "audit">> /\ k.audit.mission = ""
  <2>1. "audit" \in DOMAIN g => k.audit = g.audit
    BY <1>2
  <2> QED BY <2>1
<1>5. Common \cup FieldsOf[h] \subseteq DOMAIN k
  BY <1>1
<1> QED BY <1>1, <1>3, <1>4, <1>5 DEF ServedBy

\* An administrator's request is asked for a permission, and recorded unless it
\* only reads (ServeAdmin).
LEMMA AdminArrives ==
    ASSUME NEW j, NEW route, NEW p, NEW tenant, ServeAdmin(j, route, p, tenant)
    PROVE  \E k : /\ jobs' = [jobs EXCEPT ![j] = k] /\ ServedBy(j, k)
                  /\ k.handler = "admin" /\ ~k.cut /\ "event" \notin DOMAIN k
                  /\ k.route = route /\ k.presented = p
                  /\ ToSet(k.steps) = IF route.audited THEN {"audit"} ELSE {}
                  /\ LET i == AdminAuthenticatorFromEnv(setting.login, p)
                     IN  k.served = IF requireAdminPermission(i, route) = 200
                                    THEN Served(i, route, tenant, Tenants) ELSE {}
<1> DEFINE i == AdminAuthenticatorFromEnv(setting.login, p)
           code == requireAdminPermission(i, route)
           steps == IF recordAdminAction(route, code) THEN <<"audit">> ELSE << >>
           fields == [route |-> route, code |-> code, presented |-> p,
                      served |-> IF code = 200 THEN Served(i, route, tenant, Tenants) ELSE {},
                      audit |-> AuditEvent(j, i)]
<1>1. PICK k : k = Job("admin", steps, fields)
  OBVIOUS
<1>2. jobs' = [jobs EXCEPT ![j] = k] /\ code # 401
  BY <1>1 DEF ServeAdmin
<1>3. code \in {200, 403}
  BY <1>2 DEF requireAdminPermission
<1>4. DOMAIN fields = {"route", "code", "presented", "served", "audit"}
      /\ fields.route = route /\ fields.code = code /\ fields.presented = p
      /\ fields.audit = AuditEvent(j, i)
      /\ fields.served = IF code = 200 THEN Served(i, route, tenant, Tenants) ELSE {}
  OBVIOUS
<1>5. (route.audited /\ steps = <<"audit">>) \/ (~route.audited /\ steps = << >>)
  BY <1>3 DEF recordAdminAction, shouldAuditAdminRequest
<1>6. AuditEvent(j, i).id = <<j, "audit">> /\ AuditEvent(j, i).mission = ""
  BY DEF AuditEvent, EventOf
<1>7. InOrder(steps) /\ ToSet(steps) = IF route.audited THEN {"audit"} ELSE {}
  <2>1. "audit" \in Calls
    BY DEF Calls
  <2> QED BY <1>5, <2>1, StepsInOrder
<1> HIDE DEF i, code, steps, fields
<1>8. IsJob(k, "admin", steps, fields)
  BY <1>1, JobFields
<1>9. k.route = route /\ k.presented = p /\ k.audit = AuditEvent(j, i)
      /\ k.served = fields.served /\ "event" \notin DOMAIN k
  BY <1>4, <1>8 DEF IsJob
<1>10. ServedBy(j, k)
  <2>1. FieldsOf["admin"] = DOMAIN fields /\ CallsOf["admin"] = {"audit"} /\ "admin" \in Handlers
    BY <1>4 DEF FieldsOf, CallsOf, Handlers
  <2>2. ToSet(steps) \subseteq {"audit"} /\ {"update", "delete"} \cap ToSet(steps) = {}
        /\ "event" \notin ToSet(steps)
    BY <1>7
  <2>3. /\ "audit" \in DOMAIN fields /\ fields.audit.id = <<j, "audit">>
        /\ fields.audit.mission = "" /\ "event" \notin DOMAIN fields
    BY <1>4, <1>6
  <2>4. InOrder(steps) /\ "admin" \in Handlers /\ FieldsOf["admin"] \subseteq DOMAIN fields
        /\ ToSet(steps) \subseteq CallsOf["admin"]
    BY <1>7, <2>1, <2>2
  <2> QED BY <1>8, <2>2, <2>3, <2>4, NewHandler
<1>11. LET u == AdminAuthenticatorFromEnv(setting.login, p)
       IN  k.served = IF requireAdminPermission(u, route) = 200
                      THEN Served(u, route, tenant, Tenants) ELSE {}
  BY <1>4, <1>9 DEF i, code
<1>12. ToSet(k.steps) = IF route.audited THEN {"audit"} ELSE {}
  BY <1>7, <1>8 DEF IsJob
<1>13. k.handler = "admin" /\ ~k.cut
  BY <1>8 DEF IsJob
<1> QED BY <1>2, <1>9, <1>10, <1>11, <1>12, <1>13

\* An agent is served in the name it signed with (ServeAgent).
LEMMA AgentArrives ==
    ASSUME NEW j, NEW route, NEW headers, NEW q, ServeAgent(j, route, headers, q)
    PROVE  \E k : /\ jobs' = [jobs EXCEPT ![j] = k] /\ ServedBy(j, k)
                  /\ k.handler = "agent" /\ ~k.cut
                  /\ k.steps = << >> /\ "event" \notin DOMAIN k
                  /\ k.headers = headers
                  /\ k.actor \in Actors(setting.signatures, route, headers, q)
<1>1. PICK actor \in Actors(setting.signatures, route, headers, q) :
         jobs' = [jobs EXCEPT ![j] = Job("agent", << >>,
            [route |-> route, headers |-> headers, request |-> q, actor |-> actor,
             mission |-> AgentMission(route, q), operation |-> authZENOperation(q)])]
  BY DEF ServeAgent
<1> DEFINE fields == [route |-> route, headers |-> headers, request |-> q, actor |-> actor,
                      mission |-> AgentMission(route, q), operation |-> authZENOperation(q)]
<1>2. DOMAIN fields = {"route", "headers", "request", "actor", "mission", "operation"}
      /\ fields.headers = headers /\ fields.actor = actor
  OBVIOUS
<1>3. PICK k : k = Job("agent", << >>, fields)
  OBVIOUS
<1>4. jobs' = [jobs EXCEPT ![j] = k]
  BY <1>1, <1>3
<1> HIDE DEF fields
<1>5. IsJob(k, "agent", << >>, fields)
  BY <1>3, JobFields
<1>6. k.handler = "agent" /\ ~k.cut /\ k.steps = << >> /\ "event" \notin DOMAIN k
      /\ k.headers = headers /\ k.actor = actor
  BY <1>2, <1>5 DEF IsJob
<1>7. "agent" \in Handlers /\ FieldsOf["agent"] = DOMAIN fields
  BY <1>2 DEF Handlers, FieldsOf
<1>8. InOrder(<< >>) /\ ToSet(<< >>) = {}
  BY StepsInOrder
<1>9. ServedBy(j, k)
  BY <1>2, <1>5, <1>7, <1>8, NewHandler
<1> QED BY <1>4, <1>6, <1>9

\* k is the handler j of a request for a binding, one that creates it or one
\* that does not.
CreationStarted(j, q, p, id, k) ==
    LET route == CreateRoute(setting.provider)
        i == AdminAuthenticatorFromEnv(setting.login, p)
    IN  /\ k.handler = "create" /\ ~k.cut /\ k.route = route /\ k.presented = p
        /\ ("audit" \in ToSet(k.steps) <=> route.audited)
        /\ \/ /\ rows' = rows /\ k.served = {} /\ "event" \notin DOMAIN k
              /\ "event" \notin ToSet(k.steps)
           \/ /\ requireAdminPermission(i, route) = 200
              /\ \E tenant \in bindAdminTenant(i, q.tenant) :
                   \E b : /\ b = NewBinding(setting.provider, [q EXCEPT !.tenant = tenant], id, j)
                          /\ Saves(b) /\ rows' = rows \cup {b}
                          /\ k.event = CreatedEvent(j, b)
                          /\ k.served = {b.tenant}
                          /\ "event" \in DOMAIN k

\* Two calls in a row, told by their elements.
LEMMA OneAndOne ==
    ASSUME NEW S, NEW a \in Seq(S), NEW c \in Seq(S), Len(a) = 1, Len(c) = 1
    PROVE  /\ a \o c \in Seq(S) /\ Len(a \o c) = 2
           /\ (a \o c)[1] = a[1] /\ (a \o c)[2] = c[1]
BY ConcatProperties

\* An event and then an audit, told by its elements.
LEMMA EventThenAudit ==
    ASSUME NEW s \in Seq({"event", "audit"}), Len(s) = 2, s[1] = "event", s[2] = "audit"
    PROVE  s = <<"event", "audit">>
<1>1. DOMAIN s = 1..2 /\ s = [i \in 1..2 |-> s[i]]
  OBVIOUS
<1>2. PICK t : t = <<"event", "audit">>
  OBVIOUS
<1>3. DOMAIN t = 1..2 /\ t = [i \in 1..2 |-> t[i]] /\ t[1] = "event" /\ t[2] = "audit"
  BY <1>2
<1>4. \A i \in 1..2 : s[i] = t[i]
  BY <1>3
<1> QED BY <1>1, <1>2, <1>3, <1>4

\* Of every binding a handler creates there is an event (CreateBinding).
LEMMA CreationArrives ==
    ASSUME NEW j, NEW q, NEW p, NEW id, CreateBinding(j, q, p, id)
    PROVE  \E k : /\ jobs' = [jobs EXCEPT ![j] = k] /\ ServedBy(j, k)
                  /\ CreationStarted(j, q, p, id, k)
<1> DEFINE route == CreateRoute(setting.provider)
           i == AdminAuthenticatorFromEnv(setting.login, p)
           code == requireAdminPermission(i, route)
           audit == IF recordAdminAction(route, code) THEN <<"audit">> ELSE << >>
           tenants == IF code = 200 THEN bindAdminTenant(i, q.tenant) ELSE {}
           common == [route |-> route, code |-> code, presented |-> p,
                      audit |-> AuditEvent(j, i)]
<1>1. code # 401 /\
      \/ \E tenant \in tenants :
           LET b == NewBinding(setting.provider, [q EXCEPT !.tenant = tenant], id, j)
           IN  /\ SaveBinding(b)
               /\ jobs' = [jobs EXCEPT ![j] = Job("create", <<"event">> \o audit,
                       Over([event |-> CreatedEvent(j, b), served |-> {b.tenant}], common))]
      \/ /\ jobs' = [jobs EXCEPT ![j] = Job("create", audit, Over([served |-> {}], common))]
         /\ UNCHANGED rows
  BY DEF CreateBinding
<1>2. code \in {200, 403}
  BY <1>1 DEF requireAdminPermission
<1>3. (route.audited /\ audit = <<"audit">>) \/ (~route.audited /\ audit = << >>)
  BY <1>2 DEF recordAdminAction, shouldAuditAdminRequest
<1>4. AuditEvent(j, i).id = <<j, "audit">> /\ AuditEvent(j, i).mission = ""
  BY DEF AuditEvent, EventOf
<1>5. DOMAIN common = {"route", "code", "presented", "audit"} /\ common.route = route
      /\ common.code = code /\ common.presented = p /\ common.audit = AuditEvent(j, i)
  OBVIOUS
<1>6. /\ "create" \in Handlers /\ CallsOf["create"] = {"event", "audit"}
      /\ FieldsOf["create"] = {"route", "code", "presented", "audit", "served"}
  BY DEF Handlers, CallsOf, FieldsOf
<1>7. {"event", "audit"} \subseteq Calls /\ Turn["event"] < Turn["audit"]
  BY DEF Calls, Turn
<1> HIDE DEF route, code, audit, common, i
<1>8. CASE jobs' = [jobs EXCEPT ![j] = Job("create", audit, Over([served |-> {}], common))]
           /\ rows' = rows
  <2> DEFINE fields == Over([served |-> {}], common)
  <2>1. PICK k : k = Job("create", audit, fields)
    OBVIOUS
  <2>2. DOMAIN fields = {"served", "route", "code", "presented", "audit"}
        /\ fields.served = {} /\ fields.route = route /\ fields.presented = p
        /\ fields.audit = AuditEvent(j, i)
    BY <1>5 DEF Over
  <2>3. jobs' = [jobs EXCEPT ![j] = k]
    BY <1>8, <2>1
  <2> HIDE DEF fields
  <2>4. IsJob(k, "create", audit, fields)
    BY <2>1, JobFields
  <2>5. k.handler = "create" /\ ~k.cut /\ k.route = route /\ k.presented = p
        /\ k.served = {} /\ "event" \notin DOMAIN k /\ k.steps = audit
    BY <2>2, <2>4 DEF IsJob
  <2>6. InOrder(audit) /\ ToSet(audit) = IF route.audited THEN {"audit"} ELSE {}
    BY <1>3, <1>7, StepsInOrder
  <2>7. ServedBy(j, k)
    <3>1. /\ ToSet(audit) \subseteq {"audit"} /\ "event" \notin ToSet(audit)
          /\ {"update", "delete"} \cap ToSet(audit) = {}
      BY <2>6
    <3>2. /\ "audit" \in DOMAIN fields /\ fields.audit.id = <<j, "audit">>
          /\ fields.audit.mission = "" /\ "event" \notin DOMAIN fields
      BY <1>4, <2>2
    <3>3. InOrder(audit) /\ "create" \in Handlers /\ FieldsOf["create"] \subseteq DOMAIN fields
          /\ ToSet(audit) \subseteq CallsOf["create"]
      BY <1>6, <2>2, <2>6, <3>1
    <3> QED BY <2>4, <3>1, <3>2, <3>3, NewHandler
  <2>8. ("audit" \in ToSet(k.steps) <=> route.audited) /\ "event" \notin ToSet(k.steps)
    BY <2>5, <2>6, <1>3
  <2>9. CreationStarted(j, q, p, id, k)
    BY <1>8, <2>5, <2>8 DEF route, CreationStarted
  <2> QED BY <2>3, <2>7, <2>9
<1>10. ASSUME NEW tenant \in tenants,
              SaveBinding(NewBinding(setting.provider, [q EXCEPT !.tenant = tenant], id, j)),
              LET b == NewBinding(setting.provider, [q EXCEPT !.tenant = tenant], id, j)
              IN  jobs' = [jobs EXCEPT ![j] = Job("create", <<"event">> \o audit,
                       Over([event |-> CreatedEvent(j, b), served |-> {b.tenant}], common))]
       PROVE  \E k : /\ jobs' = [jobs EXCEPT ![j] = k] /\ ServedBy(j, k)
                     /\ k.handler = "create" /\ ~k.cut
                     /\ k.route = route /\ k.presented = p
                     /\ ("audit" \in ToSet(k.steps) <=> route.audited)
                     /\ code = 200
                     /\ \E t \in bindAdminTenant(i, q.tenant) :
                         \E b : /\ b = NewBinding(setting.provider,
                                          [q EXCEPT !.tenant = t], id, j)
                                /\ Saves(b) /\ rows' = rows \cup {b}
                                /\ k.event = CreatedEvent(j, b)
                                /\ k.served = {b.tenant}
                                /\ "event" \in DOMAIN k
  <2>1. PICK b : b = NewBinding(setting.provider, [q EXCEPT !.tenant = tenant], id, j)
    OBVIOUS
  <2>2. SaveBinding(b) /\ jobs' = [jobs EXCEPT ![j] = Job("create", <<"event">> \o audit,
             Over([event |-> CreatedEvent(j, b), served |-> {b.tenant}], common))]
    BY <1>10, <2>1
  <2>3. code = 200 /\ tenant \in bindAdminTenant(i, q.tenant)
    OBVIOUS
  <2>4. Saves(b) /\ rows' = rows \cup {b}
    BY <2>2 DEF SaveBinding
  <2> DEFINE fields == Over([event |-> CreatedEvent(j, b), served |-> {b.tenant}], common)
             steps == <<"event">> \o audit
  <2>5. PICK k : k = Job("create", steps, fields)
    OBVIOUS
  <2>6. DOMAIN fields = {"event", "served", "route", "code", "presented", "audit"}
        /\ fields.served = {b.tenant} /\ fields.route = route /\ fields.presented = p
        /\ fields.audit = AuditEvent(j, i) /\ fields.event = CreatedEvent(j, b)
    BY <1>5 DEF Over
  <2>7. jobs' = [jobs EXCEPT ![j] = k]
    BY <2>2, <2>5
  <2>8. CreatedEvent(j, b).id = <<j, "event">>
    BY DEF CreatedEvent, EventOf
  <2>9. steps = IF route.audited THEN <<"event", "audit">> ELSE <<"event">>
    <3>1. <<"event">> \o << >> = <<"event">>
      OBVIOUS
    <3>2. PICK a, c : a = <<"event">> /\ c = <<"audit">>
      OBVIOUS
    <3>3. a \in Seq({"event", "audit"}) /\ c \in Seq({"event", "audit"}) /\ Len(a) = 1 /\ Len(c) = 1
          /\ a[1] = "event" /\ c[1] = "audit"
      BY <3>2
    <3>4. PICK s : s = a \o c
      OBVIOUS
    <3>5. s \in Seq({"event", "audit"}) /\ Len(s) = 2 /\ s[1] = "event" /\ s[2] = "audit"
      <4>1. /\ a \o c \in Seq({"event", "audit"}) /\ Len(a \o c) = 2
            /\ (a \o c)[1] = a[1] /\ (a \o c)[2] = c[1]
        BY ONLY <3>3, OneAndOne
      <4> QED BY <3>3, <3>4, <4>1
    <3>6. s = <<"event", "audit">>
      BY <3>5, EventThenAudit
    <3> QED BY <1>3, <3>1, <3>2, <3>4, <3>6
  <2> HIDE DEF fields, steps
  <2>10. IsJob(k, "create", steps, fields)
    BY <2>5, JobFields
  <2>11. k.handler = "create" /\ ~k.cut /\ k.route = route /\ k.presented = p
        /\ k.served = {b.tenant} /\ k.steps = steps /\ k.event = CreatedEvent(j, b)
        /\ "event" \in DOMAIN k
    BY <2>6, <2>10 DEF IsJob
  <2>12. InOrder(steps) /\ ToSet(steps) = IF route.audited THEN {"event", "audit"} ELSE {"event"}
    BY <2>9, <1>7, StepsInOrder
  <2>13. ServedBy(j, k)
    <3>1. /\ ToSet(steps) \subseteq {"event", "audit"} /\ "event" \in ToSet(steps)
          /\ {"update", "delete"} \cap ToSet(steps) = {}
      BY <2>12
    <3>2. /\ "audit" \in DOMAIN fields /\ fields.audit.id = <<j, "audit">>
          /\ fields.audit.mission = "" /\ fields.event.id = <<j, "event">>
          /\ "event" \in DOMAIN fields
      BY <1>4, <2>6, <2>8
    <3>3. InOrder(steps) /\ "create" \in Handlers /\ FieldsOf["create"] \subseteq DOMAIN fields
          /\ ToSet(steps) \subseteq CallsOf["create"]
      BY <1>6, <2>6, <2>12, <3>1
    <3> QED BY <2>10, <3>1, <3>2, <3>3, NewHandler
  <2>14. "audit" \in ToSet(k.steps) <=> route.audited
    BY <2>11, <2>12
  <2>15. \E t \in bindAdminTenant(i, q.tenant) :
            \E x : /\ x = NewBinding(setting.provider, [q EXCEPT !.tenant = t], id, j)
                   /\ Saves(x) /\ rows' = rows \cup {x}
                   /\ k.event = CreatedEvent(j, x) /\ k.served = {x.tenant}
                   /\ "event" \in DOMAIN k
    BY <2>1, <2>3, <2>4, <2>11
  <2> QED BY <2>3, <2>7, <2>11, <2>13, <2>14, <2>15
<1>11. \/ jobs' = [jobs EXCEPT ![j] = Job("create", audit, Over([served |-> {}], common))]
          /\ rows' = rows
       \/ \E tenant \in tenants :
             /\ SaveBinding(NewBinding(setting.provider, [q EXCEPT !.tenant = tenant], id, j))
             /\ LET b == NewBinding(setting.provider, [q EXCEPT !.tenant = tenant], id, j)
                IN  jobs' = [jobs EXCEPT ![j] = Job("create", <<"event">> \o audit,
                       Over([event |-> CreatedEvent(j, b), served |-> {b.tenant}], common))]
  BY <1>1
<1> HIDE DEF tenants
<1>12. CASE \E tenant \in tenants :
             /\ SaveBinding(NewBinding(setting.provider, [q EXCEPT !.tenant = tenant], id, j))
             /\ LET b == NewBinding(setting.provider, [q EXCEPT !.tenant = tenant], id, j)
                IN  jobs' = [jobs EXCEPT ![j] = Job("create", <<"event">> \o audit,
                       Over([event |-> CreatedEvent(j, b), served |-> {b.tenant}], common))]
  <2>1. PICK tenant \in tenants :
             /\ SaveBinding(NewBinding(setting.provider, [q EXCEPT !.tenant = tenant], id, j))
             /\ LET b == NewBinding(setting.provider, [q EXCEPT !.tenant = tenant], id, j)
                IN  jobs' = [jobs EXCEPT ![j] = Job("create", <<"event">> \o audit,
                       Over([event |-> CreatedEvent(j, b), served |-> {b.tenant}], common))]
    BY <1>12
  <2>2. PICK k : /\ jobs' = [jobs EXCEPT ![j] = k] /\ ServedBy(j, k)
                 /\ k.handler = "create" /\ ~k.cut
                 /\ k.route = route /\ k.presented = p
                 /\ ("audit" \in ToSet(k.steps) <=> route.audited)
                 /\ code = 200
                 /\ \E t \in bindAdminTenant(i, q.tenant) :
                     \E b : /\ b = NewBinding(setting.provider,
                                      [q EXCEPT !.tenant = t], id, j)
                            /\ Saves(b) /\ rows' = rows \cup {b}
                            /\ k.event = CreatedEvent(j, b)
                            /\ k.served = {b.tenant}
                            /\ "event" \in DOMAIN k
    BY <1>10, <2>1
  <2>3. CreationStarted(j, q, p, id, k)
    BY <2>2 DEF route, code, i, CreationStarted
  <2> QED BY <2>2, <2>3
<1> QED BY <1>8, <1>11, <1>12

\* A call that comes before the ones in t.
LEMMA CallBefore ==
    ASSUME NEW a \in Calls, NEW t, InOrder(t), \A c \in ToSet(t) : Turn[a] < Turn[c]
    PROVE  /\ InOrder(<<a>> \o t) /\ ToSet(<<a>> \o t) = {a} \cup ToSet(t)
           /\ << >> \o t = t
<1>1. t \in Seq(Calls) /\ Len(t) \in Nat /\ DOMAIN t = 1..Len(t)
  BY DEF InOrder
<1>2. << >> \o t = t
  BY <1>1, ConcatEmptySeq
<1>3. PICK b : b = <<a>>
  OBVIOUS
<1>4. b \in Seq(Calls) /\ Len(b) = 1 /\ b[1] = a
  BY <1>3
<1>5. PICK s : s = b \o t
  OBVIOUS
<1>6. s \in Seq(Calls) /\ Len(s) = 1 + Len(t) /\ DOMAIN s = 1..(1 + Len(t)) /\ s[1] = a
      /\ \A n \in DOMAIN t : s[n + 1] = t[n]
  <2>1. /\ b \o t \in Seq(Calls) /\ Len(b \o t) = Len(b) + Len(t)
        /\ \A n \in 1..(Len(b) + Len(t)) :
              (b \o t)[n] = IF n <= Len(b) THEN b[n] ELSE t[n - Len(b)]
    BY <1>1, <1>4, ConcatProperties
  <2> QED BY <2>1, <1>1, <1>4, <1>5
<1>7. \A n \in DOMAIN s : n = 1 \/ (n - 1 \in DOMAIN t /\ s[n] = t[n - 1])
  BY <1>1, <1>6
<1>8. InOrder(s)
  <2> SUFFICES ASSUME NEW k \in DOMAIN s, NEW l \in DOMAIN s, k < l
               PROVE  Turn[s[k]] < Turn[s[l]] \/ (s[k] = "evaluate" /\ s[l] = "evaluate")
    BY <1>6 DEF InOrder
  <2>1. l - 1 \in DOMAIN t /\ s[l] = t[l - 1]
    BY <1>6, <1>7
  <2>2. CASE k = 1
    BY <2>1, <2>2, <1>6 DEF ToSet
  <2>3. CASE k # 1
    <3>1. k - 1 \in DOMAIN t /\ s[k] = t[k - 1] /\ k - 1 < l - 1
      BY <2>3, <1>6, <1>7
    <3> QED BY <2>1, <3>1 DEF InOrder
  <2> QED BY <2>2, <2>3
<1>9. ToSet(s) = {a} \cup ToSet(t)
  <2>1. ASSUME NEW n \in DOMAIN s PROVE s[n] \in {a} \cup ToSet(t)
    BY <1>6, <1>7 DEF ToSet
  <2>2. ASSUME NEW n \in DOMAIN t PROVE t[n] \in ToSet(s)
    <3>1. n + 1 \in DOMAIN s /\ s[n + 1] = t[n]
      BY <1>1, <1>6
    <3> QED BY <3>1 DEF ToSet
  <2>3. 1 \in DOMAIN s
    BY <1>1, <1>6
  <2> QED BY <2>1, <2>2, <2>3, <1>6 DEF ToSet
<1> QED BY <1>2, <1>3, <1>5, <1>8, <1>9

\* What a resolution found and answered (ResolveAuthorityContext).
ResolutionStarted(j, q, headers, k, b, a, actor) ==
    LET found == {x \in rows : Matches(setting.provider, x, q)}
    IN  /\ ServedBy(j, k)
        /\ Serves(setting.provider, q) /\ found # {}
        /\ b = FirstListed(setting.provider, store, found)
        /\ a = AnswerFrom(setting.provider, b, q) /\ a # Refused
        /\ actor \in ResolvingActors(q, headers)
        /\ k.handler = "resolve" /\ ~k.cut
        /\ {"update", "event"} \subseteq ToSet(k.steps)
        /\ k.row = a.row /\ k.event = ResolvedEvent(j, a) /\ k.request = q
        /\ k.headers = headers /\ k.mission = a.row.mission /\ k.actor = actor
        /\ k.context = a.context

\* A resolution starts out with what it found and answered (ResolveAuthorityContext).
LEMMA ResolutionArrives ==
    ASSUME NEW j, NEW q, NEW headers, ResolveAuthorityContext(j, q, headers)
    PROVE  \E k, b, a, actor : /\ jobs' = [jobs EXCEPT ![j] = k]
                              /\ ResolutionStarted(j, q, headers, k, b, a, actor)
<1> DEFINE found == {x \in rows : Matches(setting.provider, x, q)}
<1>1. PICK b : b = FirstListed(setting.provider, store, found)
  OBVIOUS
<1>2. PICK a : a = AnswerFrom(setting.provider, b, q)
  OBVIOUS
<1> DEFINE fields(actor) ==
        [row |-> a.row, event |-> ResolvedEvent(j, a), request |-> q,
         headers |-> headers, mission |-> a.row.mission, actor |-> actor,
         context |-> a.context]
<1>3. PICK actor \in ResolvingActors(q, headers) :
        jobs' = [jobs EXCEPT ![j] = Job("resolve", ResolveSteps(a, q), fields(actor))]
  BY <1>1, <1>2 DEF ResolveAuthorityContext
<1>4. Serves(setting.provider, q) /\ found # {} /\ a # Refused
  BY <1>1, <1>2 DEF ResolveAuthorityContext
<1>5. PICK g : g = fields(actor)
  OBVIOUS
<1>6. DOMAIN g = {"row", "event", "request", "headers", "mission", "actor", "context"}
      /\ g.row = a.row /\ g.event = ResolvedEvent(j, a) /\ g.request = q
      /\ g.headers = headers /\ g.mission = a.row.mission /\ g.actor = actor
      /\ g.context = a.context
  BY <1>5
<1>7. PICK s : s = ResolveSteps(a, q)
  OBVIOUS
<1>8. InOrder(s) /\ {"update", "event"} \subseteq ToSet(s)
      /\ ToSet(s) \subseteq {"evaluate", "update", "event"}
  <2>1. PICK t : t = <<"update", "event">>
    OBVIOUS
  <2>2. InOrder(t) /\ ToSet(t) = {"update", "event"}
    <3>1. {"update", "event"} \subseteq Calls /\ Turn["update"] < Turn["event"]
      BY DEF Calls, Turn
    <3> QED BY <2>1, <3>1, StepsInOrder
  <2>3. "evaluate" \in Calls /\ \A c \in ToSet(t) : Turn["evaluate"] < Turn[c]
    BY <2>2 DEF Calls, Turn
  <2>4. InOrder(<<"evaluate">> \o t) /\ ToSet(<<"evaluate">> \o t) = {"evaluate"} \cup ToSet(t)
        /\ << >> \o t = t
    BY <2>2, <2>3, CallBefore
  <2>5. s = <<"evaluate">> \o t \/ s = << >> \o t
    BY <1>7, <2>1 DEF ResolveSteps
  <2> QED BY <2>2, <2>4, <2>5
<1>9. PICK k : k = Job("resolve", s, g)
  OBVIOUS
<1>10. jobs' = [jobs EXCEPT ![j] = k]
  BY <1>3, <1>5, <1>7, <1>9
<1>11. IsJob(k, "resolve", s, g)
  BY <1>9, JobFields
<1>12. /\ k.handler = "resolve" /\ ~k.cut /\ k.steps = s
       /\ k.row = a.row /\ k.event = ResolvedEvent(j, a) /\ k.request = q
       /\ k.headers = headers /\ k.mission = a.row.mission /\ k.actor = actor
       /\ k.context = a.context
  BY <1>6, <1>11 DEF IsJob
<1>13. ServedBy(j, k)
  <2>1. ResolvedEvent(j, a).id = <<j, "event">>
    BY DEF ResolvedEvent, EventOf
  <2>2. /\ "resolve" \in Handlers /\ FieldsOf["resolve"] = DOMAIN g
        /\ CallsOf["resolve"] = {"evaluate", "update", "event"}
    BY <1>6 DEF Handlers, FieldsOf, CallsOf
  <2>3. "event" \in ToSet(s) /\ "event" \in DOMAIN g /\ g.event.id = <<j, "event">>
        /\ "row" \in DOMAIN g
    BY <1>6, <1>8, <2>1
  <2> QED BY <1>8, <1>11, <2>2, <2>3, NewHandler
<1>14. {"update", "event"} \subseteq ToSet(k.steps)
  BY <1>8, <1>12
<1> HIDE DEF fields
<1>15. ResolutionStarted(j, q, headers, k, b, a, actor)
  BY <1>1, <1>2, <1>4, <1>12, <1>13, <1>14 DEF ResolutionStarted
<1> QED BY <1>10, <1>15

\* k is a webhook's handler: binding d is the one it is about, 0 if there is none.
WebhookStarted(w, k, d) ==
    LET summary == SummarizeWebhook(w.payload)
        bound == {b \in rows : bindingForRepository(b, summary.repository)}
    IN  /\ k.handler = "webhook" /\ ~k.cut
        /\ {"deliver", "event"} \subseteq ToSet(k.steps)
        /\ k.delivery = Delivery(w.id, summary, d)
        /\ k.event.type = "webhook" /\ k.event.about = <<k.delivery>>
        /\ \/ d = 0 /\ "update" \notin ToSet(k.steps) /\ "row" \notin DOMAIN k
           \/ \E b, sha :
                 /\ bound # {} /\ b = FirstListed("github", store, bound) /\ d = b.id
                 /\ k.row = [b EXCEPT !.lastDelivery = w.id, !.lastSHA = sha]
                 /\ "row" \in DOMAIN k

\* A delivery is noted on the row it is about before it is recorded (IngestWebhook).
LEMMA WebhookArrives ==
    ASSUME NEW j, NEW w, IngestWebhook(j, w)
    PROVE  \E k, d : jobs' = [jobs EXCEPT ![j] = k] /\ ServedBy(j, k) /\ WebhookStarted(w, k, d)
<1> DEFINE summary == SummarizeWebhook(w.payload)
           bound == {b \in rows : bindingForRepository(b, summary.repository)}
           announced(b, d) ==
               [EventOf(j, "webhook", b.mission, b.tenant, << >>) EXCEPT !.about = <<d>>]
<1>1. PICK t : t = <<"deliver", "event">>
  OBVIOUS
<1>2. InOrder(t) /\ ToSet(t) = {"deliver", "event"}
  <2>1. {"deliver", "event"} \subseteq Calls /\ Turn["deliver"] < Turn["event"]
    BY DEF Calls, Turn
  <2> QED BY <1>1, <2>1, StepsInOrder
<1>3. InOrder(<<"update">> \o t) /\ ToSet(<<"update">> \o t) = {"update", "deliver", "event"}
      /\ << >> \o t = t
  <2>1. "update" \in Calls /\ \A c \in ToSet(t) : Turn["update"] < Turn[c]
    BY <1>2 DEF Calls, Turn
  <2>2. InOrder(<<"update">> \o t) /\ ToSet(<<"update">> \o t) = {"update"} \cup ToSet(t)
        /\ << >> \o t = t
    BY <1>2, <2>1, CallBefore
  <2> QED BY <1>2, <2>2
<1>4. /\ "webhook" \in Handlers /\ FieldsOf["webhook"] = {"delivery", "event"}
      /\ CallsOf["webhook"] = {"update", "deliver", "event"}
  BY DEF Handlers, FieldsOf, CallsOf
<1>5. ASSUME NEW b, NEW d
      PROVE  /\ announced(b, d).id = <<j, "event">> /\ announced(b, d).type = "webhook"
             /\ announced(b, d).about = <<d>>
  BY DEF EventOf
<1>6. CASE bound = {}
  <2>1. PICK nobody : nobody = [id |-> 0, mission |-> "", tenant |-> ""]
    OBVIOUS
  <2>2. PICK v : v = Delivery(w.id, summary, 0)
    OBVIOUS
  <2>3. PICK e : e = announced(nobody, v)
    OBVIOUS
  <2>4. PICK g : g = [delivery |-> v, event |-> e]
    OBVIOUS
  <2>5. jobs' = [jobs EXCEPT ![j] = Job("webhook", WebhookSteps(bound), g)]
    <3>1. nobody.id = 0
      BY <2>1
    <3> QED BY <1>6, <2>1, <2>2, <2>3, <2>4, <3>1 DEF IngestWebhook
  <2>6. WebhookSteps(bound) = t
    BY <1>1, <1>3, <1>6 DEF WebhookSteps
  <2>7. e.id = <<j, "event">> /\ e.type = "webhook" /\ e.about = <<v>>
    BY <1>5, <2>3
  <2> HIDE DEF summary, bound, announced
  <2>8. PICK k : k = Job("webhook", t, g)
    OBVIOUS
  <2>9. jobs' = [jobs EXCEPT ![j] = k]
    BY <2>5, <2>6, <2>8
  <2>10. IsJob(k, "webhook", t, g)
    BY <2>8, JobFields
  <2>11. DOMAIN g = {"delivery", "event"} /\ g.delivery = v /\ g.event = e
    BY <2>4
  <2>12. k.handler = "webhook" /\ ~k.cut /\ k.steps = t /\ k.delivery = v /\ k.event = e
         /\ "row" \notin DOMAIN k
    BY <2>10, <2>11 DEF IsJob
  <2>13. ServedBy(j, k)
    <3>1. "event" \in ToSet(t) /\ "event" \in DOMAIN g /\ g.event.id = <<j, "event">>
          /\ FieldsOf["webhook"] \subseteq DOMAIN g
          /\ ToSet(t) \subseteq CallsOf["webhook"] /\ {"update", "delete"} \cap ToSet(t) = {}
      BY <1>2, <1>4, <2>7, <2>11
    <3> QED BY <1>2, <1>4, <2>10, <3>1, NewHandler
  <2>14. {"deliver", "event"} \subseteq ToSet(k.steps) /\ "update" \notin ToSet(k.steps)
    BY <1>2, <2>12
  <2>15. WebhookStarted(w, k, 0)
    BY <2>2, <2>7, <2>12, <2>14 DEF summary, WebhookStarted
  <2> QED BY <2>9, <2>13, <2>15
<1>7. CASE bound # {}
  <2>1. PICK b : b = FirstListed("github", store, bound)
    OBVIOUS
  <2>2. PICK v : v = Delivery(w.id, summary, b.id)
    OBVIOUS
  <2>3. PICK e : e = announced(b, v)
    OBVIOUS
  <2>4. PICK sha : sha = firstString(<<summary.sha, b.lastSHA>>)
    OBVIOUS
  <2>5. PICK g : g = [row |-> [b EXCEPT !.lastDelivery = w.id, !.lastSHA = sha],
                      delivery |-> v, event |-> e]
    OBVIOUS
  <2>6. PICK s : s = <<"update">> \o t
    OBVIOUS
  <2>7. WebhookSteps(bound) = s
    BY <1>1, <1>7, <2>6 DEF WebhookSteps
  <2>8. jobs' = [jobs EXCEPT ![j] = Job("webhook", s, g)]
    <3>1. jobs' = [jobs EXCEPT ![j] = Job("webhook", WebhookSteps(bound),
             [row |-> [b EXCEPT !.lastDelivery = w.id,
                                !.lastSHA = firstString(<<summary.sha, @>>)],
              delivery |-> v, event |-> e])]
      BY <1>7, <2>1, <2>2, <2>3 DEF IngestWebhook
    <3>2. [b EXCEPT !.lastDelivery = w.id, !.lastSHA = firstString(<<summary.sha, @>>)]
            = [b EXCEPT !.lastDelivery = w.id, !.lastSHA = sha]
      <4> HIDE DEF summary
      <4> QED BY <2>4
    <3> QED BY <3>1, <3>2, <2>5, <2>7
  <2>9. e.id = <<j, "event">> /\ e.type = "webhook" /\ e.about = <<v>>
    BY <1>5, <2>3
  <2>10. b = FirstListed("github", store,
                {x \in rows : bindingForRepository(x, SummarizeWebhook(w.payload).repository)})
         /\ {x \in rows : bindingForRepository(x, SummarizeWebhook(w.payload).repository)} # {}
    BY <1>7, <2>1
  <2> HIDE DEF summary, bound, announced
  <2>11. PICK k : k = Job("webhook", s, g)
    OBVIOUS
  <2>12. jobs' = [jobs EXCEPT ![j] = k]
    BY <2>8, <2>11
  <2>13. IsJob(k, "webhook", s, g)
    BY <2>11, JobFields
  <2>14. DOMAIN g = {"row", "delivery", "event"} /\ g.delivery = v /\ g.event = e
         /\ g.row = [b EXCEPT !.lastDelivery = w.id, !.lastSHA = sha]
    BY <2>5
  <2>15. k.handler = "webhook" /\ ~k.cut /\ k.steps = s /\ k.delivery = v /\ k.event = e
         /\ k.row = g.row /\ "row" \in DOMAIN k
    BY <2>13, <2>14 DEF IsJob
  <2>16. ServedBy(j, k)
    <3>1. "event" \in ToSet(s) /\ "event" \in DOMAIN g /\ g.event.id = <<j, "event">>
          /\ FieldsOf["webhook"] \subseteq DOMAIN g
          /\ ToSet(s) \subseteq CallsOf["webhook"] /\ "row" \in DOMAIN g /\ InOrder(s)
      BY <1>3, <1>4, <2>6, <2>9, <2>14
    <3> QED BY <1>4, <2>13, <3>1, NewHandler
  <2>17. {"deliver", "event"} \subseteq ToSet(k.steps)
    BY <1>3, <2>6, <2>15
  <2>18. k.delivery = Delivery(w.id, SummarizeWebhook(w.payload), b.id)
         /\ k.event.type = "webhook" /\ k.event.about = <<k.delivery>>
    BY <2>2, <2>9, <2>15 DEF summary
  <2>19. WebhookStarted(w, k, b.id)
    BY <2>10, <2>14, <2>15, <2>17, <2>18 DEF WebhookStarted
  <2> QED BY <2>12, <2>16, <2>19
<1> QED BY <1>6, <1>7

\* k is a check's handler, from binding b and in the name of the mission.
CheckStarted(j, q, k, b, mission) ==
    LET bound == {x \in rows : bindingForRepository(x, q.repository)}
    IN  /\ bound # {} /\ b = FirstListed("github", store, bound)
        /\ b.mission \in {"", mission} /\ k.mission = mission
        /\ q.files \in Seq(ToSet(q.files)) /\ Len(q.files) >= 1
        /\ k.handler = "check" /\ ~k.cut
        /\ Len(k.steps) = Len(q.files) + 2
        /\ k.steps[Len(q.files) + 1] = "update" /\ k.steps[Len(q.files) + 2] = "event"
        /\ {"update", "event"} \subseteq ToSet(k.steps)
        /\ k.row = [b EXCEPT !.lastSHA = q.sha] /\ k.request = q
        /\ k.decided = << >> /\ k.conclusion = "success"
        /\ k.event = EventOf(j, "check", mission, b.tenant, <<b.id>>)

\* A check evaluates one file after the other, then updates the row (PlanCheckRun).
LEMMA CheckArrives ==
    ASSUME NEW j, NEW q \in Checks, NEW headers, PlanCheckRun(j, q, headers)
    PROVE  \E k, b, mission : /\ jobs' = [jobs EXCEPT ![j] = k] /\ ServedBy(j, k)
                              /\ CheckStarted(j, q, k, b, mission)
<1> DEFINE bound == {x \in rows : bindingForRepository(x, q.repository)}
<1>1. PICK b : b = FirstListed("github", store, bound)
  OBVIOUS
<1>2. PICK mission : mission = firstString(<<q.mission, b.mission>>)
  OBVIOUS
<1>3. PICK actor : jobs' = [jobs EXCEPT ![j] = Job("check",
                [k \in DOMAIN q.files |-> "evaluate"] \o <<"update", "event">>,
                [row |-> [b EXCEPT !.lastSHA = q.sha], request |-> q, headers |-> headers,
                 mission |-> mission, actor |-> actor, decided |-> << >>,
                 conclusion |-> "success",
                 event |-> EventOf(j, "check", mission, b.tenant, <<b.id>>)])]
  BY <1>1, <1>2 DEF PlanCheckRun
<1>4. q.files # << >> /\ bound # {} /\ b.mission \in {"", mission}
  BY <1>1, <1>2 DEF PlanCheckRun
<1> HIDE DEF bound
<1>5. q.files \in Seq(ToSet(q.files))
  BY CheckAssumption
<1>6. PICK n : n = Len(q.files)
  OBVIOUS
<1>7. n \in Nat /\ n >= 1 /\ DOMAIN q.files = 1..n
  <2>1. PICK f, S : f = q.files /\ S = ToSet(q.files)
    OBVIOUS
  <2>2. f \in Seq(S) /\ f # << >>
    BY <1>4, <1>5, <2>1
  <2>3. Len(f) \in Nat /\ Len(f) >= 1 /\ DOMAIN f = 1..Len(f)
    BY <2>2
  <2> QED BY <1>6, <2>1, <2>3
<1>8. PICK s : s = [k \in 1..n |-> "evaluate"] \o <<"update", "event">>
  OBVIOUS
<1>9. InOrder(s) /\ Len(s) = n + 2 /\ s[n + 1] = "update" /\ s[n + 2] = "event"
      /\ ToSet(s) \subseteq {"evaluate", "update", "event"} /\ "event" \in ToSet(s)
  BY <1>7, <1>8, CheckSteps
<1>10. "update" \in ToSet(s)
  <2>1. n + 1 \in DOMAIN s
    BY <1>7, <1>9 DEF InOrder
  <2> QED BY <2>1, <1>9 DEF ToSet
<1>11. PICK g : g =
         [row |-> [b EXCEPT !.lastSHA = q.sha], request |-> q, headers |-> headers,
          mission |-> mission, actor |-> actor, decided |-> << >>, conclusion |-> "success",
          event |-> EventOf(j, "check", mission, b.tenant, <<b.id>>)]
  OBVIOUS
<1>12. DOMAIN g = {"row", "request", "headers", "mission", "actor", "decided", "conclusion",
                   "event"}
       /\ g.row = [b EXCEPT !.lastSHA = q.sha] /\ g.request = q /\ g.mission = mission
       /\ g.decided = << >> /\ g.conclusion = "success"
       /\ g.event = EventOf(j, "check", mission, b.tenant, <<b.id>>)
  BY <1>11
<1>13. PICK k : k = Job("check", s, g)
  OBVIOUS
<1>14. jobs' = [jobs EXCEPT ![j] = k]
  BY <1>3, <1>7, <1>8, <1>11, <1>13
<1>15. IsJob(k, "check", s, g)
  BY <1>13, JobFields
<1>16. /\ k.handler = "check" /\ ~k.cut /\ k.steps = s
       /\ k.row = g.row /\ k.request = q /\ k.mission = mission
       /\ k.decided = << >> /\ k.conclusion = "success" /\ k.event = g.event
  BY <1>12, <1>15 DEF IsJob
<1>17. ServedBy(j, k)
  <2>1. /\ "check" \in Handlers /\ FieldsOf["check"] = DOMAIN g
        /\ CallsOf["check"] = {"evaluate", "update", "event"}
    BY <1>12 DEF Handlers, FieldsOf, CallsOf
  <2>2. EventOf(j, "check", mission, b.tenant, <<b.id>>).id = <<j, "event">>
    BY DEF EventOf
  <2>3. "event" \in DOMAIN g /\ g.event.id = <<j, "event">> /\ "row" \in DOMAIN g
    BY <1>12, <2>2
  <2> QED BY <1>9, <1>15, <2>1, <2>3, NewHandler
<1>18. {"update", "event"} \subseteq ToSet(k.steps)
  BY <1>9, <1>10, <1>16
<1>19. LET x == {y \in rows : bindingForRepository(y, q.repository)}
       IN  x # {} /\ b = FirstListed("github", store, x)
  BY <1>1, <1>4 DEF bound
<1>20. Len(k.steps) = Len(q.files) + 2 /\ Len(q.files) >= 1
       /\ k.steps[Len(q.files) + 1] = "update" /\ k.steps[Len(q.files) + 2] = "event"
  BY <1>6, <1>7, <1>9, <1>16
<1>21. k.row = [b EXCEPT !.lastSHA = q.sha]
       /\ k.event = EventOf(j, "check", mission, b.tenant, <<b.id>>)
  BY <1>12, <1>16
<1>22. CheckStarted(j, q, k, b, mission)
  BY <1>4, <1>5, <1>16, <1>18, <1>19, <1>20, <1>21 DEF CheckStarted
<1> QED BY <1>14, <1>17, <1>22

\* k is a ticket's handler.
TicketStarted(k, s, g) ==
    /\ k.handler = "ticket" /\ ~k.cut /\ k.steps = s
    /\ k.event = g.event /\ "event" \in ToSet(s)
    /\ "row" \in DOMAIN g => k.row = g.row
    /\ "row" \in DOMAIN k <=> "row" \in DOMAIN g

\* Tickets (CreateTicketBinding, UpdateTicketStatus, DeleteTicketBinding).
LEMMA TicketArrives ==
    ASSUME NEW j, NEW s \in {<<"event">>, <<"update", "event">>, <<"delete", "event">>}, NEW g,
           jobs' = [jobs EXCEPT ![j] = Job("ticket", s, g)],
           DOMAIN g \in {{"event"}, {"row", "event"}}, g.event.id = <<j, "event">>,
           s # <<"event">> => "row" \in DOMAIN g
    PROVE  \E k : /\ jobs' = [jobs EXCEPT ![j] = k] /\ ServedBy(j, k)
                  /\ TicketStarted(k, s, g)
<1>1. PICK k : k = Job("ticket", s, g)
  OBVIOUS
<1>2. IsJob(k, "ticket", s, g)
  BY <1>1, JobFields
<1>3. k.handler = "ticket" /\ ~k.cut /\ k.steps = s /\ k.event = g.event
      /\ ("row" \in DOMAIN g => k.row = g.row)
      /\ ("row" \in DOMAIN k <=> "row" \in DOMAIN g)
  <2>1. {"event"} \subseteq DOMAIN g
    OBVIOUS
  <2> QED BY <1>2, <2>1 DEF IsJob
<1>4. InOrder(s) /\ ToSet(s) \subseteq {"update", "delete", "event"} /\ "event" \in ToSet(s)
      /\ (s = <<"event">> => ToSet(s) = {"event"})
  <2>1. {"update", "delete", "event"} \subseteq Calls /\ Turn["update"] < Turn["event"]
        /\ Turn["delete"] < Turn["event"]
    BY DEF Calls, Turn
  <2>2. CASE s = <<"event">>
    BY <2>1, <2>2, StepsInOrder
  <2>3. CASE s = <<"update", "event">>
    <3>1. InOrder(s) /\ ToSet(s) = {"update", "event"} /\ s # <<"event">>
      BY <2>1, <2>3, StepsInOrder
    <3> QED BY <3>1
  <2>4. CASE s = <<"delete", "event">>
    <3>1. InOrder(s) /\ ToSet(s) = {"delete", "event"} /\ s # <<"event">>
      BY <2>1, <2>4, StepsInOrder
    <3> QED BY <3>1
  <2> QED BY <2>2, <2>3, <2>4
<1>5. ServedBy(j, k)
  <2>1. /\ "ticket" \in Handlers /\ FieldsOf["ticket"] \subseteq DOMAIN g
        /\ CallsOf["ticket"] = {"update", "delete", "event"}
    BY DEF Handlers, FieldsOf, CallsOf
  <2>2. {"update", "delete"} \cap ToSet(s) # {} => "row" \in DOMAIN g
    BY <1>4
  <2>3. "event" \in DOMAIN g
    OBVIOUS
  <2> QED BY <1>2, <1>4, <2>1, <2>2, <2>3, NewHandler
<1>6. jobs' = [jobs EXCEPT ![j] = k]
  BY <1>1
<1> QED BY <1>3, <1>4, <1>5, <1>6 DEF TicketStarted

\* k is the record handler j starts with: an administrator's request is to be
\* recorded unless it only reads.
Starting(j, k) ==
    /\ ServedBy(j, k) /\ ~k.cut
    /\ k.handler \in {"admin", "create"} => ("audit" \in ToSet(k.steps) <=> k.route.audited)

\* Every request starts one handler that nobody used before, and touches neither
\* deliveries nor the ledger.
LEMMA RequestStarts ==
    ASSUME NEW j \in Jobs, Request(j)
    PROVE  /\ jobs[j] = NotStarted
           /\ \E k : jobs' = [jobs EXCEPT ![j] = k] /\ Starting(j, k)
           /\ UNCHANGED <<setting, deliveries, crashed, ledgerVars>>
<1>1. ASSUME NEW p, NEW route, NEW t, ServeAdmin(j, route, p, t)
      PROVE  /\ jobs[j] = NotStarted
             /\ \E k : jobs' = [jobs EXCEPT ![j] = k] /\ Starting(j, k)
             /\ UNCHANGED <<setting, deliveries, crashed, ledgerVars>>
  <2>1. \E k : jobs' = [jobs EXCEPT ![j] = k] /\ Starting(j, k)
    BY <1>1, AdminArrives DEF Starting
  <2>2. jobs[j] = NotStarted /\ UNCHANGED <<setting, deliveries, crashed, ledgerVars>>
    BY <1>1 DEF ServeAdmin, Arrives
  <2> QED BY <2>1, <2>2
<1>2. ASSUME NEW h, NEW route, NEW q, ServeAgent(j, route, h, q)
      PROVE  /\ jobs[j] = NotStarted
             /\ \E k : jobs' = [jobs EXCEPT ![j] = k] /\ Starting(j, k)
             /\ UNCHANGED <<setting, deliveries, crashed, ledgerVars>>
  <2>1. \E k : jobs' = [jobs EXCEPT ![j] = k] /\ Starting(j, k)
    BY <1>2, AgentArrives DEF Starting
  <2>2. jobs[j] = NotStarted /\ UNCHANGED <<setting, deliveries, crashed, ledgerVars>>
    BY <1>2 DEF ServeAgent, Arrives
  <2> QED BY <2>1, <2>2
<1>3. ASSUME NEW q, NEW p, NEW id, CreateBinding(j, q, p, id), UNCHANGED crashed
      PROVE  /\ jobs[j] = NotStarted
             /\ \E k : jobs' = [jobs EXCEPT ![j] = k] /\ Starting(j, k)
             /\ UNCHANGED <<setting, deliveries, crashed, ledgerVars>>
  <2>1. \E k : jobs' = [jobs EXCEPT ![j] = k] /\ Starting(j, k)
    BY <1>3, CreationArrives DEF Starting, CreationStarted
  <2>2. jobs[j] = NotStarted /\ UNCHANGED <<setting, deliveries, crashed, ledgerVars>>
    BY <1>3 DEF CreateBinding, Arrives
  <2> QED BY <2>1, <2>2
<1>4. ASSUME NEW s \in {<<"event">>, <<"update", "event">>, <<"delete", "event">>}, NEW g,
             jobs' = [jobs EXCEPT ![j] = Job("ticket", s, g)],
             DOMAIN g \in {{"event"}, {"row", "event"}}, g.event.id = <<j, "event">>,
             s # <<"event">> => "row" \in DOMAIN g
      PROVE  \E k : jobs' = [jobs EXCEPT ![j] = k] /\ Starting(j, k)
  BY <1>4, TicketArrives DEF Starting, TicketStarted
<1>5. ASSUME NEW q, NEW id, CreateTicketBinding(j, q, id), UNCHANGED crashed
      PROVE  /\ jobs[j] = NotStarted
             /\ \E k : jobs' = [jobs EXCEPT ![j] = k] /\ Starting(j, k)
             /\ UNCHANGED <<setting, deliveries, crashed, ledgerVars>>
  <2>1. PICK b : b = TicketBinding(q, id, j)
    OBVIOUS
  <2>2. PICK g : g = [event |-> CreatedEvent(j, b)]
    OBVIOUS
  <2>3. jobs' = [jobs EXCEPT ![j] = Job("ticket", <<"event">>, g)]
    BY <1>5, <2>1, <2>2 DEF CreateTicketBinding
  <2>4. DOMAIN g = {"event"} /\ g.event.id = <<j, "event">>
    BY <2>2 DEF CreatedEvent, EventOf
  <2>5. \E k : jobs' = [jobs EXCEPT ![j] = k] /\ Starting(j, k)
    BY <1>4, <2>3, <2>4
  <2>6. jobs[j] = NotStarted /\ UNCHANGED <<setting, deliveries, crashed, ledgerVars>>
    BY <1>5 DEF CreateTicketBinding, Arrives
  <2> QED BY <2>5, <2>6
<1>6. ASSUME NEW q, NEW h, ResolveAuthorityContext(j, q, h), UNCHANGED crashed
      PROVE  /\ jobs[j] = NotStarted
             /\ \E k : jobs' = [jobs EXCEPT ![j] = k] /\ Starting(j, k)
             /\ UNCHANGED <<setting, deliveries, crashed, ledgerVars>>
  <2>1. \E k : jobs' = [jobs EXCEPT ![j] = k] /\ Starting(j, k)
    BY <1>6, ResolutionArrives DEF Starting, ResolutionStarted
  <2>2. jobs[j] = NotStarted /\ UNCHANGED <<setting, deliveries, crashed, ledgerVars>>
    BY <1>6 DEF ResolveAuthorityContext, Arrives
  <2> QED BY <2>1, <2>2
<1>7. ASSUME NEW w, IngestWebhook(j, w), UNCHANGED crashed
      PROVE  /\ jobs[j] = NotStarted
             /\ \E k : jobs' = [jobs EXCEPT ![j] = k] /\ Starting(j, k)
             /\ UNCHANGED <<setting, deliveries, crashed, ledgerVars>>
  <2>1. \E k : jobs' = [jobs EXCEPT ![j] = k] /\ Starting(j, k)
    BY <1>7, WebhookArrives DEF Starting, WebhookStarted
  <2>2. jobs[j] = NotStarted /\ UNCHANGED <<setting, deliveries, crashed, ledgerVars>>
    BY <1>7 DEF IngestWebhook, Arrives
  <2> QED BY <2>1, <2>2
<1>8. ASSUME NEW q \in Checks, NEW h, PlanCheckRun(j, q, h), UNCHANGED crashed
      PROVE  /\ jobs[j] = NotStarted
             /\ \E k : jobs' = [jobs EXCEPT ![j] = k] /\ Starting(j, k)
             /\ UNCHANGED <<setting, deliveries, crashed, ledgerVars>>
  <2>1. \E k : jobs' = [jobs EXCEPT ![j] = k] /\ Starting(j, k)
    BY <1>8, CheckArrives DEF Starting, CheckStarted
  <2>2. jobs[j] = NotStarted /\ UNCHANGED <<setting, deliveries, crashed, ledgerVars>>
    BY <1>8 DEF PlanCheckRun, Arrives
  <2> QED BY <2>1, <2>2
<1>9. ASSUME NEW b, NEW state, UpdateTicketStatus(j, b, state), UNCHANGED crashed
      PROVE  /\ jobs[j] = NotStarted
             /\ \E k : jobs' = [jobs EXCEPT ![j] = k] /\ Starting(j, k)
             /\ UNCHANGED <<setting, deliveries, crashed, ledgerVars>>
  <2>1. PICK g : g = [row |-> [b EXCEPT !.state = state],
                      event |-> EventOf(j, "ticket", b.mission, b.tenant, <<b.id>>)]
    OBVIOUS
  <2>2. jobs' = [jobs EXCEPT ![j] = Job("ticket", <<"update", "event">>, g)]
    BY <1>9, <2>1 DEF UpdateTicketStatus
  <2>3. DOMAIN g = {"row", "event"} /\ g.event.id = <<j, "event">>
    BY <2>1 DEF EventOf
  <2>4. \E k : jobs' = [jobs EXCEPT ![j] = k] /\ Starting(j, k)
    BY <1>4, <2>2, <2>3
  <2>5. jobs[j] = NotStarted /\ UNCHANGED <<setting, deliveries, crashed, ledgerVars>>
    BY <1>9 DEF UpdateTicketStatus, Arrives
  <2> QED BY <2>4, <2>5
<1>10. ASSUME NEW b, DeleteTicketBinding(j, b), UNCHANGED crashed
       PROVE  /\ jobs[j] = NotStarted
              /\ \E k : jobs' = [jobs EXCEPT ![j] = k] /\ Starting(j, k)
              /\ UNCHANGED <<setting, deliveries, crashed, ledgerVars>>
  <2>1. PICK g : g = [row |-> b, event |-> EventOf(j, "ticket", b.mission, b.tenant, <<b.id>>)]
    OBVIOUS
  <2>2. jobs' = [jobs EXCEPT ![j] = Job("ticket", <<"delete", "event">>, g)]
    BY <1>10, <2>1 DEF DeleteTicketBinding
  <2>3. DOMAIN g = {"row", "event"} /\ g.event.id = <<j, "event">>
    BY <2>1 DEF EventOf
  <2>4. \E k : jobs' = [jobs EXCEPT ![j] = k] /\ Starting(j, k)
    BY <1>4, <2>2, <2>3
  <2>5. jobs[j] = NotStarted /\ UNCHANGED <<setting, deliveries, crashed, ledgerVars>>
    BY <1>10 DEF DeleteTicketBinding, Arrives
  <2> QED BY <2>4, <2>5
<1> QED BY <1>1, <1>2, <1>3, <1>5, <1>6, <1>7, <1>8, <1>9, <1>10 DEF Request

-----------------------------------------------------------------------------
(* What a step does to the handlers.                                       *)

\* A handler that was started is left alone, or goes on, ends or dies.
LEMMA JobsStep ==
    ASSUME SettingOK, JobsOK, [Next]_vars
    PROVE  /\ SettingOK' /\ JobsOK' /\ setting' = setting /\ store' = store
           /\ \A i \in Jobs :
                 \/ jobs[i] = NotStarted
                 \/ jobs'[i] = jobs[i]
                 \/ jobs[i].steps # << >> /\ Moved(jobs[i], jobs'[i]) /\ ServedBy(i, jobs'[i])
<1>1. ASSUME UNCHANGED <<setting, jobs, store>>
      PROVE  /\ SettingOK' /\ JobsOK' /\ setting' = setting /\ store' = store
             /\ \A i \in Jobs :
                   \/ jobs[i] = NotStarted
                   \/ jobs'[i] = jobs[i]
                   \/ jobs[i].steps # << >> /\ Moved(jobs[i], jobs'[i]) /\ ServedBy(i, jobs'[i])
  BY <1>1 DEF SettingOK, JobsOK, Jobs
<1>2. ASSUME NEW j \in Jobs, NEW k, jobs' = [jobs EXCEPT ![j] = k], ServedBy(j, k),
             UNCHANGED <<setting, store>>
      PROVE  /\ SettingOK' /\ JobsOK' /\ setting' = setting /\ store' = store
             /\ jobs'[j] = k /\ \A i \in Jobs \ {j} : jobs'[i] = jobs[i]
  <2>1. jobs'[j] = k /\ \A i \in Jobs \ {j} : jobs'[i] = jobs[i]
    BY <1>2 DEF JobsOK
  <2>2. jobs' = [i \in Jobs |-> jobs'[i]]
    BY <1>2 DEF JobsOK
  <2>3. Jobs' = Jobs
    BY <1>2 DEF Jobs
  <2>4. \A i \in Jobs : jobs'[i] = NotStarted \/ ServedBy(i, jobs'[i])
    BY <2>1, <1>2 DEF JobsOK
  <2>5. JobsOK'
    BY <2>2, <2>3, <2>4 DEF JobsOK
  <2>6. SettingOK'
    BY <1>2 DEF SettingOK
  <2> QED BY <1>2, <2>1, <2>5, <2>6
<1>3. ASSUME NEW j \in Jobs, Request(j)
      PROVE  /\ SettingOK' /\ JobsOK' /\ setting' = setting /\ store' = store
             /\ \A i \in Jobs :
                   \/ jobs[i] = NotStarted
                   \/ jobs'[i] = jobs[i]
                   \/ jobs[i].steps # << >> /\ Moved(jobs[i], jobs'[i]) /\ ServedBy(i, jobs'[i])
  <2>1. jobs[j] = NotStarted /\ UNCHANGED <<setting, store>>
    BY <1>3, RequestStarts DEF ledgerVars
  <2>2. PICK k : jobs' = [jobs EXCEPT ![j] = k] /\ ServedBy(j, k)
    BY <1>3, RequestStarts DEF Starting
  <2> QED BY <1>2, <2>1, <2>2
<1>4. ASSUME NEW j \in Jobs, Continue(j)
      PROVE  /\ SettingOK' /\ JobsOK' /\ setting' = setting /\ store' = store
             /\ \A i \in Jobs :
                   \/ jobs[i] = NotStarted
                   \/ jobs'[i] = jobs[i]
                   \/ jobs[i].steps # << >> /\ Moved(jobs[i], jobs'[i]) /\ ServedBy(i, jobs'[i])
  <2>1. jobs[j].steps # << >> /\ ServedBy(j, jobs[j])
    BY <1>4, Continuing
  <2>2. PICK m : jobs' = [jobs EXCEPT ![j] = m] /\ Moved(jobs[j], m)
    BY <1>4, Continuing
  <2>3. ServedBy(j, m)
    BY <2>1, <2>2, MovedIsServed
  <2>4. UNCHANGED <<setting, store>>
    BY <1>4 DEF Continue, EvaluateBound, EvaluateFile, UpdateBinding, SaveWebhookDelivery,
                DeleteRow, AppendHandlerEvent, RecordAdminAction, ledgerVars
  <2> QED BY <1>2, <2>1, <2>2, <2>3, <2>4
<1>5. ASSUME Crash
      PROVE  /\ SettingOK' /\ JobsOK' /\ setting' = setting /\ store' = store
             /\ \A i \in Jobs :
                   \/ jobs[i] = NotStarted
                   \/ jobs'[i] = jobs[i]
                   \/ jobs[i].steps # << >> /\ Moved(jobs[i], jobs'[i]) /\ ServedBy(i, jobs'[i])
  <2>1. UNCHANGED <<setting, store>> /\ Jobs' = Jobs
    BY <1>5 DEF Crash, Jobs
  <2>2. jobs' = [i \in Jobs |-> IF jobs[i].steps = << >> THEN jobs[i]
                                ELSE [Finish(jobs[i]) EXCEPT !.cut = TRUE]]
    BY <1>5 DEF Crash
  <2>3. ASSUME NEW i \in Jobs, jobs[i].steps # << >>
        PROVE  Moved(jobs[i], jobs'[i]) /\ ServedBy(i, jobs'[i])
    <3>1. ServedBy(i, jobs[i])
      BY <2>3 DEF JobsOK, NotStarted
    <3>2. PICK k, m : k = jobs[i] /\ m = [Finish(k) EXCEPT !.cut = TRUE]
      OBVIOUS
    <3>3. jobs'[i] = m /\ {"steps", "cut"} \subseteq DOMAIN k
      BY <2>2, <2>3, <3>1, <3>2 DEF ServedBy, Common
    <3>4. Moved(k, m)
      BY <3>2, <3>3 DEF Moved, Finish
    <3> QED BY <2>3, <3>1, <3>2, <3>3, <3>4, MovedIsServed
  <2>4. \A i \in Jobs : jobs[i].steps = << >> => jobs'[i] = jobs[i]
    BY <2>2
  <2>5. jobs' = [i \in Jobs |-> jobs'[i]]
    BY <2>2
  <2>6. JobsOK'
    <3>1. \A i \in Jobs : jobs'[i] = NotStarted \/ ServedBy(i, jobs'[i])
      BY <2>3, <2>4 DEF JobsOK
    <3> QED BY <2>1, <2>5, <3>1 DEF JobsOK
  <2> QED BY <2>1, <2>3, <2>4, <2>6 DEF SettingOK
<1>6. ASSUME Publisher \/ Reader
      PROVE  UNCHANGED <<setting, jobs, store>>
  BY <1>6 DEF Publisher, Reader, PublishOutboxEvents, OutboxPublisherStart, ServeEvents,
              StartReading, ReadPage
<1>7. CASE UNCHANGED vars
  BY <1>1, <1>7 DEF vars, ledgerVars
<1> QED BY <1>1, <1>3, <1>4, <1>5, <1>6, <1>7 DEF Next

-----------------------------------------------------------------------------
(* The ledger.                                                             *)

\* t is s with e after its first n entries.
Inserted(S, s, n, e, t) ==
    /\ t \in Seq(S) /\ Len(t) = Len(s) + 1
    /\ \A i \in 1..n : t[i] = s[i]
    /\ t[n + 1] = e
    /\ \A i \in (n + 1)..Len(s) : t[i + 1] = s[i]

\* InsertAt in terms of positions (appendEventTx).
LEMMA Inserting ==
    ASSUME NEW S, NEW s \in Seq(S), NEW e \in S, NEW n \in 0..Len(s)
    PROVE  Inserted(S, s, n, e, InsertAt(s, n + 1, e))
<1> DEFINE t == InsertAt(s, n + 1, e)
<1>1. PICK a, b, c : a = SubSeq(s, 1, n) /\ b = <<e>> /\ c = SubSeq(s, n + 1, Len(s))
  OBVIOUS
<1>2. Len(s) \in Nat /\ n \in Nat /\ n <= Len(s)
  OBVIOUS
<1>3. a \in Seq(S) /\ Len(a) = n /\ \A i \in 1..n : a[i] = s[i]
  <2>1. 1 \in Int /\ n \in Int /\ \A i \in 1..n : s[i] \in S
    BY <1>2
  <2>2. /\ SubSeq(s, 1, n) \in Seq(S)
        /\ Len(SubSeq(s, 1, n)) = IF 1 <= n THEN n - 1 + 1 ELSE 0
        /\ \A i \in 1..(n - 1 + 1) : SubSeq(s, 1, n)[i] = s[1 + i - 1]
    BY <2>1, SubSeqProperties
  <2>3. n - 1 + 1 = n /\ \A i \in 1..n : 1 + i - 1 = i
    BY <1>2
  <2>4. a \in Seq(S) /\ Len(a) = n
    BY <1>1, <1>2, <2>2
  <2>5. ASSUME NEW i \in 1..n PROVE a[i] = s[i]
    <3>1. i \in 1..(n - 1 + 1) /\ 1 + i - 1 = i
      BY <1>2
    <3>2. SubSeq(s, 1, n)[i] = s[1 + i - 1]
      BY <2>2, <3>1
    <3> QED BY <1>1, <3>1, <3>2
  <2> QED BY <2>4, <2>5
<1>4. b \in Seq(S) /\ Len(b) = 1 /\ b[1] = e
  BY <1>1
<1>5. c \in Seq(S) /\ Len(c) = Len(s) - n /\ \A i \in 1..(Len(s) - n) : c[i] = s[n + i]
  <2>1. n + 1 \in Int /\ Len(s) \in Int /\ \A i \in (n + 1)..Len(s) : s[i] \in S
    BY <1>2
  <2>2. /\ SubSeq(s, n + 1, Len(s)) \in Seq(S)
        /\ Len(SubSeq(s, n + 1, Len(s))) =
              IF n + 1 <= Len(s) THEN Len(s) - (n + 1) + 1 ELSE 0
        /\ \A i \in 1..(Len(s) - (n + 1) + 1) :
              SubSeq(s, n + 1, Len(s))[i] = s[(n + 1) + i - 1]
    BY <2>1, SubSeqProperties
  <2>3. Len(s) - (n + 1) + 1 = Len(s) - n /\ \A i \in 1..(Len(s) - n) : (n + 1) + i - 1 = n + i
    BY <1>2
  <2>4. c \in Seq(S) /\ Len(c) = Len(s) - n
    BY <1>1, <1>2, <2>2
  <2>5. ASSUME NEW i \in 1..(Len(s) - n) PROVE c[i] = s[n + i]
    <3>1. i \in 1..(Len(s) - (n + 1) + 1) /\ (n + 1) + i - 1 = n + i
      BY <1>2
    <3>2. SubSeq(s, n + 1, Len(s))[i] = s[(n + 1) + i - 1]
      BY <2>2, <3>1
    <3> QED BY <1>1, <3>1, <3>2
  <2> QED BY <2>4, <2>5
<1>6. PICK d : d = a \o b
  OBVIOUS
<1>7. d \in Seq(S) /\ Len(d) = n + 1 /\ d[n + 1] = e /\ \A i \in 1..n : d[i] = s[i]
  <2>1. /\ a \o b \in Seq(S) /\ Len(a \o b) = Len(a) + Len(b)
        /\ \A i \in 1..(Len(a) + Len(b)) :
              (a \o b)[i] = IF i <= Len(a) THEN a[i] ELSE b[i - Len(a)]
    BY <1>3, <1>4, ConcatProperties
  <2>2. d \in Seq(S) /\ Len(d) = n + 1
    BY <1>2, <1>3, <1>4, <1>6, <2>1
  <2>3. n + 1 \in 1..(Len(a) + Len(b)) /\ ~(n + 1 <= Len(a)) /\ (n + 1) - Len(a) = 1
    BY <1>2, <1>3, <1>4
  <2>4. d[n + 1] = e
    BY <1>4, <1>6, <2>1, <2>3
  <2>5. ASSUME NEW i \in 1..n PROVE d[i] = s[i]
    <3>1. i \in 1..(Len(a) + Len(b)) /\ i <= Len(a)
      BY <1>2, <1>3, <1>4
    <3> QED BY <1>3, <1>6, <2>1, <3>1
  <2> QED BY <2>2, <2>4, <2>5
<1>8. t = d \o c
  <2>1. (n + 1) - 1 = n
    BY <1>2
  <2>2. t = SubSeq(s, 1, n) \o <<e>> \o SubSeq(s, n + 1, Len(s))
    BY <2>1, Zenon DEF InsertAt
  <2> QED BY <1>1, <1>6, <2>2, Zenon
<1>9. /\ d \o c \in Seq(S) /\ Len(d \o c) = Len(d) + Len(c)
      /\ \A i \in 1..(Len(d) + Len(c)) :
            (d \o c)[i] = IF i <= Len(d) THEN d[i] ELSE c[i - Len(d)]
  BY <1>5, <1>7, ConcatProperties
<1>10. t \in Seq(S) /\ Len(t) = Len(s) + 1
  <2>1. Len(d) + Len(c) = Len(s) + 1
    BY <1>2, <1>5, <1>7
  <2> QED BY <1>8, <1>9, <2>1
<1>11. \A i \in 1..n : t[i] = s[i]
  <2> TAKE i \in 1..n
  <2>1. i \in 1..(Len(d) + Len(c)) /\ i <= Len(d)
    BY <1>2, <1>5, <1>7
  <2>2. (d \o c)[i] = d[i]
    BY <1>9, <2>1
  <2> QED BY <1>7, <1>8, <2>2
<1>12. t[n + 1] = e
  <2>1. n + 1 \in 1..(Len(d) + Len(c)) /\ n + 1 <= Len(d)
    BY <1>2, <1>5, <1>7
  <2>2. (d \o c)[n + 1] = d[n + 1]
    BY <1>9, <2>1
  <2> QED BY <1>7, <1>8, <2>2
<1>13. \A i \in (n + 1)..Len(s) : t[i + 1] = s[i]
  <2> TAKE i \in (n + 1)..Len(s)
  <2>1. i + 1 \in 1..(Len(d) + Len(c)) /\ ~(i + 1 <= Len(d)) /\ (i + 1) - Len(d) = i - n
        /\ i - n \in 1..(Len(s) - n) /\ n + (i - n) = i
    <3>1. Len(d) = n + 1 /\ Len(c) = Len(s) - n
      BY <1>5, <1>7
    <3>2. i \in Int /\ i >= n + 1 /\ i <= Len(s)
      BY <1>2
    <3> QED BY <1>2, <3>1, <3>2
  <2>2. (d \o c)[i + 1] = c[(i + 1) - Len(d)]
    BY <1>9, <2>1
  <2>3. c[i - n] = s[n + (i - n)]
    BY <1>5, <2>1
  <2> QED BY <1>8, <2>1, <2>2, <2>3
<1> QED BY <1>10, <1>11, <1>12, <1>13 DEF Inserted

\* The ledger has an event once.
LedgerOnce ==
    /\ ledger \in Seq(ToSet(ledger))
    /\ \A k, l \in DOMAIN ledger : ledger[k].id = ledger[l].id => k = l

\* An event that is kept is put somewhere (AppendEvent).
LEMMA Inserts ==
    ASSUME LedgerOnce, NEW e, NEW since, AppendEvent(e, since), Keeps(e)
    PROVE  \E n \in 0..Len(ledger) : Inserted(ToSet(ledger) \cup {e}, ledger, n, e, ledger')
<1>1. PICK S : S = ToSet(ledger) \cup {e}
  OBVIOUS
<1>2. PICK s, t : s = ledger /\ t = ledger'
  OBVIOUS
<1>3. s \in Seq(S) /\ Len(s) \in Nat /\ DOMAIN s = 1..Len(s)
  <2>1. s \in Seq(ToSet(s)) /\ Len(s) \in Nat /\ DOMAIN s = 1..Len(s)
    BY <1>2 DEF LedgerOnce
  <2>2. ToSet(s) \subseteq S
    BY <1>1, <1>2
  <2>3. s \in Seq(S)
    BY <2>1, <2>2, SeqMonotonic
  <2> QED BY <2>1, <2>3
<1>4. CASE store = "memory"
  <2>1. t = Append(s, e)
    BY <1>2, <1>4 DEF AppendEvent
  <2>2. /\ t \in Seq(S) /\ Len(t) = Len(s) + 1
        /\ \A i \in 1..Len(s) : t[i] = s[i]
        /\ t[Len(s) + 1] = e
    BY <2>1, <1>1, <1>3
  <2>3. Len(s) \in 0..Len(s) /\ (Len(s) + 1)..Len(s) = {}
    BY <1>3
  <2> QED BY <1>1, <1>2, <2>2, <2>3 DEF Inserted
<1>5. CASE store # "memory"
  <2>1. PICK n \in 0..Len(s) : t = InsertAt(s, n + 1, e)
    BY <1>2, <1>5 DEF AppendEvent, appendEventTx
  <2>2. e \in S /\ s \in Seq(S) /\ n \in 0..Len(s)
    BY <1>1, <1>3, <2>1
  <2>3. Inserted(S, s, n, e, t)
    BY <2>1, <2>2, Inserting
  <2> QED BY <1>1, <1>2, <2>2, <2>3
<1> QED BY <1>4, <1>5

\* An event that is kept joins the others wherever it is put, one that is not
\* changes nothing (AppendEvent).
LEMMA Appending ==
    ASSUME LedgerOnce, NEW e, NEW since, AppendEvent(e, since)
    PROVE  /\ ~Keeps(e) => ledger' = ledger /\ outbox' = outbox
           /\ Keeps(e) => ToSet(ledger)' = ToSet(ledger) \cup {e}
           /\ e.id \notin Ids(ledger) => LedgerOnce'
           /\ outbox' \in {outbox, outbox \cup {e.id}}
<1>1. CASE ~Keeps(e)
  <2>1. ledger' = ledger /\ outbox' = outbox
    BY <1>1 DEF AppendEvent
  <2> QED BY <1>1, <2>1 DEF LedgerOnce
<1>2. CASE Keeps(e)
  <2>1. PICK S : S = ToSet(ledger) \cup {e}
    OBVIOUS
  <2>2. PICK s, t : s = ledger /\ t = ledger'
    OBVIOUS
  <2>3. s \in Seq(S) /\ Len(s) \in Nat /\ DOMAIN s = 1..Len(s)
    <3>1. s \in Seq(ToSet(s)) /\ Len(s) \in Nat /\ DOMAIN s = 1..Len(s)
      BY <2>2 DEF LedgerOnce
    <3>2. ToSet(s) \subseteq S
      BY <2>1, <2>2
    <3>3. s \in Seq(S)
      BY <3>1, <3>2, SeqMonotonic
    <3> QED BY <3>1, <3>3
  <2>4. \E n \in 0..Len(s) : Inserted(S, s, n, e, t)
    BY <1>2, <2>1, <2>2, Inserts
  <2>5. PICK n \in 0..Len(s) :
           /\ t \in Seq(S) /\ Len(t) = Len(s) + 1
           /\ \A i \in 1..n : t[i] = s[i]
           /\ t[n + 1] = e
           /\ \A i \in (n + 1)..Len(s) : t[i + 1] = s[i]
    BY <2>4 DEF Inserted
  <2>6. DOMAIN t = 1..(Len(s) + 1) /\ n \in Nat /\ n <= Len(s)
    BY <2>3, <2>5
  <2>7. ASSUME NEW i \in DOMAIN t
        PROVE  \/ i <= n /\ i \in DOMAIN s /\ t[i] = s[i]
               \/ i = n + 1 /\ t[i] = e
               \/ i > n + 1 /\ i - 1 \in DOMAIN s /\ t[i] = s[i - 1]
    <3>1. i \in Nat /\ i >= 1 /\ i <= Len(s) + 1
      BY <2>6
    <3>2. CASE i <= n
      BY <3>1, <3>2, <2>3, <2>5, <2>6
    <3>3. CASE i > n + 1
      <4>1. i - 1 \in (n + 1)..Len(s) /\ (i - 1) + 1 = i
        BY <3>1, <3>3, <2>3, <2>6
      <4> QED BY <3>3, <4>1, <2>3, <2>5, <2>6
    <3> QED BY <3>1, <3>2, <3>3, <2>5, <2>6
  <2>8. ToSet(t) = ToSet(s) \cup {e}
    <3>1. ASSUME NEW i \in DOMAIN t PROVE t[i] \in ToSet(s) \cup {e}
      BY <2>7 DEF ToSet
    <3>2. ASSUME NEW i \in DOMAIN s PROVE s[i] \in ToSet(t)
      <4>1. CASE i <= n
        <5>1. i \in DOMAIN t /\ t[i] = s[i]
          BY <4>1, <2>3, <2>5, <2>6
        <5> QED BY <5>1 DEF ToSet
      <4>2. CASE i > n
        <5>1. i + 1 \in DOMAIN t /\ t[i + 1] = s[i]
          BY <4>2, <2>3, <2>5, <2>6
        <5> QED BY <5>1 DEF ToSet
      <4> QED BY <4>1, <4>2, <2>3, <2>6
    <3>3. n + 1 \in DOMAIN t /\ t[n + 1] = e
      BY <2>5, <2>6
    <3> QED BY <3>1, <3>2, <3>3 DEF ToSet
  <2>9. e.id \notin Ids(ledger) => LedgerOnce'
    <3> SUFFICES ASSUME e.id \notin Ids(ledger) PROVE LedgerOnce'
      OBVIOUS
    <3>1. \A i \in DOMAIN s : s[i].id # e.id
      BY <2>2 DEF Ids
    <3>2. \A k, l \in DOMAIN s : s[k].id = s[l].id => k = l
      BY <2>2 DEF LedgerOnce
    <3>3. ASSUME NEW k \in DOMAIN t, NEW l \in DOMAIN t, t[k].id = t[l].id PROVE k = l
      <4>1. \/ k <= n /\ k \in DOMAIN s /\ t[k] = s[k]
            \/ k = n + 1 /\ t[k] = e
            \/ k > n + 1 /\ k - 1 \in DOMAIN s /\ t[k] = s[k - 1]
        BY <2>7
      <4>2. \/ l <= n /\ l \in DOMAIN s /\ t[l] = s[l]
            \/ l = n + 1 /\ t[l] = e
            \/ l > n + 1 /\ l - 1 \in DOMAIN s /\ t[l] = s[l - 1]
        BY <2>7
      <4>3. k \in Nat /\ l \in Nat
        BY <2>6
      <4> QED BY <3>1, <3>2, <3>3, <4>1, <4>2, <4>3, <2>6
    <3>4. t \in Seq(ToSet(t))
      BY <2>1, <2>2, <2>5, <2>8
    <3> QED BY <3>3, <3>4, <2>2 DEF LedgerOnce
  <2>10. outbox' \in {outbox, outbox \cup {e.id}}
    BY <1>2 DEF AppendEvent
  <2> QED BY <1>2, <2>2, <2>8, <2>9, <2>10
<1> QED BY <1>1, <1>2

-----------------------------------------------------------------------------
(* What a step does to the ledger and the outbox.                          *)

\* Handler j appends e, its event or its audit.
Appends(j, e, since) ==
    /\ jobs[j].steps # << >>
    /\ \/ Head(jobs[j].steps) = "event" /\ e = jobs[j].event
       \/ Head(jobs[j].steps) = "audit" /\ e = jobs[j].audit
    /\ AppendEvent(e, since)
    /\ jobs' = [jobs EXCEPT ![j] = Proceed(@)]
    /\ UNCHANGED <<setting, rows, deliveries, crashed, store, batch, published, lost, reader>>

\* Handler j makes a call that is neither.
Works(j) ==
    /\ Continue(j) /\ Head(jobs[j].steps) \notin {"event", "audit"}
    /\ UNCHANGED <<setting, crashed, ledgerVars>>

\* Nobody is served; the publisher may have moved rows of the outbox, or somebody
\* reads a page.
Idles ==
    /\ UNCHANGED <<setting, rows, deliveries, jobs, crashed, store, ledger>>
    /\ Reader \/ UNCHANGED reader
    /\ \/ PublishOutboxEvents
       \/ OutboxPublisherStart
       \/ UNCHANGED <<outbox, batch, published, lost>>

\* The kinds of steps.
LEMMA Steps ==
    ASSUME [Next]_vars
    PROVE  \/ \E j \in Jobs : Request(j) \/ Works(j) \/ \E e, since : Appends(j, e, since)
           \/ Idles
           \/ Crash
<1>1. ASSUME NEW j \in Jobs, Continue(j)
      PROVE  Works(j) \/ \E e, since : Appends(j, e, since)
  <2>1. CASE AppendHandlerEvent(j)
    <3>1. Appends(j, jobs[j].event, jobs[j].since)
      BY <1>1, <2>1 DEF AppendHandlerEvent, Appends, Waiting, Continue
    <3> QED BY <3>1
  <2>2. CASE RecordAdminAction(j)
    <3>1. Appends(j, jobs[j].audit, Ids(ledger))
      BY <1>1, <2>2 DEF RecordAdminAction, Appends, Waiting, Continue
    <3> QED BY <3>1
  <2>3. CASE EvaluateBound(j) \/ EvaluateFile(j) \/ UpdateBinding(j)
             \/ SaveWebhookDelivery(j) \/ DeleteRow(j)
    <3>1. Head(jobs[j].steps) \in {"evaluate", "update", "deliver", "delete"}
      BY <2>3 DEF EvaluateBound, EvaluateFile, UpdateBinding, SaveWebhookDelivery,
                  DeleteRow, Waiting
    <3>2. UNCHANGED <<setting, ledgerVars>>
      BY <2>3 DEF EvaluateBound, EvaluateFile, UpdateBinding, SaveWebhookDelivery, DeleteRow
    <3>3. UNCHANGED crashed
      BY <1>1 DEF Continue
    <3> QED BY <1>1, <3>1, <3>2, <3>3 DEF Works
  <2> QED BY <1>1, <2>1, <2>2, <2>3 DEF Continue
<1>2. CASE Publisher
  BY <1>2 DEF Publisher, Idles, PublishOutboxEvents, OutboxPublisherStart
<1>3. CASE Reader
  BY <1>3 DEF Reader, ServeEvents, StartReading, ReadPage, Idles
<1>4. CASE UNCHANGED vars
  BY <1>4 DEF vars, ledgerVars, Idles
<1> QED BY <1>1, <1>2, <1>3, <1>4 DEF Next

\* Some handler recorded e.
Sourced(e) ==
    \E j \in Jobs :
        \/ /\ "event" \in DOMAIN jobs[j] /\ e = jobs[j].event
           /\ "event" \notin ToSet(jobs[j].steps)
        \/ /\ jobs[j].handler \in {"admin", "create"} /\ e = jobs[j].audit
           /\ "audit" \notin ToSet(jobs[j].steps)

LedgerOK == LedgerOnce /\ \A e \in ToSet(ledger) : Sourced(e)

\* Rows of the outbox name events, and move on to one place after the other.
OutboxOK ==
    /\ batch \in Seq(Ids(ledger)) /\ published \in Seq(Ids(ledger))
    /\ outbox \cup lost \subseteq Ids(ledger)
    /\ outbox \cap ToSet(batch) = {} /\ outbox \cap ToSet(published) = {}
    /\ outbox \cap lost = {} /\ ToSet(batch) \cap ToSet(published) = {}
    /\ ToSet(batch) \cap lost = {}
    /\ \A k, l \in DOMAIN batch : batch[k] = batch[l] => k = l
    /\ store # "postgres" => batch = << >> /\ published = << >> /\ lost = {}

\* Ids by entries.
LEMMA IdsOfEntries ==
    Ids(ledger) = {e.id : e \in ToSet(ledger)} /\ Ids(ledger)' = {e.id : e \in ToSet(ledger)'}
BY DEF Ids, ToSet

\* An event that was not recorded yet has no entry.
LEMMA Unrecorded ==
    ASSUME JobsOK, LedgerOK, NEW j \in Jobs
    PROVE  /\ jobs[j] = NotStarted => <<j, "event">> \notin Ids(ledger)
                                      /\ <<j, "audit">> \notin Ids(ledger)
           /\ "event" \in ToSet(jobs[j].steps) => <<j, "event">> \notin Ids(ledger)
           /\ "audit" \in ToSet(jobs[j].steps) => <<j, "audit">> \notin Ids(ledger)
<1>1. ASSUME NEW e \in ToSet(ledger), NEW c \in {"event", "audit"}, e.id = <<j, c>>
      PROVE  jobs[j] # NotStarted /\ c \notin ToSet(jobs[j].steps)
  <2>1. PICK i \in Jobs :
             \/ /\ "event" \in DOMAIN jobs[i] /\ e = jobs[i].event
                /\ "event" \notin ToSet(jobs[i].steps)
             \/ /\ jobs[i].handler \in {"admin", "create"} /\ e = jobs[i].audit
                /\ "audit" \notin ToSet(jobs[i].steps)
    BY DEF LedgerOK, Sourced
  <2>2. jobs[i] # NotStarted
    BY <2>1 DEF NotStarted
  <2>3. ServedBy(i, jobs[i])
    BY <2>2 DEF JobsOK
  <2>4. \/ e.id = <<i, "event">> /\ "event" \notin ToSet(jobs[i].steps)
        \/ e.id = <<i, "audit">> /\ "audit" \notin ToSet(jobs[i].steps)
    BY <2>1, <2>3 DEF ServedBy
  <2> QED BY <1>1, <2>2, <2>4
<1> QED BY <1>1, IdsOfEntries

\* What a handler appends is its own, was not recorded and is not ahead of it
\* any more (AppendHandlerEvent, RecordAdminAction).
LEMMA AppendsOnce ==
    ASSUME SettingOK, JobsOK, LedgerOK, NEW j \in Jobs, NEW e, NEW since, Appends(j, e, since)
    PROVE  /\ e.id \notin Ids(ledger) /\ e.id \in {<<j, "event">>, <<j, "audit">>}
           /\ jobs[j] # NotStarted /\ jobs'[j] = Proceed(jobs[j])
           /\ \A i \in Jobs \ {j} : jobs'[i] = jobs[i]
           /\ \/ /\ e = jobs[j].event /\ e.id = <<j, "event">> /\ "event" \in DOMAIN jobs[j]
                 /\ ToSet(jobs[j].steps) = {"event"} \cup ToSet(jobs'[j].steps)
                 /\ "event" \notin ToSet(jobs'[j].steps)
              \/ /\ e = jobs[j].audit /\ e.id = <<j, "audit">> /\ e.mission = ""
                 /\ jobs[j].handler \in {"admin", "create"}
                 /\ ToSet(jobs[j].steps) = {"audit"} \cup ToSet(jobs'[j].steps)
                 /\ "audit" \notin ToSet(jobs'[j].steps)
<1>1. jobs[j].steps # << >>
  BY DEF Appends
<1>2. jobs[j] # NotStarted
  BY <1>1 DEF NotStarted
<1>3. ServedBy(j, jobs[j]) /\ InOrder(jobs[j].steps) /\ Common \subseteq DOMAIN jobs[j]
  BY <1>2 DEF JobsOK, ServedBy
<1>4. jobs'[j] = Proceed(jobs[j]) /\ \A i \in Jobs \ {j} : jobs'[i] = jobs[i]
  BY DEF Appends, JobsOK
<1>5. jobs'[j].steps = Tail(jobs[j].steps)
  BY <1>3, <1>4 DEF Proceed, Common
<1>6. /\ ToSet(jobs[j].steps) = {Head(jobs[j].steps)} \cup ToSet(jobs'[j].steps)
      /\ Head(jobs[j].steps) # "evaluate" => Head(jobs[j].steps) \notin ToSet(jobs'[j].steps)
  BY <1>1, <1>3, <1>5, Proceeding
<1>7. CASE Head(jobs[j].steps) = "event" /\ e = jobs[j].event
  <2>1. "event" \in ToSet(jobs[j].steps) /\ "event" \notin ToSet(jobs'[j].steps)
    BY <1>6, <1>7
  <2>2. "event" \in DOMAIN jobs[j] /\ e.id = <<j, "event">>
    BY <1>3, <1>7, <2>1 DEF ServedBy
  <2> QED BY <1>2, <1>4, <1>6, <1>7, <2>1, <2>2, Unrecorded
<1>8. CASE Head(jobs[j].steps) = "audit" /\ e = jobs[j].audit
  <2>1. "audit" \in ToSet(jobs[j].steps) /\ "audit" \notin ToSet(jobs'[j].steps)
    BY <1>6, <1>8
  <2>2. jobs[j].handler \in {"admin", "create"}
    <3>1. \A h \in Handlers : "audit" \in CallsOf[h] => h \in {"admin", "create"}
      BY DEF CallsOf, Handlers
    <3>2. jobs[j].handler \in Handlers /\ ToSet(jobs[j].steps) \subseteq CallsOf[jobs[j].handler]
      BY <1>3 DEF ServedBy
    <3> QED BY <2>1, <3>1, <3>2
  <2>3. e.id = <<j, "audit">> /\ e.mission = ""
    BY <1>3, <1>8, <2>2 DEF ServedBy
  <2> QED BY <1>2, <1>4, <1>6, <1>8, <2>1, <2>2, <2>3, Unrecorded
<1> QED BY <1>7, <1>8 DEF Appends

\* Entries of the ledger stay and stay explained.
LEMMA LedgerKept ==
    ASSUME SettingOK, JobsOK, LedgerOK, [Next]_vars
    PROVE  LedgerOK' /\ ToSet(ledger) \subseteq ToSet(ledger)'
<1>1. setting' = setting /\ SettingOK' /\ JobsOK' /\ Jobs' = Jobs
  BY JobsStep DEF Jobs
<1>2. ASSUME NEW e, Sourced(e) PROVE Sourced(e)'
  <2>1. PICK i \in Jobs :
             \/ /\ "event" \in DOMAIN jobs[i] /\ e = jobs[i].event
                /\ "event" \notin ToSet(jobs[i].steps)
             \/ /\ jobs[i].handler \in {"admin", "create"} /\ e = jobs[i].audit
                /\ "audit" \notin ToSet(jobs[i].steps)
    BY <1>2 DEF Sourced
  <2>2. jobs[i] # NotStarted
    BY <2>1 DEF NotStarted
  <2>3. ServedBy(i, jobs[i])
    BY <2>2 DEF JobsOK
  <2>4. jobs'[i] = jobs[i] \/ (jobs[i].steps # << >> /\ Moved(jobs[i], jobs'[i]))
    BY <2>2, JobsStep
  <2>5. CASE jobs'[i] = jobs[i]
    BY <1>1, <2>1, <2>5 DEF Sourced
  <2>6. CASE jobs[i].steps # << >> /\ Moved(jobs[i], jobs'[i])
    <3>1. ToSet(jobs'[i].steps) \subseteq ToSet(jobs[i].steps)
          /\ jobs'[i].handler = jobs[i].handler
      BY <2>3, <2>6, MovedIsServed
    <3>2. DOMAIN jobs'[i] = DOMAIN jobs[i]
          /\ ("event" \in DOMAIN jobs[i] => jobs'[i].event = jobs[i].event)
      BY <2>6 DEF Moved
    <3>3. jobs[i].handler \in {"admin", "create"} => jobs'[i].audit = jobs[i].audit
      <4>1. jobs[i].handler \in {"admin", "create"} => "audit" \in DOMAIN jobs[i]
        <5>1. "audit" \in FieldsOf["admin"] /\ "audit" \in FieldsOf["create"]
          BY DEF FieldsOf
        <5>2. FieldsOf[jobs[i].handler] \subseteq DOMAIN jobs[i]
          BY <2>3 DEF ServedBy
        <5> QED BY <5>1, <5>2
      <4> QED BY <4>1, <2>6 DEF Moved
    <3> QED BY <1>1, <2>1, <3>1, <3>2, <3>3 DEF Sourced
  <2> QED BY <2>4, <2>5, <2>6
<1>3. CASE ledger' = ledger
  BY <1>2, <1>3 DEF LedgerOK, LedgerOnce
<1>4. ASSUME NEW j \in Jobs, NEW e, NEW since, Appends(j, e, since)
      PROVE  LedgerOK' /\ ToSet(ledger) \subseteq ToSet(ledger)'
  <2>1. AppendEvent(e, since) /\ LedgerOnce
    BY <1>4 DEF Appends, LedgerOK
  <2>2. e.id \notin Ids(ledger)
    BY <1>4, AppendsOnce
  <2>3. CASE ~Keeps(e)
    <3>1. ledger' = ledger
      BY <2>1, <2>3, Appending
    <3> QED BY <1>3, <3>1
  <2>4. CASE Keeps(e)
    <3>1. ToSet(ledger)' = ToSet(ledger) \cup {e} /\ LedgerOnce'
      BY <2>1, <2>2, <2>4, Appending
    <3>2. Sourced(e)'
      <4>1. \/ /\ "event" \in DOMAIN jobs[j] /\ e = jobs[j].event
               /\ "event" \notin ToSet(jobs'[j].steps)
            \/ /\ jobs[j].handler \in {"admin", "create"} /\ e = jobs[j].audit
               /\ "audit" \notin ToSet(jobs'[j].steps)
        BY <1>4, AppendsOnce
      <4>2. jobs'[j] = Proceed(jobs[j]) /\ jobs[j] # NotStarted
        BY <1>4, AppendsOnce
      <4>3. DOMAIN jobs'[j] = DOMAIN jobs[j]
            /\ \A f \in DOMAIN jobs[j] \ {"steps"} : jobs'[j][f] = jobs[j][f]
        BY <4>2 DEF Proceed
      <4>4. jobs'[j].handler = jobs[j].handler
            /\ (jobs[j].handler \in {"admin", "create"} => jobs'[j].audit = jobs[j].audit)
        <5>1. ServedBy(j, jobs[j])
          BY <4>2 DEF JobsOK
        <5>2. "handler" \in DOMAIN jobs[j]
              /\ (jobs[j].handler \in {"admin", "create"} => "audit" \in DOMAIN jobs[j])
          <6>1. "audit" \in FieldsOf["admin"] /\ "audit" \in FieldsOf["create"]
            BY DEF FieldsOf
          <6>2. Common \cup FieldsOf[jobs[j].handler] \subseteq DOMAIN jobs[j]
            BY <5>1 DEF ServedBy
          <6> QED BY <6>1, <6>2 DEF Common
        <5> QED BY <4>3, <5>2
      <4>5. "event" \in DOMAIN jobs[j] => jobs'[j].event = jobs[j].event
        BY <4>3
      <4> QED BY <1>1, <4>1, <4>3, <4>4, <4>5 DEF Sourced
    <3> QED BY <1>2, <3>1, <3>2 DEF LedgerOK
  <2> QED BY <2>3, <2>4
<1>5. ASSUME NEW j \in Jobs, Request(j) PROVE ledger' = ledger
  BY <1>5, RequestStarts DEF ledgerVars
<1>6. ASSUME NEW j \in Jobs, Works(j) PROVE ledger' = ledger
  BY <1>6 DEF Works, ledgerVars
<1>7. CASE Idles \/ Crash
  BY <1>3, <1>7 DEF Idles, Crash
<1> QED BY <1>3, <1>4, <1>5, <1>6, <1>7, Steps

\* The ledger has as many ids as entries.
LEMMA IdsCounted ==
    ASSUME LedgerOnce
    PROVE  IsFiniteSet(Ids(ledger)) /\ Cardinality(Ids(ledger)) = Len(ledger)
<1>1. Len(ledger) \in Nat /\ DOMAIN ledger = 1..Len(ledger)
  BY DEF LedgerOnce
<1>2. PICK f : f = [k \in DOMAIN ledger |-> ledger[k].id]
  OBVIOUS
<1>3. f \in Bijection(DOMAIN ledger, Ids(ledger))
  BY <1>2 DEF Bijection, Injection, IsInjective, Surjection, Ids, LedgerOnce
<1>4. IsFiniteSet(1..Len(ledger)) /\ Cardinality(1..Len(ledger)) = Len(ledger)
  <2>1. PICK n \in Nat : n = Len(ledger)
    BY <1>1
  <2>2. IsFiniteSet(1..n) /\ Cardinality(1..n) = IF 1 > n THEN 0 ELSE n - 1 + 1
    BY FS_Interval
  <2>3. Cardinality(1..n) = n
    BY <2>2
  <2> QED BY <2>1, <2>2, <2>3
<1>5. ExistsBijection(DOMAIN ledger, Ids(ledger))
  BY <1>3 DEF ExistsBijection
<1> QED BY <1>1, <1>4, <1>5, FS_Bijection

\* The publisher takes rows of the outbox, each once (PublishOutboxEvents).
LEMMA Taking ==
    ASSUME LedgerOnce, OutboxOK
    PROVE  /\ Oldest(BatchSize) \in Seq(outbox)
           /\ \A k, l \in DOMAIN Oldest(BatchSize) :
                 Oldest(BatchSize)[k] = Oldest(BatchSize)[l] => k = l
<1>1. outbox \subseteq Ids(ledger) /\ IsFiniteSet(outbox)
  <2>1. outbox \in SUBSET Ids(ledger)
    BY DEF OutboxOK
  <2> QED BY <2>1, IdsCounted, FS_Subset
<1>2. ASSUME NEW id \in outbox
      PROVE  Position(id) \in Nat /\ ledger[Position(id)].id = id
  <2>1. \E k \in DOMAIN ledger : ledger[k].id = id
    BY <1>1 DEF Ids
  <2>2. Position(id) \in DOMAIN ledger /\ ledger[Position(id)].id = id
    BY <2>1 DEF Position
  <2>3. DOMAIN ledger \subseteq Nat
    BY DEF LedgerOnce
  <2> QED BY <2>2, <2>3
<1>3. PICK p : p = [id \in outbox |-> Position(id)]
  OBVIOUS
<1>4. p \in [outbox -> Nat] /\ \A x, y \in outbox : p[x] = p[y] => x = y
  BY <1>2, <1>3
<1>5. PICK r : r = [x \in outbox |-> Cardinality({y \in outbox : p[y] < p[x]})]
  OBVIOUS
<1>6. \A x \in outbox : r[x] = Cardinality(Older(x))
  <2> TAKE x \in outbox
  <2>1. Older(x) = {y \in outbox : p[y] < p[x]}
    BY <1>3 DEF Older
  <2> QED BY <1>5, <2>1
<1>7. PICK n : n = Cardinality(outbox)
  OBVIOUS
<1>8. /\ \A x \in outbox : r[x] \in 0..(n - 1)
      /\ \A x, y \in outbox : r[x] = r[y] => x = y
      /\ \A k \in 0..(n - 1) : \E x \in outbox : r[x] = k
  <2>1. Ranking(outbox, p, r)
    BY <1>5 DEF Ranking
  <2> QED BY <1>1, <1>4, <1>7, <2>1, Ranks
<1>9. PICK taken, m : taken = {id \in outbox : Cardinality(Older(id)) < BatchSize}
                      /\ m = Cardinality(taken)
  OBVIOUS
<1>10. m \in Nat /\ n \in Nat /\ m <= n
  <2>1. taken \in SUBSET outbox
    BY <1>9
  <2>2. IsFiniteSet(taken) /\ Cardinality(taken) <= Cardinality(outbox)
    BY <1>1, <2>1, FS_Subset
  <2> QED BY <1>1, <1>7, <1>9, <2>2, FS_CardinalityType
<1>11. PICK s : s = Oldest(BatchSize)
  OBVIOUS
<1>12. s = [k \in 1..m |-> CHOOSE id \in outbox : Cardinality(Older(id)) = k - 1]
  BY <1>9, <1>11 DEF Oldest
<1>13. ASSUME NEW k \in 1..m PROVE s[k] \in outbox /\ r[s[k]] = k - 1
  <2>1. k - 1 \in 0..(n - 1)
    BY <1>10
  <2>2. \E id \in outbox : Cardinality(Older(id)) = k - 1
    BY <1>6, <1>8, <2>1
  <2>3. s[k] \in outbox /\ Cardinality(Older(s[k])) = k - 1
    BY <1>12, <2>2
  <2> QED BY <1>6, <2>3
<1>14. DOMAIN s = 1..m /\ s \in [1..m -> outbox]
  BY <1>12, <1>13
<1>15. s \in Seq(outbox)
  BY <1>10, <1>14, SeqDef
<1>16. ASSUME NEW k \in 1..m, NEW l \in 1..m, s[k] = s[l] PROVE k = l
  <2>1. k - 1 = l - 1
    BY <1>13, <1>16
  <2> QED BY <1>10, <2>1
<1> QED BY <1>11, <1>14, <1>15, <1>16

\* Events are named after the requests of the deployment (EventOf, AuditEvent).
LEMMA EventsNamed ==
    ASSUME SettingOK, JobsOK
    PROVE  /\ \A j \in Jobs : <<j, "event">> \in EventIds /\ <<j, "audit">> \in EventIds
           /\ LedgerOK => Ids(ledger) \subseteq EventIds
<1>1. ASSUME NEW j \in Jobs PROVE <<j, "event">> \in EventIds /\ <<j, "audit">> \in EventIds
  <2>1. setting.requests \in 0..MaxRequests /\ MaxRequests \in Nat
    BY DeploymentAssumption DEF SettingOK
  <2>2. j \in 1..MaxRequests
    BY <2>1 DEF Jobs
  <2> QED BY <2>2, DeploymentAssumption
<1>2. ASSUME LedgerOK, NEW e \in ToSet(ledger) PROVE e.id \in EventIds
  <2>1. PICK j \in Jobs : \/ "event" \in DOMAIN jobs[j] /\ e = jobs[j].event
                          \/ jobs[j].handler \in {"admin", "create"} /\ e = jobs[j].audit
    BY <1>2 DEF LedgerOK, Sourced
  <2>2. jobs[j] # NotStarted
    BY <2>1 DEF NotStarted
  <2>3. e.id \in {<<j, "event">>, <<j, "audit">>}
    BY <2>1, <2>2 DEF JobsOK, ServedBy
  <2> QED BY <1>1, <2>3
<1> QED BY <1>1, <1>2, IdsOfEntries

\* An append puts the event into the outbox, the publisher takes the oldest rows
\* and hands them on one by one, and a crash loses what it had taken: a step of
\* EventFeed each (AppendEvent, PublishOutboxEvents, Start).
LEMMA OutboxKept ==
    ASSUME SettingOK, JobsOK, LedgerOK, OutboxOK, [Next]_vars
    PROVE  OutboxOK' /\ [Feed!Next]_(Feed!feed)
<1>1. store' = store /\ setting' = setting /\ LedgerOK' /\ JobsOK' /\ SettingOK'
  BY JobsStep, LedgerKept
<1>2. Ids(ledger) \subseteq EventIds /\ Ids(ledger)' \subseteq EventIds
  <2>1. Ids(ledger) \subseteq EventIds
    BY EventsNamed
  <2>2. Ids(ledger)' \subseteq EventIds
    <3>1. ToSet(ledger) \subseteq ToSet(ledger)'
      BY LedgerKept
    <3>2. ASSUME NEW e \in ToSet(ledger)' PROVE e.id \in EventIds
      <4>1. Sourced(e)'
        BY <1>1 DEF LedgerOK
      <4>2. PICK j \in Jobs' : \/ "event" \in DOMAIN jobs'[j] /\ e = jobs'[j].event
                               \/ jobs'[j].handler \in {"admin", "create"} /\ e = jobs'[j].audit
        BY <4>1 DEF Sourced
      <4>3. Jobs' = Jobs
        BY <1>1 DEF Jobs
      <4>4. jobs'[j] # NotStarted
        BY <4>2 DEF NotStarted
      <4>5. e.id \in {<<j, "event">>, <<j, "audit">>}
        BY <1>1, <4>2, <4>4 DEF JobsOK, ServedBy, NotStarted
      <4> QED BY <4>2, <4>3, <4>5, EventsNamed
    <3> QED BY <3>2, IdsOfEntries
  <2> QED BY <2>1, <2>2
<1>3. CASE UNCHANGED ledgerVars
  BY <1>3 DEF ledgerVars, OutboxOK, Ids, Feed!feed, Queued
<1>4. ASSUME NEW j \in Jobs, NEW e, NEW since, Appends(j, e, since)
      PROVE  OutboxOK' /\ [Feed!Next]_(Feed!feed)
  <2>1. AppendEvent(e, since) /\ UNCHANGED <<store, batch, published, lost>> /\ LedgerOnce
    BY <1>4 DEF Appends, LedgerOK
  <2>2. e.id \notin Ids(ledger)
    BY <1>4, AppendsOnce
  <2>3. CASE ~Keeps(e)
    <3>1. ledger' = ledger /\ outbox' = outbox
      BY <2>1, <2>3, Appending
    <3> QED BY <2>1, <3>1 DEF OutboxOK, Ids, Feed!feed, Queued
  <2>4. CASE Keeps(e)
    <3>1. Ids(ledger)' = Ids(ledger) \cup {e.id} /\ outbox' \in {outbox, outbox \cup {e.id}}
      <4>1. ToSet(ledger)' = ToSet(ledger) \cup {e} /\ outbox' \in {outbox, outbox \cup {e.id}}
        BY <2>1, <2>4, Appending
      <4> QED BY <4>1, IdsOfEntries
    <3>2. batch \in Seq(Ids(ledger)) /\ published \in Seq(Ids(ledger))
          /\ outbox \cup lost \subseteq Ids(ledger)
      BY DEF OutboxOK
    <3>3. batch \in Seq(Ids(ledger)') /\ published \in Seq(Ids(ledger)')
      BY <3>1, <3>2, SeqMonotonic
    <3>4. ToSet(batch) \subseteq Ids(ledger) /\ ToSet(published) \subseteq Ids(ledger)
      BY <3>2 DEF ToSet
    <3>5. OutboxOK'
      BY <2>1, <2>2, <3>1, <3>2, <3>3, <3>4 DEF OutboxOK
    <3>6. [Feed!Next]_(Feed!feed)
      <4>1. CASE store = "postgres"
        <5>1. Queued = Ids(ledger) /\ Queued' = Ids(ledger) \cup {e.id}
          BY <2>1, <3>1, <4>1 DEF Queued
        <5>2. Feed!Record(e.id)
          BY <2>1, <2>2, <5>1 DEF Feed!Record
        <5>3. e.id \in EventIds
          BY <1>2, <3>1
        <5> QED BY <5>2, <5>3 DEF Feed!Next
      <4>2. CASE store # "postgres"
        BY <2>1, <4>2 DEF Feed!feed, Queued
      <4> QED BY <4>1, <4>2
    <3> QED BY <3>5, <3>6
  <2> QED BY <2>3, <2>4
<1>5. ASSUME store = "postgres", lost' = lost \cup ToSet(batch), batch' = << >>,
             UNCHANGED <<store, ledger, outbox, published>>
      PROVE  OutboxOK' /\ [Feed!Next]_(Feed!feed)
  <2>1. batch \in Seq(Ids(ledger)) /\ ToSet(batch) \subseteq Ids(ledger)
    BY DEF OutboxOK, ToSet
  <2>2. ToSet(<< >>) = {} /\ << >> \in Seq(Ids(ledger)) /\ DOMAIN << >> = {}
    BY DEF ToSet
  <2>3. Ids(ledger)' = Ids(ledger) /\ Queued' = Queued /\ Queued = Ids(ledger)
    BY <1>5 DEF Ids, Queued
  <2>4. OutboxOK'
    BY <1>5, <2>1, <2>2, <2>3 DEF OutboxOK
  <2>5. Feed!Settled = ToSet(published) \cup lost
    BY DEF Feed!Settled, ToSet
  <2>6. Feed!Lose(ToSet(batch))
    BY <1>5, <2>1, <2>3, <2>5 DEF Feed!Lose, OutboxOK
  <2> QED BY <1>2, <2>1, <2>4, <2>6 DEF Feed!Next
<1>6. CASE Crash
  BY <1>5, <1>6 DEF Crash
<1>7. CASE PublishOutboxEvents
  <2>1. PICK s : s = Oldest(BatchSize)
    OBVIOUS
  <2>2. s \in Seq(outbox) /\ \A k, l \in DOMAIN s : s[k] = s[l] => k = l
    BY <2>1, Taking DEF LedgerOK
  <2>3. outbox \subseteq Ids(ledger) /\ ToSet(s) \subseteq outbox
    BY <2>2 DEF OutboxOK, ToSet
  <2>4. s \in Seq(Ids(ledger))
    BY <2>2, <2>3, SeqMonotonic
  <2>5. /\ store = "postgres" /\ batch = << >> /\ outbox' = outbox \ ToSet(s)
        /\ \/ batch' = s /\ lost' = lost
           \/ lost' = lost \cup ToSet(s) /\ batch' = batch
        /\ UNCHANGED <<store, ledger, published>>
    BY <1>7, <2>1 DEF PublishOutboxEvents
  <2>6. Ids(ledger)' = Ids(ledger) /\ Queued' = Queued /\ Queued = Ids(ledger)
        /\ ToSet(<< >>) = {}
    BY <2>5 DEF Ids, Queued, ToSet
  <2>7. CASE batch' = s /\ lost' = lost
    <3>1. OutboxOK'
      BY <2>2, <2>3, <2>4, <2>5, <2>6, <2>7 DEF OutboxOK
    <3> QED BY <2>5, <2>6, <2>7, <3>1 DEF Feed!feed
  <2>8. CASE lost' = lost \cup ToSet(s) /\ batch' = batch
    <3>1. OutboxOK'
      BY <2>2, <2>3, <2>4, <2>5, <2>6, <2>8 DEF OutboxOK
    <3>2. Feed!Settled = ToSet(published) \cup lost
      BY DEF Feed!Settled, ToSet
    <3>3. Feed!Lose(ToSet(s))
      BY <2>3, <2>5, <2>6, <2>8, <3>2 DEF Feed!Lose, OutboxOK
    <3> QED BY <1>2, <2>3, <3>1, <3>3 DEF Feed!Next
  <2> QED BY <2>5, <2>7, <2>8
<1>8. CASE OutboxPublisherStart
  <2>1. /\ batch # << >> /\ published' = Append(published, Head(batch)) /\ batch' = Tail(batch)
        /\ UNCHANGED <<store, ledger, outbox, lost>>
    BY <1>8 DEF OutboxPublisherStart
  <2>2. PICK S, s, t : S = Ids(ledger) /\ s = batch /\ t = published
    OBVIOUS
  <2>3. s \in Seq(S) /\ t \in Seq(S) /\ s # << >> /\ \A k, l \in DOMAIN s : s[k] = s[l] => k = l
    BY <2>1, <2>2 DEF OutboxOK
  <2>4. Head(s) = s[1] /\ s[1] \in S /\ Tail(s) \in Seq(S) /\ Append(t, s[1]) \in Seq(S)
    BY <2>3
  <2>5. /\ ToSet(s) = {s[1]} \cup ToSet(Tail(s)) /\ s[1] \notin ToSet(Tail(s))
        /\ \A k, l \in DOMAIN Tail(s) : Tail(s)[k] = Tail(s)[l] => k = l
    <3>1. Len(s) \in Nat /\ Len(s) >= 1 /\ DOMAIN s = 1..Len(s)
          /\ DOMAIN Tail(s) = 1..(Len(s) - 1)
          /\ \A k \in 1..(Len(s) - 1) : Tail(s)[k] = s[k + 1]
      BY <2>3
    <3>2. \A k \in 1..(Len(s) - 1) : k + 1 \in DOMAIN s /\ k + 1 # 1
      BY <3>1
    <3>3. \A k \in DOMAIN s : k = 1 \/ (k - 1 \in 1..(Len(s) - 1) /\ (k - 1) + 1 = k)
      BY <3>1
    <3>4. \A k \in DOMAIN s : s[k] \in {s[1]} \cup ToSet(Tail(s))
      BY <3>1, <3>3 DEF ToSet
    <3>5. 1 \in DOMAIN s /\ \A k \in DOMAIN Tail(s) : Tail(s)[k] \in ToSet(s)
      BY <3>1, <3>2 DEF ToSet
    <3>6. ToSet(s) = {s[1]} \cup ToSet(Tail(s))
      BY <3>4, <3>5 DEF ToSet
    <3>7. s[1] \notin ToSet(Tail(s))
      BY <2>3, <3>1, <3>2, <3>5 DEF ToSet
    <3>8. ASSUME NEW k \in DOMAIN Tail(s), NEW l \in DOMAIN Tail(s), Tail(s)[k] = Tail(s)[l]
          PROVE  k = l
      <4>1. k + 1 = l + 1
        BY <2>3, <3>1, <3>2, <3>8
      <4> QED BY <3>1, <4>1
    <3> QED BY <3>6, <3>7, <3>8
  <2>6. ToSet(Append(t, s[1])) = ToSet(t) \cup {s[1]}
    <3>1. PICK u : u = Append(t, s[1])
      OBVIOUS
    <3>2. Len(t) \in Nat /\ DOMAIN t = 1..Len(t) /\ DOMAIN u = 1..(Len(t) + 1)
          /\ (\A k \in 1..Len(t) : u[k] = t[k]) /\ u[Len(t) + 1] = s[1]
      BY <2>3, <2>4, <3>1
    <3>3. \A k \in DOMAIN u : k \in DOMAIN t \/ k = Len(t) + 1
      BY <3>2
    <3>4. DOMAIN t \subseteq DOMAIN u /\ Len(t) + 1 \in DOMAIN u
      BY <3>2
    <3> QED BY <3>1, <3>2, <3>3, <3>4 DEF ToSet
  <2>7. Ids(ledger)' = Ids(ledger) /\ Queued' = Queued
    BY <2>1 DEF Ids, Queued
  <2>8. store = "postgres"
    BY <2>1 DEF OutboxOK
  <2>9. OutboxOK'
    BY <2>1, <2>2, <2>4, <2>5, <2>6, <2>7, <2>8 DEF OutboxOK
  <2>10. Feed!Settled = ToSet(published) \cup lost
    BY DEF Feed!Settled, ToSet
  <2>11. s[1] \in Queued \ Feed!Settled
    BY <2>2, <2>4, <2>5, <2>8, <2>10 DEF Queued, OutboxOK
  <2>12. Feed!Hand(s[1])
    BY <2>1, <2>2, <2>4, <2>7, <2>11 DEF Feed!Hand
  <2> QED BY <1>2, <2>2, <2>4, <2>9, <2>12 DEF Feed!Next
<1>9. ASSUME NEW j \in Jobs, Request(j) PROVE UNCHANGED ledgerVars
  BY <1>9, RequestStarts
<1>10. ASSUME NEW j \in Jobs, Works(j) PROVE UNCHANGED ledgerVars
  BY <1>10 DEF Works
<1>11. CASE Idles /\ UNCHANGED <<outbox, batch, published, lost>>
  BY <1>11 DEF Idles, OutboxOK, Ids, Feed!feed, Queued
<1> QED BY <1>3, <1>4, <1>6, <1>7, <1>8, <1>9, <1>10, <1>11, Steps DEF Idles
-----------------------------------------------------------------------------
(* Audits.                                                                 *)

\* An administrator's handler that is past its audit, or has none, has it in the
\* ledger exactly when its route is audited.
AuditOK(k) ==
    /\ "audit" \in ToSet(k.steps) => k.route.audited
    /\ "audit" \notin ToSet(k.steps) /\ ~k.cut =>
           (k.audit \in ToSet(ledger) <=> k.route.audited)

AuditsOK ==
    \A j \in Jobs : jobs[j].handler \in {"admin", "create"} => AuditOK(jobs[j])

\* An audit is about no mission, which every store takes (AppendEvent), and the
\* calls of an administrator's handler cannot fail (RecordAdminAction).
LEMMA AuditsKept ==
    ASSUME SettingOK, JobsOK, LedgerOK, AuditsOK, [Next]_vars
    PROVE  AuditsOK'
<1>1. Jobs' = Jobs /\ JobsOK' /\ SettingOK' /\ LedgerOK'
  BY JobsStep, LedgerKept DEF Jobs
<1>2. ASSUME NEW i \in Jobs, jobs'[i] = jobs[i], jobs[i].handler \in {"admin", "create"},
             jobs[i].audit \in ToSet(ledger)' <=> jobs[i].audit \in ToSet(ledger)
      PROVE  AuditOK(jobs[i])'
  <2>1. AuditOK(jobs[i])
    BY <1>2 DEF AuditsOK
  <2> QED BY <1>2, <2>1 DEF AuditOK
<1>3. CASE UNCHANGED <<setting, jobs, ledger>>
  BY <1>3 DEF AuditsOK, AuditOK, Jobs
<1>4. ASSUME NEW i \in Jobs, jobs[i].handler \in {"admin", "create"}
      PROVE  ServedBy(i, jobs[i]) /\ jobs[i].audit.id = <<i, "audit">>
             /\ {"audit", "route", "handler", "steps", "cut"} \subseteq DOMAIN jobs[i]
  <2>1. ServedBy(i, jobs[i])
    BY <1>4 DEF JobsOK, NotStarted
  <2>2. {"audit", "route"} \subseteq FieldsOf["admin"] \cap FieldsOf["create"]
    BY DEF FieldsOf
  <2>3. Common \cup FieldsOf[jobs[i].handler] \subseteq DOMAIN jobs[i]
    BY <2>1 DEF ServedBy
  <2> QED BY <1>4, <2>1, <2>2, <2>3 DEF ServedBy, Common
<1>5. ASSUME NEW j \in Jobs, Request(j) PROVE AuditsOK'
  <2>1. jobs[j] = NotStarted /\ ledger' = ledger
    BY <1>5, RequestStarts DEF ledgerVars
  <2>2. PICK k : jobs' = [jobs EXCEPT ![j] = k] /\ Starting(j, k)
    BY <1>5, RequestStarts
  <2>3. jobs'[j] = k /\ \A i \in Jobs \ {j} : jobs'[i] = jobs[i]
    BY <2>2 DEF JobsOK
  <2>4. ASSUME k.handler \in {"admin", "create"} PROVE AuditOK(k)'
    <3>1. k.audit.id = <<j, "audit">> /\ ("audit" \in ToSet(k.steps) <=> k.route.audited)
      BY <2>2, <2>4 DEF Starting, ServedBy
    <3>2. <<j, "audit">> \notin Ids(ledger)
      BY <2>1, Unrecorded
    <3>3. k.audit \notin ToSet(ledger)
      BY <3>1, <3>2, IdsOfEntries
    <3> QED BY <2>1, <3>1, <3>3 DEF AuditOK
  <2> QED BY <1>1, <1>2, <2>1, <2>3, <2>4 DEF AuditsOK
<1>6. ASSUME NEW j \in Jobs, Works(j) PROVE AuditsOK'
  <2>1. jobs[j] # NotStarted /\ jobs[j].steps # << >> /\ ServedBy(j, jobs[j])
        /\ ledger' = ledger
    BY <1>6, Continuing DEF Works, ledgerVars
  <2>2. PICK m : jobs' = [jobs EXCEPT ![j] = m] /\ Moved(jobs[j], m)
    BY <1>6, Continuing DEF Works
  <2>3. jobs'[j] = m /\ \A i \in Jobs \ {j} : jobs'[i] = jobs[i]
    BY <2>2 DEF JobsOK
  <2>4. jobs[j].handler \notin {"admin", "create"}
    <3>1. Head(jobs[j].steps) \in ToSet(jobs[j].steps)
      <4>1. InOrder(jobs[j].steps)
        BY <2>1 DEF ServedBy
      <4>2. ToSet(jobs[j].steps) = {Head(jobs[j].steps)} \cup ToSet(Tail(jobs[j].steps))
        BY <2>1, <4>1, Proceeding
      <4> QED BY <4>2
    <3>2. CallsOf["admin"] \cup CallsOf["create"] \subseteq {"event", "audit"}
      BY DEF CallsOf
    <3>3. Head(jobs[j].steps) \in CallsOf[jobs[j].handler]
      BY <2>1, <3>1 DEF ServedBy
    <3>4. Head(jobs[j].steps) \notin {"event", "audit"}
      BY <1>6 DEF Works
    <3> QED BY <3>2, <3>3, <3>4
  <2>5. m.handler = jobs[j].handler
    BY <2>1, <2>2, MovedIsServed
  <2> QED BY <1>1, <1>2, <2>1, <2>3, <2>4, <2>5 DEF AuditsOK
<1>7. ASSUME NEW j \in Jobs, NEW e, NEW since, Appends(j, e, since) PROVE AuditsOK'
  <2>1. /\ e.id \notin Ids(ledger) /\ e.id \in {<<j, "event">>, <<j, "audit">>}
        /\ jobs'[j] = Proceed(jobs[j]) /\ \A i \in Jobs \ {j} : jobs'[i] = jobs[i]
    BY <1>7, AppendsOnce
  <2>2. /\ ~Keeps(e) => ToSet(ledger)' = ToSet(ledger)
        /\ Keeps(e) => ToSet(ledger)' = ToSet(ledger) \cup {e}
    <3>1. AppendEvent(e, since) /\ LedgerOnce
      BY <1>7 DEF Appends, LedgerOK
    <3>2. /\ ~Keeps(e) => ledger' = ledger
          /\ Keeps(e) => ToSet(ledger)' = ToSet(ledger) \cup {e}
      BY <3>1, Appending
    <3> QED BY <3>2 DEF ToSet
  <2>3. ASSUME NEW i \in Jobs \ {j}, jobs'[i].handler \in {"admin", "create"}
        PROVE  AuditOK(jobs[i])'
    <3>1. jobs[i].audit # e
      BY <1>4, <2>1, <2>3
    <3> QED BY <1>2, <2>1, <2>2, <2>3, <3>1
  <2>4. ASSUME jobs'[j].handler \in {"admin", "create"} PROVE AuditOK(jobs[j])'
    <3>1. PICK k, m : k = jobs[j] /\ m = jobs'[j]
      OBVIOUS
    <3>2. k.handler \in {"admin", "create"} /\ DOMAIN m = DOMAIN k
          /\ \A f \in DOMAIN k \ {"steps"} : m[f] = k[f]
      <4>1. DOMAIN m = DOMAIN k /\ \A f \in DOMAIN k \ {"steps"} : m[f] = k[f]
        BY <2>1, <3>1 DEF Proceed
      <4>2. jobs[j] # NotStarted
        BY <1>7, AppendsOnce
      <4>3. "handler" \in DOMAIN k
        BY <3>1, <4>2 DEF JobsOK, ServedBy, Common
      <4> QED BY <2>4, <3>1, <4>1, <4>3
    <3>3. m.audit = k.audit /\ m.route = k.route /\ m.cut = k.cut
      BY <1>4, <3>1, <3>2
    <3>4. AuditOK(k) /\ k.audit.id = <<j, "audit">>
      BY <1>4, <3>1, <3>2 DEF AuditsOK
    <3>5. CASE e = k.event /\ e.id = <<j, "event">>
               /\ ToSet(k.steps) = {"event"} \cup ToSet(m.steps)
      <4>1. k.audit # e
        BY <3>4, <3>5
      <4>2. k.audit \in ToSet(ledger)' <=> k.audit \in ToSet(ledger)
        BY <2>2, <4>1
      <4> QED BY <3>1, <3>3, <3>4, <3>5, <4>2 DEF AuditOK
    <3>6. CASE e = k.audit /\ e.mission = "" /\ "audit" \in ToSet(k.steps)
               /\ "audit" \notin ToSet(m.steps)
      <4>1. Keeps(e)
        BY <3>6 DEF Keeps
      <4>2. k.audit \in ToSet(ledger)'
        BY <2>2, <3>6, <4>1
      <4> QED BY <3>1, <3>3, <3>4, <3>6, <4>2 DEF AuditOK
    <3> QED BY <1>7, <3>1, <3>5, <3>6, AppendsOnce
  <2> QED BY <1>1, <2>3, <2>4 DEF AuditsOK
<1>8. CASE Crash
  <2>1. jobs' = [i \in Jobs |-> IF jobs[i].steps = << >> THEN jobs[i]
                                ELSE [Finish(jobs[i]) EXCEPT !.cut = TRUE]]
        /\ ledger' = ledger
    BY <1>8 DEF Crash
  <2>2. ASSUME NEW i \in Jobs, jobs'[i].handler \in {"admin", "create"} PROVE AuditOK(jobs[i])'
    <3>1. CASE jobs[i].steps = << >>
      <4>1. jobs'[i] = jobs[i]
        BY <2>1, <3>1
      <4> QED BY <1>2, <2>1, <2>2, <4>1
    <3>2. CASE jobs[i].steps # << >>
      <4>1. ServedBy(i, jobs[i])
        BY <3>2 DEF JobsOK, NotStarted
      <4>2. PICK k, m : k = jobs[i] /\ m = jobs'[i]
        OBVIOUS
      <4>3. {"steps", "cut"} \subseteq DOMAIN k
        BY <4>1, <4>2 DEF ServedBy, Common
      <4>4. m = [Finish(k) EXCEPT !.cut = TRUE]
        BY <2>1, <3>2, <4>2
      <4>5. m.cut /\ m.steps = << >>
        BY <4>3, <4>4 DEF Finish
      <4>6. ToSet(m.steps) = {}
        BY <4>5, StepsInOrder
      <4> QED BY <4>2, <4>5, <4>6 DEF AuditOK
    <3> QED BY <3>1, <3>2
  <2> QED BY <1>1, <2>2 DEF AuditsOK
<1>9. CASE Idles
  BY <1>3, <1>9 DEF Idles
<1> QED BY <1>3, <1>5, <1>6, <1>7, <1>8, <1>9, Steps
-----------------------------------------------------------------------------
(* The order of the lists.                                                 *)

\* Keys of one length are strictly and totally ordered by their first difference.
LEMMA PrecedesOrders ==
    ASSUME NEW n \in Nat, NEW s \in Seq(Int), NEW t \in Seq(Int), NEW u \in Seq(Int),
           Len(s) = n, Len(t) = n, Len(u) = n
    PROVE  /\ ~Precedes(s, s)
           /\ s # t => Precedes(s, t) \/ Precedes(t, s)
           /\ Precedes(s, t) /\ Precedes(t, u) => Precedes(s, u)
<1>1. /\ DOMAIN s = 1..n /\ DOMAIN t = 1..n /\ DOMAIN u = 1..n
      /\ \A k \in 1..n : s[k] \in Int /\ t[k] \in Int /\ u[k] \in Int
  OBVIOUS
<1>2. ~Precedes(s, s)
  BY <1>1 DEF Precedes
<1>3. ASSUME s # t PROVE Precedes(s, t) \/ Precedes(t, s)
  <2>1. PICK D : D = {k \in 1..n : s[k] # t[k]}
    OBVIOUS
  <2>2. D \in SUBSET Nat
    BY <2>1
  <2>3. D # {}
    <3>1. CASE \A k \in 1..n : s[k] = t[k]
      <4>1. s = [k \in 1..n |-> s[k]] /\ t = [k \in 1..n |-> t[k]]
        BY <1>1
      <4> QED BY <1>3, <3>1, <4>1
    <3> QED BY <2>1, <3>1
  <2>4. PICK k \in D : \A l \in D : k <= l
    BY <2>2, <2>3, LeastNumber
  <2>5. k \in 1..n /\ s[k] # t[k]
    BY <2>1
  <2>6. \A l \in 1..(k - 1) : s[l] = t[l]
    <3> TAKE l \in 1..(k - 1)
    <3>1. l \in 1..n /\ ~(k <= l)
      BY <2>5
    <3> QED BY <2>1, <2>4, <3>1
  <2>7. s[k] < t[k] \/ t[k] < s[k]
    BY <1>1, <2>5
  <2> QED BY <1>1, <2>5, <2>6, <2>7 DEF Precedes
<1>4. ASSUME Precedes(s, t), Precedes(t, u) PROVE Precedes(s, u)
  <2>1. PICK k \in 1..n : s[k] < t[k] /\ \A l \in 1..(k - 1) : s[l] = t[l]
    BY <1>1, <1>4 DEF Precedes
  <2>2. PICK m \in 1..n : t[m] < u[m] /\ \A l \in 1..(m - 1) : t[l] = u[l]
    BY <1>1, <1>4 DEF Precedes
  <2>3. CASE k < m
    <3>1. k \in 1..(m - 1) /\ \A l \in 1..(k - 1) : l \in 1..(m - 1)
      BY <2>3
    <3>2. s[k] < u[k] /\ \A l \in 1..(k - 1) : s[l] = u[l]
      BY <2>1, <2>2, <3>1
    <3> QED BY <1>1, <3>2 DEF Precedes
  <2>4. CASE m < k
    <3>1. m \in 1..(k - 1) /\ \A l \in 1..(m - 1) : l \in 1..(k - 1)
      BY <2>4
    <3>2. s[m] < u[m] /\ \A l \in 1..(m - 1) : s[l] = u[l]
      BY <2>1, <2>2, <3>1
    <3> QED BY <1>1, <3>2 DEF Precedes
  <2>5. CASE k = m
    <3>1. s[k] < u[k] /\ \A l \in 1..(k - 1) : s[l] = u[l]
      BY <1>1, <2>1, <2>2, <2>5
    <3> QED BY <1>1, <3>1 DEF Precedes
  <2> QED BY <2>3, <2>4, <2>5
<1> QED BY <1>2, <1>3, <1>4

\* The rows that are found can be listed: keys tell them apart and are comparable.
Listable(provider, s, found) ==
    /\ IsFiniteSet(found)
    /\ \E n \in Nat : \A b \in found :
          SortKey(provider, s, b) \in Seq(Int) /\ Len(SortKey(provider, s, b)) = n
    /\ \A b, c \in found : SortKey(provider, s, b) = SortKey(provider, s, c) => b = c

\* The first of them is one of them (the List of every store).
LEMMA FirstIsListed ==
    ASSUME NEW provider, NEW s, NEW found, found # {}, Listable(provider, s, found)
    PROVE  FirstListed(provider, s, found) \in found
<1> DEFINE Key(b) == SortKey(provider, s, b)
<1>1. PICK n \in Nat : \A b \in found : Key(b) \in Seq(Int) /\ Len(Key(b)) = n
  BY DEF Listable
<1>2. \A b, c \in found : Key(b) = Key(c) => b = c
  BY DEF Listable
<1>3. PICK R : R = {p \in found \X found : Precedes(Key(p[1]), Key(p[2]))}
  OBVIOUS
<1> HIDE DEF Key
<1>4. \A b, c \in found : <<b, c>> \in R <=> Precedes(Key(b), Key(c))
  BY <1>3
<1>5. \A b \in found : <<b, b>> \notin R
  <2> TAKE b \in found
  <2>1. ~Precedes(Key(b), Key(b))
    BY <1>1, PrecedesOrders
  <2> QED BY <1>4, <2>1
<1>6. \A b, c \in found : b # c => <<b, c>> \in R \/ <<c, b>> \in R
  <2> TAKE b \in found, c \in found
  <2>1. Key(b) # Key(c) => Precedes(Key(b), Key(c)) \/ Precedes(Key(c), Key(b))
    BY <1>1, PrecedesOrders
  <2> QED BY <1>2, <1>4, <2>1
<1>7. \A b, c, d \in found : <<b, c>> \in R /\ <<c, d>> \in R => <<b, d>> \in R
  <2> TAKE b \in found, c \in found, d \in found
  <2>1. Precedes(Key(b), Key(c)) /\ Precedes(Key(c), Key(d)) => Precedes(Key(b), Key(d))
    BY <1>1, PrecedesOrders
  <2> QED BY <1>4, <2>1
<1>8. IsFiniteSet(found)
  BY DEF Listable
<1>9. PICK b \in found : \A c \in found \ {b} : <<b, c>> \in R
  BY <1>5, <1>6, <1>7, <1>8, FirstOfFinite
<1>10. \E x \in found : \A c \in found \ {x} : Precedes(Key(x), Key(c))
  BY <1>4, <1>9
<1> QED BY <1>10 DEF FirstListed, Key
-----------------------------------------------------------------------------
(* Bindings.                                                               *)

KnownProviders ==
    {"github", "okta", "entra", "slack", "atlassian", "salesforce", "servicenow"}

\* The fields of every binding, and some that a provider adds.
BaseFields == {"id", "created", "status", "mission", "tenant", "lastSubject", "lastStatus"}

RowFields ==
    [github |-> {"repository", "lastDelivery", "lastSHA", "lastCheck"},
     okta |-> {"issuer", "client", "groups", "mode"},
     entra |-> {"issuer", "client", "groups", "mode"},
     slack |-> {"workspace", "roles", "mode"},
     atlassian |-> {"site", "cloud", "groups", "mode"},
     salesforce |-> {"site", "org", "sets", "mode"},
     servicenow |-> {"state", "groups", "mode"}]

\* What a request says of the binding it creates.
IsBinding(provider, b, q, id, now) ==
    /\ BaseFields \cup RowFields[provider] \subseteq DOMAIN b
    /\ b.id = id /\ b.created = now /\ b.status = "active" /\ b.mission = q.mission
    /\ b.tenant = firstString(<<q.tenant, "default">>) /\ b.lastStatus = ""
    /\ provider = "github" => b.lastDelivery = 0 /\ b.lastCheck = ""
    /\ provider # "github" => b.mode \in Modes

\* b has the fields that all bindings have, and g's.
Extended(b, q, id, now, g) ==
    /\ DOMAIN b = BaseFields \cup DOMAIN g
    /\ b.id = id /\ b.created = now /\ b.status = "active" /\ b.mission = q.mission
    /\ b.tenant = firstString(<<q.tenant, "default">>) /\ b.lastStatus = ""
    /\ \A f \in DOMAIN g \ BaseFields : b[f] = g[f]

\* What every binding shares does not depend on the provider (CreateAppBinding and
\* its like).
LEMMA BoundFields ==
    ASSUME NEW q, NEW id, NEW now, NEW g
    PROVE  Extended(Bound(q, id, now, g), q, id, now, g)
BY DEF Bound, Over, Extended, BaseFields

\* Every provider's bindings have these fields (CreateBinding and its like).
LEMMA NewBindingFields ==
    ASSUME NEW provider \in KnownProviders, NEW q, NEW id, NEW now,
           NewBinding(provider, q, id, now) # Refused
    PROVE  IsBinding(provider, NewBinding(provider, q, id, now), q, id, now)
<1>1. ASSUME NEW g, NEW b, b = Bound(q, id, now, g), RowFields[provider] \subseteq DOMAIN g,
             DOMAIN g \cap BaseFields = {},
             provider = "github" => g.lastDelivery = 0 /\ g.lastCheck = ""
                                    /\ {"lastDelivery", "lastCheck"} \subseteq DOMAIN g,
             provider # "github" => g.mode \in Modes /\ "mode" \in DOMAIN g
      PROVE  IsBinding(provider, b, q, id, now)
  <2>1. Extended(b, q, id, now, g)
    BY <1>1, BoundFields
  <2>2. \A f \in DOMAIN g : b[f] = g[f]
    BY <1>1, <2>1 DEF Extended
  <2>3. provider = "github" => b.lastDelivery = 0 /\ b.lastCheck = ""
    BY <1>1, <2>2
  <2>4. provider # "github" => b.mode \in Modes
    BY <1>1, <2>2
  <2>5. BaseFields \cup RowFields[provider] \subseteq DOMAIN b
    BY <1>1, <2>1 DEF Extended
  <2> QED BY <2>1, <2>3, <2>4, <2>5 DEF Extended, IsBinding
<1> DEFINE new == NewBinding(provider, q, id, now)
<1>2. CASE provider = "github"
  <2>1. PICK g : g = [repository |-> NormalizeRepository(q.owner, q.name, q.repository),
                      lastDelivery |-> 0, lastSHA |-> "", lastCheck |-> ""]
    OBVIOUS
  <2>2. new = Bound(q, id, now, g)
    BY <1>2, <2>1 DEF NewBinding, CreateRepositoryBinding
  <2>3. DOMAIN g = RowFields[provider] /\ g.lastDelivery = 0 /\ g.lastCheck = ""
        /\ DOMAIN g = {"repository", "lastDelivery", "lastSHA", "lastCheck"}
    BY <1>2, <2>1 DEF RowFields
  <2>4. DOMAIN g \cap BaseFields = {} /\ {"lastDelivery", "lastCheck"} \subseteq DOMAIN g
    BY <2>3 DEF BaseFields
  <2> QED BY <1>1, <1>2, <2>2, <2>3, <2>4
<1>3. CASE provider = "okta"
  <2>1. PICK g : g = [issuer |-> NormalizeIssuer(q.issuer), client |-> q.client,
             groups |-> CleanStringList(q.groups), admins |-> CleanStringList(q.admins),
             subjects |-> CleanStringList(q.subjects), mode |-> MatchMode(q),
             groupClaim |-> firstString(<<q.groupClaim, "groups">>),
             subjectClaim |-> firstString(<<q.subjectClaim, "sub">>),
             scopeClaim |-> firstString(<<q.scopeClaim, "scp">>)]
    OBVIOUS
  <2>2. new = Bound(q, id, now, g) /\ MatchMode(q) \in Modes
    BY <1>3, <2>1 DEF NewBinding, OktaAppBinding
  <2>3. DOMAIN g = {"issuer", "client", "groups", "admins", "subjects", "mode", "groupClaim",
                    "subjectClaim", "scopeClaim"} /\ g.mode = MatchMode(q)
    BY <2>1
  <2>4. RowFields[provider] \subseteq DOMAIN g /\ DOMAIN g \cap BaseFields = {}
        /\ "mode" \in DOMAIN g
    BY <1>3, <2>3 DEF BaseFields, RowFields
  <2> QED BY <1>1, <1>3, <2>2, <2>3, <2>4
<1>4. CASE provider = "entra"
  <2>1. PICK g : g = [issuer |-> NormalizeIssuer(q.issuer), client |-> q.client,
             groups |-> CleanStringList(q.groups), admins |-> CleanStringList(q.admins),
             subjects |-> CleanStringList(q.subjects), mode |-> MatchMode(q),
             groupClaim |-> firstString(<<q.groupClaim, "groups">>),
             subjectClaim |-> firstString(<<q.subjectClaim, "sub">>),
             rolesClaim |-> firstString(<<q.rolesClaim, "roles">>)]
    OBVIOUS
  <2>2. new = Bound(q, id, now, g) /\ MatchMode(q) \in Modes
    BY <1>4, <2>1 DEF NewBinding, EntraAppRegistration
  <2>3. DOMAIN g = {"issuer", "client", "groups", "admins", "subjects", "mode", "groupClaim",
                    "subjectClaim", "rolesClaim"} /\ g.mode = MatchMode(q)
    BY <2>1
  <2>4. RowFields[provider] \subseteq DOMAIN g /\ DOMAIN g \cap BaseFields = {}
        /\ "mode" \in DOMAIN g
    BY <1>4, <2>3 DEF BaseFields, RowFields
  <2> QED BY <1>1, <1>4, <2>2, <2>3, <2>4
<1>5. CASE provider = "slack"
  <2>1. PICK g : g = [workspace |-> q.workspace, roles |-> CleanStringList(q.roles),
             admins |-> CleanStringList(q.admins), users |-> CleanStringList(q.users),
             channels |-> CleanStringList(q.channels), blocked |-> CleanStringList(q.blocked),
             actions |-> CleanStringList(q.actions), mode |-> MatchMode(q),
             roleClaim |-> firstString(<<q.roleClaim, "roles">>)]
    OBVIOUS
  <2>2. new = Bound(q, id, now, g) /\ MatchMode(q) \in Modes
    BY <1>5, <2>1 DEF NewBinding, SlackWorkspaceBinding
  <2>3. DOMAIN g = {"workspace", "roles", "admins", "users", "channels", "blocked", "actions",
                    "mode", "roleClaim"} /\ g.mode = MatchMode(q)
    BY <2>1
  <2>4. RowFields[provider] \subseteq DOMAIN g /\ DOMAIN g \cap BaseFields = {}
        /\ "mode" \in DOMAIN g
    BY <1>5, <2>3 DEF BaseFields, RowFields
  <2> QED BY <1>1, <1>5, <2>2, <2>3, <2>4
<1>6. CASE provider = "atlassian"
  <2>1. PICK g : g = [site |-> NormalizeSiteURL(q.site), cloud |-> q.cloud,
             projects |-> CleanStringList(q.projects), spaces |-> CleanStringList(q.spaces),
             jiraActions |-> CleanStringList(q.jiraActions),
             pageActions |-> CleanStringList(q.pageActions),
             groups |-> CleanStringList(q.groups), admins |-> CleanStringList(q.admins),
             subjects |-> CleanStringList(q.subjects), mode |-> MatchMode(q),
             groupClaim |-> firstString(<<q.groupClaim, "groups">>),
             subjectClaim |-> firstString(<<q.subjectClaim, "sub">>),
             emailClaim |-> firstString(<<q.emailClaim, "email">>)]
    OBVIOUS
  <2>2. new = Bound(q, id, now, g) /\ MatchMode(q) \in Modes
    BY <1>6, <2>1 DEF NewBinding, AtlassianSiteBinding
  <2>3. DOMAIN g = {"site", "cloud", "projects", "spaces", "jiraActions", "pageActions",
                    "groups", "admins", "subjects", "mode", "groupClaim", "subjectClaim",
                    "emailClaim"} /\ g.mode = MatchMode(q)
    BY <2>1
  <2>4. RowFields[provider] \subseteq DOMAIN g /\ DOMAIN g \cap BaseFields = {}
        /\ "mode" \in DOMAIN g
    BY <1>6, <2>3 DEF BaseFields, RowFields
  <2> QED BY <1>1, <1>6, <2>2, <2>3, <2>4
<1>7. CASE provider = "salesforce"
  <2>1. PICK g : g = [site |-> NormalizeSiteURL(q.site), org |-> q.org,
             objects |-> CleanStringList(q.objects),
             recordTypeIDs |-> CleanStringList(q.recordTypeIDs),
             recordTypeNames |-> CleanStringList(q.recordTypeNames),
             actions |-> CleanStringList(q.actions), profiles |-> CleanStringList(q.profiles),
             sets |-> CleanStringList(q.sets), subjects |-> CleanStringList(q.subjects),
             adminProfiles |-> CleanStringList(q.adminProfiles),
             adminSets |-> CleanStringList(q.adminSets), mode |-> MatchMode(q),
             subjectClaim |-> firstString(<<q.subjectClaim, "sub">>),
             usernameClaim |-> firstString(<<q.usernameClaim, "username">>),
             emailClaim |-> firstString(<<q.emailClaim, "email">>),
             profileClaim |-> firstString(<<q.profileClaim, "profile">>),
             setsClaim |-> firstString(<<q.setsClaim, "permission_sets">>)]
    OBVIOUS
  <2>2. new = Bound(q, id, now, g) /\ MatchMode(q) \in Modes
    BY <1>7, <2>1 DEF NewBinding, SalesforceOrgBinding
  <2>3. DOMAIN g = {"site", "org", "objects", "recordTypeIDs", "recordTypeNames", "actions",
                    "profiles", "sets", "subjects", "adminProfiles", "adminSets", "mode",
                    "subjectClaim", "usernameClaim", "emailClaim", "profileClaim", "setsClaim"}
        /\ g.mode = MatchMode(q)
    BY <2>1
  <2>4. RowFields[provider] \subseteq DOMAIN g /\ DOMAIN g \cap BaseFields = {}
        /\ "mode" \in DOMAIN g
    BY <1>7, <2>3 DEF BaseFields, RowFields
  <2> QED BY <1>1, <1>7, <2>2, <2>3, <2>4
<1>8. CASE provider = "servicenow"
  <2>1. PICK g : g = [instance |-> q.instance, ticket |-> q.ticket,
             state |-> firstString(<<q.state, "new">>),
             groups |-> CleanStringList(q.groups), admins |-> CleanStringList(q.admins),
             subjects |-> CleanStringList(q.subjects), mode |-> MatchMode(q),
             groupClaim |-> firstString(<<q.groupClaim, "groups">>),
             subjectClaim |-> firstString(<<q.subjectClaim, "sub">>)]
    OBVIOUS
  <2>2. new = Bound(q, id, now, g) /\ MatchMode(q) \in Modes
    BY <1>8, <2>1 DEF NewBinding, TicketBinding
  <2>3. DOMAIN g = {"instance", "ticket", "state", "groups", "admins", "subjects", "mode",
                    "groupClaim", "subjectClaim"} /\ g.mode = MatchMode(q)
    BY <2>1
  <2>4. RowFields[provider] \subseteq DOMAIN g /\ DOMAIN g \cap BaseFields = {}
        /\ "mode" \in DOMAIN g
    BY <1>8, <2>3 DEF BaseFields, RowFields
  <2> QED BY <1>1, <1>8, <2>2, <2>3, <2>4
<1> QED BY <1>2, <1>3, <1>4, <1>5, <1>6, <1>7, <1>8 DEF KnownProviders

\* Fields of a row that its handlers change.
Volatile == {"lastSubject", "lastStatus", "lastDelivery", "lastSHA", "lastCheck", "state"}

Same(b, c) == DOMAIN b = DOMAIN c /\ \A f \in DOMAIN c \ Volatile : b[f] = c[f]

\* b is a binding this deployment can be asked for, whatever was noted on it since.
Made(b) == \E c \in Creatable(setting) : Same(b, c)

\* The length of the keys that rows are sorted by.
KeyLength(provider, s) ==
    CASE provider \in {"github", "slack"} -> IF s = "memory" THEN 3 ELSE 4
      [] provider = "servicenow"          -> 1
      [] OTHER                            -> IF s = "memory" THEN 5 ELSE 6

\* Two sequences after each other, element by element.
LEMMA Joined ==
    /\ \A u, v, w, x, y : <<u, v, w>> \o <<x, y>> = <<u, v, w, x, y>>
    /\ \A u, v, w, x, y, z : <<u, v, w>> \o <<x, y, z>> = <<u, v, w, x, y, z>>
<1>1. ASSUME NEW u, NEW v, NEW w, NEW x, NEW y
      PROVE  <<u, v, w>> \o <<x, y>> = <<u, v, w, x, y>>
  <2>1. PICK S, s, t : S = {u, v, w, x, y} /\ s = <<u, v, w>> /\ t = <<x, y>>
    OBVIOUS
  <2>2. s \in Seq(S) /\ t \in Seq(S) /\ Len(s) = 3 /\ Len(t) = 2
    BY <2>1
  <2>3. /\ s \o t \in Seq(S) /\ Len(s \o t) = Len(s) + Len(t)
        /\ \A n \in 1..(Len(s) + Len(t)) :
              (s \o t)[n] = IF n <= Len(s) THEN s[n] ELSE t[n - Len(s)]
    BY <2>2, ConcatProperties
  <2>4. PICK r : r = s \o t
    OBVIOUS
  <2>5. r \in Seq(S) /\ Len(r) = 5 /\ r[1] = s[1] /\ r[2] = s[2] /\ r[3] = s[3]
        /\ r[4] = t[1] /\ r[5] = t[2]
    BY <2>2, <2>3, <2>4
  <2>6. r = <<u, v, w, x, y>>
    BY <2>1, <2>5
  <2> QED BY <2>1, <2>4, <2>6
<1>2. ASSUME NEW u, NEW v, NEW w, NEW x, NEW y, NEW z
      PROVE  <<u, v, w>> \o <<x, y, z>> = <<u, v, w, x, y, z>>
  <2>1. PICK S, s, t : S = {u, v, w, x, y, z} /\ s = <<u, v, w>> /\ t = <<x, y, z>>
    OBVIOUS
  <2>2. s \in Seq(S) /\ t \in Seq(S) /\ Len(s) = 3 /\ Len(t) = 3
    BY <2>1
  <2>3. /\ s \o t \in Seq(S) /\ Len(s \o t) = Len(s) + Len(t)
        /\ \A n \in 1..(Len(s) + Len(t)) :
              (s \o t)[n] = IF n <= Len(s) THEN s[n] ELSE t[n - Len(s)]
    BY <2>2, ConcatProperties
  <2>4. PICK r : r = s \o t
    OBVIOUS
  <2>5. r \in Seq(S) /\ Len(r) = 6 /\ r[1] = s[1] /\ r[2] = s[2] /\ r[3] = s[3]
        /\ r[4] = t[1] /\ r[5] = t[2] /\ r[6] = t[3]
    BY <2>2, <2>3, <2>4
  <2>6. r = <<u, v, w, x, y, z>>
    BY <2>1, <2>5
  <2> QED BY <2>1, <2>4, <2>6
<1> QED BY <1>1, <1>2

\* The keys of a store have one length and end with the id (SortKey).
LEMMA KeysEndWithId ==
    ASSUME NEW provider \in KnownProviders, NEW s \in {"memory", "postgres"}, NEW b
    PROVE  /\ KeyLength(provider, s) \in Nat
           /\ Len(SortKey(provider, s, b)) = KeyLength(provider, s)
           /\ SortKey(provider, s, b)[KeyLength(provider, s)] = b.id
<1>1. CASE provider \in {"github", "slack", "servicenow"}
  BY <1>1 DEF SortKey, KeyLength, ListGitHubRepositoryBindings, GitHubOrder,
              ListSlackWorkspaceBindings, SlackOrder
<1>2. ASSUME NEW u, NEW x
      PROVE  /\ Len(URLRank(u) \o <<x, b.id>>) = 5 /\ (URLRank(u) \o <<x, b.id>>)[5] = b.id
             /\ Len(URLRank(u) \o <<x, b.created, b.id>>) = 6
             /\ (URLRank(u) \o <<x, b.created, b.id>>)[6] = b.id
  <2>1. PICK p, q, r : URLRank(u) = <<p, q, r>>
    BY DEF URLRank
  <2>2. /\ URLRank(u) \o <<x, b.id>> = <<p, q, r, x, b.id>>
        /\ URLRank(u) \o <<x, b.created, b.id>> = <<p, q, r, x, b.created, b.id>>
    BY <2>1, Joined
  <2> QED BY <2>2
<1>3. CASE provider = "okta"
  BY <1>2, <1>3 DEF SortKey, KeyLength, ListOktaAppBindings, OktaOrder
<1>4. CASE provider = "entra"
  BY <1>2, <1>4 DEF SortKey, KeyLength, ListEntraAppRegistrations, EntraOrder
<1>5. CASE provider = "atlassian"
  BY <1>2, <1>5 DEF SortKey, KeyLength, ListAtlassianSiteBindings, AtlassianOrder
<1>6. CASE provider = "salesforce"
  BY <1>2, <1>6 DEF SortKey, KeyLength, ListSalesforceOrgBindings, SalesforceOrder
<1> QED BY <1>1, <1>3, <1>4, <1>5, <1>6 DEF KnownProviders

\* Nothing that handlers note on a row is in its key or in an index (SortKey,
\* Conflict).
LEMMA SameKeys ==
    ASSUME NEW provider \in KnownProviders, NEW s \in {"memory", "postgres"}, NEW b, NEW c,
           Same(b, c), BaseFields \cup RowFields[provider] \subseteq DOMAIN c
    PROVE  /\ SortKey(provider, s, b) = SortKey(provider, s, c)
           /\ Indexes(provider, b) = Indexes(provider, c)
           /\ \A e : MemoryConflict(provider, e, b) <=> MemoryConflict(provider, e, c)
           /\ \A e : MemoryConflict(provider, b, e) <=> MemoryConflict(provider, c, e)
<1>1. b.id = c.id /\ b.created = c.created /\ b.status = c.status /\ b.mission = c.mission
      /\ b.tenant = c.tenant
  BY DEF Same, BaseFields, Volatile
<1>2. CASE provider = "github"
  <2>1. b.repository = c.repository
    BY <1>2 DEF Same, RowFields, Volatile
  <2> QED BY <1>1, <1>2, <2>1 DEF SortKey, Indexes, MemoryConflict, GitHubOrder,
             ListGitHubRepositoryBindings, GitHubIndexes, GitHubRowsClash
<1>3. CASE provider = "okta"
  <2>1. b.issuer = c.issuer /\ b.client = c.client
    BY <1>3 DEF Same, RowFields, Volatile
  <2> QED BY <1>1, <1>3, <2>1 DEF SortKey, Indexes, MemoryConflict, OktaOrder,
             ListOktaAppBindings, OktaIndexes, OktaRowsClash
<1>4. CASE provider = "entra"
  <2>1. b.issuer = c.issuer /\ b.client = c.client
    BY <1>4 DEF Same, RowFields, Volatile
  <2> QED BY <1>1, <1>4, <2>1 DEF SortKey, Indexes, MemoryConflict, EntraOrder,
             ListEntraAppRegistrations, EntraIndexes, EntraRowsClash
<1>5. CASE provider = "slack"
  <2>1. b.workspace = c.workspace
    BY <1>5 DEF Same, RowFields, Volatile
  <2> QED BY <1>1, <1>5, <2>1 DEF SortKey, Indexes, MemoryConflict, SlackOrder,
             ListSlackWorkspaceBindings, SlackIndexes, SlackRowsClash
<1>6. CASE provider = "atlassian"
  <2>1. b.site = c.site /\ b.cloud = c.cloud
    BY <1>6 DEF Same, RowFields, Volatile
  <2> QED BY <1>1, <1>6, <2>1 DEF SortKey, Indexes, MemoryConflict, AtlassianOrder,
             ListAtlassianSiteBindings, AtlassianIndexes, AtlassianRowsClash
<1>7. CASE provider = "salesforce"
  <2>1. b.site = c.site /\ b.org = c.org
    BY <1>7 DEF Same, RowFields, Volatile
  <2> QED BY <1>1, <1>7, <2>1 DEF SortKey, Indexes, MemoryConflict, SalesforceOrder,
             ListSalesforceOrgBindings, SalesforceIndexes, SalesforceRowsClash
<1>8. CASE provider = "servicenow"
  BY <1>1, <1>8 DEF SortKey, Indexes, MemoryConflict
<1> QED BY <1>2, <1>3, <1>4, <1>5, <1>6, <1>7, <1>8 DEF KnownProviders

\* What the requests of a deployment make of every binding.
LEMMA MadeFields ==
    ASSUME SettingOK, NEW b, Made(b)
    PROVE  /\ setting.provider \in KnownProviders /\ store \in {"memory", "postgres"}
           /\ BaseFields \cup RowFields[setting.provider] \subseteq DOMAIN b
           /\ b.id \in BindingIds /\ b.status = "active"
           /\ setting.provider # "github" => b.mode \in Modes
           /\ SortKey(setting.provider, store, b) \in Seq(Int)
<1> DEFINE provider == setting.provider
<1>1. PICK c \in Creatable(setting) : Same(b, c)
  BY DEF Made
<1>2. setting \in Deployments /\ store = setting.store /\ store \in {"memory", "postgres"}
      /\ (provider \in KnownProviders \/ provider = "none")
  BY DeploymentAssumption DEF SettingOK, KnownProviders
<1>3. PICK q \in Asked(setting), id \in BindingIds, n \in 1..setting.requests :
          c = NewBinding(provider, q, id, n) /\ c # Refused
  BY DEF Creatable
<1>4. CreateRequests[provider] # {}
  BY DEF Creatable, Asked
<1>5. provider \in KnownProviders
  BY <1>2, <1>4, DeploymentAssumption
<1>6. IsBinding(provider, c, q, id, n)
  BY <1>3, <1>5, NewBindingFields
<1>7. BaseFields \cup RowFields[provider] \subseteq DOMAIN c /\ DOMAIN b = DOMAIN c
  BY <1>1, <1>6 DEF IsBinding, Same
<1>8. b.id = c.id /\ b.status = c.status
  BY <1>1, <1>7 DEF Same, BaseFields, Volatile
<1>9. provider # "github" => b.mode = c.mode
  <2>1. provider # "github" => "mode" \in RowFields[provider]
    BY <1>5 DEF KnownProviders, RowFields
  <2> QED BY <1>1, <1>7, <2>1 DEF Same, Volatile
<1>10. SortKey(provider, store, c) \in Seq(Int)
  BY <1>2, ListingAssumption
<1>11. SortKey(provider, store, b) = SortKey(provider, store, c)
  BY <1>1, <1>2, <1>5, <1>7, SameKeys
<1> QED BY <1>2, <1>5, <1>6, <1>7, <1>8, <1>9, <1>10, <1>11 DEF IsBinding

-----------------------------------------------------------------------------
(* Rows.                                                                   *)

\* Rows are what was asked for, one per id and, except tickets, per index.
RowsOK ==
    /\ IsFiniteSet(rows)
    /\ \A b \in rows : Made(b)
    /\ \A b, c \in rows : b.id = c.id => b = c
    /\ \A b, c \in rows : b # c => ~Conflict(setting.provider, store, b, c)

\* The binding that answers a request is one of those it matches.
LEMMA FirstOfRows ==
    ASSUME SettingOK, RowsOK, NEW found \in SUBSET rows, found # {}
    PROVE  FirstListed(setting.provider, store, found) \in found
<1>1. PICK p, s : p = setting.provider /\ s = store
  OBVIOUS
<1>2. \A b \in found : /\ p \in KnownProviders /\ s \in {"memory", "postgres"}
                       /\ SortKey(p, s, b) \in Seq(Int)
  BY <1>1, MadeFields DEF RowsOK
<1>3. p \in KnownProviders /\ s \in {"memory", "postgres"}
  BY <1>2
<1>4. \A b \in found : /\ SortKey(p, s, b) \in Seq(Int)
                       /\ Len(SortKey(p, s, b)) = KeyLength(p, s)
                       /\ SortKey(p, s, b)[KeyLength(p, s)] = b.id
  BY <1>2, <1>3, KeysEndWithId
<1>5. \A b, c \in found : SortKey(p, s, b) = SortKey(p, s, c) => b = c
  <2> TAKE b \in found, c \in found
  <2>1. SortKey(p, s, b) = SortKey(p, s, c) => b.id = c.id
    BY <1>4
  <2> QED BY <2>1 DEF RowsOK
<1>6. IsFiniteSet(found) /\ KeyLength(p, s) \in Nat
  BY <1>3, KeysEndWithId, FS_Subset DEF RowsOK
<1>7. Listable(p, s, found)
  BY <1>4, <1>5, <1>6 DEF Listable
<1> QED BY <1>1, <1>7, FirstIsListed

\* Values of an answer: the provider's facts are on top of the request's context.
AnswerIs(a, b, subject, reasons, facts) ==
    /\ a.id = b.id /\ a.subject = subject /\ a.accepted = (reasons = {})
    /\ a.row = [b EXCEPT !.lastSubject = subject,
                         !.lastStatus = IF reasons = {} THEN "accepted" ELSE "denied"]
    /\ \A f \in DOMAIN facts : a.context[f] = facts[f]
    /\ "binding" \notin DOMAIN facts => a.context["binding"] = {b.id}

\* The context of an evaluation names the binding and the facts about it, whatever
\* the request said of them (ResolveAuthorityContext).
LEMMA AnswerFields ==
    ASSUME NEW b, NEW q, NEW subject, NEW reasons, NEW facts
    PROVE  AnswerIs(Answer(b, q, subject, reasons, facts), b, subject, reasons, facts)
<1> DEFINE own == [binding |-> {b.id}]
           top == Over(facts, own)
           context == Over(top, q.context)
<1>1. DOMAIN own = {"binding"} /\ own["binding"] = {b.id}
  OBVIOUS
<1> HIDE DEF own
<1>2. /\ DOMAIN top = DOMAIN facts \cup {"binding"}
      /\ \A f \in DOMAIN facts : top[f] = facts[f]
      /\ "binding" \notin DOMAIN facts => top["binding"] = {b.id}
  BY <1>1 DEF Over
<1> HIDE DEF top
<1>3. \A f \in DOMAIN top : context[f] = top[f]
  BY DEF Over
<1> HIDE DEF context
<1>4. PICK a : a = Answer(b, q, subject, reasons, facts)
  OBVIOUS
<1>5. a = [id |-> b.id, subject |-> subject, reasons |-> reasons, accepted |-> reasons = {},
           context |-> context,
           row |-> [b EXCEPT !.lastSubject = subject,
                             !.lastStatus = IF reasons = {} THEN "accepted" ELSE "denied"]]
  BY <1>4 DEF Answer, context, top, own
<1>6. /\ a.id = b.id /\ a.subject = subject /\ a.accepted = (reasons = {})
      /\ a.row = [b EXCEPT !.lastSubject = subject,
                           !.lastStatus = IF reasons = {} THEN "accepted" ELSE "denied"]
      /\ a.context = context
  BY <1>5
<1> QED BY <1>2, <1>3, <1>4, <1>6 DEF AnswerIs

\* An answer that accepts somebody for the groups the binding asked for.
Grants(provider, required, a, b) ==
    /\ a.id = b.id /\ a.context["binding"] = {b.id} /\ a.accepted \in BOOLEAN
    /\ a.row = [b EXCEPT !.lastSubject = a.subject,
                         !.lastStatus = IF a.accepted THEN "accepted" ELSE "denied"]
    /\ a.accepted =>
         IF provider \in {"atlassian", "salesforce", "servicenow"}
         THEN GroupRequirementSatisfied(LowerAll(required), LowerAll(a.context["groups"]), b.mode)
         ELSE GroupRequirementSatisfied(required, a.context["groups"], b.mode)

\* Whatever the provider, an answer is about the binding and goes by its groups
\* (ResolveAuthorityContext).
LEMMA AnswersGrant ==
    ASSUME NEW provider \in KnownProviders \ {"github"}, NEW b, NEW q, NEW a,
           a = AnswerFrom(provider, b, q), a # Refused
    PROVE  Grants(provider, CASE provider = "slack" -> b.roles
                              [] provider = "salesforce" -> b.sets
                              [] OTHER -> b.groups, a, b)
<1>1. ASSUME NEW required, NEW groups, NEW subject, NEW reasons, NEW facts,
             a = Answer(b, q, subject, reasons, facts),
             "groups" \in DOMAIN facts, facts["groups"] = groups, "binding" \notin DOMAIN facts,
             reasons = {} =>
                IF provider \in {"atlassian", "salesforce", "servicenow"}
                THEN GroupRequirementSatisfied(LowerAll(required), LowerAll(groups), b.mode)
                ELSE GroupRequirementSatisfied(required, groups, b.mode)
      PROVE  Grants(provider, required, a, b)
  <2>1. AnswerIs(a, b, subject, reasons, facts)
    BY <1>1, AnswerFields
  <2>2. a.context["groups"] = groups /\ a.context["binding"] = {b.id}
    BY <1>1, <2>1 DEF AnswerIs
  <2>3. a.accepted \in BOOLEAN /\ (a.accepted <=> reasons = {}) /\ a.id = b.id
    BY <2>1 DEF AnswerIs
  <2>4. a.row = [b EXCEPT !.lastSubject = a.subject,
                          !.lastStatus = IF a.accepted THEN "accepted" ELSE "denied"]
    BY <2>1, <2>3 DEF AnswerIs
  <2> QED BY <1>1, <2>2, <2>3, <2>4 DEF Grants
<1>2. \A holds, reason : Unless(holds, reason) = {} => holds
  BY DEF Unless
<1>3. CASE provider = "okta"
  <2> DEFINE subject == firstString(<<q.subject, StringClaim(q.claims, b.subjectClaim),
                                      StringClaim(q.claims, "sub")>>)
             groups == ListOrClaim(q.groups, q.claims, b.groupClaim)
             scopes == FirstList(<<ListOrClaim(q.scopes, q.claims, b.scopeClaim),
                                   {StringClaim(q.claims, "scope")} \ {""}>>)
             met == GroupRequirementSatisfied(b.groups, groups, b.mode)
             reasons == Unless(Allows(b.subjects, subject), "subject_not_allowed")
                        \cup Unless(met, "required_group_missing")
             facts == [subject |-> {subject}, groups |-> groups, scopes |-> scopes,
                       admin |-> {HasAny(groups, b.admins)}]
  <2>1. a = Answer(b, q, subject, reasons, facts)
    BY <1>3 DEF AnswerFrom, OktaAnswer
  <2>2. "groups" \in DOMAIN facts /\ facts["groups"] = groups /\ "binding" \notin DOMAIN facts
    OBVIOUS
  <2>3. reasons = {} => met
    <3> HIDE DEF met
    <3> QED BY <1>2
  <2> HIDE DEF subject, groups, reasons, facts
  <2> QED BY <1>1, <1>3, <2>1, <2>2, <2>3
<1>4. CASE provider = "entra"
  <2> DEFINE subject == firstString(<<q.subject, StringClaim(q.claims, b.subjectClaim),
                                      StringClaim(q.claims, "oid"),
                                      StringClaim(q.claims, "sub")>>)
             groups == ListOrClaim(q.groups, q.claims, b.groupClaim)
             roles == ListOrClaim(q.roles, q.claims, b.rolesClaim)
             met == GroupRequirementSatisfied(b.groups, groups, b.mode)
             reasons == Unless(Allows(b.subjects, subject), "subject_not_allowed")
                        \cup Unless(met, "required_group_missing")
             facts == [subject |-> {subject}, groups |-> groups, roles |-> roles,
                       admin |-> {HasAny(groups, b.admins)}]
  <2>1. a = Answer(b, q, subject, reasons, facts)
    BY <1>4 DEF AnswerFrom, EntraAnswer
  <2>2. "groups" \in DOMAIN facts /\ facts["groups"] = groups /\ "binding" \notin DOMAIN facts
    OBVIOUS
  <2>3. reasons = {} => met
    <3> HIDE DEF met
    <3> QED BY <1>2
  <2> HIDE DEF subject, groups, reasons, facts
  <2> QED BY <1>1, <1>4, <2>1, <2>2, <2>3
<1>5. CASE provider = "slack"
  <2> DEFINE user == firstString(<<q.user, StringClaim(q.claims, "sub"),
                                   StringClaim(q.claims, "user_id")>>)
             email == firstString(<<q.email, StringClaim(q.claims, "email")>>)
             roles == ListOrClaim(q.roles, q.claims, b.roleClaim)
             met == GroupRequirementSatisfied(b.roles, roles, b.mode)
             reasons == Unless(Allows(b.users, user) \/ email \in b.users, "user_not_allowed")
                        \cup Unless(q.channel \notin b.blocked, "channel_blocked")
                        \cup Unless(Allows(b.channels, q.channel), "channel_not_allowed")
                        \cup Unless(met, "required_role_missing")
                        \cup Unless(Allows(b.actions, q.action), "action_not_allowed")
             facts == [subject |-> {user}, email |-> {email}, groups |-> roles,
                       channel |-> {q.channel}, action |-> {q.action},
                       admin |-> {HasAny(roles, b.admins)}]
  <2>1. a = Answer(b, q, user, reasons, facts)
    BY <1>5 DEF AnswerFrom, SlackAnswer
  <2>2. "groups" \in DOMAIN facts /\ facts["groups"] = roles /\ "binding" \notin DOMAIN facts
    OBVIOUS
  <2>3. reasons = {} => met
    <3> HIDE DEF met
    <3> QED BY <1>2
  <2> HIDE DEF user, roles, reasons, facts
  <2> QED BY <1>1, <1>5, <2>1, <2>2, <2>3
<1>6. ASSUME NEW u, NEW more, NEW reasons, NEW subject, NEW facts, provider = "atlassian",
             reasons = AtlassianIdentityReasons(b, u) \cup more,
             a = Answer(b, q, subject, reasons, facts),
             "groups" \in DOMAIN facts, facts["groups"] = u.groups, "binding" \notin DOMAIN facts
      PROVE  Grants(provider, b.groups, a, b)
  <2> DEFINE met == FoldedRequirementSatisfied(b.groups, u.groups, b.mode)
  <2>1. reasons = {} => met
    <3> HIDE DEF met
    <3>1. AtlassianIdentityReasons(b, u) =
              Unless(ContainsAnyIdentity(b.subjects, {u.account, u.subject, u.email}),
                     "subject_not_allowed")
              \cup Unless(met, "required_group_missing")
      BY DEF AtlassianIdentityReasons, met
    <3> QED BY <1>2, <1>6, <3>1
  <2>2. reasons = {} =>
            GroupRequirementSatisfied(LowerAll(b.groups), LowerAll(u.groups), b.mode)
    BY <2>1 DEF FoldedRequirementSatisfied
  <2> QED BY <1>1, <1>6, <2>2
<1>7. CASE provider = "atlassian"
  <2> DEFINE u == AtlassianUser(b, q)
             jira == Unless(Allows(LowerAll(b.projects), ProjectKey(q)), "project_not_allowed")
                     \cup Unless(Allows(LowerAll(b.jiraActions), Lower(q.action)),
                                 "action_not_allowed")
             page == Unless(Allows(LowerAll(b.spaces), Lower(q.space)), "space_not_allowed")
                     \cup Unless(Allows(LowerAll(b.pageActions), Lower(q.action)),
                                 "action_not_allowed")
             subject == firstString(<<u.subject, u.account, u.email>>)
             jiraFacts == [subject |-> {u.subject}, account |-> {u.account}, email |-> {u.email},
                           groups |-> u.groups, product |-> {"jira"},
                           project |-> {ProjectKey(q)}, action |-> {q.action}]
             pageFacts == [subject |-> {u.subject}, account |-> {u.account}, email |-> {u.email},
                           groups |-> u.groups, product |-> {"confluence"}, space |-> {q.space},
                           action |-> {q.action}]
  <2>1. /\ "groups" \in DOMAIN jiraFacts /\ jiraFacts["groups"] = u.groups
        /\ "binding" \notin DOMAIN jiraFacts
        /\ "groups" \in DOMAIN pageFacts /\ pageFacts["groups"] = u.groups
        /\ "binding" \notin DOMAIN pageFacts
    OBVIOUS
  <2>2. \/ a = Answer(b, q, subject, AtlassianIdentityReasons(b, u) \cup jira, jiraFacts)
        \/ a = Answer(b, q, subject, AtlassianIdentityReasons(b, u) \cup page, pageFacts)
    <3>1. CASE q.product = "jira"
      <4>1. a = JiraAnswer(b, q)
        BY <1>7, <3>1 DEF AnswerFrom
      <4>2. \A x, y, z : (x \cup y) \cup z = x \cup (y \cup z)
        OBVIOUS
      <4> QED BY <4>1, <4>2 DEF JiraAnswer
    <3>2. CASE q.product # "jira"
      <4>1. a = ConfluenceAnswer(b, q)
        BY <1>7, <3>2 DEF AnswerFrom
      <4>2. \A x, y, z : (x \cup y) \cup z = x \cup (y \cup z)
        OBVIOUS
      <4> QED BY <4>1, <4>2 DEF ConfluenceAnswer
    <3> QED BY <3>1, <3>2
  <2> HIDE DEF u, jira, page, subject, jiraFacts, pageFacts
  <2> QED BY <1>6, <1>7, <2>1, <2>2
<1>8. CASE provider = "salesforce"
  <2> DEFINE u == SalesforceUser(b, q)
             met == FoldedRequirementSatisfied(b.sets, u.sets, b.mode)
             more == Unless(Allows(LowerAll(b.objects), Lower(q.object)), "object_not_allowed")
                     \cup Unless(Allows(LowerAll(b.recordTypeIDs), Lower(q.recordTypeID)),
                                 "record_type_id_not_allowed")
                     \cup Unless(Allows(LowerAll(b.recordTypeNames), Lower(q.recordTypeName)),
                                 "record_type_name_not_allowed")
                     \cup Unless(Allows(LowerAll(b.actions), Lower(q.action)),
                                 "action_not_allowed")
             reasons == SalesforceIdentityReasons(b, u) \cup more
             subject == firstString(<<u.subject, u.user, u.username, u.email>>)
             facts == [subject |-> {u.subject}, username |-> {u.username}, email |-> {u.email},
                       profile |-> {u.profile}, groups |-> u.sets, object |-> {q.object},
                       action |-> {q.action}]
  <2>1. a = Answer(b, q, subject, reasons, facts)
    <3>1. \A v, w, x, y, z :
              (((v \cup w) \cup x) \cup y) \cup z = v \cup (((w \cup x) \cup y) \cup z)
      OBVIOUS
    <3> QED BY <1>8, <3>1 DEF AnswerFrom, SalesforceAnswer
  <2>2. "groups" \in DOMAIN facts /\ facts["groups"] = u.sets /\ "binding" \notin DOMAIN facts
    OBVIOUS
  <2>3. reasons = {} => met
    <3> HIDE DEF met, more
    <3>1. Unless(met, "required_permission_set_missing") \subseteq SalesforceIdentityReasons(b, u)
      BY DEF SalesforceIdentityReasons, met
    <3> QED BY <1>2, <3>1
  <2>4. reasons = {} => GroupRequirementSatisfied(LowerAll(b.sets), LowerAll(u.sets), b.mode)
    BY <2>3 DEF FoldedRequirementSatisfied
  <2> HIDE DEF u, met, reasons, subject, facts
  <2> QED BY <1>1, <1>8, <2>1, <2>2, <2>4
<1>9. CASE provider = "servicenow"
  <2> DEFINE subject == firstString(<<q.subject, StringClaim(q.claims, b.subjectClaim)>>)
             groups == CleanStringList(FirstList(<<q.groups,
                                                   StringsClaim(q.claims, b.groupClaim)>>))
             met == FoldedRequirementSatisfied(b.groups, groups, b.mode)
             reasons == Unless(Allows(LowerAll(b.subjects), Lower(subject)),
                               "subject_not_allowed")
                        \cup Unless(met, "required_group_missing")
             facts == [subject |-> {subject}, groups |-> groups, ticket |-> {b.ticket},
                       state |-> {b.state},
                       admin |-> {HasAny(LowerAll(groups), LowerAll(b.admins))}]
  <2>1. a = Answer(b, q, subject, reasons, facts)
    BY <1>9 DEF AnswerFrom, TicketAnswer
  <2>2. "groups" \in DOMAIN facts /\ facts["groups"] = groups /\ "binding" \notin DOMAIN facts
    OBVIOUS
  <2>3. reasons = {} => met
    <3> HIDE DEF met
    <3> QED BY <1>2
  <2>4. reasons = {} => GroupRequirementSatisfied(LowerAll(b.groups), LowerAll(groups), b.mode)
    BY <2>3 DEF FoldedRequirementSatisfied
  <2> HIDE DEF subject, groups, met, reasons, facts
  <2> QED BY <1>1, <1>9, <2>1, <2>2, <2>4
<1> QED BY <1>3, <1>4, <1>5, <1>7, <1>8, <1>9 DEF KnownProviders
-----------------------------------------------------------------------------
(* Copies of rows.                                                         *)

\* What a handler with a copy of a row notes on it.
Noted ==
    [resolve |-> {"lastSubject", "lastStatus"}, webhook |-> {"lastDelivery", "lastSHA"},
     check |-> {"lastSHA", "lastCheck"}, ticket |-> {"state"}]

HasCopy(k) == k.handler \in DOMAIN Noted /\ "row" \in DOMAIN k

\* k has a copy of row b.
Copies(k, b) ==
    /\ HasCopy(k) /\ DOMAIN k.row = DOMAIN b
    /\ \A f \in DOMAIN b \ Noted[k.handler] : k.row[f] = b[f]

\* Handlers are served for their provider.
Placed(k) ==
    /\ k.handler \in {"webhook", "check"} => setting.provider = "github"
    /\ k.handler = "resolve" => setting.provider \in KnownProviders \ {"github"}
    /\ k.handler = "ticket" => setting.provider = "servicenow"
    /\ k.handler = "create" => setting.provider # "servicenow"

\* b is a new binding of this deployment.
IsNew(b) ==
    /\ b \in Creatable(setting) /\ (\A c \in rows : c.id # b.id) /\ b.lastStatus = ""
    /\ setting.provider = "github" => b.lastDelivery = 0 /\ b.lastCheck = ""

\* The handler with record k puts the new row b there.
Creates(k, b) ==
    /\ IsNew(b) /\ Saves(b) /\ rows' = rows \cup {b}
    /\ "event" \in DOMAIN k /\ k.event.about = <<b.id>> /\ ~HasCopy(k)
    /\ k.handler \in {"create", "ticket"} /\ (k.handler = "create" => k.served = {b.tenant})

\* What a deployment makes of a request of its own.
LEMMA NewRows ==
    ASSUME SettingOK, NEW q \in Asked(setting), NEW id \in FreshIds, NEW j \in Jobs,
           NewBinding(setting.provider, q, id, j) # Refused
    PROVE  IsNew(NewBinding(setting.provider, q, id, j))
<1>1. PICK b : b = NewBinding(setting.provider, q, id, j)
  OBVIOUS
<1>2. setting.provider \in KnownProviders
  <2>1. setting.provider \in KnownProviders \cup {"none"}
    BY DeploymentAssumption DEF SettingOK, KnownProviders
  <2>2. CreateRequests[setting.provider] # {}
    BY DEF Asked
  <2> QED BY <2>1, <2>2, DeploymentAssumption
<1>3. IsBinding(setting.provider, b, q, id, j)
  BY <1>1, <1>2, NewBindingFields
<1>4. b.id = id /\ b.lastStatus = ""
      /\ (setting.provider = "github" => b.lastDelivery = 0 /\ b.lastCheck = "")
  BY <1>3 DEF IsBinding
<1>5. b \in Creatable(setting)
  BY <1>1 DEF Creatable, FreshIds, Jobs
<1>6. \A c \in rows : c.id # b.id
  BY <1>4 DEF FreshIds
<1> QED BY <1>1, <1>4, <1>5, <1>6 DEF IsNew

\* A request puts a new row there, or copies one, or needs none.
LEMMA RequestRows ==
    ASSUME SettingOK, JobsOK, RowsOK, NEW j \in Jobs, Request(j)
    PROVE  /\ Placed(jobs'[j])
           /\ \/ \E b : Creates(jobs'[j], b)
              \/ rows' = rows /\ (HasCopy(jobs'[j]) => \E b \in rows : Copies(jobs'[j], b))
<1> DEFINE Goal == /\ Placed(jobs'[j])
                   /\ \/ \E b : Creates(jobs'[j], b)
                      \/ rows' = rows /\ (HasCopy(jobs'[j]) => \E b \in rows : Copies(jobs'[j], b))
<1>1. \A k : jobs' = [jobs EXCEPT ![j] = k] => jobs'[j] = k
  BY DEF JobsOK
<1>2. \A b \in rows : /\ BaseFields \cup RowFields[setting.provider] \subseteq DOMAIN b
                      /\ setting.provider \in KnownProviders
  BY MadeFields DEF RowsOK
<1>0. ASSUME NEW s \in {<<"event">>, <<"update", "event">>, <<"delete", "event">>}, NEW g,
             jobs' = [jobs EXCEPT ![j] = Job("ticket", s, g)],
             DOMAIN g \in {{"event"}, {"row", "event"}}, g.event.id = <<j, "event">>,
             s # <<"event">> => "row" \in DOMAIN g
      PROVE  /\ jobs'[j].handler = "ticket" /\ jobs'[j].event = g.event
             /\ "event" \in DOMAIN jobs'[j] /\ ("row" \in DOMAIN g => jobs'[j].row = g.row)
             /\ ("row" \in DOMAIN jobs'[j] <=> "row" \in DOMAIN g)
  <2>1. PICK k : jobs' = [jobs EXCEPT ![j] = k] /\ ServedBy(j, k) /\ TicketStarted(k, s, g)
    BY <1>0, TicketArrives
  <2>2. "event" \in DOMAIN k
    BY <2>1 DEF ServedBy, TicketStarted
  <2> QED BY <1>1, <2>1, <2>2 DEF TicketStarted
<1>3. ASSUME NEW p, NEW route, NEW t, ServeAdmin(j, route, p, t) PROVE Goal
  <2>1. rows' = rows
    BY <1>3 DEF ServeAdmin
  <2>2. jobs'[j].handler = "admin"
    BY <1>1, <1>3, AdminArrives
  <2> QED BY <2>1, <2>2 DEF Placed, HasCopy, Noted
<1>4. ASSUME NEW h, NEW route, NEW q, ServeAgent(j, route, h, q) PROVE Goal
  <2>1. rows' = rows
    BY <1>4 DEF ServeAgent
  <2>2. jobs'[j].handler = "agent"
    BY <1>1, <1>4, AgentArrives
  <2> QED BY <2>1, <2>2 DEF Placed, HasCopy, Noted
<1>5. ASSUME NEW q \in CreateRequests[setting.provider], NEW p \in setting.presented,
             NEW id \in FreshIds, CreateBinding(j, q, p, id)
      PROVE  Goal
  <2>1. PICK i : i = AdminAuthenticatorFromEnv(setting.login, p)
    OBVIOUS
  <2>2. PICK k : jobs' = [jobs EXCEPT ![j] = k] /\ CreationStarted(j, q, p, id, k)
    BY <1>5, CreationArrives
  <2>3. jobs'[j] = k /\ setting.provider # "servicenow" /\ ~HasCopy(k)
    BY <1>1, <1>5, <2>2 DEF CreateBinding, CreationStarted, HasCopy, Noted
  <2>4. ASSUME NEW tenant \in bindAdminTenant(i, q.tenant), NEW r, NEW b,
               r = [q EXCEPT !.tenant = tenant], b = NewBinding(setting.provider, r, id, j),
               Saves(b), rows' = rows \cup {b}, k.event = CreatedEvent(j, b),
               k.served = {b.tenant}, "event" \in DOMAIN k
        PROVE  Creates(k, b)
    <3>1. r \in Asked(setting)
      <4> DEFINE T == UNION {bindAdminTenant(AdminAuthenticatorFromEnv(setting.login, x), q.tenant) :
                                 x \in setting.presented}
      <4>1. tenant \in T
        BY <2>1
      <4>2. r \in {[q EXCEPT !.tenant = t] : t \in T}
        BY <2>4, <4>1
      <4> QED BY <4>2 DEF Asked
    <3>2. b # Refused
      BY <2>4 DEF Saves
    <3>3. CreatedEvent(j, b).about = <<b.id>>
      BY DEF CreatedEvent, EventOf
    <3>4. IsNew(b)
      BY <2>4, <3>1, <3>2, NewRows
    <3>5. k.handler = "create"
      BY <2>2 DEF CreationStarted
    <3> QED BY <2>3, <2>4, <3>3, <3>4, <3>5 DEF Creates
  <2>5. k.handler = "create"
    BY <2>2 DEF CreationStarted
  <2>6. ASSUME rows' # rows PROVE \E b : Creates(k, b)
    <3>1. PICK tenant \in bindAdminTenant(i, q.tenant) :
             \E b : /\ b = NewBinding(setting.provider, [q EXCEPT !.tenant = tenant], id, j)
                    /\ Saves(b) /\ rows' = rows \cup {b}
                    /\ k.event = CreatedEvent(j, b)
                    /\ k.served = {b.tenant}
                    /\ "event" \in DOMAIN k
      BY <2>1, <2>2, <2>6 DEF CreationStarted
    <3>2. PICK r : r = [q EXCEPT !.tenant = tenant]
      OBVIOUS
    <3>3. PICK b : /\ b = NewBinding(setting.provider, r, id, j)
                   /\ Saves(b) /\ rows' = rows \cup {b}
                   /\ k.event = CreatedEvent(j, b)
                   /\ k.served = {b.tenant}
                   /\ "event" \in DOMAIN k
      BY <3>1, <3>2
    <3> QED BY <2>4, <3>2, <3>3
  <2> QED BY <2>3, <2>5, <2>6 DEF Placed
<1>6. ASSUME NEW q \in CreateRequests[setting.provider], NEW id \in FreshIds,
             CreateTicketBinding(j, q, id)
      PROVE  Goal
  <2>1. PICK b : b = TicketBinding(q, id, j)
    OBVIOUS
  <2>2. PICK g : g = [event |-> CreatedEvent(j, b)]
    OBVIOUS
  <2>3. jobs' = [jobs EXCEPT ![j] = Job("ticket", <<"event">>, g)]
        /\ setting.provider = "servicenow" /\ Saves(b) /\ rows' = rows \cup {b}
    BY <1>6, <2>1, <2>2 DEF CreateTicketBinding, SaveBinding
  <2>4. DOMAIN g = {"event"} /\ g.event.id = <<j, "event">> /\ g.event.about = <<b.id>>
    BY <2>2 DEF CreatedEvent, EventOf
  <2>5. PICK k : k = jobs'[j]
    OBVIOUS
  <2>6. k.handler = "ticket" /\ "event" \in DOMAIN k /\ ~HasCopy(k) /\ k.event.about = <<b.id>>
    BY <1>0, <2>3, <2>4, <2>5 DEF HasCopy
  <2>7. q \in Asked(setting) /\ b = NewBinding(setting.provider, q, id, j) /\ b # Refused
    BY <2>1, <2>3 DEF Asked, NewBinding, Saves
  <2>8. IsNew(b)
    BY <2>7, NewRows
  <2>9. Creates(k, b)
    BY <2>3, <2>5, <2>6, <2>8 DEF Creates
  <2> QED BY <2>3, <2>5, <2>6, <2>9 DEF Placed
<1>7. ASSUME NEW q \in ResolveRequests[setting.provider], NEW h, ResolveAuthorityContext(j, q, h)
      PROVE  Goal
  <2>1. PICK found : found = {x \in rows : Matches(setting.provider, x, q)}
    OBVIOUS
  <2>2. PICK k, b, a, actor : /\ jobs' = [jobs EXCEPT ![j] = k]
                              /\ ResolutionStarted(j, q, h, k, b, a, actor)
    BY <1>7, ResolutionArrives
  <2>10. /\ k.handler = "resolve" /\ ServedBy(j, k) /\ found # {}
         /\ b = FirstListed(setting.provider, store, found)
         /\ a = AnswerFrom(setting.provider, b, q) /\ a # Refused
         /\ k.row = a.row
    BY <2>1, <2>2 DEF ResolutionStarted
  <2>3. b \in rows
    BY <2>1, <2>10, FirstOfRows
  <2>4. setting.provider \in KnownProviders \ {"github"}
    BY <1>2, <2>3, DeploymentAssumption
  <2>5. "row" \in DOMAIN k
    BY <2>10 DEF ServedBy, FieldsOf
  <2>6. \E required : Grants(setting.provider, required, a, b)
    BY <2>4, <2>10, AnswersGrant
  <2>7. DOMAIN a.row = DOMAIN b /\ \A f \in DOMAIN b \ {"lastSubject", "lastStatus"} : a.row[f] = b[f]
    BY <2>6 DEF Grants
  <2>8. Copies(k, b) /\ Placed(k)
    BY <2>4, <2>5, <2>7, <2>10 DEF Copies, HasCopy, Noted, Placed
  <2>9. jobs'[j] = k /\ rows' = rows
    BY <1>1, <1>7, <2>2 DEF ResolveAuthorityContext
  <2> QED BY <2>3, <2>8, <2>9
<1>8. ASSUME NEW w, IngestWebhook(j, w) PROVE Goal
  <2>1. PICK k, d : jobs' = [jobs EXCEPT ![j] = k] /\ WebhookStarted(w, k, d)
    BY <1>8, WebhookArrives
  <2>2. PICK bound : bound = {b \in rows : bindingForRepository(b, SummarizeWebhook(w.payload).repository)}
    OBVIOUS
  <2>3. jobs'[j] = k /\ rows' = rows /\ setting.provider = "github"
    BY <1>1, <1>8, <2>1 DEF IngestWebhook
  <2>4. k.handler = "webhook"
    BY <2>1 DEF WebhookStarted
  <2>5. ASSUME "row" \in DOMAIN k PROVE \E b \in rows : Copies(k, b)
    <3>1. PICK b, sha : /\ bound # {} /\ b = FirstListed("github", store, bound)
                        /\ k.row = [b EXCEPT !.lastDelivery = w.id, !.lastSHA = sha]
      BY <2>1, <2>2, <2>5 DEF WebhookStarted
    <3>2. b \in rows
      BY <2>2, <2>3, <3>1, FirstOfRows
    <3>3. DOMAIN k.row = DOMAIN b
          /\ \A f \in DOMAIN b \ {"lastDelivery", "lastSHA"} : k.row[f] = b[f]
      BY <3>1
    <3> QED BY <2>4, <2>5, <3>2, <3>3 DEF Copies, HasCopy, Noted
  <2> QED BY <2>3, <2>4, <2>5 DEF Placed, HasCopy
<1>9. ASSUME NEW q \in Checks, NEW h, PlanCheckRun(j, q, h) PROVE Goal
  <2>1. PICK bound : bound = {x \in rows : bindingForRepository(x, q.repository)}
    OBVIOUS
  <2>2. PICK k, b, mission : jobs' = [jobs EXCEPT ![j] = k] /\ ServedBy(j, k)
                             /\ CheckStarted(j, q, k, b, mission)
    BY <1>9, CheckArrives
  <2>3. jobs'[j] = k /\ rows' = rows /\ setting.provider = "github"
    BY <1>1, <1>9, <2>2 DEF PlanCheckRun
  <2>4. k.handler = "check" /\ bound # {} /\ b = FirstListed("github", store, bound)
        /\ k.row = [b EXCEPT !.lastSHA = q.sha]
    BY <2>1, <2>2 DEF CheckStarted
  <2>5. b \in rows
    BY <2>1, <2>3, <2>4, FirstOfRows
  <2>6. "row" \in DOMAIN k
    BY <2>2, <2>4 DEF ServedBy, FieldsOf
  <2>7. DOMAIN k.row = DOMAIN b /\ \A f \in DOMAIN b \ {"lastSHA"} : k.row[f] = b[f]
    BY <2>4
  <2>8. Copies(k, b)
    BY <2>4, <2>6, <2>7 DEF Copies, HasCopy, Noted
  <2> QED BY <2>3, <2>4, <2>5, <2>8 DEF Placed
<1>10. ASSUME NEW b \in rows, NEW state, UpdateTicketStatus(j, b, state) PROVE Goal
  <2>1. PICK g : g = [row |-> [b EXCEPT !.state = state],
                      event |-> EventOf(j, "ticket", b.mission, b.tenant, <<b.id>>)]
    OBVIOUS
  <2>2. jobs' = [jobs EXCEPT ![j] = Job("ticket", <<"update", "event">>, g)]
        /\ setting.provider = "servicenow" /\ rows' = rows
    BY <1>10, <2>1 DEF UpdateTicketStatus
  <2>3. DOMAIN g = {"row", "event"} /\ g.event.id = <<j, "event">>
    BY <2>1 DEF EventOf
  <2>4. PICK k : /\ k = jobs'[j] /\ k.handler = "ticket"
                 /\ k.row = g.row /\ "row" \in DOMAIN k
    BY <1>0, <2>2, <2>3
  <2>5. DOMAIN k.row = DOMAIN b /\ \A f \in DOMAIN b \ {"state"} : k.row[f] = b[f]
    BY <2>1, <2>4
  <2>6. Copies(k, b)
    BY <2>4, <2>5 DEF Copies, HasCopy, Noted
  <2> QED BY <1>1, <2>2, <2>4, <2>6 DEF Placed
<1>11. ASSUME NEW b \in rows, DeleteTicketBinding(j, b) PROVE Goal
  <2>1. PICK g : g = [row |-> b, event |-> EventOf(j, "ticket", b.mission, b.tenant, <<b.id>>)]
    OBVIOUS
  <2>2. jobs' = [jobs EXCEPT ![j] = Job("ticket", <<"delete", "event">>, g)]
        /\ setting.provider = "servicenow" /\ rows' = rows
    BY <1>11, <2>1 DEF DeleteTicketBinding
  <2>3. DOMAIN g = {"row", "event"} /\ g.event.id = <<j, "event">>
    BY <2>1 DEF EventOf
  <2>4. PICK k : /\ k = jobs'[j] /\ k.handler = "ticket"
                 /\ k.row = g.row /\ "row" \in DOMAIN k
    BY <1>0, <2>2, <2>3
  <2>5. Copies(k, b)
    BY <2>1, <2>4 DEF Copies, HasCopy, Noted
  <2> QED BY <1>1, <2>2, <2>4, <2>5 DEF Placed
<1> HIDE DEF Goal
<1>12. Goal
  BY <1>3, <1>4, <1>5, <1>6, <1>7, <1>8, <1>9, <1>10, <1>11 DEF Request
<1> QED BY <1>12 DEF Goal

-----------------------------------------------------------------------------
(* What a step does to the rows.                                           *)

\* A handler that was not there before arrived with a request.
LEMMA Arrived ==
    ASSUME SettingOK, JobsOK, [Next]_vars, NEW i \in Jobs,
           jobs[i] = NotStarted, jobs'[i] # NotStarted
    PROVE  Request(i)
<1>1. ASSUME NEW j \in Jobs, Request(j) PROVE Request(i)
  <2>1. PICK k : jobs' = [jobs EXCEPT ![j] = k]
    BY <1>1, RequestStarts
  <2>2. i = j
    BY <2>1 DEF JobsOK
  <2> QED BY <1>1, <2>2
<1>2. ASSUME NEW j \in Jobs, Works(j) PROVE FALSE
  <2>1. jobs[j] # NotStarted /\ \E m : jobs' = [jobs EXCEPT ![j] = m]
    BY <1>2, Continuing DEF Works
  <2> QED BY <2>1 DEF JobsOK
<1>3. ASSUME NEW j \in Jobs, NEW e, NEW since, Appends(j, e, since) PROVE FALSE
  <2>1. jobs[j] # NotStarted
    BY <1>3 DEF Appends, NotStarted
  <2> QED BY <1>3, <2>1 DEF JobsOK, Appends
<1>4. ASSUME Crash PROVE FALSE
  BY <1>4 DEF Crash, NotStarted
<1> QED BY <1>1, <1>2, <1>3, <1>4, Steps DEF Idles

\* The handler j writes its copy over the row c.
Replaces(j, c) ==
    /\ HasCopy(jobs[j]) /\ "update" \in ToSet(jobs[j].steps)
    /\ "update" \notin ToSet(jobs'[j].steps)
    /\ c \in rows /\ c.id = jobs[j].row.id /\ rows' = (rows \ {c}) \cup {jobs[j].row}
    /\ jobs'[j] = Proceed(jobs[j]) /\ \A i \in Jobs \ {j} : jobs'[i] = jobs[i]

\* Rows are created by requests, overwritten by copies and removed with tickets
\* (CreateBinding, UpdateBinding, DeleteRow).
LEMMA RowsStep ==
    ASSUME SettingOK, JobsOK, RowsOK, [Next]_vars
    PROVE  \/ rows' = rows
           \/ \E j \in Jobs : Request(j) /\ \E b : Creates(jobs'[j], b)
           \/ \E j \in Jobs : \E c : Replaces(j, c)
           \/ rows' \subseteq rows /\ \E j \in Jobs : jobs[j].handler = "ticket"
<1>1. ASSUME NEW j \in Jobs, Request(j)
      PROVE  rows' = rows \/ \E b : Creates(jobs'[j], b)
  BY <1>1, RequestRows
<1>2. ASSUME NEW j \in Jobs, Continue(j)
      PROVE  ServedBy(j, jobs[j]) /\ Head(jobs[j].steps) \in ToSet(jobs[j].steps)
             /\ InOrder(jobs[j].steps) /\ jobs[j].steps # << >>
  <2>1. ServedBy(j, jobs[j]) /\ jobs[j].steps # << >>
    BY <1>2, Continuing
  <2>2. InOrder(jobs[j].steps)
    BY <2>1 DEF ServedBy
  <2>3. ToSet(jobs[j].steps) = {Head(jobs[j].steps)} \cup ToSet(Tail(jobs[j].steps))
    BY <2>1, <2>2, Proceeding
  <2> QED BY <2>1, <2>2, <2>3
<1>3. ASSUME NEW j \in Jobs, Continue(j), UpdateBinding(j)
      PROVE  rows' = rows \/ \E c : Replaces(j, c)
  <2>1. PICK k : k = jobs[j]
    OBVIOUS
  <2>2. PICK old : old = {b \in rows : b.id = k.row.id}
    OBVIOUS
  <2>3. /\ rows' = IF old = {} THEN rows ELSE (rows \ old) \cup {k.row}
        /\ jobs' = [jobs EXCEPT ![j] = IF old = {} /\ k.handler = "ticket" THEN Finish(k)
                                       ELSE Proceed(k)]
        /\ k.steps # << >> /\ Head(k.steps) = "update"
    BY <1>3, <2>1, <2>2 DEF UpdateBinding, Waiting
  <2>4. CASE old = {}
    BY <2>3, <2>4
  <2>5. CASE old # {}
    <3>1. PICK c : c \in old
      BY <2>5
    <3>2. old = {c} /\ c \in rows /\ c.id = k.row.id
      BY <2>2, <3>1 DEF RowsOK
    <3>3. ServedBy(j, k) /\ "update" \in ToSet(k.steps) /\ InOrder(k.steps)
      BY <1>2, <1>3, <2>1, <2>3
    <3>4. HasCopy(k)
      <4>1. "row" \in DOMAIN k /\ k.handler \in Handlers /\ "update" \in CallsOf[k.handler]
        BY <3>3 DEF ServedBy
      <4>2. \A h \in Handlers : "update" \in CallsOf[h] => h \in DOMAIN Noted
        BY DEF Handlers, CallsOf, Noted
      <4> QED BY <4>1, <4>2 DEF HasCopy
    <3>5. jobs'[j] = Proceed(k) /\ \A i \in Jobs \ {j} : jobs'[i] = jobs[i]
      BY <2>3, <2>5 DEF JobsOK
    <3>6. jobs'[j].steps = Tail(k.steps)
      BY <3>3, <3>5 DEF Proceed, ServedBy, Common
    <3>7. "update" \notin ToSet(Tail(k.steps))
      <4>1. Head(k.steps) # "evaluate" => Head(k.steps) \notin ToSet(Tail(k.steps))
        BY <2>3, <3>3, Proceeding
      <4> QED BY <2>3, <4>1
    <3> QED BY <2>1, <2>3, <2>5, <3>2, <3>3, <3>4, <3>5, <3>6, <3>7 DEF Replaces
  <2> QED BY <2>4, <2>5
<1>4. ASSUME NEW j \in Jobs, Continue(j), DeleteRow(j)
      PROVE  rows' \subseteq rows /\ jobs[j].handler = "ticket"
  <2>1. "delete" \in ToSet(jobs[j].steps)
    BY <1>2, <1>4 DEF DeleteRow, Waiting
  <2>2. jobs[j].handler \in Handlers /\ ToSet(jobs[j].steps) \subseteq CallsOf[jobs[j].handler]
    BY <1>2, <1>4 DEF ServedBy
  <2>3. \A h \in Handlers : "delete" \in CallsOf[h] => h = "ticket"
    BY DEF Handlers, CallsOf
  <2>4. rows' \subseteq rows
    BY <1>4 DEF DeleteRow
  <2> QED BY <2>1, <2>2, <2>3, <2>4
<1>5. ASSUME NEW j \in Jobs, Works(j)
      PROVE  UpdateBinding(j) \/ DeleteRow(j) \/ rows' = rows
  BY <1>5 DEF Works, Continue, EvaluateBound, EvaluateFile, SaveWebhookDelivery,
              AppendHandlerEvent, RecordAdminAction
<1>6. ASSUME NEW j \in Jobs, Works(j)
      PROVE  \/ rows' = rows \/ \E c : Replaces(j, c)
             \/ rows' \subseteq rows /\ jobs[j].handler = "ticket"
  BY <1>3, <1>4, <1>5, <1>6 DEF Works
<1>7. ASSUME NEW j \in Jobs, NEW e, NEW since, Appends(j, e, since) PROVE rows' = rows
  BY <1>7 DEF Appends
<1>8. CASE Crash
  BY <1>8 DEF Crash
<1> QED BY <1>1, <1>6, <1>7, <1>8, Steps DEF Idles

\* Copies are of rows that were made here and, tickets aside, are still there.
Kept(k) ==
    HasCopy(k) =>
        /\ Made(k.row)
        /\ setting.provider # "servicenow" => \E b \in rows : Same(b, k.row)

CopiesOK == \A j \in Jobs : Placed(jobs[j]) /\ Kept(jobs[j])

\* Two active rows clash whichever comes second.
LEMMA ConflictsBothWays ==
    ASSUME NEW provider \in KnownProviders, NEW s \in {"memory", "postgres"}, NEW b, NEW c,
           b.status = "active", c.status = "active"
    PROVE  Conflict(provider, s, b, c) <=> Conflict(provider, s, c, b)
<1>1. CASE s = "postgres"
  BY <1>1 DEF Conflict
<1>2. MemoryConflict(provider, b, c) <=> MemoryConflict(provider, c, b)
  BY DEF KnownProviders, MemoryConflict, GitHubRowsClash, OktaRowsClash, EntraRowsClash,
         SlackRowsClash, AtlassianRowsClash, SalesforceRowsClash
<1>3. CASE s = "memory"
  BY <1>2, <1>3 DEF Conflict
<1> QED BY <1>1, <1>3

\* A row conflicts with what its copies conflict with.
LEMMA SameConflicts ==
    ASSUME SettingOK, NEW b, NEW c, Made(b), Same(c, b), NEW e
    PROVE  /\ Conflict(setting.provider, store, b, e) <=> Conflict(setting.provider, store, c, e)
           /\ Conflict(setting.provider, store, e, b) <=> Conflict(setting.provider, store, e, c)
<1>1. /\ setting.provider \in KnownProviders /\ store \in {"memory", "postgres"}
      /\ BaseFields \cup RowFields[setting.provider] \subseteq DOMAIN b
  BY MadeFields
<1>2. PICK p : p = setting.provider
  OBVIOUS
<1>3. /\ Indexes(p, c) = Indexes(p, b)
      /\ MemoryConflict(p, e, c) <=> MemoryConflict(p, e, b)
      /\ MemoryConflict(p, c, e) <=> MemoryConflict(p, b, e)
  BY <1>1, <1>2, SameKeys
<1> QED BY <1>2, <1>3 DEF Conflict

\* Being the same row but for what is noted on it is an equivalence.
LEMMA SameIsEquivalence ==
    /\ \A b : Same(b, b)
    /\ \A b, c : Same(b, c) => Same(c, b)
    /\ \A b, c, d : Same(b, c) /\ Same(c, d) => Same(b, d)
<1>1. ASSUME NEW b PROVE Same(b, b)
  BY DEF Same
<1>2. ASSUME NEW b, NEW c, Same(b, c) PROVE Same(c, b)
  BY <1>2 DEF Same
<1>3. ASSUME NEW b, NEW c, NEW d, Same(b, c), Same(c, d) PROVE Same(b, d)
  BY <1>3 DEF Same
<1> QED BY <1>1, <1>2, <1>3

\* What a handler copies is the row it read but for what it notes on it, and stays
\* so.
LEMMA CopiesAreSame ==
    /\ \A k, b : Copies(k, b) => Same(k.row, b)
    /\ \A k, m : Moved(k, m) /\ "row" \in DOMAIN k => Same(m.row, k.row)
<1>1. ASSUME NEW k, NEW b, Copies(k, b) PROVE Same(k.row, b)
  <2>1. Noted[k.handler] \subseteq Volatile
    BY <1>1 DEF Copies, HasCopy, Noted, Volatile
  <2> QED BY <1>1, <2>1 DEF Copies, Same
<1>2. ASSUME NEW k, NEW m, Moved(k, m), "row" \in DOMAIN k PROVE Same(m.row, k.row)
  BY <1>2 DEF Moved, Same, Volatile
<1> QED BY <1>1, <1>2

\* The copy that replaces a row is of that row.
LEMMA ReplacedIsSame ==
    ASSUME SettingOK, RowsOK, CopiesOK, NEW j \in Jobs, NEW c, Replaces(j, c),
           setting.provider # "servicenow"
    PROVE  Same(jobs[j].row, c)
<1>1. PICK r : r = jobs[j].row
  OBVIOUS
<1>2. PICK b \in rows : Same(b, r)
  BY <1>1 DEF CopiesOK, Kept, Replaces
<1>3. Made(b) /\ "id" \in DOMAIN b
  <2>1. Made(b)
    BY DEF RowsOK
  <2>2. BaseFields \subseteq DOMAIN b
    BY <2>1, MadeFields
  <2> QED BY <2>1, <2>2 DEF BaseFields
<1>4. b.id = r.id
  BY <1>2, <1>3 DEF Same, Volatile
<1>5. b = c
  BY <1>1, <1>4 DEF Replaces, RowsOK
<1> QED BY <1>1, <1>2, <1>5, SameIsEquivalence

\* However handlers overlap, rows stay apart (SaveBinding, UpdateBinding).
LEMMA RowsKept ==
    ASSUME SettingOK, JobsOK, RowsOK, CopiesOK, [Next]_vars
    PROVE  RowsOK'
<1>1. setting' = setting /\ store' = store
  BY JobsStep
<1>2. ASSUME NEW S, rows' = S, IsFiniteSet(S), \A b \in S : Made(b),
             \A b, c \in S : b.id = c.id => b = c,
             \A b, c \in S : b # c => ~Conflict(setting.provider, store, b, c)
      PROVE  RowsOK'
  BY <1>1, <1>2 DEF RowsOK, Made
<1>3. CASE rows' \subseteq rows
  <2>1. PICK S : S = rows'
    OBVIOUS
  <2>2. S \subseteq rows
    BY <1>3, <2>1
  <2>3. IsFiniteSet(S)
    BY <2>2, FS_Subset DEF RowsOK
  <2> QED BY <1>2, <2>1, <2>2, <2>3 DEF RowsOK
<1>4. ASSUME NEW b, b \in Creatable(setting), \A c \in rows : c.id # b.id, Saves(b),
             rows' = rows \cup {b}
      PROVE  RowsOK'
  <2>1. Made(b)
    BY <1>4, SameIsEquivalence DEF Made
  <2>2. IsFiniteSet(rows \cup {b})
    BY FS_AddElement DEF RowsOK
  <2>3. ASSUME NEW e \in rows
        PROVE  /\ ~Conflict(setting.provider, store, b, e)
               /\ ~Conflict(setting.provider, store, e, b)
    <3>1. ~Conflict(setting.provider, store, b, e)
      BY <1>4 DEF Saves
    <3>2. /\ Made(e) /\ b.status = "active" /\ e.status = "active"
          /\ setting.provider \in KnownProviders /\ store \in {"memory", "postgres"}
      BY <2>1, MadeFields DEF RowsOK
    <3>3. Conflict(setting.provider, store, b, e) <=> Conflict(setting.provider, store, e, b)
      BY <3>2, ConflictsBothWays
    <3> QED BY <3>1, <3>3
  <2> QED BY <1>2, <1>4, <2>1, <2>2, <2>3 DEF RowsOK
<1>5. ASSUME NEW j \in Jobs, NEW c, Replaces(j, c) PROVE RowsOK'
  <2>1. PICK r : r = jobs[j].row
    OBVIOUS
  <2>2. Made(r) /\ Made(c) /\ c \in rows /\ c.id = r.id /\ rows' = (rows \ {c}) \cup {r}
    BY <1>5, <2>1 DEF CopiesOK, Kept, Replaces, RowsOK
  <2>3. IsFiniteSet((rows \ {c}) \cup {r})
    BY FS_AddElement, FS_RemoveElement DEF RowsOK
  <2>4. ASSUME NEW e \in rows, e # c
        PROVE  /\ ~Conflict(setting.provider, store, r, e)
               /\ ~Conflict(setting.provider, store, e, r)
    <3>1. CASE setting.provider = "servicenow"
      BY <3>1 DEF Conflict, MemoryConflict, Indexes
    <3>2. CASE setting.provider # "servicenow"
      <4>1. Same(r, c)
        BY <1>5, <2>1, <3>2, ReplacedIsSame
      <4>2. /\ Conflict(setting.provider, store, c, e) <=> Conflict(setting.provider, store, r, e)
            /\ Conflict(setting.provider, store, e, c) <=> Conflict(setting.provider, store, e, r)
        BY <2>2, <4>1, SameConflicts
      <4> QED BY <2>2, <2>4, <4>2 DEF RowsOK
    <3> QED BY <3>1, <3>2
  <2>5. \A e \in rows : e.id = r.id => e = c
    BY <2>2 DEF RowsOK
  <2> QED BY <1>2, <2>2, <2>3, <2>4, <2>5 DEF RowsOK
<1> QED BY <1>3, <1>4, <1>5, RowsStep DEF Creates, IsNew

\* Copies stay copies: rows go only with tickets, and what replaces a row is a
\* copy of it.
LEMMA CopiesKept ==
    ASSUME SettingOK, JobsOK, RowsOK, CopiesOK, [Next]_vars
    PROVE  CopiesOK'
<1>1. setting' = setting /\ store' = store /\ Jobs' = Jobs
  BY JobsStep DEF Jobs
<1>2. ASSUME setting.provider # "servicenow", NEW r, NEW b \in rows, Same(b, r)
      PROVE  \E c \in rows' : Same(c, r)
  <2>1. CASE rows \subseteq rows'
    BY <1>2, <2>1
  <2>2. ASSUME NEW j \in Jobs, NEW c, Replaces(j, c) PROVE \E d \in rows' : Same(d, r)
    <3>1. CASE b # c
      BY <1>2, <2>2, <3>1 DEF Replaces
    <3>2. CASE b = c
      <4>1. Same(jobs[j].row, c)
        BY <1>2, <2>2, ReplacedIsSame
      <4>2. Same(jobs[j].row, r)
        BY <1>2, <3>2, <4>1, SameIsEquivalence
      <4>3. jobs[j].row \in rows'
        BY <2>2 DEF Replaces
      <4> QED BY <4>2, <4>3
    <3> QED BY <3>1, <3>2
  <2>3. ASSUME NEW j \in Jobs, jobs[j].handler = "ticket" PROVE FALSE
    BY <1>2, <2>3 DEF CopiesOK, Placed
  <2> QED BY <2>1, <2>2, <2>3, RowsStep DEF Creates
<1>3. ASSUME NEW i \in Jobs PROVE Placed(jobs[i])' /\ Kept(jobs[i])'
  <2>1. PICK k, m : k = jobs[i] /\ m = jobs'[i]
    OBVIOUS
  <2>2. Placed(k) /\ Kept(k)
    BY <2>1 DEF CopiesOK
  <2>3. ASSUME NEW r, Made(r), setting.provider # "servicenow" => \E b \in rows : Same(b, r),
               HasCopy(m) => Same(m.row, r)
        PROVE  Kept(m)'
    <3>1. ASSUME HasCopy(m) PROVE Made(m.row)
      BY <2>3, <3>1, SameIsEquivalence DEF Made
    <3>2. ASSUME HasCopy(m), setting.provider # "servicenow"
          PROVE  \E b \in rows' : Same(b, m.row)
      <4>1. PICK b \in rows : Same(b, r)
        BY <2>3, <3>2
      <4>2. Same(b, m.row)
        BY <2>3, <3>2, <4>1, SameIsEquivalence
      <4> QED BY <1>2, <3>2, <4>2
    <3> QED BY <1>1, <3>1, <3>2 DEF Kept, Made
  <2>4. ASSUME m = k \/ (jobs[i].steps # << >> /\ Moved(k, m) /\ ServedBy(i, k))
        PROVE  Placed(m)' /\ Kept(m)'
    <3>1. m.handler = k.handler /\ (HasCopy(m) => HasCopy(k))
      <4>1. ASSUME m # k PROVE "handler" \in DOMAIN k
        BY <2>4, <4>1 DEF ServedBy, Common
      <4> QED BY <2>4, <4>1 DEF Moved, HasCopy
    <3>2. HasCopy(m) => Same(m.row, k.row)
      BY <2>4, <3>1, CopiesAreSame, SameIsEquivalence DEF HasCopy
    <3>3. CASE HasCopy(k)
      <4>1. Kept(m)'
        BY <2>2, <2>3, <3>2, <3>3 DEF Kept
      <4> QED BY <1>1, <2>2, <3>1, <4>1 DEF Placed
    <3>4. CASE ~HasCopy(k)
      BY <1>1, <2>2, <3>1, <3>4 DEF Placed, Kept
    <3> QED BY <3>3, <3>4
  <2>5. ASSUME jobs[i] = NotStarted, m # NotStarted PROVE Placed(m)' /\ Kept(m)'
    <3>1. Request(i)
      BY <2>1, <2>5, Arrived
    <3>2. Placed(m) /\ (HasCopy(m) => \E b \in rows : Copies(m, b))
      BY <2>1, <3>1, RequestRows DEF Creates
    <3>3. ASSUME HasCopy(m) PROVE Kept(m)'
      <4>1. PICK b \in rows : Copies(m, b)
        BY <3>2, <3>3
      <4>2. Same(m.row, b) /\ Made(b)
        BY <4>1, CopiesAreSame DEF RowsOK
      <4> QED BY <2>3, <4>2, SameIsEquivalence
    <3>4. ~HasCopy(m) => Kept(m)'
      BY DEF Kept
    <3> QED BY <1>1, <3>2, <3>3, <3>4 DEF Placed
  <2>6. jobs[i] # NotStarted => ServedBy(i, k)
    BY <2>1 DEF JobsOK
  <2>7. \/ jobs[i] = NotStarted \/ m = k
        \/ jobs[i].steps # << >> /\ Moved(k, m)
    BY <2>1, JobsStep
  <2>8. CASE jobs[i] = NotStarted /\ m # NotStarted
    BY <2>1, <2>5, <2>8
  <2>9. CASE m = k \/ (jobs[i] # NotStarted /\ jobs[i].steps # << >> /\ Moved(k, m))
    BY <2>1, <2>4, <2>6, <2>9
  <2> QED BY <2>1, <2>7, <2>8, <2>9
<1> QED BY <1>1, <1>3 DEF CopiesOK

-----------------------------------------------------------------------------
(* Deliveries.                                                             *)

\* Which request a handler arrived with.
LEMMA Requested ==
    ASSUME JobsOK, NEW j \in Jobs, Request(j)
    PROVE  /\ jobs'[j].handler = "webhook" => \E w \in Webhooks : IngestWebhook(j, w)
           /\ jobs'[j].handler = "resolve" =>
                  \E q \in ResolveRequests[setting.provider], h \in setting.headers :
                      ResolveAuthorityContext(j, q, h)
           /\ jobs'[j].handler = "check" =>
                  \E q \in Checks, h \in setting.headers : PlanCheckRun(j, q, h)
           /\ jobs'[j].handler = "admin" =>
                  \E p \in setting.presented, route \in setting.routes, t \in setting.tenants :
                      ServeAdmin(j, route, p, t)
           /\ jobs'[j].handler = "agent" =>
                  \E h \in setting.headers, route \in setting.routes, q \in AgentRequests :
                      ServeAgent(j, route, h, q)
           /\ jobs'[j].handler = "create" =>
                  \E q \in CreateRequests[setting.provider], p \in setting.presented,
                     id \in FreshIds : CreateBinding(j, q, p, id)
<1>1. \A k : jobs' = [jobs EXCEPT ![j] = k] => jobs'[j] = k
  BY DEF JobsOK
<1>2. ASSUME NEW p, NEW route, NEW t, ServeAdmin(j, route, p, t) PROVE jobs'[j].handler = "admin"
  BY <1>1, <1>2, AdminArrives
<1>3. ASSUME NEW h, NEW route, NEW q, ServeAgent(j, route, h, q) PROVE jobs'[j].handler = "agent"
  BY <1>1, <1>3, AgentArrives
<1>4. ASSUME NEW q, NEW p, NEW id, CreateBinding(j, q, p, id) PROVE jobs'[j].handler = "create"
  BY <1>1, <1>4, CreationArrives DEF CreationStarted
<1>5. ASSUME NEW s, NEW g, jobs' = [jobs EXCEPT ![j] = Job("ticket", s, g)]
      PROVE  jobs'[j].handler = "ticket"
  <2>1. PICK k : k = Job("ticket", s, g)
    OBVIOUS
  <2>2. IsJob(k, "ticket", s, g)
    BY <2>1, JobFields
  <2>3. k.handler = "ticket"
    BY <2>2 DEF IsJob
  <2> QED BY <1>1, <1>5, <2>1, <2>3
<1>6. ASSUME NEW q, NEW id, CreateTicketBinding(j, q, id) PROVE jobs'[j].handler = "ticket"
  <2>1. \E s, g : jobs' = [jobs EXCEPT ![j] = Job("ticket", s, g)]
    BY <1>6 DEF CreateTicketBinding
  <2> QED BY <1>5, <2>1
<1>7. ASSUME NEW q, NEW h, ResolveAuthorityContext(j, q, h) PROVE jobs'[j].handler = "resolve"
  <2>1. PICK k, b, a, actor : jobs' = [jobs EXCEPT ![j] = k]
                              /\ ResolutionStarted(j, q, h, k, b, a, actor)
    BY <1>7, ResolutionArrives
  <2>2. k.handler = "resolve"
    BY <2>1 DEF ResolutionStarted
  <2> QED BY <1>1, <2>1, <2>2
<1>8. ASSUME NEW w, IngestWebhook(j, w) PROVE jobs'[j].handler = "webhook"
  <2>1. PICK k, d : jobs' = [jobs EXCEPT ![j] = k] /\ WebhookStarted(w, k, d)
    BY <1>8, WebhookArrives
  <2>2. k.handler = "webhook"
    BY <2>1 DEF WebhookStarted
  <2> QED BY <1>1, <2>1, <2>2
<1>9. ASSUME NEW q \in Checks, NEW h, PlanCheckRun(j, q, h) PROVE jobs'[j].handler = "check"
  <2>1. PICK k, b, mission : jobs' = [jobs EXCEPT ![j] = k] /\ CheckStarted(j, q, k, b, mission)
    BY <1>9, CheckArrives
  <2>2. k.handler = "check"
    BY <2>1 DEF CheckStarted
  <2> QED BY <1>1, <2>1, <2>2
<1>10. ASSUME NEW b, NEW state, UpdateTicketStatus(j, b, state) PROVE jobs'[j].handler = "ticket"
  BY <1>5, <1>10 DEF UpdateTicketStatus
<1>11. ASSUME NEW b, DeleteTicketBinding(j, b) PROVE jobs'[j].handler = "ticket"
  BY <1>5, <1>11 DEF DeleteTicketBinding
<1> QED BY <1>2, <1>3, <1>4, <1>6, <1>7, <1>8, <1>9, <1>10, <1>11 DEF Request

\* Recorded deliveries are told by their ids, and so are those to be recorded.
Delivers(k) ==
    k.handler = "webhook" =>
        /\ k.delivery.id \in DeliveryIds /\ k.delivery # Nothing
        /\ "row" \in DOMAIN k => k.row.lastDelivery = k.delivery.id

DeliveriesOK ==
    /\ deliveries = [d \in DeliveryIds |-> deliveries[d]]
    /\ \A d \in DeliveryIds : deliveries[d] = Nothing \/ deliveries[d].id = d
    /\ \A j \in Jobs : Delivers(jobs[j])

\* A delivery starts out with what it is recorded as (IngestWebhook).
LEMMA DeliveryArrives ==
    ASSUME SettingOK, JobsOK, RowsOK, NEW j \in Jobs, Request(j), jobs'[j].handler = "webhook"
    PROVE  Delivers(jobs'[j]) /\ "deliver" \in ToSet(jobs'[j].steps)
<1>1. PICK w \in Webhooks : IngestWebhook(j, w)
  BY Requested
<1>2. PICK k, d : jobs' = [jobs EXCEPT ![j] = k] /\ WebhookStarted(w, k, d)
  BY <1>1, WebhookArrives
<1>3. jobs'[j] = k /\ setting.provider = "github"
  BY <1>1, <1>2 DEF JobsOK, IngestWebhook
<1>4. PICK summary : summary = SummarizeWebhook(w.payload)
  OBVIOUS
<1>5. PICK bound : bound = {b \in rows : bindingForRepository(b, summary.repository)}
  OBVIOUS
<1>6. k.delivery = Delivery(w.id, summary, d) /\ "deliver" \in ToSet(k.steps)
  BY <1>2, <1>4 DEF WebhookStarted
<1>7. k.delivery.id = w.id
  BY <1>6 DEF Delivery
<1>8. /\ d \in BindingIds \cup {0}
      /\ "row" \in DOMAIN k => k.row.lastDelivery = w.id
  <2>1. CASE d = 0 /\ "row" \notin DOMAIN k
    BY <2>1
  <2>2. ASSUME NEW b, NEW sha, bound # {}, b = FirstListed("github", store, bound), d = b.id,
               k.row = [b EXCEPT !.lastDelivery = w.id, !.lastSHA = sha]
        PROVE  d \in BindingIds \cup {0} /\ k.row.lastDelivery = w.id
    <3>1. b \in rows
      BY <1>3, <1>5, <2>2, FirstOfRows
    <3>2. Made(b)
      BY <3>1 DEF RowsOK
    <3>3. b.id \in BindingIds /\ BaseFields \cup RowFields[setting.provider] \subseteq DOMAIN b
      BY <3>2, MadeFields
    <3>4. "lastDelivery" \in DOMAIN b
      BY <1>3, <3>3 DEF RowFields
    <3> QED BY <2>2, <3>3, <3>4
  <2>3. \/ d = 0 /\ "row" \notin DOMAIN k
        \/ \E b, sha : /\ bound # {} /\ b = FirstListed("github", store, bound) /\ d = b.id
                       /\ k.row = [b EXCEPT !.lastDelivery = w.id, !.lastSHA = sha]
    <3>1. bound = {b \in rows : bindingForRepository(b, SummarizeWebhook(w.payload).repository)}
      BY <1>4, <1>5
    <3> QED BY <1>2, <3>1 DEF WebhookStarted
  <2> QED BY <2>1, <2>2, <2>3
<1>9. w.id \in DeliveryIds /\ Delivery(w.id, summary, d) # Nothing
  BY <1>4, <1>8, DeliveryAssumption
<1> QED BY <1>3, <1>6, <1>7, <1>8, <1>9 DEF Delivers

\* What a step does to the deliveries: only the handler of one records it, and only
\* when it was not recorded before (SaveWebhookDelivery).
LEMMA DeliveriesStep ==
    ASSUME JobsOK, [Next]_vars
    PROVE  \/ deliveries' = deliveries
           \/ \E j \in Jobs : /\ jobs[j].handler = "webhook" /\ "deliver" \in ToSet(jobs[j].steps)
                              /\ deliveries[jobs[j].delivery.id] = Nothing
                              /\ deliveries' = [deliveries EXCEPT
                                    ![jobs[j].delivery.id] = jobs[j].delivery]
<1>1. ASSUME NEW j \in Jobs, Works(j), SaveWebhookDelivery(j)
      PROVE  jobs[j].handler = "webhook" /\ "deliver" \in ToSet(jobs[j].steps)
  <2>1. ServedBy(j, jobs[j]) /\ jobs[j].steps # << >>
    BY <1>1, Continuing DEF Works
  <2>2. ToSet(jobs[j].steps) = {Head(jobs[j].steps)} \cup ToSet(Tail(jobs[j].steps))
    <3>1. InOrder(jobs[j].steps)
      BY <2>1 DEF ServedBy
    <3> QED BY <2>1, <3>1, Proceeding
  <2>3. "deliver" \in ToSet(jobs[j].steps)
    BY <1>1, <2>2 DEF SaveWebhookDelivery, Waiting
  <2>4. \A h \in Handlers : "deliver" \in CallsOf[h] => h = "webhook"
    BY DEF Handlers, CallsOf
  <2> QED BY <2>1, <2>3, <2>4 DEF ServedBy
<1>2. ASSUME NEW j \in Jobs, Works(j)
      PROVE  SaveWebhookDelivery(j) \/ deliveries' = deliveries
  BY <1>2 DEF Works, Continue, EvaluateBound, EvaluateFile, UpdateBinding, DeleteRow,
              AppendHandlerEvent, RecordAdminAction
<1>3. ASSUME NEW j \in Jobs, Works(j), SaveWebhookDelivery(j)
      PROVE  \/ deliveries' = deliveries
             \/ deliveries[jobs[j].delivery.id] = Nothing
                /\ deliveries' = [deliveries EXCEPT ![jobs[j].delivery.id] = jobs[j].delivery]
  BY <1>3 DEF SaveWebhookDelivery
<1>4. ASSUME NEW j \in Jobs, Request(j) PROVE deliveries' = deliveries
  BY <1>4, RequestStarts
<1>5. ASSUME NEW j \in Jobs, NEW e, NEW since, Appends(j, e, since)
      PROVE  deliveries' = deliveries
  BY <1>5 DEF Appends
<1>6. CASE Crash
  BY <1>6 DEF Crash
<1> QED BY <1>1, <1>2, <1>3, <1>4, <1>5, <1>6, Steps DEF Idles

\* Deliveries are recorded under their ids (SaveWebhookDelivery).
LEMMA DeliveriesKept ==
    ASSUME SettingOK, JobsOK, RowsOK, DeliveriesOK, [Next]_vars
    PROVE  DeliveriesOK'
<1>1. Jobs' = Jobs
  BY JobsStep DEF Jobs
<1>2. ASSUME NEW i \in Jobs PROVE Delivers(jobs[i])'
  <2>1. PICK k, m : k = jobs[i] /\ m = jobs'[i]
    OBVIOUS
  <2>2. Delivers(k)
    BY <2>1 DEF DeliveriesOK
  <2>3. ASSUME jobs[i] # NotStarted, Moved(k, m) PROVE Delivers(m)
    <3>1. ServedBy(i, k)
      BY <2>1, <2>3 DEF JobsOK
    <3>2. m.handler = k.handler /\ DOMAIN m = DOMAIN k
      BY <2>3, <3>1 DEF Moved, ServedBy, Common
    <3>3. k.handler = "webhook" => "delivery" \in DOMAIN k
      BY <3>1 DEF ServedBy, FieldsOf
    <3>4. k.handler = "webhook" => m.delivery = k.delivery
      BY <2>3, <3>3 DEF Moved
    <3>5. k.handler = "webhook" /\ "row" \in DOMAIN k => m.row = k.row
      BY <2>3 DEF Moved
    <3> QED BY <2>2, <3>2, <3>4, <3>5 DEF Delivers
  <2>4. ASSUME jobs[i] = NotStarted, m # NotStarted PROVE Delivers(m)
    <3>1. Request(i)
      BY <2>1, <2>4, Arrived
    <3> QED BY <2>1, <3>1, DeliveryArrives DEF Delivers
  <2>5. \/ jobs[i] = NotStarted \/ m = k \/ Moved(k, m)
    BY <2>1, JobsStep
  <2>6. Delivers(m)
    BY <2>1, <2>2, <2>3, <2>4, <2>5
  <2> QED BY <2>1, <2>6 DEF Delivers
<1>3. CASE deliveries' = deliveries
  BY <1>1, <1>2, <1>3 DEF DeliveriesOK
<1>4. ASSUME NEW j \in Jobs, jobs[j].handler = "webhook",
             deliveries' = [deliveries EXCEPT ![jobs[j].delivery.id] = jobs[j].delivery]
      PROVE  DeliveriesOK'
  <2>1. PICK e : e = jobs[j].delivery
    OBVIOUS
  <2>2. e.id \in DeliveryIds
    BY <1>4, <2>1 DEF DeliveriesOK, Delivers
  <2>3. deliveries' = [d \in DeliveryIds |-> IF d = e.id THEN e ELSE deliveries[d]]
    BY <1>4, <2>1 DEF DeliveriesOK
  <2>4. deliveries' = [d \in DeliveryIds |-> deliveries'[d]]
    BY <2>3
  <2>5. \A d \in DeliveryIds : deliveries'[d] = Nothing \/ deliveries'[d].id = d
    BY <2>2, <2>3 DEF DeliveriesOK
  <2> QED BY <1>1, <1>2, <2>4, <2>5 DEF DeliveriesOK
<1> QED BY <1>3, <1>4, DeliveriesStep

\* Delivery d is recorded, or noted by a handler that is about to record it or died.
Known(d) ==
    /\ d \in DeliveryIds
    /\ \/ deliveries[d] # Nothing
       \/ \E j \in Jobs : /\ jobs[j].handler = "webhook" /\ jobs[j].delivery.id = d
                          /\ "deliver" \in ToSet(jobs[j].steps) \/ jobs[j].cut

\* Whoever names a delivery, a row or a handler's copy of one, names a known one.
NotesOK ==
    setting.provider = "github" =>
        /\ \A b \in rows : b.lastDelivery # 0 => Known(b.lastDelivery)
        /\ \A j \in Jobs : HasCopy(jobs[j]) /\ jobs[j].row.lastDelivery # 0 =>
                               Known(jobs[j].row.lastDelivery)

\* What is recorded stays recorded (SaveWebhookDelivery).
LEMMA RecordedStays ==
    ASSUME JobsOK, DeliveriesOK, [Next]_vars, NEW d \in DeliveryIds, deliveries[d] # Nothing
    PROVE  deliveries'[d] # Nothing
<1>1. ASSUME NEW j \in Jobs, deliveries[jobs[j].delivery.id] = Nothing,
             deliveries' = [deliveries EXCEPT ![jobs[j].delivery.id] = jobs[j].delivery]
      PROVE  deliveries'[d] # Nothing
  BY <1>1
<1> QED BY <1>1, DeliveriesStep

\* A handler that is about to record a delivery stays so, records it, finds it
\* recorded or dies (IngestWebhook).
LEMMA DeliveryAhead ==
    ASSUME JobsOK, DeliveriesOK, [Next]_vars, NEW j \in Jobs, jobs[j].handler = "webhook",
           "deliver" \in ToSet(jobs[j].steps)
    PROVE  \/ "deliver" \in ToSet(jobs'[j].steps)
           \/ jobs'[j].cut
           \/ deliveries'[jobs[j].delivery.id] # Nothing
<1>1. /\ jobs[j].steps # << >> /\ jobs[j] # NotStarted
      /\ Common \subseteq DOMAIN jobs[j] /\ InOrder(jobs[j].steps)
  <2>1. jobs[j] # NotStarted
    BY DEF NotStarted
  <2>2. jobs[j].steps # << >>
    BY DEF ToSet
  <2> QED BY <2>1, <2>2 DEF JobsOK, ServedBy
<1>2. ToSet(jobs[j].steps) = {Head(jobs[j].steps)} \cup ToSet(Tail(jobs[j].steps))
  BY <1>1, Proceeding
<1>3. /\ jobs[j].delivery.id \in DeliveryIds /\ jobs[j].delivery # Nothing
      /\ deliveries = [d \in DeliveryIds |-> deliveries[d]]
  BY DEF DeliveriesOK, Delivers
<1>4. ASSUME Head(jobs[j].steps) # "deliver", jobs' = [jobs EXCEPT ![j] = Proceed(@)]
      PROVE  "deliver" \in ToSet(jobs'[j].steps)
  <2>1. "deliver" \in ToSet(Tail(jobs[j].steps))
    BY <1>2, <1>4
  <2>2. jobs'[j] = [jobs[j] EXCEPT !.steps = Tail(@)]
    BY <1>4 DEF JobsOK, Proceed
  <2>3. jobs'[j].steps = Tail(jobs[j].steps)
    BY <1>1, <2>2 DEF Common
  <2> QED BY <2>1, <2>3
<1>5. ASSUME UpdateBinding(j) PROVE "deliver" \in ToSet(jobs'[j].steps)
  <2>1. jobs' = [jobs EXCEPT ![j] = Proceed(@)] /\ Head(jobs[j].steps) = "update"
    BY <1>5 DEF UpdateBinding, Waiting
  <2> QED BY <1>4, <2>1
<1>6. ASSUME SaveWebhookDelivery(j) PROVE deliveries'[jobs[j].delivery.id] # Nothing
  BY <1>3, <1>6 DEF SaveWebhookDelivery
<1>7. ASSUME DeleteRow(j) PROVE FALSE
  <2>1. "delete" \in ToSet(jobs[j].steps)
    BY <1>2, <1>7 DEF DeleteRow, Waiting
  <2>2. ToSet(jobs[j].steps) \subseteq CallsOf["webhook"]
    BY <1>1 DEF JobsOK, ServedBy
  <2>3. "delete" \notin CallsOf["webhook"]
    BY DEF CallsOf
  <2> QED BY <2>1, <2>2, <2>3
<1>8. ASSUME EvaluateBound(j) \/ EvaluateFile(j) PROVE FALSE
  BY <1>8 DEF EvaluateBound, EvaluateFile
<1>9. ASSUME AppendHandlerEvent(j) \/ RecordAdminAction(j)
      PROVE  "deliver" \in ToSet(jobs'[j].steps)
  <2>1. jobs' = [jobs EXCEPT ![j] = Proceed(@)] /\ Head(jobs[j].steps) \in {"event", "audit"}
    BY <1>9 DEF AppendHandlerEvent, RecordAdminAction, Waiting
  <2> QED BY <1>4, <2>1
<1>11. ASSUME NEW i \in Jobs, Request(i)
       PROVE  "deliver" \in ToSet(jobs'[j].steps)
  <2>1. jobs[i] = NotStarted /\ \E k : jobs' = [jobs EXCEPT ![i] = k]
    BY <1>11, RequestStarts
  <2>2. jobs'[j] = jobs[j]
    BY <1>1, <2>1
  <2> QED BY <2>2
<1>12. ASSUME NEW i \in Jobs, i # j, Continue(i) PROVE jobs'[j] = jobs[j]
  <2>1. \E k : jobs' = [jobs EXCEPT ![i] = k]
    BY <1>12, Continuing
  <2> QED BY <1>12, <2>1
<1>13. CASE Crash
  <2>1. jobs'[j] = [Finish(jobs[j]) EXCEPT !.cut = TRUE]
    BY <1>1, <1>13 DEF Crash
  <2>2. jobs'[j].cut
    BY <1>1, <2>1 DEF Finish, Common
  <2> QED BY <2>2
<1>14. ASSUME jobs' = jobs PROVE "deliver" \in ToSet(jobs'[j].steps)
  BY <1>14
<1>15. CASE Publisher \/ Reader
  <2>1. jobs' = jobs
    BY <1>15 DEF Publisher, Reader, ServeEvents
  <2> QED BY <1>14, <2>1
<1>16. CASE UNCHANGED vars
  BY <1>14, <1>16 DEF vars
<1> QED BY <1>5, <1>6, <1>7, <1>8, <1>9, <1>11, <1>12, <1>13, <1>15, <1>16 DEF Next, Continue

\* A known delivery stays known, whatever overlaps or dies (IngestWebhook).
LEMMA KnownStays ==
    ASSUME SettingOK, JobsOK, DeliveriesOK, [Next]_vars, NEW d, Known(d)
    PROVE  Known(d)'
<1>1. CASE deliveries[d] # Nothing
  BY <1>1, RecordedStays DEF Known
<1>2. ASSUME NEW j \in Jobs, jobs[j].handler = "webhook", jobs[j].delivery.id = d,
             "deliver" \in ToSet(jobs[j].steps) \/ jobs[j].cut
      PROVE  Known(d)'
  <2>1. PICK k, m : k = jobs[j] /\ m = jobs'[j]
    OBVIOUS
  <2>2. k # NotStarted /\ ServedBy(j, k) /\ Jobs' = Jobs
    <3>1. k # NotStarted
      BY <1>2, <2>1 DEF NotStarted
    <3> QED BY <2>1, <3>1, JobsStep DEF JobsOK, Jobs
  <2>3. {"handler", "delivery", "cut"} \subseteq DOMAIN k
    <3>1. k.handler = "webhook"
      BY <1>2, <2>1
    <3>2. FieldsOf["webhook"] = {"delivery", "event"}
      BY DEF FieldsOf
    <3>3. Common \cup FieldsOf["webhook"] \subseteq DOMAIN k
      BY <2>2, <3>1 DEF ServedBy
    <3> QED BY <3>2, <3>3 DEF Common
  <2>4. m = k \/ Moved(k, m)
    BY <2>1, <2>2, JobsStep
  <2>5. m.handler = "webhook" /\ m.delivery.id = d /\ (k.cut => m.cut)
    <3>1. k.handler = "webhook" /\ k.delivery.id = d
      BY <1>2, <2>1
    <3>2. m.handler = k.handler /\ m.delivery = k.delivery
      BY <2>3, <2>4 DEF Moved
    <3>3. m.cut = k.cut \/ m.cut = TRUE
      BY <2>4 DEF Moved
    <3> QED BY <3>1, <3>2, <3>3
  <2>6. "deliver" \in ToSet(m.steps) \/ m.cut \/ deliveries'[d] # Nothing
    BY <1>2, <2>1, <2>5, DeliveryAhead
  <2> QED BY <2>1, <2>2, <2>5, <2>6 DEF Known
<1> QED BY <1>1, <1>2 DEF Known

\* What a handler or a row starts to name is known (IngestWebhook, PlanCheckRun).
LEMMA NotesKept ==
    ASSUME SettingOK, JobsOK, RowsOK, CopiesOK, DeliveriesOK, NotesOK, [Next]_vars
    PROVE  NotesOK'
<1>1. setting' = setting /\ Jobs' = Jobs
  BY JobsStep DEF Jobs
<1> SUFFICES ASSUME setting.provider = "github" PROVE NotesOK'
  BY <1>1 DEF NotesOK
<1>2. \A b \in rows : "lastDelivery" \in DOMAIN b /\ (b.lastDelivery # 0 => Known(b.lastDelivery))
  <2> TAKE b \in rows
  <2>1. BaseFields \cup RowFields[setting.provider] \subseteq DOMAIN b
    BY MadeFields DEF RowsOK
  <2>2. "lastDelivery" \in DOMAIN b
    BY <2>1 DEF RowFields
  <2> QED BY <2>2 DEF NotesOK
<1>3. ASSUME NEW c, NEW d, d = c.lastDelivery, d # 0 => Known(d)
      PROVE  (d # 0 => Known(d))'
  BY <1>3, KnownStays
<1>4. ASSUME NEW b \in rows', b.lastDelivery # 0 PROVE Known(b.lastDelivery)'
  <2>1. PICK d : d = b.lastDelivery
    OBVIOUS
  <2>2. Known(d)
    <3>1. CASE b \in rows
      BY <1>2, <1>4, <2>1, <3>1
    <3>2. ASSUME NEW j \in Jobs, NEW c, Replaces(j, c), b \notin rows PROVE Known(d)
      <4>1. b = jobs[j].row /\ HasCopy(jobs[j])
        BY <1>4, <3>2 DEF Replaces
      <4> QED BY <1>4, <2>1, <4>1 DEF NotesOK
    <3>3. ASSUME NEW j \in Jobs, NEW c, Creates(jobs'[j], c), b \notin rows PROVE Known(d)
      BY <1>4, <3>3 DEF Creates, IsNew
    <3> QED BY <3>1, <3>2, <3>3, RowsStep
  <2>3. Known(d)'
    BY <2>2, KnownStays
  <2> QED BY <2>1, <2>3 DEF Known
<1>5. ASSUME NEW i \in Jobs, HasCopy(jobs'[i]), jobs'[i].row.lastDelivery # 0
      PROVE  Known(jobs[i].row.lastDelivery)'
  <2>1. PICK k, m : k = jobs[i] /\ m = jobs'[i]
    OBVIOUS
  <2>2. PICK d : d = m.row.lastDelivery
    OBVIOUS
  <2>3. ASSUME HasCopy(k), m.row.lastDelivery = k.row.lastDelivery PROVE Known(d)'
    <3>1. Known(d)
      BY <1>5, <2>1, <2>2, <2>3 DEF NotesOK
    <3> QED BY <3>1, KnownStays
  <2>4. ASSUME k # NotStarted, Moved(k, m) PROVE Known(d)'
    <3>1. ServedBy(i, k)
      BY <2>1, <2>4 DEF JobsOK
    <3>2. m.handler = k.handler /\ HasCopy(k)
      BY <1>5, <2>1, <2>4, <3>1 DEF Moved, HasCopy, ServedBy, Common
    <3>3. Made(k.row)
      BY <2>1, <3>2 DEF CopiesOK, Kept
    <3>4. BaseFields \cup RowFields[setting.provider] \subseteq DOMAIN k.row
      BY <3>3, MadeFields
    <3>5. "lastDelivery" \in DOMAIN k.row /\ "row" \in DOMAIN k
      BY <3>2, <3>4 DEF RowFields, HasCopy
    <3>6. m.row.lastDelivery = k.row.lastDelivery
      BY <2>4, <3>5 DEF Moved
    <3> QED BY <2>3, <3>2, <3>6
  <2>5. ASSUME k = NotStarted PROVE Known(d)'
    <3>1. m # NotStarted /\ Request(i)
      <4>1. m # NotStarted
        BY <1>5, <2>1 DEF HasCopy, NotStarted
      <4> QED BY <2>1, <2>5, <4>1, Arrived
    <3>2. CASE m.handler = "webhook"
      <4>1. Delivers(m) /\ "deliver" \in ToSet(m.steps)
        BY <2>1, <3>1, <3>2, DeliveryArrives
      <4>2. d = m.delivery.id /\ d \in DeliveryIds
        BY <1>5, <2>1, <2>2, <3>2, <4>1 DEF Delivers, HasCopy
      <4> QED BY <1>1, <2>1, <3>2, <4>1, <4>2 DEF Known
    <3>3. CASE m.handler # "webhook"
      <4>1. PICK b \in rows : Copies(m, b)
        BY <1>5, <2>1, <3>1, RequestRows DEF Creates
      <4>2. m.handler \in {"resolve", "check", "ticket"}
        BY <1>5, <2>1, <3>3 DEF HasCopy, Noted
      <4>3. "lastDelivery" \notin Noted[m.handler]
        BY <4>2 DEF Noted
      <4>4. m.row.lastDelivery = b.lastDelivery
        BY <1>2, <4>1, <4>3 DEF Copies
      <4>5. Known(d)
        BY <1>2, <1>5, <2>1, <2>2, <4>4
      <4> QED BY <4>5, KnownStays
    <3> QED BY <3>2, <3>3
  <2>6. k = NotStarted \/ m = k \/ Moved(k, m)
    BY <2>1, JobsStep
  <2>7. Known(d)'
    BY <1>5, <2>1, <2>3, <2>4, <2>5, <2>6
  <2> QED BY <2>1, <2>2, <2>7 DEF Known
<1> QED BY <1>1, <1>4, <1>5 DEF NotesOK

-----------------------------------------------------------------------------
(* Requests.                                                               *)

\* Two rows that answer the same request, named mission and tenant, would conflict
\* (Save and bindingFor of the integrations).
LEMMA RivalsConflict ==
    ASSUME NEW provider \in KnownProviders \ {"github", "servicenow"},
           NEW s \in {"memory", "postgres"}, NEW q, q.mission # "", q.tenant # "",
           Serves(provider, q), NEW b, NEW c, Matches(provider, b, q), Matches(provider, c, q)
    PROVE  Conflict(provider, s, b, c)
<1>1. /\ Hinted(b, q) /\ Hinted(c, q)
      /\ b.status = "active" /\ c.status = "active"
      /\ b.tenant = c.tenant /\ b.mission = c.mission
  <2>1. Hinted(b, q) /\ Hinted(c, q)
    BY DEF Matches, KnownProviders, OktaBindingFor, EntraRegistrationFor, SlackBindingFor,
           AtlassianBindingFor, SalesforceBindingFor
  <2> QED BY <2>1 DEF Hinted
<1>2. CASE provider = "okta"
  <2>1. b.issuer = c.issuer /\ b.client = c.client
    BY <1>2 DEF Matches, OktaBindingFor
  <2>2. CASE s = "memory"
    BY <1>1, <1>2, <2>1, <2>2 DEF Conflict, MemoryConflict, OktaRowsClash
  <2>3. CASE s = "postgres"
    <3>1. <<b.issuer, b.client, b.mission>> = <<c.issuer, c.client, c.mission>>
      BY <1>1, <2>1
    <3>2. Indexes(provider, b) \cap Indexes(provider, c) # {}
      BY <1>2, <3>1 DEF Indexes, OktaIndexes
    <3> QED BY <2>3, <3>2 DEF Conflict
  <2> QED BY <2>2, <2>3
<1>3. CASE provider = "entra"
  <2>1. b.issuer = c.issuer /\ b.client = c.client
    BY <1>3 DEF Matches, EntraRegistrationFor
  <2>2. CASE s = "memory"
    BY <1>1, <1>3, <2>1, <2>2 DEF Conflict, MemoryConflict, EntraRowsClash
  <2>3. CASE s = "postgres"
    <3>1. <<b.issuer, b.client, b.mission>> = <<c.issuer, c.client, c.mission>>
      BY <1>1, <2>1
    <3>2. Indexes(provider, b) \cap Indexes(provider, c) # {}
      BY <1>3, <3>1 DEF Indexes, EntraIndexes
    <3> QED BY <2>3, <3>2 DEF Conflict
  <2> QED BY <2>2, <2>3
<1>4. CASE provider = "slack"
  <2>1. b.workspace = c.workspace
    BY <1>4 DEF Matches, SlackBindingFor
  <2>2. CASE s = "memory"
    BY <1>1, <1>4, <2>1, <2>2 DEF Conflict, MemoryConflict, SlackRowsClash
  <2>3. CASE s = "postgres"
    <3>1. <<b.tenant, b.workspace, b.mission>> = <<c.tenant, c.workspace, c.mission>>
      BY <1>1, <2>1
    <3>2. Indexes(provider, b) \cap Indexes(provider, c) # {}
      BY <1>4, <3>1 DEF Indexes, SlackIndexes
    <3> QED BY <2>3, <3>2 DEF Conflict
  <2> QED BY <2>2, <2>3
<1>5. CASE provider = "atlassian"
  <2>1. b.site = c.site \/ (b.cloud # "" /\ b.cloud = c.cloud)
    BY <1>5 DEF Matches, AtlassianBindingFor, SiteMatches, Serves, AtlassianServes, SiteServes
  <2>2. CASE s = "memory"
    BY <1>1, <1>5, <2>1, <2>2 DEF Conflict, MemoryConflict, AtlassianRowsClash
  <2>3. CASE s = "postgres"
    <3>1. CASE b.site = c.site
      <4>1. <<"site", b.tenant, b.site, b.mission>> = <<"site", c.tenant, c.site, c.mission>>
        BY <1>1, <3>1
      <4>2. Indexes(provider, b) \cap Indexes(provider, c) # {}
        BY <1>5, <4>1 DEF Indexes, AtlassianIndexes
      <4> QED BY <2>3, <4>2 DEF Conflict
    <3>2. CASE b.cloud # "" /\ b.cloud = c.cloud
      <4>1. <<"cloud", b.tenant, b.cloud, b.mission>> = <<"cloud", c.tenant, c.cloud, c.mission>>
        BY <1>1, <3>2
      <4>2. Indexes(provider, b) \cap Indexes(provider, c) # {}
        BY <1>5, <3>2, <4>1 DEF Indexes, AtlassianIndexes
      <4> QED BY <2>3, <4>2 DEF Conflict
    <3> QED BY <2>1, <3>1, <3>2
  <2> QED BY <2>2, <2>3
<1>6. CASE provider = "salesforce"
  <2>1. b.site = c.site \/ (b.org # "" /\ b.org = c.org)
    BY <1>6 DEF Matches, SalesforceBindingFor, SiteMatches, Serves, SalesforceServes, SiteServes
  <2>2. CASE s = "memory"
    BY <1>1, <1>6, <2>1, <2>2 DEF Conflict, MemoryConflict, SalesforceRowsClash
  <2>3. CASE s = "postgres"
    <3>1. CASE b.site = c.site
      <4>1. <<"instance", b.tenant, b.site, b.mission>>
            = <<"instance", c.tenant, c.site, c.mission>>
        BY <1>1, <3>1
      <4>2. Indexes(provider, b) \cap Indexes(provider, c) # {}
        BY <1>6, <4>1 DEF Indexes, SalesforceIndexes
      <4> QED BY <2>3, <4>2 DEF Conflict
    <3>2. CASE b.org # "" /\ b.org = c.org
      <4>1. <<"org", b.tenant, b.org, b.mission>> = <<"org", c.tenant, c.org, c.mission>>
        BY <1>1, <3>2
      <4>2. Indexes(provider, b) \cap Indexes(provider, c) # {}
        BY <1>6, <3>2, <4>1 DEF Indexes, SalesforceIndexes
      <4> QED BY <2>3, <4>2 DEF Conflict
    <3> QED BY <2>1, <3>1, <3>2
  <2> QED BY <2>2, <2>3
<1> QED BY <1>2, <1>3, <1>4, <1>5, <1>6 DEF KnownProviders

\* Rows that do not conflict leave a request one binding (bindingFor).
LEMMA RowsAnswerOnce ==
    ASSUME SettingOK, RowsOK
    PROVE  OneBindingPerRequest
<1>1. /\ setting.provider \in KnownProviders \cup {"none"}
      /\ store \in {"memory", "postgres"}
  BY DeploymentAssumption DEF SettingOK, KnownProviders
<1>2. ASSUME setting.provider \notin {"none", "github", "servicenow"},
             NEW q \in ResolveRequests[setting.provider], q.mission # "", q.tenant # ""
      PROVE  Cardinality({b \in rows : Serves(setting.provider, q)
                                         /\ Matches(setting.provider, b, q)}) <= 1
  <2>1. PICK S : S = {b \in rows : Serves(setting.provider, q)
                                     /\ Matches(setting.provider, b, q)}
    OBVIOUS
  <2>2. \A b, c \in S : b = c
    <3> TAKE b \in S, c \in S
    <3>1. Conflict(setting.provider, store, b, c)
      BY <1>1, <1>2, <2>1, RivalsConflict
    <3> QED BY <2>1, <3>1 DEF RowsOK
  <2>3. CASE S = {}
    BY <2>1, <2>3, FS_EmptySet
  <2>4. ASSUME NEW b \in S PROVE Cardinality(S) <= 1
    <3>1. S = {b}
      BY <2>2, <2>4
    <3>2. Cardinality({b}) = 1
      BY FS_Singleton
    <3> QED BY <3>1, <3>2
  <2> QED BY <2>1, <2>3, <2>4
<1>3. ASSUME setting.provider = "github", NEW b \in rows, NEW c \in rows,
             b.repository = c.repository
      PROVE  b = c
  <2>1. b.status = "active" /\ c.status = "active"
    BY MadeFields DEF RowsOK
  <2>2. Conflict(setting.provider, store, b, c)
    BY <1>1, <1>3, <2>1 DEF Conflict, MemoryConflict, GitHubRowsClash, Indexes, GitHubIndexes
  <2> QED BY <2>2 DEF RowsOK
<1> QED BY <1>2, <1>3 DEF OneBindingPerRequest

\* What a resolution answers is decided by the binding it found: the mission, the
\* tenant, the groups and the actor of the evaluation.
UnderBinding(k) ==
    LET q == k.request
        groups == Fold(k.context["groups"])
        required == Fold(Required(k.row))
    IN  k.row.lastStatus = "accepted" =>
            /\ k.mission = k.row.mission /\ q.mission \in {"", k.mission}
            /\ q.tenant \in {"", k.row.tenant}
            /\ k.context["binding"] = {k.row.id}
            /\ required # {} =>
                 IF k.row.mode = "all" THEN required \ groups = {}
                 ELSE \E g \in required : g \in groups
            /\ setting.signatures /\ setting.provider # "servicenow" /\ q.evaluates =>
                 k.actor = k.headers.signer

ResolutionsOK == \A j \in Jobs : jobs[j].handler = "resolve" => UnderBinding(jobs[j])

\* An actor a request is served for.
Acts(actor, route, h, q) == actor \in Actors(setting.signatures, route, h, q)

\* A request that must be signed is served for its signer (bindActorIdentity).
LEMMA SignersAct ==
    ASSUME SettingOK, setting.signatures, NEW route, route.scope \in {"actor", "evaluation"},
           NEW h \in setting.headers, NEW q, route.scope = "evaluation" => q.evaluates,
           NEW actor, Acts(actor, route, h, q)
    PROVE  h.given = "signed" /\ actor = h.signer
<1>1. PICK identity \in verifiedAgentIdentity(setting.signatures, h) :
          actor \in bindActorIdentity(q.actor, identity)
  BY DEF Acts, Actors
<1>2. h.given \in {"none", "partial", "signed"} /\ (h.given = "signed" => h.signer # NoAgent)
  BY DeploymentAssumption DEF SettingOK
<1>3. h.given = "signed" /\ identity = h.signer
  BY <1>1, <1>2 DEF verifiedAgentIdentity
<1> QED BY <1>1, <1>2, <1>3 DEF bindActorIdentity

\* The routes of the integrations are served for an agent when they evaluate.
LEMMA ResolveRoutes ==
    ASSUME NEW provider \in KnownProviders \ {"github", "servicenow"}, NEW q
    PROVE  ResolveRoute(provider, q).scope = "evaluation"
BY DEF KnownProviders, ResolveRoute, resolveOktaAuthorityContext, resolveEntraAuthorityContext,
       authorizeSlackMessageAction, authorizeAtlassianJiraIssueAction,
       authorizeAtlassianConfluencePageAction, authorizeSalesforceRecordAction, Agent

\* An answer that accepts somebody is under the binding (ResolveAuthorityContext).
LEMMA AnswersUnderBinding ==
    ASSUME SettingOK, JobsOK, RowsOK, NEW j \in Jobs, Request(j), jobs'[j].handler = "resolve"
    PROVE  UnderBinding(jobs'[j])
<1>1. PICK q \in ResolveRequests[setting.provider], h \in setting.headers :
          ResolveAuthorityContext(j, q, h)
  BY Requested
<1>2. PICK k, b, a, actor : /\ jobs' = [jobs EXCEPT ![j] = k]
                            /\ ResolutionStarted(j, q, h, k, b, a, actor)
  BY <1>1, ResolutionArrives
<1>3. jobs'[j] = k
  BY <1>2 DEF JobsOK
<1>4. PICK found : found = {x \in rows : Matches(setting.provider, x, q)}
  OBVIOUS
<1>5. /\ found # {} /\ b = FirstListed(setting.provider, store, found)
      /\ a = AnswerFrom(setting.provider, b, q) /\ a # Refused
      /\ actor \in ResolvingActors(q, h)
      /\ k.row = a.row /\ k.request = q /\ k.headers = h /\ k.mission = a.row.mission
      /\ k.actor = actor /\ k.context = a.context
  BY <1>2, <1>4 DEF ResolutionStarted
<1>6. b \in found
  BY <1>4, <1>5, FirstOfRows
<1>7. /\ b \in rows /\ Matches(setting.provider, b, q)
      /\ setting.provider \in KnownProviders \ {"github"}
      /\ BaseFields \cup RowFields[setting.provider] \subseteq DOMAIN b
  <2>1. b \in rows /\ Matches(setting.provider, b, q)
    BY <1>4, <1>6
  <2> QED BY <2>1, MadeFields, DeploymentAssumption DEF RowsOK
<1>8. (q.mission = "" \/ b.mission = q.mission) /\ (q.tenant = "" \/ b.tenant = q.tenant)
  BY <1>7 DEF Matches, KnownProviders, OktaBindingFor, EntraRegistrationFor, SlackBindingFor,
              AtlassianBindingFor, SalesforceBindingFor, TicketBindingFor, Hinted
<1>9. PICK required : required = Required(b)
  OBVIOUS
<1>10. Grants(setting.provider, required, a, b)
  <2>1. Grants(setting.provider, CASE setting.provider = "slack" -> b.roles
                                   [] setting.provider = "salesforce" -> b.sets
                                   [] OTHER -> b.groups, a, b)
    BY <1>5, <1>7, AnswersGrant
  <2> QED BY <1>9, <2>1 DEF Required
<1>11. /\ a.row.mission = b.mission /\ a.row.tenant = b.tenant /\ a.row.id = b.id
       /\ a.row.mode = b.mode /\ Required(a.row) = required
  <2>1. /\ \A f \in DOMAIN b \ {"lastSubject", "lastStatus"} : a.row[f] = b[f]
    BY <1>10 DEF Grants
  <2>2. {"mission", "tenant", "id", "mode"} \subseteq DOMAIN b
    BY <1>7 DEF BaseFields, RowFields, KnownProviders
  <2>3. CASE setting.provider = "slack"
    <3>1. "roles" \in DOMAIN b
      BY <1>7, <2>3 DEF RowFields
    <3> QED BY <1>9, <2>1, <2>2, <2>3, <3>1 DEF Required
  <2>4. CASE setting.provider = "salesforce"
    <3>1. "sets" \in DOMAIN b
      BY <1>7, <2>4 DEF RowFields
    <3> QED BY <1>9, <2>1, <2>2, <2>4, <3>1 DEF Required
  <2>5. CASE setting.provider \notin {"slack", "salesforce"}
    <3>1. "groups" \in DOMAIN b
      BY <1>7, <2>5 DEF RowFields, KnownProviders
    <3> QED BY <1>9, <2>1, <2>2, <2>5, <3>1 DEF Required
  <2> QED BY <2>3, <2>4, <2>5
<1>12. a.row.lastStatus = "accepted" => a.accepted
  <2>1. "lastStatus" \in DOMAIN b
    BY <1>7 DEF BaseFields
  <2> QED BY <1>10, <2>1 DEF Grants
<1>13. ASSUME a.accepted, Fold(required) # {}
       PROVE  IF b.mode = "all" THEN Fold(required) \ Fold(a.context["groups"]) = {}
              ELSE \E g \in Fold(required) : g \in Fold(a.context["groups"])
  <2>1. GroupRequirementSatisfied(Fold(required), Fold(a.context["groups"]), b.mode)
    BY <1>10, <1>13 DEF Grants, Fold, IgnoresCase
  <2> QED BY <1>13, <2>1 DEF GroupRequirementSatisfied
<1>14. ASSUME setting.signatures, setting.provider # "servicenow", q.evaluates
       PROVE  actor = h.signer
  <2>1. PICK route : route = ResolveRoute(setting.provider, q)
    OBVIOUS
  <2>2. route.scope = "evaluation"
    BY <1>7, <1>14, <2>1, ResolveRoutes
  <2>3. Acts(actor, route, h, q)
    BY <1>5, <1>14, <2>1 DEF ResolvingActors, Acts
  <2>4. route.scope \in {"actor", "evaluation"} /\ (route.scope = "evaluation" => q.evaluates)
    BY <1>14, <2>2
  <2> QED BY <1>1, <1>14, <2>3, <2>4, SignersAct
<1>15. a.context["binding"] = {b.id}
  BY <1>10 DEF Grants
<1>16. UnderBinding(k)
  <2>1. k.row.lastStatus = "accepted" => a.accepted
    BY <1>5, <1>12
  <2>2. ASSUME a.accepted
        PROVE  /\ k.mission = k.row.mission /\ q.mission \in {"", k.mission}
               /\ q.tenant \in {"", k.row.tenant} /\ k.context["binding"] = {k.row.id}
               /\ Fold(Required(k.row)) # {} =>
                    IF k.row.mode = "all"
                    THEN Fold(Required(k.row)) \ Fold(k.context["groups"]) = {}
                    ELSE \E g \in Fold(Required(k.row)) : g \in Fold(k.context["groups"])
    BY <1>5, <1>8, <1>11, <1>13, <1>15, <2>2
  <2> QED BY <1>5, <1>14, <2>1, <2>2 DEF UnderBinding
<1> QED BY <1>3, <1>16

\* A resolution stays what it answered (Moved).
LEMMA ResolutionsKept ==
    ASSUME SettingOK, JobsOK, RowsOK, ResolutionsOK, [Next]_vars
    PROVE  ResolutionsOK'
<1>1. Jobs' = Jobs /\ setting' = setting
  BY JobsStep DEF Jobs
<1>2. ASSUME NEW i \in Jobs, jobs'[i].handler = "resolve" PROVE UnderBinding(jobs[i])'
  <2>1. PICK k, m : k = jobs[i] /\ m = jobs'[i]
    OBVIOUS
  <2>2. ASSUME UnderBinding(m) PROVE UnderBinding(jobs[i])'
    BY <1>1, <2>1, <2>2 DEF UnderBinding, Required, Fold, IgnoresCase
  <2>3. CASE k = NotStarted
    <3>1. m # NotStarted
      BY <1>2, <2>1 DEF NotStarted
    <3>2. Request(i)
      BY <2>1, <2>3, <3>1, Arrived
    <3>3. UnderBinding(m)
      BY <1>2, <2>1, <3>2, AnswersUnderBinding
    <3> QED BY <2>2, <3>3
  <2>4. CASE m = k
    <3>1. UnderBinding(m)
      BY <1>2, <2>1, <2>4 DEF ResolutionsOK
    <3> QED BY <2>2, <3>1
  <2>5. CASE k # NotStarted /\ Moved(k, m)
    <3>1. ServedBy(i, k)
      BY <2>1, <2>5 DEF JobsOK
    <3>2. k.handler = "resolve"
      BY <1>2, <2>1, <2>5, <3>1 DEF Moved, ServedBy, Common
    <3>3. {"row", "request", "headers", "mission", "actor", "context"} \subseteq DOMAIN k
      BY <3>1, <3>2 DEF ServedBy, FieldsOf
    <3>4. /\ m.row = k.row /\ m.request = k.request /\ m.headers = k.headers
          /\ m.mission = k.mission /\ m.actor = k.actor /\ m.context = k.context
      BY <2>5, <3>2, <3>3 DEF Moved
    <3>5. UnderBinding(k)
      BY <2>1, <3>2 DEF ResolutionsOK
    <3>6. UnderBinding(m)
      BY <3>4, <3>5 DEF UnderBinding
    <3> QED BY <2>2, <3>6
  <2> QED BY <2>1, <2>3, <2>4, <2>5, JobsStep
<1> QED BY <1>1, <1>2 DEF ResolutionsOK

-----------------------------------------------------------------------------
(* Administrators.                                                         *)

\* Lower case is lower case already, and so are the names of the code.
LEMMA LowerTwice ==
    /\ \A x : Lower(Lower(x)) = Lower(x)
    /\ \A x \in Permissions \cup {"", "owner", "integration-admin"} : Lower(x) = x
BY LoweredAssumption, AccessAssumption DEF Lower

\* The name a role goes by, and what it grants.
Canonical(r) ==
    CASE r \in {"admin", "administrator", "security-admin", "super-admin"} -> "owner"
      [] r \in {"integration_admin", "integration admin"} -> "integration-admin"
      [] OTHER -> r

PermissionsOf(r) ==
    CASE r = "owner"             -> Permissions
      [] r = "approver"          -> {"admin:read", "missions:approve"}
      [] r = "auditor"           -> {"admin:read"}
      [] r = "operator"          -> {"admin:read", "missions:operate", "governance:manage"}
      [] r = "integration-admin" -> {"admin:read", "integrations:manage"}
      [] OTHER                   -> {}

\* Roles one by one (normalizeAdminRoles).
LEMMA RoleNames ==
    ASSUME NEW R, NEW x
    PROVE  x \in normalizeAdminRoles(R) <=>
               \E r \in R : Lower(r) \notin {"", "none"} /\ x = Canonical(Lower(r))
<1>1. normalizeAdminRoles(R) = {Canonical(r) : r \in LowerAll(R) \ {"", "none"}}
  BY DEF normalizeAdminRoles, Canonical
<1>2. x \in normalizeAdminRoles(R) <=>
          \E s : s \in LowerAll(R) /\ s \notin {"", "none"} /\ x = Canonical(s)
  BY <1>1
<1>3. \A s : s \in LowerAll(R) <=> \E r \in R : s = Lower(r)
  BY DEF LowerAll
<1> QED BY <1>2, <1>3

\* A name a role goes by is its own, so that roles are looked up twice to no effect
\* (NewMultiBearerAuthenticator, rolesForAdminGroups).
LEMMA RolesTwice ==
    ASSUME NEW R, NEW x \in normalizeAdminRoles(R)
    PROVE  Lower(x) = x /\ Canonical(x) = x /\ x \notin {"", "none"}
<1>1. PICK r \in R : Lower(r) \notin {"", "none"} /\ x = Canonical(Lower(r))
  BY RoleNames
<1>2. x \in {"owner", "integration-admin"} \/ (x = Lower(r) /\ Canonical(x) = x)
  BY <1>1 DEF Canonical
<1>3. CASE x \in {"owner", "integration-admin"}
  BY <1>3, LowerTwice DEF Canonical
<1>4. CASE x = Lower(r) /\ Canonical(x) = x
  BY <1>1, <1>4, LowerTwice
<1> QED BY <1>2, <1>3, <1>4

\* What roles grant, one by one (rolePermissionStrings).
LEMMA RoleGrants ==
    ASSUME NEW R, NEW p
    PROVE  /\ p \in rolePermissionStrings(R) <=> \E r \in R : p \in PermissionsOf(r)
           /\ p \in rolePermissionStrings(R) => p \in Permissions
<1>1. rolePermissionStrings(R) = UNION {PermissionsOf(r) : r \in R}
  BY DEF rolePermissionStrings, PermissionsOf
<1>2. p \in rolePermissionStrings(R) <=> \E r \in R : p \in PermissionsOf(r)
  BY <1>1
<1>3. \A r : PermissionsOf(r) \subseteq Permissions
  BY DEF PermissionsOf, Permissions
<1> QED BY <1>2, <1>3

\* A role that grants a permission is what some role was given for (normalizeAdminRoles).
LEMMA GrantingRole ==
    ASSUME NEW R, NEW p, p \in rolePermissionStrings(normalizeAdminRoles(R))
    PROVE  \E r \in R : p \in rolePermissionStrings(normalizeAdminRoles({r}))
<1>1. PICK x \in normalizeAdminRoles(R) : p \in PermissionsOf(x)
  BY RoleGrants
<1>2. PICK r \in R : Lower(r) \notin {"", "none"} /\ x = Canonical(Lower(r))
  BY <1>1, RoleNames
<1>3. PICK S : S = {r}
  OBVIOUS
<1>4. x \in normalizeAdminRoles(S)
  BY <1>2, <1>3, RoleNames
<1>5. p \in rolePermissionStrings(normalizeAdminRoles(S))
  BY <1>1, <1>4, RoleGrants
<1> QED BY <1>2, <1>3, <1>5

\* Roles that are known by their names already.
LEMMA KnownRoles ==
    ASSUME NEW R
    PROVE  normalizeAdminRoles(normalizeAdminRoles(R)) = normalizeAdminRoles(R)
<1>1. PICK N : N = normalizeAdminRoles(R)
  OBVIOUS
<1>2. \A x \in N : Lower(x) = x /\ Canonical(x) = x /\ x \notin {"", "none"}
  BY <1>1, RolesTwice
<1>3. ASSUME NEW x PROVE x \in normalizeAdminRoles(N) <=> x \in N
  <2>1. x \in normalizeAdminRoles(N) <=>
            \E r \in N : Lower(r) \notin {"", "none"} /\ x = Canonical(Lower(r))
    BY RoleNames
  <2> QED BY <1>2, <2>1
<1> QED BY <1>1, <1>3

\* Roles by their names and the groups' roles (AuthenticateOIDC).
LEMMA RolesOfBoth ==
    ASSUME NEW R, NEW S, NEW p,
           p \in rolePermissionStrings(normalizeAdminRoles(R \cup normalizeAdminRoles(S)))
    PROVE  \E r \in R \cup S : p \in rolePermissionStrings(normalizeAdminRoles({r}))
<1>1. PICK N : N = normalizeAdminRoles(S)
  OBVIOUS
<1>2. PICK r \in R \cup N : p \in rolePermissionStrings(normalizeAdminRoles({r}))
  <2>1. PICK T : T = R \cup N
    OBVIOUS
  <2>2. p \in rolePermissionStrings(normalizeAdminRoles(T))
    BY <1>1, <2>1
  <2>3. \E r \in T : p \in rolePermissionStrings(normalizeAdminRoles({r}))
    BY <2>2, GrantingRole
  <2> QED BY <2>1, <2>3
<1>3. CASE r \in R
  BY <1>2, <1>3
<1>4. CASE r \in N
  <2>1. PICK T : T = {r}
    OBVIOUS
  <2>2. PICK x \in normalizeAdminRoles(T) : p \in PermissionsOf(x)
    BY <1>2, <2>1, RoleGrants
  <2>3. x = Canonical(Lower(r))
    <3>1. \E y \in T : Lower(y) \notin {"", "none"} /\ x = Canonical(Lower(y))
      BY <2>2, RoleNames
    <3> QED BY <2>1, <3>1
  <2>4. x = r
    BY <1>1, <1>4, <2>3, RolesTwice
  <2>5. p \in rolePermissionStrings(N)
    BY <1>4, <2>2, <2>4, RoleGrants
  <2>6. \E s \in S : p \in rolePermissionStrings(normalizeAdminRoles({s}))
    BY <1>1, <2>5, GrantingRole
  <2> QED BY <2>6
<1> QED BY <1>3, <1>4

\* What an identity is made of, given what was configured or claimed.
IsIdentity(i, tenant, roles, permissions, legacyOwner) ==
    /\ i.tenant = tenant
    /\ i.roles = IF legacyOwner /\ normalizeAdminRoles(roles) = {}
                    /\ normalizeAdminPermissions(permissions) = {}
                 THEN {"owner"} ELSE normalizeAdminRoles(roles)
    /\ i.permissions = normalizeAdminPermissions(permissions) \cup rolePermissionStrings(i.roles)

\* This is what newAdminIdentity makes.
LEMMA IdentityFields ==
    ASSUME NEW subject, NEW tenant, NEW groups, NEW roles, NEW permissions, NEW legacyOwner
    PROVE  IsIdentity(newAdminIdentity(subject, tenant, groups, roles, permissions, legacyOwner),
                      tenant, roles, permissions, legacyOwner)
BY DEF newAdminIdentity, IsIdentity

\* Permissions one by one (normalizeAdminPermissions).
LEMMA PermissionNames ==
    ASSUME NEW P, NEW x
    PROVE  x \in normalizeAdminPermissions(P) <=> x # "" /\ \E y \in P : x = Lower(y)
BY DEF normalizeAdminPermissions, LowerAll

\* A credential that is built into an identity twice gives what it names, or
\* everything if it names nothing (CredentialIdentity, NewMultiBearerAuthenticator).
LEMMA StaticGives ==
    ASSUME NEW c, NEW d, NEW i, IsIdentity(d, c.tenant, c.roles, c.permissions, TRUE),
           IsIdentity(i, d.tenant, d.roles, d.permissions, TRUE),
           NEW permission \in i.permissions
    PROVE  /\ i.tenant = c.tenant
           /\ \/ Names(c.roles, c.permissions, permission)
              \/ LowerAll(c.roles) \subseteq {"", "none"} /\ LowerAll(c.permissions) \subseteq {""}
<1> SUFFICES ASSUME \/ \E r \in c.roles : Lower(r) \notin {"", "none"}
                    \/ \E x \in c.permissions : Lower(x) # ""
             PROVE  Names(c.roles, c.permissions, permission)
  BY DEF LowerAll, IsIdentity
<1>1. PICK named : named = normalizeAdminRoles(c.roles)
  OBVIOUS
<1>2. named # {} \/ normalizeAdminPermissions(c.permissions) # {}
  <2>1. ASSUME NEW r \in c.roles, Lower(r) \notin {"", "none"} PROVE named # {}
    <3>1. Canonical(Lower(r)) \in named
      BY <1>1, <2>1, RoleNames
    <3> QED BY <3>1
  <2>2. ASSUME NEW x \in c.permissions, Lower(x) # ""
        PROVE  normalizeAdminPermissions(c.permissions) # {}
    <3>1. Lower(x) \in normalizeAdminPermissions(c.permissions)
      BY <2>2, PermissionNames
    <3> QED BY <3>1
  <2> QED BY <2>1, <2>2
<1>3. d.roles = named
      /\ d.permissions = normalizeAdminPermissions(c.permissions) \cup rolePermissionStrings(named)
  BY <1>1, <1>2 DEF IsIdentity
<1>4. normalizeAdminRoles(d.roles) = named
  BY <1>1, <1>3, KnownRoles
<1>5. named # {} \/ normalizeAdminPermissions(d.permissions) # {}
  <2>1. ASSUME NEW x \in normalizeAdminPermissions(c.permissions)
        PROVE  x \in normalizeAdminPermissions(d.permissions)
    <3>1. x # "" /\ Lower(x) = x
      <4>1. PICK P : P = c.permissions
        OBVIOUS
      <4>2. x # "" /\ \E y \in P : x = Lower(y)
        BY <2>1, <4>1, PermissionNames
      <4> QED BY <4>2, LowerTwice
    <3>2. x \in d.permissions
      BY <1>3, <2>1
    <3> QED BY <3>1, <3>2, PermissionNames
  <2> QED BY <1>2, <2>1
<1>6. i.permissions = normalizeAdminPermissions(d.permissions) \cup rolePermissionStrings(named)
  BY <1>4, <1>5 DEF IsIdentity
<1>7. ASSUME permission \in rolePermissionStrings(named)
      PROVE  Names(c.roles, c.permissions, permission)
  BY <1>1, <1>7, GrantingRole DEF Names
<1>8. ASSUME permission \in normalizeAdminPermissions(d.permissions)
      PROVE  Names(c.roles, c.permissions, permission)
  <2>1. PICK y \in d.permissions : permission = Lower(y)
    BY <1>8, PermissionNames
  <2>2. CASE y \in normalizeAdminPermissions(c.permissions)
    <3>1. PICK z \in c.permissions : y = Lower(z)
      BY <2>2, PermissionNames
    <3>2. permission = Lower(z)
      BY <2>1, <3>1, LowerTwice
    <3> QED BY <3>2 DEF Names, LowerAll
  <2>3. CASE y \in rolePermissionStrings(named)
    <3>1. y \in Permissions
      BY <2>3, RoleGrants
    <3>2. permission = y
      BY <2>1, <3>1, LowerTwice
    <3> QED BY <1>7, <2>3, <3>2
  <2> QED BY <1>3, <2>1, <2>2, <2>3
<1> QED BY <1>6, <1>7, <1>8

\* Whoever is let in was given the permission, and is confined to the tenant of the
\* credential (AuthenticateBearer, AuthenticateOIDC).
LEMMA CredentialsGive ==
    ASSUME NEW p, NEW i, i = AdminAuthenticatorFromEnv(setting.login, p), i # Nobody
    PROVE  /\ i.tenant = ConfinedTo(p)
           /\ \A permission \in i.permissions : Given(p, permission)
<1>1. CASE setting.login = "static"
  <2>1. i = AuthenticateBearer(p.token)
    BY <1>1 DEF AdminAuthenticatorFromEnv
  <2>2. p.token \in DOMAIN StaticIdentities /\ i = StaticIdentities[p.token]
    BY <2>1 DEF AuthenticateBearer
  <2>3. PICK c, d : c = Static[p.token] /\ d = CredentialIdentity(c)
    OBVIOUS
  <2>4. i = NewMultiBearerAuthenticator(d)
    BY <2>2, <2>3 DEF StaticIdentities
  <2>5. IsIdentity(d, c.tenant, c.roles, c.permissions, TRUE)
    BY <2>3, IdentityFields DEF CredentialIdentity
  <2>6. IsIdentity(i, d.tenant, d.roles, d.permissions, TRUE)
    BY <2>4, IdentityFields DEF NewMultiBearerAuthenticator
  <2>7. i.tenant = ConfinedTo(p)
    BY <1>1, <2>3, <2>5, <2>6 DEF IsIdentity, ConfinedTo
  <2>8. ASSUME NEW permission \in i.permissions PROVE Given(p, permission)
    BY <1>1, <2>3, <2>5, <2>6, StaticGives DEF Given
  <2> QED BY <2>7, <2>8
<1>2. CASE setting.login # "static"
  <2>1. PICK t : t = CHOOSE x \in p.jwt : TRUE
    OBVIOUS
  <2>2. p.jwt # {} /\ i = AuthenticateOIDC(t)
    BY <1>2, <2>1 DEF AdminAuthenticatorFromEnv
  <2>3. t \in p.jwt
    BY <2>1, <2>2
  <2>4. PICK groups, tenant, roles, permissions :
             /\ groups = ListClaim(t, Oidc.groupsClaim)
             /\ tenant = firstString(<<TextClaim(t, Oidc.tenantClaim),
                                       IF Oidc.tenantClaim = "tenant_subject"
                                       THEN TextClaim(t, "tenant") ELSE "">>)
             /\ roles = ListClaim(t, Oidc.rolesClaim)
             /\ permissions = ListClaim(t, Oidc.permissionsClaim)
    OBVIOUS
  <2>5. PICK subject : subject = TextClaim(t, Oidc.subjectClaim)
    OBVIOUS
  <2>6. /\ verifyJWT(t) /\ audienceMatches(t) /\ validateJWTTimeClaims(t)
        /\ i = newAdminIdentity(subject, tenant, groups,
                   roles \cup rolesForAdminGroups(groups), permissions, FALSE)
    BY <2>2, <2>4, <2>5 DEF AuthenticateOIDC
  <2>7. PICK mapped : mapped = UNION {Oidc.mapping[g] : g \in groups \cap DOMAIN Oidc.mapping}
    OBVIOUS
  <2>8. IsIdentity(i, tenant, roles \cup normalizeAdminRoles(mapped), permissions, FALSE)
    BY <2>6, <2>7, IdentityFields DEF rolesForAdminGroups
  <2>9. i.tenant = ConfinedTo(p)
    <3>1. ConfinedTo(p) = firstString(<<TextClaim(t, Oidc.tenantClaim),
                                        IF Oidc.tenantClaim = "tenant_subject"
                                        THEN TextClaim(t, "tenant") ELSE "">>)
      BY <1>2, <2>1 DEF ConfinedTo
    <3>2. ConfinedTo(p) = tenant
      BY <2>4, <3>1
    <3>3. i.tenant = tenant
      BY <2>8 DEF IsIdentity
    <3> QED BY <3>2, <3>3
  <2>10. ASSUME NEW permission \in i.permissions PROVE Given(p, permission)
    <3>1. \/ permission \in normalizeAdminPermissions(permissions)
          \/ permission \in rolePermissionStrings(
                                normalizeAdminRoles(roles \cup normalizeAdminRoles(mapped)))
      BY <2>8, <2>10 DEF IsIdentity
    <3>2. Names(roles \cup mapped, permissions, permission)
      <4>1. CASE permission \in normalizeAdminPermissions(permissions)
        BY <4>1, PermissionNames DEF Names, LowerAll
      <4>2. CASE permission \in rolePermissionStrings(
                                    normalizeAdminRoles(roles \cup normalizeAdminRoles(mapped)))
        BY <4>2, RolesOfBoth DEF Names
      <4> QED BY <3>1, <4>1, <4>2
    <3>3. \E k \in DOMAIN Oidc.keys : Oidc.keys[k] = t.signedWith
      BY <2>6 DEF verifyJWT, keyForHeader
    <3>4. Oidc.audience \in t.aud /\ Now < t.exp
      BY <2>6 DEF audienceMatches, validateJWTTimeClaims
    <3> QED BY <1>2, <2>3, <2>4, <2>7, <3>2, <3>3, <3>4 DEF Given
  <2> QED BY <2>9, <2>10
<1> QED BY <1>1, <1>2

\* Routes for administrators ask for a permission, those for agents take the
\* agent from the actor or from the subject of the request.
Scopes == {"bind", "query", "filter", "ensure", "none"}

Usual(route) ==
    \/ route.caller = "admin" /\ route.permission \in Permissions /\ route.scope \in Scopes
    \/ route.caller = "agent" /\ route.scope \in {"actor", "subject"}
    \/ route.caller = "anyone"

\* Routes are of three kinds only, by who calls them, and bindings are created where
\* integrations are managed (the handlers of http.go).
LEMMA UsualRoutes ==
    /\ \A route \in Routes : Usual(route)
    /\ \A provider \in KnownProviders \ {"servicenow"} :
           CreateRoute(provider) = Write("integrations:manage", "bind")
<1>1. \A permission \in Permissions, scope \in Scopes : Usual(Write(permission, scope))
  BY DEF Usual, Write
<1>2. \A scope \in Scopes : Usual(Read(scope))
  BY DEF Usual, Read, Permissions
<1>3. \A body \in {"actor", "subject"} : Usual(Agent(body))
  BY DEF Usual, Agent
<1>4. Usual(Open)
  BY DEF Usual, Open
<1>5. {"admin:read", "missions:approve", "missions:operate", "governance:manage",
       "integrations:manage"} = Permissions
      /\ {"bind", "query", "filter", "ensure", "none"} = Scopes
  BY DEF Permissions, Scopes
<1>6. /\ \A route \in {registerAgent, getAgent, revokeAgent, listAgents, createProposal, getProposal,
                      listProposals, approveProposal, listMissions, introspect, revoke, complete,
                      missionLineage, agentLineage, getExpansionRequest, listExpansions,
                      approveExpansionRequest, denyExpansionRequest, submitExpansionApproval,
                      getAuthorityNegotiation, createApprovalRule, listApprovalRules} : Usual(route)
      /\ \A route \in {registerToolContract, getToolContract, listToolContracts, listProjections,
                      getProjectionStatus, revokeProjection, createPolicyBundle, listPolicyBundles,
                      getPolicyBundle, activatePolicyBundle, simulatePolicyBundle,
                      createContainmentRule, listContainmentRules, getContainmentRule,
                      liftContainmentRule, containmentBlastRadius, adminSession,
                      operationsSummary, events, eventsStream} : Usual(route)
  BY <1>1, <1>2, <1>5
     DEF registerAgent, getAgent, revokeAgent, listAgents, createProposal, getProposal,
         listProposals, approveProposal, listMissions, introspect, revoke, complete,
         missionLineage, agentLineage, getExpansionRequest, listExpansions,
         approveExpansionRequest, denyExpansionRequest, submitExpansionApproval,
         getAuthorityNegotiation, createApprovalRule, listApprovalRules,
         registerToolContract, getToolContract, listToolContracts, listProjections,
         getProjectionStatus, revokeProjection, createPolicyBundle, listPolicyBundles,
         getPolicyBundle, activatePolicyBundle, simulatePolicyBundle, createContainmentRule,
         listContainmentRules, getContainmentRule, liftContainmentRule,
         containmentBlastRadius, adminSession, operationsSummary, events, eventsStream
<1>7. \A route \in {listGitHubRepositoryBindings, listOktaAppBindings, listEntraAppRegistrations,
                    listSlackWorkspaceBindings, listAtlassianSiteBindings,
                    listSalesforceOrgBindings, evaluate, resume, delegate,
                    createExpansionRequest, createAuthorityNegotiation, authorizeToolCall,
                    createProjection, exchangeProjectionToken, createMissionLease,
                    refreshMissionLease, authZENEvaluation, authZENEvaluations,
                    verifyDecisionArtifact, verifyProjection, verifyCredentialAccessToken} :
          Usual(route)
  BY <1>2, <1>3, <1>4, <1>5
     DEF listGitHubRepositoryBindings, listOktaAppBindings, listEntraAppRegistrations,
         listSlackWorkspaceBindings, listAtlassianSiteBindings,
         listSalesforceOrgBindings, evaluate, resume, delegate,
         createExpansionRequest, createAuthorityNegotiation, authorizeToolCall,
         createProjection, exchangeProjectionToken, createMissionLease,
         refreshMissionLease, authZENEvaluation, authZENEvaluations,
         verifyDecisionArtifact, verifyProjection, verifyCredentialAccessToken
<1>8. \A route \in Routes : Usual(route)
  BY <1>6, <1>7 DEF Routes
<1>9. \A provider \in KnownProviders \ {"servicenow"} :
          CreateRoute(provider) = Write("integrations:manage", "bind")
  BY DEF KnownProviders, CreateRoute, createGitHubRepositoryBinding, createOktaAppBinding,
         createEntraAppRegistration, createSlackWorkspaceBinding, createAtlassianSiteBinding,
         createSalesforceOrgBinding
<1> QED BY <1>8, <1>9

\* Who passes holds the permission, and is served its own tenant.
LEMMA PermittedAreGiven ==
    ASSUME NEW p, NEW route, route.permission \in Permissions, NEW i,
           i = AdminAuthenticatorFromEnv(setting.login, p),
           requireAdminPermission(i, route) = 200
    PROVE  Given(p, route.permission) /\ i.tenant = ConfinedTo(p)
<1>1. i # Nobody /\ adminIdentityHasPermission(i, route.permission)
  BY DEF requireAdminPermission
<1>2. route.permission \in i.permissions
  BY <1>1 DEF adminIdentityHasPermission, Permissions
<1> QED BY <1>1, <1>2, CredentialsGive

\* An administrator who is bound to a tenant is served rows of that tenant only, on
\* every route that looks at tenants (bindAdminTenant).
LEMMA ServedOwnTenant ==
    ASSUME NEW i, i.tenant # "", NEW route, route.scope \in Scopes \ {"none"}, NEW tenant,
           NEW t \in Served(i, route, tenant, Tenants)
    PROVE  Lower(t) = Lower(i.tenant)
<1>1. bindAdminTenant(i, tenant) \subseteq {i.tenant}
  BY DEF bindAdminTenant
<1>2. CASE route.scope = "bind"
  BY <1>1, <1>2 DEF Served
<1>3. CASE route.scope = "query"
  <2>1. PICK u \in bindAdminTenant(i, tenant) :
            t \in IF u = "" THEN Tenants ELSE {x \in Tenants : Lower(x) = Lower(u)}
    BY <1>3 DEF Served
  <2> QED BY <1>1, <2>1
<1>4. CASE route.scope = "filter"
  BY <1>4 DEF Served
<1>5. CASE route.scope = "ensure"
  BY <1>5 DEF Served, ensureAdminTenantAccess
<1> QED BY <1>2, <1>3, <1>4, <1>5 DEF Scopes

\* A tenant that is named is not the default one.
LEMMA FirstGiven ==
    ASSUME NEW s, 1 \in DOMAIN s, \A n \in DOMAIN s : n \in Int /\ 1 <= n, s[1] # ""
    PROVE  firstString(s) = s[1]
<1> DEFINE given == {n \in DOMAIN s : s[n] # ""}
           k == CHOOSE n \in given : \A l \in given : n <= l
<1>1. 1 \in given /\ \A l \in given : l \in Int /\ 1 <= l
  OBVIOUS
<1>2. firstString(s) = IF given = {} THEN "" ELSE s[k]
  BY DEF firstString
<1> HIDE DEF given
<1>3. k \in given /\ \A l \in given : k <= l
  <2>1. 1 \in given /\ \A l \in given : 1 <= l
    BY <1>1
  <2> QED BY <2>1
<1> HIDE DEF k
<1>4. k = 1
  <2>1. k \in Int /\ 1 <= k /\ k <= 1
    BY <1>1, <1>3
  <2> QED BY ONLY <2>1
<1> QED BY <1>1, <1>2, <1>4

\* What an administrator's handler serves was given to its credential.
AdminAllowed(k) ==
    k.served # {} =>
        /\ Given(k.presented, k.route.permission)
        /\ k.route.scope # "none" /\ ConfinedTo(k.presented) # "" =>
             \A t \in k.served : Lower(t) = Lower(ConfinedTo(k.presented))

\* An agent that must sign has signed, and whoever signed is who acts.
AgentAllowed(k) ==
    /\ setting.signatures => k.headers.given = "signed"
    /\ k.headers.given = "signed" => k.actor = k.headers.signer

\* They are when the handlers arrive (ServeAdmin, CreateBinding).
LEMMA AdminsAllowed ==
    ASSUME SettingOK, JobsOK, RowsOK, NEW j \in Jobs, Request(j),
           jobs'[j].handler \in {"admin", "create"}
    PROVE  AdminAllowed(jobs'[j])
<1>1. ASSUME NEW k, jobs' = [jobs EXCEPT ![j] = k] PROVE jobs'[j] = k
  BY <1>1 DEF JobsOK
<1>2. CASE jobs'[j].handler = "admin"
  <2>1. PICK p \in setting.presented, route \in setting.routes, tenant \in setting.tenants :
            ServeAdmin(j, route, p, tenant)
    BY <1>2, Requested
  <2>2. PICK i : i = AdminAuthenticatorFromEnv(setting.login, p)
    OBVIOUS
  <2>3. PICK k : /\ jobs' = [jobs EXCEPT ![j] = k] /\ k.route = route /\ k.presented = p
                 /\ k.served = IF requireAdminPermission(i, route) = 200
                               THEN Served(i, route, tenant, Tenants) ELSE {}
    <3>1. \E k : /\ jobs' = [jobs EXCEPT ![j] = k] /\ k.route = route /\ k.presented = p
                 /\ LET u == AdminAuthenticatorFromEnv(setting.login, p)
                    IN  k.served = IF requireAdminPermission(u, route) = 200
                                   THEN Served(u, route, tenant, Tenants) ELSE {}
      BY <2>1, AdminArrives
    <3> QED BY <2>2, <3>1
  <2>4. route \in Routes /\ route.caller = "admin"
    BY <2>1, DeploymentAssumption DEF SettingOK, ServeAdmin
  <2>5. route.permission \in Permissions /\ route.scope \in Scopes
    BY <2>4, UsualRoutes DEF Usual
  <2>6. ASSUME k.served # {}
        PROVE  /\ Given(p, route.permission) /\ i.tenant = ConfinedTo(p)
               /\ k.served = Served(i, route, tenant, Tenants)
    <3>1. requireAdminPermission(i, route) = 200
      BY <2>3, <2>6
    <3> QED BY <2>2, <2>3, <2>5, <3>1, PermittedAreGiven
  <2>7. ASSUME k.served # {}, k.route.scope # "none", ConfinedTo(k.presented) # "",
               NEW t \in k.served
        PROVE  Lower(t) = Lower(ConfinedTo(k.presented))
    <3>1. i.tenant = ConfinedTo(p) /\ t \in Served(i, route, tenant, Tenants) /\ i.tenant # ""
          /\ route.scope \in Scopes \ {"none"}
      BY <2>3, <2>5, <2>6, <2>7
    <3>2. Lower(t) = Lower(i.tenant)
      BY <3>1, ServedOwnTenant
    <3> QED BY <2>3, <3>1, <3>2
  <2>8. k.served # {} => Given(k.presented, k.route.permission)
    BY <2>3, <2>6
  <2>9. AdminAllowed(k)
    BY <2>7, <2>8 DEF AdminAllowed
  <2> QED BY <1>1, <2>3, <2>9
<1>3. CASE jobs'[j].handler = "create"
  <2>1. PICK q \in CreateRequests[setting.provider], p \in setting.presented, id \in FreshIds :
            CreateBinding(j, q, p, id)
    BY <1>3, Requested
  <2>2. PICK i : i = AdminAuthenticatorFromEnv(setting.login, p)
    OBVIOUS
  <2>3. PICK route : route = CreateRoute(setting.provider)
    OBVIOUS
  <2>4. PICK k : jobs' = [jobs EXCEPT ![j] = k] /\ CreationStarted(j, q, p, id, k)
    BY <2>1, CreationArrives
  <2>5. setting.provider \in KnownProviders \ {"servicenow"}
    <3>1. setting.provider \in KnownProviders \cup {"none"}
      BY DeploymentAssumption DEF SettingOK, KnownProviders
    <3>2. CreateRequests[setting.provider] # {}
      BY <2>1
    <3>3. setting.provider # "servicenow"
      BY <2>1 DEF CreateBinding
    <3> QED BY <3>1, <3>2, <3>3, DeploymentAssumption
  <2>6. route.permission \in Permissions /\ route.scope = "bind"
    <3>1. route = Write("integrations:manage", "bind")
      BY <2>3, <2>5, UsualRoutes
    <3> QED BY <3>1 DEF Write, Permissions
  <2>7. k.route = route /\ k.presented = p
    BY <2>3, <2>4 DEF CreationStarted
  <2>8. ASSUME k.served # {}
        PROVE  /\ Given(p, route.permission) /\ i.tenant = ConfinedTo(p)
               /\ i.tenant # "" => \A t \in k.served : t = i.tenant \/ Lower(t) = Lower(i.tenant)
    <3>1. requireAdminPermission(i, route) = 200
      BY <2>2, <2>3, <2>4, <2>8 DEF CreationStarted
    <3>2. PICK tenant \in bindAdminTenant(i, q.tenant) :
              \E b : /\ b = NewBinding(setting.provider, [q EXCEPT !.tenant = tenant], id, j)
                     /\ Saves(b) /\ rows' = rows \cup {b}
                     /\ k.event = CreatedEvent(j, b)
                     /\ k.served = {b.tenant}
                     /\ "event" \in DOMAIN k
      BY <2>2, <2>4, <2>8 DEF CreationStarted
    <3>3. PICK r : r = [q EXCEPT !.tenant = tenant]
      OBVIOUS
    <3>4. PICK b : /\ b = NewBinding(setting.provider, r, id, j)
                   /\ b # Refused /\ k.served = {b.tenant}
      BY <3>2, <3>3 DEF Saves
    <3>5. IsBinding(setting.provider, b, r, id, j)
      BY <2>5, <3>4, NewBindingFields
    <3>6. b.tenant = firstString(<<r.tenant, "default">>)
      BY <3>5 DEF IsBinding
    <3>7. ASSUME i.tenant # "" PROVE b.tenant = i.tenant
      <4>1. tenant = i.tenant
        BY <3>2, <3>7 DEF bindAdminTenant
      <4>2. r.tenant = tenant
        BY <2>1, <3>3, DeploymentAssumption DEF SettingOK
      <4>3. PICK s : s = <<r.tenant, "default">>
        OBVIOUS
      <4>4. /\ 1 \in DOMAIN s /\ s[1] = r.tenant
            /\ \A n \in DOMAIN s : n \in Int /\ 1 <= n
        BY <4>3
      <4>5. b.tenant = firstString(s)
        BY <3>6, <4>3
      <4> QED BY <3>7, <4>1, <4>2, <4>4, <4>5, FirstGiven
    <3>8. Given(p, route.permission) /\ i.tenant = ConfinedTo(p)
      BY <2>2, <2>6, <3>1, PermittedAreGiven
    <3>9. i.tenant # "" => \A t \in k.served : t = i.tenant
      BY <3>4, <3>7
    <3> QED BY <3>8, <3>9
  <2>9. AdminAllowed(k)
    BY <2>7, <2>8 DEF AdminAllowed
  <2> QED BY <1>1, <2>4, <2>9
<1> QED BY <1>2, <1>3

\* And when agents do (ServeAgent).
LEMMA AgentsAllowed ==
    ASSUME SettingOK, JobsOK, NEW j \in Jobs, Request(j), jobs'[j].handler = "agent"
    PROVE  AgentAllowed(jobs'[j])
<1>1. PICK h \in setting.headers, route \in setting.routes, q \in AgentRequests :
          ServeAgent(j, route, h, q)
  BY Requested
<1>2. PICK k : /\ jobs' = [jobs EXCEPT ![j] = k] /\ k.headers = h
               /\ k.actor \in Actors(setting.signatures, route, h, q)
  BY <1>1, AgentArrives
<1>3. jobs'[j] = k
  BY <1>2 DEF JobsOK
<1>4. route.scope \in {"actor", "subject"}
  <2>1. route \in Routes /\ route.caller = "agent"
    BY <1>1, DeploymentAssumption DEF SettingOK, ServeAgent
  <2> QED BY <2>1, UsualRoutes DEF Usual
<1>5. /\ h.given \in {"none", "partial", "signed"}
      /\ h.given = "signed" =>
            h.signer # NoAgent /\ h.signer = [instance |-> h.signer.instance,
                                              client |-> h.signer.client]
  BY <1>1, DeploymentAssumption DEF SettingOK
<1>6. PICK actor : actor = k.actor
  OBVIOUS
<1>7. PICK identity \in verifiedAgentIdentity(setting.signatures, h) :
          actor \in IF route.scope = "subject"
                    THEN {EvaluateAuthZEN(s) : s \in bindAuthZENSubjectIdentity(q.subject, identity)}
                    ELSE bindActorIdentity(q.actor, identity)
  <2>1. route.scope # "evaluation"
    BY <1>4
  <2> QED BY <1>2, <1>6, <2>1 DEF Actors
<1>8. setting.signatures => h.given = "signed"
  BY <1>5, <1>7 DEF verifiedAgentIdentity
<1>9. ASSUME h.given = "signed" PROVE actor = h.signer
  <2>1. identity = h.signer /\ identity # NoAgent
    BY <1>5, <1>7, <1>9 DEF verifiedAgentIdentity
  <2>2. CASE route.scope = "actor"
    BY <1>7, <2>1, <2>2 DEF bindActorIdentity
  <2>3. CASE route.scope = "subject"
    <3>1. PICK s \in bindAuthZENSubjectIdentity(q.subject, identity) : actor = EvaluateAuthZEN(s)
      BY <1>7, <2>3
    <3>2. s = [q.subject EXCEPT !.id = identity.instance, !.instance = identity.instance,
                                !.client = identity.client]
      BY <2>1, <3>1 DEF bindAuthZENSubjectIdentity
    <3>3. {"id", "instance", "client"} \subseteq DOMAIN q.subject
      BY <1>1, SubjectAssumption
    <3>4. s.id = identity.instance /\ s.instance = identity.instance /\ s.client = identity.client
      BY <3>2, <3>3
    <3>5. firstString(<<s.instance, s.id>>) = identity.instance
      <4>1. PICK t : t = <<s.instance, s.id>>
        OBVIOUS
      <4>2. /\ DOMAIN t = {1, 2} /\ t[1] = identity.instance /\ t[2] = identity.instance
            /\ \A n \in DOMAIN t : n \in Int /\ 1 <= n
        BY <3>4, <4>1
      <4>3. CASE identity.instance # ""
        <5>1. firstString(t) = t[1]
          BY <4>2, <4>3, FirstGiven
        <5> QED BY <4>1, <4>2, <5>1
      <4>4. CASE identity.instance = ""
        <5>1. {n \in DOMAIN t : t[n] # ""} = {}
          BY <4>2, <4>4
        <5>2. firstString(t) = ""
          BY <5>1 DEF firstString
        <5> QED BY <4>1, <4>4, <5>2
      <4> QED BY <4>3, <4>4
    <3>6. actor = [instance |-> identity.instance, client |-> identity.client]
      BY <3>1, <3>4, <3>5 DEF EvaluateAuthZEN
    <3> QED BY <1>5, <1>9, <2>1, <3>6
  <2> QED BY <1>4, <2>2, <2>3
<1>10. AgentAllowed(k)
  BY <1>2, <1>6, <1>8, <1>9 DEF AgentAllowed
<1> QED BY <1>3, <1>10

\* The handler with record k created row b.
MadeBy(k, b) ==
    k.handler = "create" /\ "event" \in DOMAIN k /\ b.tenant \in k.served /\ k.event.about = <<b.id>>

AuthorityOK ==
    /\ \A j \in Jobs : /\ jobs[j].handler \in {"admin", "create"} => AdminAllowed(jobs[j])
                       /\ jobs[j].handler = "agent" => AgentAllowed(jobs[j])
    /\ setting.provider # "servicenow" => \A b \in rows : \E j \in Jobs : MadeBy(jobs[j], b)

\* A handler stays as allowed as it arrived, rows keep their tenant and their id
\* whoever writes them (Moved, Same).
LEMMA AuthorityKept ==
    ASSUME SettingOK, JobsOK, RowsOK, CopiesOK, AuthorityOK, [Next]_vars
    PROVE  AuthorityOK'
<1>1. Jobs' = Jobs /\ setting' = setting
  BY JobsStep DEF Jobs
<1>2. ASSUME NEW i \in Jobs
      PROVE  /\ jobs'[i].handler \in {"admin", "create"} => AdminAllowed(jobs[i])'
             /\ jobs'[i].handler = "agent" => AgentAllowed(jobs[i])'
             /\ \A b : MadeBy(jobs[i], b) => MadeBy(jobs'[i], b)
  <2>1. PICK k, m : k = jobs[i] /\ m = jobs'[i]
    OBVIOUS
  <2>2. /\ AdminAllowed(m) => AdminAllowed(jobs[i])'
        /\ AgentAllowed(m) => AgentAllowed(jobs[i])'
    BY <1>1, <2>1 DEF AdminAllowed, AgentAllowed, Given, ConfinedTo
  <2>3. CASE k = NotStarted /\ m # NotStarted
    <3>1. Request(i)
      BY <2>1, <2>3, Arrived
    <3>2. \A b : ~MadeBy(k, b)
      BY <2>3 DEF MadeBy, NotStarted
    <3> QED BY <2>1, <2>2, <3>1, <3>2, AdminsAllowed, AgentsAllowed
  <2>4. CASE m = k
    BY <2>1, <2>2, <2>4 DEF AuthorityOK
  <2>5. CASE k # NotStarted /\ Moved(k, m)
    <3>1. ServedBy(i, k)
      BY <2>1, <2>5 DEF JobsOK
    <3>2. m.handler = k.handler /\ DOMAIN m = DOMAIN k
      BY <2>5, <3>1 DEF Moved, ServedBy, Common
    <3>3. CASE k.handler \in {"admin", "create"}
      <4>1. {"route", "presented", "served"} \subseteq DOMAIN k
        <5>1. FieldsOf[k.handler] \subseteq DOMAIN k
          BY <3>1 DEF ServedBy
        <5>2. \A h \in {"admin", "create"} : {"route", "presented", "served"} \subseteq FieldsOf[h]
          BY DEF FieldsOf
        <5> QED BY <3>3, <5>1, <5>2
      <4>2. m.route = k.route /\ m.presented = k.presented /\ m.served = k.served
            /\ ("event" \in DOMAIN k => m.event = k.event)
        BY <2>5, <4>1 DEF Moved
      <4>3. AdminAllowed(k)
        BY <2>1, <3>3 DEF AuthorityOK
      <4>4. AdminAllowed(m)
        BY <4>2, <4>3 DEF AdminAllowed
      <4>5. \A b : MadeBy(k, b) => MadeBy(m, b)
        BY <3>2, <4>2 DEF MadeBy
      <4> QED BY <2>1, <2>2, <3>2, <3>3, <4>4, <4>5
    <3>4. CASE k.handler = "agent"
      <4>1. {"headers", "actor"} \subseteq DOMAIN k
        BY <3>1, <3>4 DEF ServedBy, FieldsOf
      <4>2. m.headers = k.headers /\ m.actor = k.actor
        BY <2>5, <4>1 DEF Moved
      <4>3. AgentAllowed(k)
        BY <2>1, <3>4 DEF AuthorityOK
      <4>4. AgentAllowed(m)
        BY <4>2, <4>3 DEF AgentAllowed
      <4>5. \A b : ~MadeBy(k, b)
        BY <3>4 DEF MadeBy
      <4> QED BY <2>1, <2>2, <3>2, <3>4, <4>4, <4>5
    <3>5. CASE k.handler \notin {"admin", "create", "agent"}
      BY <2>1, <3>2, <3>5 DEF MadeBy
    <3> QED BY <3>3, <3>4, <3>5
  <2> QED BY <2>1, <2>3, <2>4, <2>5, JobsStep
<1>3. ASSUME setting.provider # "servicenow", NEW b \in rows'
      PROVE  \E j \in Jobs : MadeBy(jobs'[j], b)
  <2>1. CASE b \in rows
    <3>1. PICK i \in Jobs : MadeBy(jobs[i], b)
      BY <1>3, <2>1 DEF AuthorityOK
    <3> QED BY <1>2, <3>1
  <2>2. ASSUME NEW j \in Jobs, NEW c, Replaces(j, c) PROVE \E i \in Jobs : MadeBy(jobs'[i], b)
    <3>1. b \in rows \/ b = jobs[j].row
      BY <2>2 DEF Replaces
    <3>2. CASE b = jobs[j].row
      <4>1. Same(b, c) /\ c \in rows /\ Made(c)
        BY <1>3, <2>2, <3>2, ReplacedIsSame DEF Replaces, RowsOK
      <4>2. {"tenant", "id"} \subseteq DOMAIN c
        BY <4>1, MadeFields DEF BaseFields
      <4>3. b.tenant = c.tenant /\ b.id = c.id
        BY <4>1, <4>2 DEF Same, Volatile
      <4>4. PICK i \in Jobs : MadeBy(jobs[i], c)
        BY <1>3, <4>1 DEF AuthorityOK
      <4>5. MadeBy(jobs'[i], c)
        BY <1>2, <4>4
      <4> QED BY <4>3, <4>5 DEF MadeBy
    <3> QED BY <2>1, <3>1, <3>2
  <2>3. ASSUME NEW j \in Jobs, Request(j), NEW c, Creates(jobs'[j], c), b \notin rows
        PROVE  MadeBy(jobs'[j], b)
    <3>1. b = c
      BY <2>3 DEF Creates
    <3>2. Placed(jobs'[j])
      BY <2>3, RequestRows
    <3>3. jobs'[j].handler = "create"
      BY <1>3, <2>3, <3>2 DEF Placed, Creates
    <3> QED BY <2>3, <3>1, <3>3 DEF Creates, MadeBy
  <2> QED BY <2>1, <2>2, <2>3, RowsStep
<1>4. ASSUME NEW i \in Jobs
      PROVE  /\ jobs'[i].handler \in {"admin", "create"} => AdminAllowed(jobs[i])'
             /\ jobs'[i].handler = "agent" => AgentAllowed(jobs[i])'
  BY <1>2
<1>5. setting.provider # "servicenow" => \A b \in rows' : \E j \in Jobs : MadeBy(jobs[j], b)'
  BY <1>3 DEF MadeBy
<1> QED BY <1>1, <1>4, <1>5 DEF AuthorityOK

\* This is what is said of administrators and agents.
LEMMA EffectsAreAuthorised ==
    ASSUME AuthorityOK
    PROVE  EffectsAuthorised
<1>1. \A j \in By({"admin", "create"}) : AdminAllowed(jobs[j])
  BY DEF AuthorityOK, By, Started
<1>2. \A j \in By({"agent"}) : AgentAllowed(jobs[j])
  BY DEF AuthorityOK, By, Started
<1>3. ASSUME setting.provider # "servicenow", NEW b \in rows
      PROVE  \E j \in By({"create"}) : b.tenant \in jobs[j].served /\ jobs[j].event.about = <<b.id>>
  <2>1. PICK j \in Jobs : MadeBy(jobs[j], b)
    BY <1>3 DEF AuthorityOK
  <2>2. j \in By({"create"})
    BY <2>1 DEF MadeBy, By, Started, NotStarted
  <2> QED BY <2>1, <2>2 DEF MadeBy
<1> QED BY <1>1, <1>2, <1>3 DEF EffectsAuthorised, AdminAllowed, AgentAllowed

-----------------------------------------------------------------------------
(* Statuses.                                                               *)

\* The handler with record k decided what row r says of its last resolution.
Decides(k, r) ==
    /\ k.handler = "resolve"
    /\ k.event.about = <<r.id, r.lastSubject, r.lastStatus>> /\ k.event.mission = r.mission

\* Its event is all that may be ahead of it, and is accounted for.
Answered(k) ==
    /\ "evaluate" \notin ToSet(k.steps) /\ "update" \notin ToSet(k.steps)
    /\ \/ k.event \in ToSet(ledger) \/ "event" \in ToSet(k.steps) \/ k.cut \/ ~Keeps(k.event)

Explained(r) == r.lastStatus # "" => \E j \in Jobs : Decides(jobs[j], r) /\ Answered(jobs[j])

AnswersOK ==
    /\ \A b \in rows : Explained(b)
    /\ \A j \in Jobs : HasCopy(jobs[j]) /\ jobs[j].handler # "resolve" => Explained(jobs[j].row)
    /\ \A j \in Jobs : jobs[j].handler = "resolve" => Decides(jobs[j], jobs[j].row)

\* What a resolution decides it notes on its copy (ResolveAuthorityContext).
LEMMA AnswersDecide ==
    ASSUME SettingOK, JobsOK, RowsOK, NEW j \in Jobs, Request(j), jobs'[j].handler = "resolve"
    PROVE  Decides(jobs'[j], jobs'[j].row)
<1>1. PICK q \in ResolveRequests[setting.provider], h \in setting.headers :
          ResolveAuthorityContext(j, q, h)
  BY Requested
<1>2. PICK k, b, a, actor : /\ jobs' = [jobs EXCEPT ![j] = k]
                            /\ ResolutionStarted(j, q, h, k, b, a, actor)
  BY <1>1, ResolutionArrives
<1>3. jobs'[j] = k
  BY <1>2 DEF JobsOK
<1>4. PICK found : found = {x \in rows : Matches(setting.provider, x, q)}
  OBVIOUS
<1>5. /\ found # {} /\ b = FirstListed(setting.provider, store, found)
      /\ a = AnswerFrom(setting.provider, b, q) /\ a # Refused
      /\ k.handler = "resolve" /\ k.row = a.row /\ k.event = ResolvedEvent(j, a)
  BY <1>2, <1>4 DEF ResolutionStarted
<1>6. b \in rows
  <2>1. b \in found
    BY <1>4, <1>5, FirstOfRows
  <2> QED BY <1>4, <2>1
<1>7. /\ setting.provider \in KnownProviders \ {"github"} /\ BaseFields \subseteq DOMAIN b
  BY <1>1, <1>6, MadeFields, DeploymentAssumption DEF RowsOK
<1>8. PICK required : Grants(setting.provider, required, a, b)
  BY <1>5, <1>7, AnswersGrant
<1>9. /\ a.id = b.id
      /\ a.row = [b EXCEPT !.lastSubject = a.subject,
                           !.lastStatus = IF a.accepted THEN "accepted" ELSE "denied"]
  BY <1>8 DEF Grants
<1>10. a.row.id = a.id /\ a.row.lastSubject = a.subject
  BY <1>7, <1>9 DEF BaseFields
<1>11. PICK e : e = ResolvedEvent(j, a)
  OBVIOUS
<1>12. e.about = <<a.id, a.subject, a.row.lastStatus>> /\ e.mission = a.row.mission
  BY <1>11 DEF ResolvedEvent, EventOf
<1>13. Decides(k, a.row)
  BY <1>5, <1>10, <1>11, <1>12 DEF Decides
<1> QED BY <1>3, <1>5, <1>13

\* A resolution goes on to its event, records it, or dies (AppendHandlerEvent).
LEMMA AnsweredStays ==
    ASSUME SettingOK, JobsOK, LedgerOK, [Next]_vars, NEW j \in Jobs,
           jobs[j].handler = "resolve", Answered(jobs[j])
    PROVE  Answered(jobs[j])'
<1>1. PICK k, m : k = jobs[j] /\ m = jobs'[j]
  OBVIOUS
<1>2. k # NotStarted /\ ServedBy(j, k) /\ Common \subseteq DOMAIN k /\ "event" \in DOMAIN k
  <2>1. k # NotStarted
    BY <1>1 DEF NotStarted
  <2>2. ServedBy(j, k)
    BY <1>1, <2>1 DEF JobsOK
  <2>3. "event" \in FieldsOf["resolve"]
    BY DEF FieldsOf
  <2> QED BY <1>1, <2>1, <2>2, <2>3 DEF ServedBy
<1>3. store' = store /\ ToSet(ledger) \subseteq ToSet(ledger)'
  BY JobsStep, LedgerKept
<1>4. CASE m = k
  BY <1>1, <1>3, <1>4 DEF Answered, Keeps
<1>5. CASE m # k
  <2>1. k.steps # << >> /\ Moved(k, m)
    BY <1>1, <1>2, <1>5, JobsStep
  <2>2. /\ ToSet(k.steps) = {Head(k.steps)} \cup ToSet(Tail(k.steps))
        /\ ToSet(k.steps) \subseteq {"evaluate", "update", "event"}
        /\ Head(k.steps) # "evaluate" => Head(k.steps) \notin ToSet(Tail(k.steps))
    <3>1. InOrder(k.steps) /\ ToSet(k.steps) \subseteq CallsOf["resolve"]
      BY <1>1, <1>2 DEF ServedBy
    <3> QED BY <2>1, <3>1, Proceeding DEF CallsOf
  <2>3. Head(k.steps) = "event" /\ ToSet(Tail(k.steps)) = {}
    BY <1>1, <2>2 DEF Answered
  <2>4. m.event = k.event /\ ToSet(m.steps) = {}
    <3>1. ToSet(<< >>) = {}
      BY StepsInOrder
    <3>2. m.event = k.event
      BY <1>2, <2>1 DEF Moved
    <3>3. m.steps \in {Tail(k.steps), << >>}
      BY <2>1 DEF Moved
    <3> QED BY <2>3, <3>1, <3>2, <3>3
  <2>5. ASSUME m.cut \/ k.event \in ToSet(ledger)' \/ ~Keeps(k.event) PROVE Answered(jobs[j])'
    <3>1. Keeps(k.event)' <=> Keeps(k.event)
      BY <1>3 DEF Keeps
    <3> QED BY <1>1, <2>4, <2>5, <3>1 DEF Answered, Keeps
  <2>6. ASSUME NEW i \in Jobs, Request(i) PROVE FALSE
    <3>1. jobs[i] = NotStarted /\ \E x : jobs' = [jobs EXCEPT ![i] = x]
      BY <2>6, RequestStarts
    <3> QED BY <1>1, <1>2, <1>5, <3>1
  <2>7. ASSUME NEW i \in Jobs, Works(i) PROVE FALSE
    <3>1. i = j
      <4>1. \E x : jobs' = [jobs EXCEPT ![i] = x]
        BY <2>7, Continuing DEF Works
      <4> QED BY <1>1, <1>5, <4>1
    <3> QED BY <1>1, <2>3, <2>7, <3>1 DEF Works
  <2>8. ASSUME NEW i \in Jobs, NEW e, NEW since, Appends(i, e, since)
        PROVE  Answered(jobs[j])'
    <3>1. i = j
      BY <1>1, <1>5, <2>8, AppendsOnce
    <3>2. e = k.event
      BY <1>1, <2>3, <2>8, <3>1 DEF Appends
    <3>3. AppendEvent(e, since)
      BY <2>8 DEF Appends
    <3>4. Keeps(e) => e \in ToSet(ledger)'
      BY <3>3, Appending DEF LedgerOK
    <3> QED BY <2>5, <3>2, <3>4
  <2>9. CASE Idles
    BY <1>1, <1>5, <2>9 DEF Idles
  <2>10. CASE Crash
    <3>1. m = [Finish(k) EXCEPT !.cut = TRUE]
      BY <1>1, <2>1, <2>10 DEF Crash
    <3>2. m.cut
      BY <1>2, <3>1 DEF Finish, Common
    <3> QED BY <2>5, <3>2
  <2> QED BY <2>6, <2>7, <2>8, <2>9, <2>10, Steps
<1> QED BY <1>4, <1>5

\* What decided a status still does.
LEMMA DecisionStays ==
    ASSUME SettingOK, JobsOK, LedgerOK, [Next]_vars, NEW r, NEW j \in Jobs,
           Decides(jobs[j], r), Answered(jobs[j])
    PROVE  Decides(jobs[j], r)' /\ Answered(jobs[j])'
<1>2. PICK k, m : k = jobs[j] /\ m = jobs'[j]
  OBVIOUS
<1>3. ServedBy(j, k) /\ k # NotStarted
  <2>1. jobs[j].handler = "resolve"
    BY DEF Decides
  <2>2. jobs[j] # NotStarted
    BY <2>1 DEF NotStarted
  <2> QED BY <1>2, <2>2 DEF JobsOK
<1>4. {"handler", "event"} \subseteq DOMAIN k
  <2>1. "event" \in FieldsOf["resolve"] /\ "handler" \in Common
    BY DEF FieldsOf, Common
  <2>2. k.handler = "resolve"
    BY <1>2 DEF Decides
  <2> QED BY <1>3, <2>1, <2>2 DEF ServedBy
<1>5. m.handler = k.handler /\ m.event = k.event
  <2>1. m = k \/ Moved(k, m)
    BY <1>2, <1>3, JobsStep
  <2> QED BY <1>4, <2>1 DEF Moved
<1>6. Decides(m, r)
  BY <1>2, <1>5 DEF Decides
<1>7. Decides(jobs[j], r)'
  BY <1>2, <1>6 DEF Decides
<1>8. Answered(jobs[j])'
  BY AnsweredStays DEF Decides
<1> QED BY <1>7, <1>8

\* A status stays explained.
LEMMA ExplainedStays ==
    ASSUME SettingOK, JobsOK, LedgerOK, [Next]_vars, NEW r, Explained(r)
    PROVE  Explained(r)'
<1>1. Jobs' = Jobs
  BY JobsStep DEF Jobs
<1>2. ASSUME NEW j \in Jobs, Decides(jobs[j], r), Answered(jobs[j])
      PROVE  (Decides(jobs[j], r) /\ Answered(jobs[j]))'
  BY <1>2, DecisionStays
<1> QED BY <1>1, <1>2 DEF Explained

\* The calls after an update are past the evaluations.
LEMMA AfterUpdate ==
    ASSUME NEW s, InOrder(s), "update" \in ToSet(s), "update" \notin ToSet(Tail(s))
    PROVE  s # << >> /\ Head(s) = "update" /\ "evaluate" \notin ToSet(Tail(s))
<1>1. s # << >>
  BY DEF ToSet
<1>2. Head(s) = "update"
  <2>1. ToSet(s) = {Head(s)} \cup ToSet(Tail(s))
    BY <1>1, Proceeding
  <2> QED BY <2>1
<1>3. ASSUME "evaluate" \in ToSet(Tail(s)) PROVE FALSE
  <2>1. PICK l \in DOMAIN Tail(s) : Tail(s)[l] = "evaluate"
    BY <1>3 DEF ToSet
  <2>2. s \in Seq(Calls) /\ Len(s) >= 1
    BY <1>1 DEF InOrder
  <2>3. l + 1 \in DOMAIN s /\ s[l + 1] = "evaluate" /\ 1 \in DOMAIN s /\ 1 < l + 1
        /\ s[1] = "update"
    BY <1>2, <2>1, <2>2
  <2> QED BY <2>3 DEF InOrder, Turn
<1> QED BY <1>1, <1>2, <1>3

\* However resolutions overlap, a row says what one of them decided of it
\* (ResolveAuthorityContext, UpdateBinding).
LEMMA AnswersKept ==
    ASSUME SettingOK, JobsOK, LedgerOK, RowsOK, CopiesOK, AnswersOK, [Next]_vars
    PROVE  AnswersOK'
<1>1. Jobs' = Jobs /\ setting' = setting /\ JobsOK'
  BY JobsStep DEF Jobs
<1>2. \A r : {"id", "lastSubject", "lastStatus", "mission"} \subseteq DOMAIN r =>
          \A x : /\ x.id = r.id /\ x.lastSubject = r.lastSubject /\ x.lastStatus = r.lastStatus
                 /\ x.mission = r.mission
                 => (Explained(r) => Explained(x))
  BY DEF Explained, Decides
<1>3. {"id", "lastSubject", "lastStatus", "mission"} \subseteq BaseFields
  BY DEF BaseFields
<1>4. ASSUME NEW i \in Jobs, jobs'[i].handler = "resolve"
      PROVE  Decides(jobs[i], jobs[i].row)'
  <2>1. PICK k, m : k = jobs[i] /\ m = jobs'[i]
    OBVIOUS
  <2>2. ASSUME Decides(m, m.row) PROVE Decides(jobs[i], jobs[i].row)'
    BY <2>1, <2>2 DEF Decides
  <2>3. CASE k = NotStarted
    <3>1. m # NotStarted
      BY <1>4, <2>1 DEF NotStarted
    <3>2. Request(i)
      BY <2>1, <2>3, <3>1, Arrived
    <3> QED BY <1>4, <2>1, <2>2, <3>2, AnswersDecide
  <2>4. CASE m = k
    BY <1>4, <2>1, <2>2, <2>4 DEF AnswersOK
  <2>5. CASE k # NotStarted /\ Moved(k, m)
    <3>1. ServedBy(i, k)
      BY <2>1, <2>5 DEF JobsOK
    <3>2. m.handler = k.handler /\ k.handler = "resolve"
      BY <1>4, <2>1, <2>5, <3>1 DEF Moved, ServedBy, Common
    <3>3. {"row", "event"} \subseteq DOMAIN k
      BY <3>1, <3>2 DEF ServedBy, FieldsOf
    <3>4. m.row = k.row /\ m.event = k.event
      BY <2>5, <3>2, <3>3 DEF Moved
    <3>5. Decides(k, k.row)
      BY <2>1, <3>2 DEF AnswersOK
    <3> QED BY <2>2, <3>2, <3>4, <3>5 DEF Decides
  <2> QED BY <2>1, <2>3, <2>4, <2>5, JobsStep
<1>5. ASSUME NEW i \in Jobs, HasCopy(jobs'[i]), jobs'[i].handler # "resolve"
      PROVE  Explained(jobs[i].row)'
  <2>1. PICK k, m : k = jobs[i] /\ m = jobs'[i]
    OBVIOUS
  <2>2. PICK r : r = m.row
    OBVIOUS
  <2>3. Explained(r)
    <3>1. CASE k = NotStarted
      <4>1. m # NotStarted
        BY <1>5, <2>1 DEF HasCopy, NotStarted
      <4>2. Request(i)
        BY <2>1, <3>1, <4>1, Arrived
      <4>3. PICK b \in rows : Copies(m, b)
        BY <1>5, <2>1, <4>2, RequestRows DEF Creates
      <4>4. m.handler \in {"webhook", "check", "ticket"}
        BY <1>5, <2>1 DEF HasCopy, Noted
      <4>5. {"id", "lastSubject", "lastStatus", "mission"} \cap Noted[m.handler] = {}
        BY <4>4 DEF Noted
      <4>6. {"id", "lastSubject", "lastStatus", "mission"} \subseteq DOMAIN b
        BY <1>3, MadeFields DEF RowsOK
      <4>7. r.id = b.id /\ r.lastSubject = b.lastSubject /\ r.lastStatus = b.lastStatus
            /\ r.mission = b.mission
        BY <2>2, <4>3, <4>5, <4>6 DEF Copies
      <4>8. Explained(b)
        BY DEF AnswersOK
      <4> QED BY <1>2, <4>6, <4>7, <4>8
    <3>2. CASE m = k
      BY <1>5, <2>1, <2>2, <3>2 DEF AnswersOK
    <3>3. CASE k # NotStarted /\ Moved(k, m)
      <4>1. ServedBy(i, k)
        BY <2>1, <3>3 DEF JobsOK
      <4>2. m.handler = k.handler /\ HasCopy(k)
        BY <1>5, <2>1, <3>3, <4>1 DEF Moved, HasCopy, ServedBy, Common
      <4>3. Made(k.row)
        BY <2>1, <4>2 DEF CopiesOK, Kept
      <4>4. {"id", "lastSubject", "lastStatus", "mission"} \subseteq DOMAIN k.row
        BY <1>3, <4>3, MadeFields
      <4>5. \A f \in DOMAIN k.row \ {"lastCheck"} : m.row[f] = k.row[f]
        BY <3>3, <4>2 DEF Moved, HasCopy
      <4>6. r.id = k.row.id /\ r.lastSubject = k.row.lastSubject
            /\ r.lastStatus = k.row.lastStatus /\ r.mission = k.row.mission
        BY <2>2, <4>4, <4>5
      <4>7. Explained(k.row)
        BY <1>5, <2>1, <4>2 DEF AnswersOK
      <4> QED BY <1>2, <4>4, <4>6, <4>7
    <3> QED BY <2>1, <3>1, <3>2, <3>3, JobsStep
  <2>4. Explained(r)'
    BY <2>3, ExplainedStays
  <2> QED BY <2>1, <2>2, <2>4 DEF Explained, Decides
<1>6. ASSUME NEW b \in rows' PROVE Explained(b)'
  <2>1. CASE b \in rows
    <3>1. Explained(b)
      BY <2>1 DEF AnswersOK
    <3> QED BY <3>1, ExplainedStays
  <2>2. ASSUME NEW j \in Jobs, NEW c, Replaces(j, c), b \notin rows PROVE Explained(b)'
    <3>1. PICK k, m : k = jobs[j] /\ m = jobs'[j]
      OBVIOUS
    <3>2. /\ b = k.row /\ HasCopy(k) /\ "update" \in ToSet(k.steps)
          /\ "update" \notin ToSet(m.steps) /\ m = Proceed(k)
      BY <2>2, <3>1 DEF Replaces
    <3>3. CASE k.handler # "resolve"
      <4>1. Explained(b)
        BY <3>1, <3>2, <3>3 DEF AnswersOK
      <4> QED BY <4>1, ExplainedStays
    <3>4. CASE k.handler = "resolve"
      <4>1. k # NotStarted /\ ServedBy(j, k)
        BY <3>1, <3>4 DEF JobsOK, NotStarted
      <4>2. Common \subseteq DOMAIN k /\ {"event", "row"} \subseteq DOMAIN k /\ InOrder(k.steps)
            /\ (ToSet(k.steps) \subseteq {"audit"} \/ "event" \in ToSet(k.steps))
        BY <3>4, <4>1 DEF ServedBy, FieldsOf
      <4>3. m.steps = Tail(k.steps) /\ m.event = k.event /\ m.handler = "resolve" /\ m.row = k.row
        BY <3>2, <3>4, <4>2 DEF Proceed, Common
      <4>4. k.steps # << >> /\ Head(k.steps) = "update" /\ "evaluate" \notin ToSet(m.steps)
        BY <3>2, <4>2, <4>3, AfterUpdate
      <4>5. "event" \in ToSet(m.steps)
        <5>1. ToSet(k.steps) = {Head(k.steps)} \cup ToSet(Tail(k.steps))
          BY <4>2, <4>4, Proceeding
        <5> QED BY <3>2, <4>2, <4>3, <4>4, <5>1
      <4>6. Decides(m, b)
        <5>1. Decides(k, k.row)
          BY <3>1, <3>4 DEF AnswersOK
        <5> QED BY <3>2, <4>3, <5>1 DEF Decides
      <4>7. Decides(jobs[j], b)' /\ Answered(jobs[j])'
        BY <3>1, <3>2, <4>4, <4>5, <4>6 DEF Decides, Answered
      <4> QED BY <1>1, <4>7 DEF Explained
    <3> QED BY <3>3, <3>4
  <2>3. ASSUME NEW j \in Jobs, NEW c, Creates(jobs'[j], c), b \notin rows PROVE Explained(b)'
    <3>1. b.lastStatus = ""
      BY <2>3 DEF Creates, IsNew
    <3> QED BY <3>1 DEF Explained
  <2> QED BY <2>1, <2>2, <2>3, RowsStep
<1> QED BY <1>1, <1>4, <1>5, <1>6 DEF AnswersOK

\* This is what is said of statuses.
LEMMA StatusesLedgered ==
    ASSUME AnswersOK
    PROVE  ResolutionLedgered
<1>0. ASSUME NEW j \in Jobs, jobs[j].handler = "resolve" PROVE j \in By({"resolve"})
  <2>1. jobs[j] # NotStarted
    BY <1>0 DEF NotStarted
  <2> QED BY <1>0, <2>1 DEF By, Started
<1> SUFFICES ASSUME NEW b \in rows, b.lastStatus # ""
             PROVE  \E j \in By({"resolve"}) :
                       /\ jobs[j].event.about = <<b.id, b.lastSubject, b.lastStatus>>
                       /\ jobs[j].event.mission = b.mission
                       /\ Accounted(j)
  BY Zenon DEF ResolutionLedgered
<1>1. PICK j \in Jobs : Decides(jobs[j], b) /\ Answered(jobs[j])
  BY DEF AnswersOK, Explained
<1>2. j \in By({"resolve"})
  BY <1>0, <1>1 DEF Decides
<1>3. jobs[j].event \in ToSet(ledger) => Recorded(jobs[j].event)
  BY DEF ToSet, Recorded
<1>4. Accounted(j)
  BY <1>1, <1>3 DEF Answered, Accounted, Ahead
<1> QED BY <1>1, <1>2, <1>4 DEF Decides

-----------------------------------------------------------------------------
(* Checks.                                                                 *)

\* A decision of a file is about its path, and the conclusion is no better.
Judged(k, i) ==
    /\ k.decided[i].context["path"] = {k.request.files[i].path}
    /\ Severity[ConclusionForDecision(k.decided[i].decision)] <= Severity[k.conclusion]

\* What is ahead of a check with n files of which d are decided.
CheckAhead(s, n, d) ==
    /\ Len(s) >= 2 =>
          s[Len(s) - 1] = "update" /\ s[Len(s)] = "event" /\ d + Len(s) = n + 2
    /\ Len(s) = 1 => s[1] = "event" /\ d = n

\* Once the event is recorded nothing is ahead and every file is decided.
Complete(k) ==
    k.event \in ToSet(ledger) => k.steps = << >> /\ Len(k.decided) = Len(k.request.files)

CheckOK(k) ==
    /\ k.request.files \in Seq(ToSet(k.request.files)) /\ Len(k.request.files) >= 1
    /\ k.row.mission \in {"", k.mission} /\ "lastCheck" \in DOMAIN k.row
    /\ k.conclusion \in DOMAIN Severity
    /\ \E S : k.decided \in Seq(S)
    /\ CheckAhead(k.steps, Len(k.request.files), Len(k.decided))
    /\ \A i \in DOMAIN k.decided : Judged(k, i)
    /\ k.decided # << >> => k.row.lastCheck = k.conclusion

ChecksOK == \A j \in Jobs : jobs[j].handler = "check" => CheckOK(jobs[j]) /\ Complete(jobs[j])

CheckFields == {"request", "mission", "event"}

\* The check with record k goes on to m without a decision, or with one.
Passes(k, m) ==
    /\ \A f \in CheckFields \cup {"handler", "row", "decided", "conclusion"} : m[f] = k[f]
    /\ m.steps = << >> \/ (Head(k.steps) # "evaluate" /\ m.steps = Tail(k.steps))

Decided(k, m) ==
    /\ \A f \in CheckFields \cup {"handler"} : m[f] = k[f]
    /\ Head(k.steps) = "evaluate" /\ m.steps = Tail(k.steps)
    /\ \E e : /\ m.decided = Append(k.decided, e)
              /\ e.context = MergeCheckContext(k.request,
                                 k.request.files[Len(k.decided) + 1], k.row.repository)
              /\ m.conclusion = CombineConclusion(k.conclusion, ConclusionForDecision(e.decision))
    /\ m.row = [k.row EXCEPT !.lastCheck = m.conclusion]

\* A step of a check evaluates one file, goes past its evaluations or ends
\* (EvaluateFile, UpdateBinding, AppendHandlerEvent).
LEMMA CheckMoves ==
    ASSUME SettingOK, JobsOK, [Next]_vars, NEW j \in Jobs, jobs[j].handler = "check",
           jobs'[j] # jobs[j]
    PROVE  /\ jobs[j].steps # << >> /\ ServedBy(j, jobs[j])
           /\ Passes(jobs[j], jobs'[j]) \/ Decided(jobs[j], jobs'[j])
<1>1. PICK k, m : k = jobs[j] /\ m = jobs'[j]
  OBVIOUS
<1>2. jobs[j] # NotStarted
  BY DEF NotStarted
<1>3. ServedBy(j, k) /\ k.steps # << >>
  BY <1>1, <1>2, JobsStep DEF JobsOK
<1>4. {"handler", "steps", "cut", "since", "row", "request", "headers", "mission", "actor",
       "decided", "conclusion", "event"} \subseteq DOMAIN k
  <2>1. Common \cup FieldsOf["check"] \subseteq DOMAIN k
    BY <1>1, <1>3 DEF ServedBy
  <2> QED BY <2>1 DEF Common, FieldsOf
<1>5. ASSUME m = Finish(k) PROVE Passes(k, m)
  BY <1>4, <1>5 DEF Finish, Passes, CheckFields
<1>6. ASSUME m = [Finish(k) EXCEPT !.cut = TRUE] PROVE Passes(k, m)
  BY <1>4, <1>6 DEF Finish, Passes, CheckFields
<1>7. ASSUME m = Proceed(k), Head(k.steps) # "evaluate" PROVE Passes(k, m)
  BY <1>4, <1>7 DEF Proceed, Passes, CheckFields
<1>8. CASE Crash
  <2>1. m = [Finish(k) EXCEPT !.cut = TRUE]
    BY <1>1, <1>3, <1>8 DEF Crash
  <2> QED BY <1>1, <1>3, <1>6, <2>1
<1>9. ASSUME NEW i \in Jobs, Request(i) PROVE FALSE
  <2>1. jobs[i] = NotStarted /\ \E x : jobs' = [jobs EXCEPT ![i] = x]
    BY <1>9, RequestStarts
  <2> QED BY <1>2, <2>1
<1>10. ASSUME NEW i \in Jobs, NEW e, NEW since, Appends(i, e, since) PROVE Passes(k, m)
  <2>1. i = j
    BY <1>10 DEF Appends, JobsOK
  <2>2. m = Proceed(k) /\ Head(k.steps) # "evaluate"
    BY <1>1, <1>10, <2>1 DEF Appends, JobsOK
  <2> QED BY <1>7, <2>2
<1>11. ASSUME NEW i \in Jobs, Works(i) PROVE Passes(k, m) \/ Decided(k, m)
  <2>1. i = j
    <3>1. \E x : jobs' = [jobs EXCEPT ![i] = x]
      BY <1>11, Continuing DEF Works
    <3> QED BY <3>1
  <2>2. ASSUME jobs' = [jobs EXCEPT ![j] = Proceed(@)], Head(k.steps) # "evaluate"
        PROVE  Passes(k, m)
    <3>1. m = Proceed(k)
      BY <1>1, <2>2 DEF JobsOK
    <3> QED BY <1>7, <2>2, <3>1
  <2>3. ASSUME jobs' = [jobs EXCEPT ![j] = Finish(@)] PROVE Passes(k, m)
    <3>1. m = Finish(k)
      BY <1>1, <2>3 DEF JobsOK
    <3> QED BY <1>5, <3>1
  <2>4. CASE EvaluateFile(j)
    <3>1. Head(k.steps) = "evaluate"
      BY <1>1, <2>4 DEF EvaluateFile, Waiting
    <3>2. PICK file : file = jobs[j].request.files[Len(jobs[j].decided) + 1]
      OBVIOUS
    <3>3. CASE jobs' = [jobs EXCEPT ![j] = Finish(@)]
      BY <2>3, <3>3
    <3>4. CASE \E decision \in Decisions :
                  jobs' = [jobs EXCEPT ![j] = [Proceed(jobs[j]) EXCEPT
                     !.decided = Append(@,
                        [decision |-> decision, operation |-> FileOperation(file),
                         context |-> MergeCheckContext(jobs[j].request, file,
                                                       jobs[j].row.repository)]),
                     !.conclusion = CombineConclusion(jobs[j].conclusion,
                                                      ConclusionForDecision(decision)),
                     !.row.lastCheck = CombineConclusion(jobs[j].conclusion,
                                                         ConclusionForDecision(decision)),
                     !.since = Ids(ledger)]]
      <4>0. PICK decision \in Decisions :
                  jobs' = [jobs EXCEPT ![j] = [Proceed(jobs[j]) EXCEPT
                     !.decided = Append(@,
                        [decision |-> decision, operation |-> FileOperation(file),
                         context |-> MergeCheckContext(jobs[j].request, file,
                                                       jobs[j].row.repository)]),
                     !.conclusion = CombineConclusion(jobs[j].conclusion,
                                                      ConclusionForDecision(decision)),
                     !.row.lastCheck = CombineConclusion(jobs[j].conclusion,
                                                         ConclusionForDecision(decision)),
                     !.since = Ids(ledger)]]
        BY <3>4
      <4>10. PICK conclusion : conclusion = CombineConclusion(k.conclusion,
                                                              ConclusionForDecision(decision))
        OBVIOUS
      <4>11. PICK e : e = [decision |-> decision, operation |-> FileOperation(file),
                           context |-> MergeCheckContext(k.request, file, k.row.repository)]
        OBVIOUS
      <4>1. jobs' = [jobs EXCEPT ![j] = [Proceed(k) EXCEPT
                        !.decided = Append(@, e), !.conclusion = conclusion,
                        !.row.lastCheck = conclusion, !.since = Ids(ledger)]]
        BY <1>1, <4>0, <4>10, <4>11
      <4>2. PICK p : p = Proceed(k)
        OBVIOUS
      <4>3. DOMAIN p = DOMAIN k /\ p.steps = Tail(k.steps)
            /\ \A f \in DOMAIN k \ {"steps"} : p[f] = k[f]
        BY <1>4, <4>2 DEF Proceed
      <4>4. m = [p EXCEPT !.decided = Append(@, e), !.conclusion = conclusion,
                          !.row.lastCheck = conclusion, !.since = Ids(ledger)]
        BY <1>1, <4>1, <4>2 DEF JobsOK
      <4>5. /\ m.decided = Append(p.decided, e) /\ m.conclusion = conclusion /\ m.steps = p.steps
            /\ m.row = [p.row EXCEPT !.lastCheck = conclusion]
            /\ \A f \in CheckFields \cup {"handler"} : m[f] = p[f]
        BY <1>4, <4>3, <4>4 DEF CheckFields
      <4>6. p.decided = k.decided /\ p.row = k.row
            /\ \A f \in CheckFields \cup {"handler"} : p[f] = k[f]
        BY <1>4, <4>3 DEF CheckFields
      <4>7. e.decision = decision /\ e.context = MergeCheckContext(k.request, file, k.row.repository)
        BY <4>11
      <4>8. Decided(k, m)
        BY <1>1, <3>1, <3>2, <4>3, <4>5, <4>6, <4>7, <4>10 DEF Decided
      <4> QED BY <4>8
    <3> QED BY <2>4, <3>2, <3>3, <3>4 DEF EvaluateFile
  <2>5. CASE EvaluateBound(j)
    BY <2>5 DEF EvaluateBound
  <2>6. CASE UpdateBinding(j)
    BY <1>1, <2>2, <2>6 DEF UpdateBinding, Waiting
  <2>7. CASE SaveWebhookDelivery(j) \/ DeleteRow(j)
    BY <1>1, <2>2, <2>3, <2>7 DEF SaveWebhookDelivery, DeleteRow, Waiting
  <2> QED BY <1>1, <1>11, <2>1, <2>4, <2>5, <2>6, <2>7
          DEF Works, Continue, AppendHandlerEvent, RecordAdminAction, Waiting
<1> QED BY <1>1, <1>3, <1>8, <1>9, <1>10, <1>11, Steps DEF Idles

\* What is next for a check says how much is ahead of it (InOrder).
LEMMA CheckNext ==
    ASSUME NEW s, InOrder(s), ToSet(s) \subseteq CallsOf["check"], s # << >>,
           NEW n \in Nat, NEW d \in Nat, CheckAhead(s, n, d)
    PROVE  /\ Tail(s) \in Seq(Calls) /\ Len(Tail(s)) + 1 = Len(s)
           /\ Head(s) = "evaluate" => d < n /\ CheckAhead(Tail(s), n, d + 1)
           /\ Head(s) = "update" => d = n
           /\ Head(s) # "evaluate" => CheckAhead(Tail(s), n, d)
           /\ Head(s) = "event" => d = n /\ Tail(s) = << >>
<1>1. s \in Seq(Calls) /\ Len(s) \in Nat /\ Len(s) >= 1 /\ Head(s) = s[1]
  BY DEF InOrder
<1>2. PICK t, l : t = Tail(s) /\ l = Len(s)
  OBVIOUS
<1>3. t \in Seq(Calls) /\ Len(t) = l - 1 /\ \A i \in 1..(l - 1) : t[i] = s[i + 1]
  BY <1>1, <1>2
<1>4. Head(s) \in {"evaluate", "update", "event"}
  BY Proceeding DEF CallsOf
<1>5. \A a, b \in 1..l : a < b => Turn[s[a]] < Turn[s[b]] \/ (s[a] = "evaluate" /\ s[b] = "evaluate")
  BY <1>1, <1>2 DEF InOrder
<1>6. Turn["evaluate"] = 0 /\ Turn["update"] = 1 /\ Turn["event"] = 3
  BY DEF Turn
<1>7. CASE l = 1
  <2>1. s[1] = "event" /\ d = n
    BY <1>2, <1>7 DEF CheckAhead
  <2>2. t = << >>
    BY <1>3, <1>7
  <2>3. Len(<< >>) = 0
    OBVIOUS
  <2>4. CheckAhead(t, n, d)
    BY <2>2, <2>3 DEF CheckAhead
  <2> QED BY <1>1, <1>2, <1>3, <2>1, <2>2, <2>4
<1>8. CASE l = 2
  <2>1. s[1] = "update" /\ s[2] = "event" /\ d + 2 = n + 2
    BY <1>2, <1>8 DEF CheckAhead
  <2>2. d = n
    BY <2>1
  <2>3. Len(t) = 1 /\ t[1] = "event"
    BY <1>3, <1>8, <2>1
  <2>4. CheckAhead(t, n, d)
    BY <2>2, <2>3 DEF CheckAhead
  <2> QED BY <1>1, <1>2, <1>3, <2>1, <2>2, <2>4
<1>9. CASE l > 2
  <2>1. s[l - 1] = "update" /\ s[l] = "event" /\ d + l = n + 2
    BY <1>1, <1>2, <1>9 DEF CheckAhead
  <2>2. 1 \in 1..l /\ l - 1 \in 1..l /\ 1 < l - 1 /\ l \in Nat
    BY <1>1, <1>2, <1>9
  <2>3. Turn[s[1]] < Turn["update"] \/ s[1] = "evaluate"
    BY <1>5, <2>1, <2>2
  <2>4. s[1] = "evaluate"
    <3>1. s[1] # "update" /\ s[1] # "event"
      BY <1>6, <2>3
    <3> QED BY <1>1, <1>4, <3>1
  <2>5. Len(t) = l - 1 /\ t[Len(t) - 1] = "update" /\ t[Len(t)] = "event"
    <3>1. l - 2 \in 1..(l - 1) /\ l - 1 \in 1..(l - 1) /\ (l - 2) + 1 = l - 1 /\ (l - 1) + 1 = l
          /\ (l - 1) - 1 = l - 2
      BY <1>9, <2>2
    <3> QED BY <1>3, <2>1, <3>1
  <2>6. d < n /\ (d + 1) + (l - 1) = n + 2 /\ l - 1 # 1
    BY <1>9, <2>1, <2>2
  <2>7. CheckAhead(t, n, d + 1)
    BY <2>5, <2>6 DEF CheckAhead
  <2>8. Head(s) = "evaluate"
    BY <1>1, <2>4
  <2> QED BY <1>1, <1>2, <1>3, <2>6, <2>7, <2>8
<1> QED BY <1>1, <1>2, <1>7, <1>8, <1>9

\* Conclusions are ranked, and combining takes the worse one (CombineConclusion).
LEMMA Conclusions ==
    /\ \A d : ConclusionForDecision(d) \in DOMAIN Severity
    /\ \A c, x \in DOMAIN Severity :
          /\ Severity[c] \in 0..3 /\ CombineConclusion(c, x) \in {c, x}
          /\ Severity[c] <= Severity[CombineConclusion(c, x)]
          /\ Severity[x] <= Severity[CombineConclusion(c, x)]
    /\ Severity["success"] = 0
    /\ \A d : Severity[ConclusionForDecision(d)] <= 0 => d \in {"allow", "allow_with_constraints"}
<1>1. DOMAIN Severity = {"success", "neutral", "action_required", "failure"}
      /\ Severity["success"] = 0 /\ Severity["neutral"] = 1
      /\ Severity["action_required"] = 2 /\ Severity["failure"] = 3
  BY DEF Severity
<1>2. \A d : ConclusionForDecision(d) \in DOMAIN Severity
  BY <1>1 DEF ConclusionForDecision
<1>3. \A c \in DOMAIN Severity : Severity[c] \in 0..3
  BY <1>1
<1>4. ASSUME NEW c \in DOMAIN Severity, NEW x \in DOMAIN Severity
      PROVE  /\ CombineConclusion(c, x) \in {c, x}
             /\ Severity[c] <= Severity[CombineConclusion(c, x)]
             /\ Severity[x] <= Severity[CombineConclusion(c, x)]
  BY <1>3 DEF CombineConclusion
<1>5. ASSUME NEW d, Severity[ConclusionForDecision(d)] <= 0
      PROVE  d \in {"allow", "allow_with_constraints"}
  <2>1. ConclusionForDecision(d) = "success"
    BY <1>1, <1>2, <1>5
  <2> QED BY <2>1 DEF ConclusionForDecision
<1> QED BY <1>1, <1>2, <1>3, <1>4, <1>5

\* Every file is judged in a context of its own (MergeCheckContext).
LEMMA OwnContext ==
    ASSUME NEW q, NEW file, NEW repository
    PROVE  MergeCheckContext(q, file, repository)["path"] = {file.path}
BY DEF MergeCheckContext, Over

\* What a check's handler needs to know about itself.
LEMMA CheckDomain ==
    ASSUME NEW j, NEW k, ServedBy(j, k), k.handler = "check"
    PROVE  /\ {"steps", "cut", "row", "request", "mission", "decided", "conclusion", "event"}
                  \subseteq DOMAIN k
           /\ InOrder(k.steps) /\ ToSet(k.steps) \subseteq CallsOf["check"]
           /\ k.event.id = <<j, "event">>
<1>1. Common \cup FieldsOf["check"] \subseteq DOMAIN k
  BY DEF ServedBy
<1>2. "event" \in DOMAIN k /\ k.event.id = <<j, "event">>
  BY <1>1 DEF FieldsOf, ServedBy
<1> QED BY <1>1, <1>2 DEF ServedBy, Common, FieldsOf

\* The numbers of files and of decisions.
LEMMA CheckNumbers ==
    ASSUME NEW k, CheckOK(k)
    PROVE  Len(k.request.files) \in Nat /\ Len(k.decided) \in Nat
<1>1. PICK f, T, d, S : f = k.request.files /\ T = ToSet(f) /\ d = k.decided /\ d \in Seq(S)
  BY DEF CheckOK
<1>2. k.request.files \in Seq(ToSet(k.request.files))
  BY DEF CheckOK
<1>3. f \in Seq(T)
  BY <1>1, <1>2
<1>4. Len(f) \in Nat /\ Len(d) \in Nat
  BY <1>1, <1>3
<1> QED BY <1>1, <1>4

\* A decision more, and the conclusion is no better than any (EvaluateFile).
LEMMA OneMoreJudged ==
    ASSUME NEW j, NEW k, NEW m, ServedBy(j, k), k.handler = "check", k.steps # << >>,
           CheckOK(k), Decided(k, m)
    PROVE  CheckOK(m) /\ Len(m.decided) \in Nat
<1>1. PICK s, n, d : s = k.steps /\ n = Len(k.request.files) /\ d = Len(k.decided)
  OBVIOUS
<1>2. PICK S : k.decided \in Seq(S)
  BY DEF CheckOK
<1>3. n \in Nat /\ d \in Nat
  BY <1>1, CheckNumbers
<1>4. PICK e : /\ m.decided = Append(k.decided, e)
               /\ e.context = MergeCheckContext(k.request,
                                  k.request.files[Len(k.decided) + 1], k.row.repository)
               /\ m.conclusion = CombineConclusion(k.conclusion, ConclusionForDecision(e.decision))
  BY DEF Decided
<1>5. Head(s) = "evaluate" /\ m.steps = Tail(s) /\ m.row = [k.row EXCEPT !.lastCheck = m.conclusion]
      /\ m.request = k.request /\ m.mission = k.mission
  BY <1>1 DEF Decided, CheckFields
<1>6. CheckAhead(Tail(s), n, d + 1)
  <2>1. InOrder(s) /\ ToSet(s) \subseteq CallsOf["check"] /\ s # << >> /\ CheckAhead(s, n, d)
    BY <1>1, CheckDomain DEF CheckOK
  <2> QED BY <1>3, <1>5, <2>1, CheckNext
<1>7. /\ m.decided \in Seq(S \cup {e}) /\ Len(m.decided) = d + 1 /\ DOMAIN m.decided = 1..(d + 1)
      /\ DOMAIN k.decided = 1..d
      /\ \A i \in 1..d : m.decided[i] = k.decided[i]
      /\ m.decided[d + 1] = e
  <2>1. PICK t, u : t = k.decided /\ u = m.decided
    OBVIOUS
  <2>2. t \in Seq(S \cup {e}) /\ u = Append(t, e)
    BY <1>2, <1>4, <2>1
  <2>3. u \in Seq(S \cup {e}) /\ Len(u) = Len(t) + 1 /\ DOMAIN u = 1..(Len(t) + 1)
        /\ DOMAIN t = 1..Len(t) /\ (\A i \in 1..Len(t) : u[i] = t[i]) /\ u[Len(t) + 1] = e
    BY <2>2
  <2> QED BY <1>1, <2>1, <2>3
<1>8. /\ m.conclusion \in DOMAIN Severity
      /\ Severity[k.conclusion] <= Severity[m.conclusion]
      /\ Severity[ConclusionForDecision(e.decision)] <= Severity[m.conclusion]
      /\ Severity[k.conclusion] \in 0..3 /\ Severity[m.conclusion] \in 0..3
  <2>1. PICK c, x : c = k.conclusion /\ x = ConclusionForDecision(e.decision)
    OBVIOUS
  <2>2. c \in DOMAIN Severity /\ x \in DOMAIN Severity
    BY <2>1, Conclusions DEF CheckOK
  <2>3. CombineConclusion(c, x) \in {c, x} /\ Severity[c] <= Severity[CombineConclusion(c, x)]
        /\ Severity[x] <= Severity[CombineConclusion(c, x)]
        /\ Severity[c] \in 0..3 /\ Severity[x] \in 0..3
    BY <2>2, Conclusions
  <2> QED BY <1>4, <2>1, <2>2, <2>3
<1>9. ASSUME NEW i \in DOMAIN m.decided PROVE Judged(m, i)
  <2>1. CASE i \in 1..d
    <3>1. Judged(k, i) /\ m.decided[i] = k.decided[i]
      BY <1>7, <2>1 DEF CheckOK
    <3>2. Severity[ConclusionForDecision(k.decided[i].decision)] \in 0..3
      BY Conclusions
    <3>3. Severity[ConclusionForDecision(m.decided[i].decision)] <= Severity[m.conclusion]
      BY <1>8, <3>1, <3>2 DEF Judged
    <3> QED BY <1>5, <3>1, <3>3 DEF Judged
  <2>2. CASE i = d + 1
    <3>1. e.context["path"] = {k.request.files[d + 1].path}
      BY <1>1, <1>4, OwnContext
    <3> QED BY <1>5, <1>7, <1>8, <2>2, <3>1 DEF Judged
  <2> QED BY <1>3, <1>7, <2>1, <2>2
<1>10. "lastCheck" \in DOMAIN m.row /\ m.row.lastCheck = m.conclusion /\ m.row.mission = k.row.mission
  <2>1. "lastCheck" \in DOMAIN k.row
    BY DEF CheckOK
  <2> QED BY <1>5, <2>1
<1>11. CheckAhead(m.steps, Len(m.request.files), Len(m.decided))
  BY <1>1, <1>5, <1>6, <1>7
<1>12. m.request.files \in Seq(ToSet(m.request.files)) /\ Len(m.request.files) >= 1
       /\ m.row.mission \in {"", m.mission}
  BY <1>5, <1>10 DEF CheckOK
<1>13. \E T : m.decided \in Seq(T)
  BY <1>7
<1>14. CheckOK(m)
  BY <1>8, <1>9, <1>10, <1>11, <1>12, <1>13 DEF CheckOK
<1>15. Len(m.decided) \in Nat
  BY <1>3, <1>7
<1> QED BY <1>14, <1>15

\* Nothing is judged by the other calls (UpdateBinding, AppendHandlerEvent).
LEMMA NoMoreJudged ==
    ASSUME NEW j, NEW k, NEW m, ServedBy(j, k), k.handler = "check", k.steps # << >>,
           CheckOK(k), Passes(k, m)
    PROVE  CheckOK(m)
<1>1. PICK s, n, d : s = k.steps /\ n = Len(k.request.files) /\ d = Len(k.decided)
  OBVIOUS
<1>2. n \in Nat /\ d \in Nat
  BY <1>1, CheckNumbers
<1>3. m.request = k.request /\ m.mission = k.mission /\ m.row = k.row /\ m.decided = k.decided
      /\ m.conclusion = k.conclusion
  BY DEF Passes, CheckFields
<1>4. CheckAhead(m.steps, n, d)
  <2>1. CASE m.steps = << >>
    <3>1. Len(<< >>) = 0
      OBVIOUS
    <3> QED BY <2>1, <3>1 DEF CheckAhead
  <2>2. CASE Head(s) # "evaluate" /\ m.steps = Tail(s)
    <3>1. InOrder(s) /\ ToSet(s) \subseteq CallsOf["check"] /\ s # << >> /\ CheckAhead(s, n, d)
      BY <1>1, CheckDomain DEF CheckOK
    <3> QED BY <1>2, <2>2, <3>1, CheckNext
  <2> QED BY <1>1, <2>1, <2>2 DEF Passes
<1>5. \A i \in DOMAIN m.decided : Judged(m, i)
  BY <1>3 DEF Judged, CheckOK
<1>6. CheckAhead(m.steps, Len(m.request.files), Len(m.decided))
  BY <1>1, <1>3, <1>4
<1>7. \E T : m.decided \in Seq(T)
  BY <1>3 DEF CheckOK
<1> QED BY <1>3, <1>5, <1>6, <1>7 DEF CheckOK

\* Row r says of its last check what row b says.
SameCheck(r, b) == r.id = b.id /\ r.lastCheck = b.lastCheck

\* A check starts with nothing decided, from a row of its own (PlanCheckRun).
LEMMA CheckStarts ==
    ASSUME SettingOK, JobsOK, RowsOK, NEW j \in Jobs, Request(j), jobs'[j].handler = "check"
    PROVE  CheckOK(jobs'[j]) /\ \E b \in rows : SameCheck(jobs'[j].row, b)
<1>1. PICK q \in Checks, h \in setting.headers : PlanCheckRun(j, q, h)
  BY Requested
<1>2. PICK k, b, mission : jobs' = [jobs EXCEPT ![j] = k] /\ ServedBy(j, k)
                           /\ CheckStarted(j, q, k, b, mission)
  BY <1>1, CheckArrives
<1>3. jobs'[j] = k
  BY <1>2 DEF JobsOK
<1>4. PICK bound : bound = {x \in rows : bindingForRepository(x, q.repository)}
  OBVIOUS
<1>5. bound # {} /\ b = FirstListed("github", store, bound)
  BY <1>2, <1>4 DEF CheckStarted
<1>6. setting.provider = "github"
  BY <1>1 DEF PlanCheckRun
<1>7. b \in rows
  <2>1. b \in bound
    BY <1>4, <1>5, <1>6, FirstOfRows
  <2> QED BY <1>4, <2>1
<1>8. {"mission", "lastCheck"} \subseteq DOMAIN b
  <2>1. BaseFields \cup RowFields["github"] \subseteq DOMAIN b
    BY <1>6, <1>7, MadeFields DEF RowsOK
  <2> QED BY <2>1 DEF BaseFields, RowFields
<1>9. /\ b.mission \in {"", mission} /\ k.mission = mission /\ k.request = q
      /\ k.row = [b EXCEPT !.lastSHA = q.sha] /\ k.decided = << >> /\ k.conclusion = "success"
      /\ Len(k.steps) = Len(q.files) + 2
      /\ k.steps[Len(q.files) + 1] = "update" /\ k.steps[Len(q.files) + 2] = "event"
      /\ q.files \in Seq(ToSet(q.files)) /\ Len(q.files) >= 1
  BY <1>2 DEF CheckStarted
<1>10. k.row.mission \in {"", k.mission} /\ "lastCheck" \in DOMAIN k.row
  BY <1>8, <1>9
<1>11. PICK n : n = Len(q.files)
  OBVIOUS
<1>12. n \in Nat /\ n >= 1
  <2>1. PICK f, T : f = q.files /\ T = ToSet(q.files)
    OBVIOUS
  <2>2. f \in Seq(T)
    BY <1>9, <2>1
  <2>3. Len(f) \in Nat
    BY <2>2
  <2> QED BY <1>9, <1>11, <2>1, <2>3
<1>13. CheckAhead(k.steps, n, 0)
  <2>1. Len(k.steps) = n + 2 /\ k.steps[n + 1] = "update" /\ k.steps[n + 2] = "event"
    BY <1>9, <1>11
  <2>2. Len(k.steps) - 1 = n + 1 /\ Len(k.steps) # 1 /\ 0 + Len(k.steps) = n + 2
    BY <1>12, <2>1
  <2> QED BY <2>1, <2>2 DEF CheckAhead
<1>14. Len(k.decided) = 0 /\ DOMAIN k.decided = {} /\ k.decided \in Seq({})
  <2>1. Len(<< >>) = 0 /\ DOMAIN << >> = {} /\ << >> \in Seq({})
    BY EmptySeq
  <2> QED BY <1>9, <2>1
<1>15. k.conclusion \in DOMAIN Severity
  BY <1>9 DEF Severity
<1>16. CheckAhead(k.steps, Len(k.request.files), Len(k.decided))
  BY <1>9, <1>11, <1>13, <1>14
<1>17. CheckOK(k)
  BY <1>9, <1>10, <1>14, <1>15, <1>16 DEF CheckOK
<1>18. SameCheck(k.row, b)
  <2>1. "id" \in DOMAIN b
    BY <1>6, <1>7, MadeFields DEF RowsOK, BaseFields
  <2> QED BY <1>8, <1>9, <2>1 DEF SameCheck
<1> QED BY <1>3, <1>7, <1>17, <1>18

\* The event of a check is recorded by its last call (AppendHandlerEvent).
LEMMA CheckRecorded ==
    ASSUME SettingOK, JobsOK, LedgerOK, [Next]_vars, NEW j \in Jobs,
           jobs[j].handler = "check", CheckOK(jobs[j]), Complete(jobs[j])
    PROVE  Complete(jobs[j])'
<1>1. PICK k, m : k = jobs[j] /\ m = jobs'[j]
  OBVIOUS
<1>2. jobs[j] # NotStarted
  BY DEF NotStarted
<1>3. ServedBy(j, k) /\ k.event.id = <<j, "event">> /\ "event" \in DOMAIN k
  <2>1. ServedBy(j, k)
    BY <1>1, <1>2 DEF JobsOK
  <2> QED BY <1>1, <2>1, CheckDomain
<1>4. CASE m = k
  <2>1. ASSUME k.event \in ToSet(ledger)', k.event \notin ToSet(ledger) PROVE FALSE
    <3>1. ASSUME NEW i \in Jobs, NEW e, NEW since, Appends(i, e, since) PROVE FALSE
      <4>1. e.id \in {<<i, "event">>, <<i, "audit">>}
        BY <3>1, AppendsOnce
      <4>2. jobs'[i] # jobs[i]
        <5>1. jobs[i].steps # << >> /\ jobs[i] # NotStarted
          BY <3>1 DEF Appends, NotStarted
        <5>2. InOrder(jobs[i].steps)
          BY <5>1 DEF JobsOK, ServedBy
        <5>3. \/ ToSet(jobs[i].steps) = {"event"} \cup ToSet(jobs'[i].steps)
                 /\ "event" \notin ToSet(jobs'[i].steps)
              \/ ToSet(jobs[i].steps) = {"audit"} \cup ToSet(jobs'[i].steps)
                 /\ "audit" \notin ToSet(jobs'[i].steps)
          BY <3>1, AppendsOnce
        <5> QED BY <5>3
      <4>3. ToSet(ledger)' \subseteq ToSet(ledger) \cup {e}
        <5>1. AppendEvent(e, since)
          BY <3>1 DEF Appends
        <5>2. ~Keeps(e) => ledger' = ledger
          BY <5>1, Appending DEF LedgerOK
        <5>3. Keeps(e) => ToSet(ledger)' = ToSet(ledger) \cup {e}
          BY <5>1, Appending DEF LedgerOK
        <5> QED BY <5>2, <5>3
      <4>4. k.event = e
        BY <2>1, <4>3
      <4>5. i = j
        BY <1>3, <4>1, <4>4
      <4> QED BY <1>1, <1>4, <4>2, <4>5
    <3>2. ASSUME UNCHANGED ledger PROVE FALSE
      BY <2>1, <3>2
    <3>3. ASSUME NEW i \in Jobs, Request(i) PROVE UNCHANGED ledger
      BY <3>3, RequestStarts DEF ledgerVars
    <3>4. ASSUME NEW i \in Jobs, Works(i) PROVE UNCHANGED ledger
      BY <3>4 DEF Works, ledgerVars
    <3>5. CASE Crash
      BY <3>2, <3>5 DEF Crash
    <3> QED BY <3>1, <3>2, <3>3, <3>4, <3>5, Steps DEF Idles
  <2>2. k.event \in ToSet(ledger)' => k.event \in ToSet(ledger)
    BY <2>1
  <2> QED BY <1>1, <1>4, <2>2 DEF Complete
<1>5. CASE m # k
  <2>1. k.steps # << >> /\ (Passes(k, m) \/ Decided(k, m))
    BY <1>1, <1>5, CheckMoves
  <2>2. m.event = k.event
    BY <2>1 DEF Passes, Decided, CheckFields
  <2>3. k.event \notin ToSet(ledger)
    BY <1>1, <2>1 DEF Complete
  <2>4. ASSUME k.event \in ToSet(ledger)'
        PROVE  m.steps = << >> /\ Len(m.decided) = Len(m.request.files)
    <3>1. PICK i \in Jobs : \E e, since : Appends(i, e, since)
      <4>1. ASSUME UNCHANGED ledger PROVE FALSE
        BY <2>3, <2>4, <4>1
      <4>2. ASSUME NEW i \in Jobs, Request(i) PROVE UNCHANGED ledger
        BY <4>2, RequestStarts DEF ledgerVars
      <4>3. ASSUME NEW i \in Jobs, Works(i) PROVE UNCHANGED ledger
        BY <4>3 DEF Works, ledgerVars
      <4>4. CASE Crash
        BY <4>1, <4>4 DEF Crash
      <4> QED BY <4>1, <4>2, <4>3, <4>4, Steps DEF Idles
    <3>2. i = j
      BY <1>1, <1>5, <3>1, AppendsOnce
    <3>3. Head(k.steps) = "event" /\ m = Proceed(k)
      <4>1. Head(k.steps) \in {"event", "audit"} /\ jobs' = [jobs EXCEPT ![j] = Proceed(@)]
        BY <1>1, <3>1, <3>2 DEF Appends
      <4>2. Head(k.steps) \in CallsOf["check"]
        <5>1. InOrder(k.steps) /\ ToSet(k.steps) \subseteq CallsOf["check"]
          BY <1>1, <1>3, CheckDomain
        <5>2. ToSet(k.steps) = {Head(k.steps)} \cup ToSet(Tail(k.steps))
          BY <2>1, <5>1, Proceeding
        <5> QED BY <5>1, <5>2
      <4> QED BY <1>1, <4>1, <4>2 DEF CallsOf, JobsOK
    <3>4. PICK s, n, d : s = k.steps /\ n = Len(k.request.files) /\ d = Len(k.decided)
      OBVIOUS
    <3>5. n \in Nat /\ d \in Nat
      BY <1>1, <3>4, CheckNumbers
    <3>6. d = n /\ Tail(s) = << >>
      <4>1. InOrder(s) /\ ToSet(s) \subseteq CallsOf["check"] /\ s # << >> /\ CheckAhead(s, n, d)
        BY <1>1, <1>3, <2>1, <3>4, CheckDomain DEF CheckOK
      <4> QED BY <3>3, <3>4, <3>5, <4>1, CheckNext
    <3>7. Passes(k, m)
      BY <2>1, <3>3 DEF Decided
    <3>8. m.decided = k.decided /\ m.request = k.request
      BY <3>7 DEF Passes, CheckFields
    <3>9. m.steps = Tail(s)
      BY <1>1, <1>3, <3>3, <3>4, CheckDomain DEF Proceed
    <3> QED BY <3>4, <3>6, <3>8, <3>9
  <2> QED BY <1>1, <2>2, <2>4 DEF Complete
<1> QED BY <1>4, <1>5

\* A check that is recorded judged every file (PlanCheckRun, EvaluateFile).
LEMMA ChecksKept ==
    ASSUME SettingOK, JobsOK, LedgerOK, RowsOK, ChecksOK, [Next]_vars
    PROVE  ChecksOK'
<1>1. Jobs' = Jobs
  BY JobsStep DEF Jobs
<1>2. ASSUME NEW j \in Jobs, jobs'[j].handler = "check"
      PROVE  CheckOK(jobs[j])' /\ Complete(jobs[j])'
  <2>1. PICK k, m : k = jobs[j] /\ m = jobs'[j]
    OBVIOUS
  <2>2. CASE k = NotStarted
    <3>1. Request(j)
      <4>1. m # NotStarted
        BY <1>2, <2>1 DEF NotStarted
      <4> QED BY <2>1, <2>2, <4>1, Arrived
    <3>2. CheckOK(m)
      BY <1>2, <2>1, <3>1, CheckStarts
    <3>3. Complete(jobs[j])'
      <4>1. ledger' = ledger /\ ToSet(ledger)' = ToSet(ledger)
        BY <3>1, RequestStarts DEF ledgerVars
      <4>2. ServedBy(j, m) /\ m.event.id = <<j, "event">>
        <5>1. PICK x : jobs' = [jobs EXCEPT ![j] = x] /\ Starting(j, x)
          BY <3>1, RequestStarts
        <5>2. ServedBy(j, m)
          BY <2>1, <5>1 DEF JobsOK, Starting
        <5> QED BY <1>2, <2>1, <5>2, CheckDomain
      <4>3. m.event \notin ToSet(ledger)
        BY <2>1, <2>2, <4>2, Unrecorded, IdsOfEntries
      <4> QED BY <2>1, <4>1, <4>3 DEF Complete
    <3> QED BY <2>1, <3>2, <3>3
  <2>3. CASE k # NotStarted
    <3>1. ServedBy(j, k) /\ k.handler = "check"
      <4>1. ServedBy(j, k)
        BY <2>1, <2>3 DEF JobsOK
      <4>2. m = k \/ Moved(k, m)
        BY <2>1, <2>3, JobsStep
      <4> QED BY <1>2, <2>1, <4>1, <4>2 DEF Moved, ServedBy, Common
    <3>2. CheckOK(k) /\ Complete(jobs[j])
      BY <2>1, <3>1 DEF ChecksOK
    <3>3. CheckOK(m)
      <4>1. CASE m # k
        <5>1. k.steps # << >> /\ (Passes(k, m) \/ Decided(k, m))
          BY <2>1, <3>1, <4>1, CheckMoves
        <5> QED BY <3>1, <3>2, <5>1, OneMoreJudged, NoMoreJudged
      <4> QED BY <3>2, <4>1
    <3>4. Complete(jobs[j])'
      BY <2>1, <3>1, <3>2, CheckRecorded
    <3> QED BY <2>1, <3>3, <3>4
  <2> QED BY <2>2, <2>3
<1> QED BY <1>1, <1>2 DEF ChecksOK

\* The check with record k allowed every file of row r, and is past judging.
Vouches(k, r) ==
    /\ k.handler = "check" /\ k.row.id = r.id /\ k.decided # << >>
    /\ "evaluate" \notin ToSet(k.steps)
    /\ \A i \in DOMAIN k.decided : k.decided[i].decision \in {"allow", "allow_with_constraints"}

Vouched(r) == r.lastCheck = "success" => \E j \in Jobs : Vouches(jobs[j], r)

\* A copy that no check has judged yet says what the row said.
Unjudged(k) == HasCopy(k) /\ (k.handler = "check" => k.decided = << >>)

VouchOK ==
    setting.provider = "github" =>
        /\ \A b \in rows : Vouched(b)
        /\ \A j \in Jobs : Unjudged(jobs[j]) => Vouched(jobs[j].row)

\* A check that vouches for a row goes on to do so.
LEMMA VouchStays ==
    ASSUME SettingOK, JobsOK, [Next]_vars, NEW r, NEW j \in Jobs, Vouches(jobs[j], r)
    PROVE  Vouches(jobs[j], r)'
<1>1. PICK k, m : k = jobs[j] /\ m = jobs'[j]
  OBVIOUS
<1>2. CASE m = k
  BY <1>1, <1>2 DEF Vouches
<1>3. CASE m # k
  <2>1. k.handler = "check"
    BY <1>1 DEF Vouches
  <2>2. k.steps # << >> /\ ServedBy(j, k) /\ (Passes(k, m) \/ Decided(k, m))
    BY <1>1, <1>3, <2>1, CheckMoves
  <2>3. ToSet(k.steps) = {Head(k.steps)} \cup ToSet(Tail(k.steps))
    <3>1. InOrder(k.steps)
      BY <2>2 DEF ServedBy
    <3> QED BY <2>2, <3>1, Proceeding
  <2>4. Passes(k, m)
    BY <1>1, <2>2, <2>3 DEF Vouches, Decided
  <2>5. m.handler = k.handler /\ m.row = k.row /\ m.decided = k.decided
    BY <2>4 DEF Passes
  <2>6. m.steps \in {<< >>, Tail(k.steps)}
    BY <2>4 DEF Passes
  <2>7. ToSet(m.steps) \subseteq ToSet(k.steps)
    BY <2>3, <2>6, StepsInOrder
  <2> QED BY <1>1, <2>5, <2>7 DEF Vouches
<1> QED BY <1>2, <1>3

\* A row stays vouched for, and so does one that says the same.
LEMMA VouchedStays ==
    ASSUME SettingOK, JobsOK, [Next]_vars, NEW r, Vouched(r)
    PROVE  Vouched(r)'
<1>1. Jobs' = Jobs
  BY JobsStep DEF Jobs
<1>2. ASSUME NEW j \in Jobs, Vouches(jobs[j], r) PROVE Vouches(jobs[j], r)'
  BY <1>2, VouchStays
<1> QED BY <1>1, <1>2 DEF Vouched

\* A check that updates a row to "success" allowed every file (UpdateBinding).
LEMMA VouchesNow ==
    ASSUME JobsOK, ChecksOK, NEW j \in Jobs, NEW c, Replaces(j, c), jobs[j].handler = "check",
           jobs[j].row.lastCheck = "success"
    PROVE  Vouches(jobs'[j], jobs[j].row)
<1>1. PICK k, m : k = jobs[j] /\ m = jobs'[j]
  OBVIOUS
<1>2. /\ HasCopy(k) /\ "update" \in ToSet(k.steps) /\ "update" \notin ToSet(m.steps)
      /\ m = Proceed(k)
  BY <1>1 DEF Replaces
<1>3. ServedBy(j, k) /\ CheckOK(k) /\ k.handler = "check"
  <2>1. jobs[j] # NotStarted
    BY DEF NotStarted
  <2> QED BY <1>1, <2>1 DEF JobsOK, ChecksOK
<1>4. {"steps", "row", "decided", "handler"} \subseteq DOMAIN k /\ InOrder(k.steps)
      /\ ToSet(k.steps) \subseteq CallsOf["check"]
  <2>1. "handler" \in DOMAIN k
    BY <1>3 DEF ServedBy, Common
  <2> QED BY <1>3, <2>1, CheckDomain
<1>5. m.steps = Tail(k.steps) /\ m.row = k.row /\ m.decided = k.decided /\ m.handler = k.handler
  BY <1>2, <1>4 DEF Proceed
<1>6. k.steps # << >> /\ Head(k.steps) = "update" /\ "evaluate" \notin ToSet(m.steps)
  BY <1>2, <1>4, <1>5, AfterUpdate
<1>7. PICK n, d : n = Len(k.request.files) /\ d = Len(k.decided)
  OBVIOUS
<1>8. d = n /\ n >= 1 /\ n \in Nat
  <2>1. n \in Nat /\ d \in Nat
    BY <1>3, <1>7, CheckNumbers
  <2>2. CheckAhead(k.steps, n, d) /\ n >= 1
    BY <1>3, <1>7 DEF CheckOK
  <2> QED BY <1>4, <1>6, <2>1, <2>2, CheckNext
<1>9. ASSUME k.decided = << >> PROVE FALSE
  <2>1. Len(<< >>) = 0
    BY EmptySeq
  <2>2. d = 0
    BY <1>7, <1>9, <2>1
  <2> QED BY <1>8, <2>2
<1>10. k.conclusion = "success"
  BY <1>1, <1>3, <1>9 DEF CheckOK
<1>11. \A i \in DOMAIN k.decided : k.decided[i].decision \in {"allow", "allow_with_constraints"}
  <2> TAKE i \in DOMAIN k.decided
  <2>1. Severity[ConclusionForDecision(k.decided[i].decision)] <= Severity[k.conclusion]
    BY <1>3 DEF CheckOK, Judged
  <2>2. Severity[ConclusionForDecision(k.decided[i].decision)] <= 0
    BY <1>10, <2>1, Conclusions
  <2> QED BY <2>2, Conclusions
<1> QED BY <1>1, <1>3, <1>5, <1>6, <1>9, <1>11 DEF Vouches

\* What a handler says of the last check before it judged it, the row said
\* (IngestWebhook, PlanCheckRun).
LEMMA CopyVouched ==
    ASSUME SettingOK, JobsOK, RowsOK, CopiesOK, ChecksOK, VouchOK, [Next]_vars,
           setting.provider = "github", NEW i \in Jobs, Unjudged(jobs'[i])
    PROVE  Vouched(jobs'[i].row)
<1>1. PICK k, m : k = jobs[i] /\ m = jobs'[i]
  OBVIOUS
<1>2. HasCopy(m) /\ m # NotStarted
  BY <1>1 DEF Unjudged, HasCopy, Noted, NotStarted
<1>3. ASSUME NEW b \in rows, SameCheck(m.row, b) PROVE Vouched(m.row)
  <2>1. Vouched(b)
    BY DEF VouchOK
  <2> QED BY <1>3, <2>1 DEF Vouched, Vouches, SameCheck
<1>4. CASE k = NotStarted
  <2>1. Request(i)
    BY <1>1, <1>2, <1>4, Arrived
  <2>2. PICK b \in rows : Copies(m, b)
    BY <1>1, <1>2, <2>1, RequestRows DEF Creates
  <2>3. Placed(m)
    BY <1>1, <2>1, RequestRows
  <2>4. m.handler \in {"webhook", "check"}
    BY <1>2, <2>3 DEF Placed, HasCopy, Noted
  <2>5. CASE m.handler = "check"
    <3>1. \E x \in rows : SameCheck(m.row, x)
      BY <1>1, <2>1, <2>5, CheckStarts
    <3> QED BY <1>1, <1>3, <3>1
  <2>6. CASE m.handler = "webhook"
    <3>1. Noted["webhook"] = {"lastDelivery", "lastSHA"}
      BY DEF Noted
    <3>2. {"id", "lastCheck"} \subseteq DOMAIN b
      BY MadeFields DEF RowsOK, BaseFields, RowFields
    <3>3. SameCheck(m.row, b)
      BY <2>2, <2>6, <3>1, <3>2 DEF Copies, SameCheck
    <3> QED BY <1>1, <1>3, <3>3
  <2> QED BY <2>4, <2>5, <2>6
<1>5. CASE m = k
  BY <1>1, <1>5 DEF VouchOK
<1>6. CASE k # NotStarted /\ m # k
  <2>1. ServedBy(i, k) /\ Moved(k, m)
    BY <1>1, <1>6, JobsStep DEF JobsOK
  <2>2. m.handler = k.handler /\ ("row" \in DOMAIN m <=> "row" \in DOMAIN k)
    BY <2>1 DEF Moved, ServedBy, Common
  <2>3. HasCopy(k)
    BY <1>2, <2>2 DEF HasCopy
  <2>4. CASE k.handler = "check"
    <3>1. Passes(k, m) \/ Decided(k, m)
      BY <1>1, <1>6, <2>4, CheckMoves
    <3>2. ~Decided(k, m)
      <4>1. ASSUME Decided(k, m) PROVE FALSE
        <5>1. PICK e : m.decided = Append(k.decided, e)
          BY <4>1 DEF Decided
        <5>2. CheckOK(k)
          BY <1>1, <2>4 DEF ChecksOK
        <5>3. PICK S : k.decided \in Seq(S)
          BY <5>2 DEF CheckOK
        <5>4. PICK t : t = k.decided
          OBVIOUS
        <5>5. t \in Seq(S \cup {e})
          BY <5>3, <5>4
        <5>6. Append(t, e) # << >>
          BY <5>5
        <5> QED BY <1>1, <2>2, <2>4, <5>1, <5>4, <5>6 DEF Unjudged
      <4> QED BY <4>1
    <3>3. m.row = k.row /\ m.decided = k.decided
      BY <3>1, <3>2 DEF Passes
    <3>4. Unjudged(k)
      BY <1>1, <2>2, <2>3, <2>4, <3>3 DEF Unjudged
    <3> QED BY <1>1, <3>3, <3>4 DEF VouchOK
  <2>5. CASE k.handler # "check"
    <3>1. m.row = k.row
      BY <2>1, <2>3, <2>5 DEF Moved, HasCopy
    <3>2. Unjudged(k)
      BY <2>3, <2>5 DEF Unjudged
    <3> QED BY <1>1, <3>1, <3>2 DEF VouchOK
  <2> QED BY <2>4, <2>5
<1> QED BY <1>1, <1>4, <1>5, <1>6

\* However checks and webhooks overlap, a row that says "success" has a check that
\* allowed every file (UpdateBinding).
LEMMA VouchesKept ==
    ASSUME SettingOK, JobsOK, RowsOK, CopiesOK, ChecksOK, VouchOK, [Next]_vars
    PROVE  VouchOK'
<1> SUFFICES ASSUME setting.provider = "github" PROVE VouchOK'
  BY JobsStep DEF VouchOK
<1>1. Jobs' = Jobs
  BY JobsStep DEF Jobs
<1>2. ASSUME NEW j \in Jobs, Unjudged(jobs'[j]) PROVE Vouched(jobs[j].row)'
  <2>1. PICK r : r = jobs'[j].row
    OBVIOUS
  <2>2. Vouched(r)
    BY <1>2, <2>1, CopyVouched
  <2>3. Vouched(r)'
    BY <2>2, VouchedStays
  <2> QED BY <2>1, <2>3 DEF Vouched, Vouches
<1>3. ASSUME NEW b \in rows' PROVE Vouched(b)'
  <2>1. CASE b \in rows
    <3>1. Vouched(b)
      BY <2>1 DEF VouchOK
    <3> QED BY <3>1, VouchedStays
  <2>2. ASSUME NEW j \in Jobs, NEW c, Replaces(j, c), b \notin rows PROVE Vouched(b)'
    <3>1. b = jobs[j].row /\ HasCopy(jobs[j])
      BY <2>2 DEF Replaces
    <3>2. CASE jobs[j].handler = "check"
      <4>1. ASSUME b.lastCheck = "success" PROVE Vouches(jobs[j], b)'
        <5>1. Vouches(jobs'[j], jobs[j].row)
          BY <2>2, <3>1, <3>2, <4>1, VouchesNow
        <5> QED BY <3>1, <5>1 DEF Vouches
      <4> QED BY <1>1, <4>1 DEF Vouched
    <3>3. CASE jobs[j].handler # "check"
      <4>1. Vouched(b)
        BY <3>1, <3>3 DEF VouchOK, Unjudged
      <4> QED BY <4>1, VouchedStays
    <3> QED BY <3>2, <3>3
  <2>3. ASSUME NEW j \in Jobs, NEW c, Creates(jobs'[j], c), b \notin rows PROVE Vouched(b)'
    <3>1. b = c /\ IsNew(c)
      BY <2>3 DEF Creates
    <3>2. b.lastCheck = ""
      BY <3>1 DEF IsNew
    <3> QED BY <3>2 DEF Vouched
  <2> QED BY <2>1, <2>2, <2>3, RowsStep
<1> QED BY <1>1, <1>2, <1>3 DEF VouchOK

\* This is what is said of checks.
LEMMA ChecksSound ==
    ASSUME ChecksOK, VouchOK
    PROVE  CheckSound
<1>1. ASSUME NEW j \in Jobs, jobs[j].handler = "check" PROVE j \in By({"check"})
  <2>1. jobs[j] # NotStarted
    BY <1>1 DEF NotStarted
  <2> QED BY <1>1, <2>1 DEF By, Started
<1>2. ASSUME NEW j \in By({"check"}), Recorded(jobs[j].event)
      PROVE  /\ Len(jobs[j].decided) = Len(jobs[j].request.files)
             /\ jobs[j].row.mission \in {"", jobs[j].mission}
             /\ \A i \in DOMAIN jobs[j].decided : Judged(jobs[j], i)
  <2>1. j \in Jobs /\ jobs[j].handler = "check"
    BY DEF By, Started
  <2>2. jobs[j].event \in ToSet(ledger)
    BY <1>2 DEF Recorded, ToSet
  <2>3. CheckOK(jobs[j]) /\ Complete(jobs[j])
    BY <2>1 DEF ChecksOK
  <2> QED BY <2>2, <2>3 DEF CheckOK, Complete
<1>3. ASSUME setting.provider = "github", NEW b \in rows, b.lastCheck = "success"
      PROVE  \E j \in By({"check"}) :
                /\ jobs[j].row.id = b.id /\ jobs[j].decided # << >>
                /\ \A i \in DOMAIN jobs[j].decided :
                      jobs[j].decided[i].decision \in {"allow", "allow_with_constraints"}
  <2>1. PICK j \in Jobs : Vouches(jobs[j], b)
    BY <1>3 DEF VouchOK, Vouched
  <2>2. j \in By({"check"})
    BY <1>1, <2>1 DEF Vouches
  <2> QED BY <2>1, <2>2 DEF Vouches
<1> QED BY <1>2, <1>3 DEF CheckSound, Judged

-----------------------------------------------------------------------------
(* Announcements.                                                          *)

\* An event that announces a delivery.
Announces(e) == e.type = "webhook"

\* The events of webhooks announce their delivery, and no other event does.
Told(k) ==
    /\ k.handler = "webhook" => Announces(k.event) /\ k.event.about = <<k.delivery>>
    /\ k.handler # "webhook" /\ "event" \in DOMAIN k => ~Announces(k.event)
    /\ k.handler \in {"admin", "create"} => ~Announces(k.audit)

ToldOK == \A j \in Jobs : Told(jobs[j])

\* An audit is an event of its own kind (recordAdminAction).
LEMMA AuditTold ==
    ASSUME JobsOK, NEW j \in Jobs, NEW h, NEW s, NEW g, NEW i,
           "audit" \in DOMAIN g, g.audit = AuditEvent(j, i),
           jobs' = [jobs EXCEPT ![j] = Job(h, s, g)]
    PROVE  ~Announces(jobs'[j].audit)
<1>1. PICK k : k = Job(h, s, g)
  OBVIOUS
<1>2. IsJob(k, h, s, g)
  BY <1>1, JobFields
<1>3. k.audit = AuditEvent(j, i)
  BY <1>2 DEF IsJob
<1>4. jobs'[j] = k
  BY <1>1 DEF JobsOK
<1>5. AuditEvent(j, i).type = "admin.action"
  BY DEF AuditEvent, EventOf
<1> QED BY <1>3, <1>4, <1>5 DEF Announces

\* The event of a binding's creation, a resolution, a ticket or a check is of its
\* own kind too.
LEMMA OtherEvents ==
    /\ \A j, b : ~Announces(CreatedEvent(j, b))
    /\ \A j, a : ~Announces(ResolvedEvent(j, a))
    /\ \A j, mission, tenant, about : ~Announces(EventOf(j, "ticket", mission, tenant, about))
    /\ \A j, mission, tenant, about : ~Announces(EventOf(j, "check", mission, tenant, about))
<1>1. ASSUME NEW j, NEW b PROVE ~Announces(CreatedEvent(j, b))
  BY DEF Announces, CreatedEvent, EventOf
<1>2. ASSUME NEW j, NEW a PROVE ~Announces(ResolvedEvent(j, a))
  BY DEF Announces, ResolvedEvent, EventOf
<1>3. ASSUME NEW j, NEW mission, NEW tenant, NEW about
      PROVE  /\ ~Announces(EventOf(j, "ticket", mission, tenant, about))
             /\ ~Announces(EventOf(j, "check", mission, tenant, about))
  BY DEF Announces, EventOf
<1> QED BY <1>1, <1>2, <1>3

\* A handler arrives with the events of its kind (IngestWebhook and the others).
LEMMA TellsItsKind ==
    ASSUME JobsOK, NEW j \in Jobs, Request(j)
    PROVE  Told(jobs'[j])
<1>1. \A k : jobs' = [jobs EXCEPT ![j] = k] => jobs'[j] = k
  BY DEF JobsOK
<1>2. ASSUME NEW p, NEW route, NEW t, ServeAdmin(j, route, p, t) PROVE Told(jobs'[j])
  <2>1. PICK k : /\ jobs' = [jobs EXCEPT ![j] = k]
                 /\ k.handler = "admin" /\ "event" \notin DOMAIN k
    BY <1>2, AdminArrives
  <2>2. PICK i : i = AdminAuthenticatorFromEnv(setting.login, p)
    OBVIOUS
  <2>3. PICK s, g : /\ jobs' = [jobs EXCEPT ![j] = Job("admin", s, g)]
                    /\ "audit" \in DOMAIN g /\ g.audit = AuditEvent(j, i)
    <3>1. PICK code : code = requireAdminPermission(i, route)
      OBVIOUS
    <3>2. PICK g : g = [route |-> route, code |-> code, presented |-> p,
                        served |-> IF code = 200 THEN Served(i, route, t, Tenants) ELSE {},
                        audit |-> AuditEvent(j, i)]
      OBVIOUS
    <3>3. PICK s : s = IF recordAdminAction(route, code) THEN <<"audit">> ELSE << >>
      OBVIOUS
    <3>4. jobs' = [jobs EXCEPT ![j] = Job("admin", s, g)]
      BY <1>2, <2>2, <3>1, <3>2, <3>3 DEF ServeAdmin
    <3>5. "audit" \in DOMAIN g /\ g.audit = AuditEvent(j, i)
      BY <3>2
    <3> QED BY <3>4, <3>5
  <2>4. ~Announces(jobs'[j].audit)
    BY <2>3, AuditTold
  <2>5. jobs'[j] = k
    BY <1>1, <2>1
  <2> QED BY <2>1, <2>4, <2>5 DEF Told
<1>3. ASSUME NEW h, NEW route, NEW q, ServeAgent(j, route, h, q) PROVE Told(jobs'[j])
  <2>1. PICK k : /\ jobs' = [jobs EXCEPT ![j] = k]
                 /\ k.handler = "agent" /\ "event" \notin DOMAIN k
    BY <1>3, AgentArrives
  <2>2. jobs'[j] = k
    BY <1>1, <2>1
  <2> QED BY <2>1, <2>2 DEF Told
<1>4. ASSUME NEW q, NEW p, NEW id, CreateBinding(j, q, p, id) PROVE Told(jobs'[j])
  <2>1. PICK k : jobs' = [jobs EXCEPT ![j] = k] /\ CreationStarted(j, q, p, id, k)
    BY <1>4, CreationArrives
  <2>2. /\ k.handler = "create"
        /\ "event" \in DOMAIN k => \E b : k.event = CreatedEvent(j, b)
    BY <2>1 DEF CreationStarted
  <2> DEFINE i == AdminAuthenticatorFromEnv(setting.login, p)
             code == requireAdminPermission(i, CreateRoute(setting.provider))
             audit == IF recordAdminAction(CreateRoute(setting.provider), code)
                      THEN <<"audit">> ELSE << >>
             tenants == IF code = 200 THEN bindAdminTenant(i, q.tenant) ELSE {}
             c == [route |-> CreateRoute(setting.provider), code |-> code, presented |-> p,
                   audit |-> AuditEvent(j, i)]
  <2>3. code # 401 /\
        \/ \E tenant \in tenants :
             LET b == NewBinding(setting.provider, [q EXCEPT !.tenant = tenant], id, j)
             IN  /\ SaveBinding(b)
                 /\ jobs' = [jobs EXCEPT ![j] = Job("create", <<"event">> \o audit,
                         Over([event |-> CreatedEvent(j, b), served |-> {b.tenant}], c))]
        \/ /\ jobs' = [jobs EXCEPT ![j] = Job("create", audit, Over([served |-> {}], c))]
           /\ UNCHANGED rows
    BY <1>4 DEF CreateBinding
  <2>4. "audit" \in DOMAIN c /\ c.audit = AuditEvent(j, i)
    OBVIOUS
  <2> HIDE DEF i, code, audit, tenants, c
  <2>5. ASSUME NEW b, NEW s, NEW x,
               jobs' = [jobs EXCEPT ![j] = Job("create", s,
                           Over([event |-> x, served |-> {b.tenant}], c))]
        PROVE  \E t, f : /\ jobs' = [jobs EXCEPT ![j] = Job("create", t, Over(f, c))]
                        /\ "audit" \notin DOMAIN f
    <3>1. PICK f : f = [event |-> x, served |-> {b.tenant}]
      OBVIOUS
    <3>2. "audit" \notin DOMAIN f
      BY <3>1
    <3> QED BY <2>5, <3>1, <3>2
  <2>6. PICK s, f : /\ jobs' = [jobs EXCEPT ![j] = Job("create", s, Over(f, c))]
                    /\ "audit" \notin DOMAIN f
    <3>1. CASE \E tenant \in tenants :
             LET b == NewBinding(setting.provider, [q EXCEPT !.tenant = tenant], id, j)
             IN  /\ SaveBinding(b)
                 /\ jobs' = [jobs EXCEPT ![j] = Job("create", <<"event">> \o audit,
                         Over([event |-> CreatedEvent(j, b), served |-> {b.tenant}], c))]
      BY <2>5, <3>1
    <3>2. CASE jobs' = [jobs EXCEPT ![j] = Job("create", audit, Over([served |-> {}], c))]
      <4>1. PICK f : f = [served |-> {}]
        OBVIOUS
      <4>2. "audit" \notin DOMAIN f
        BY <4>1
      <4> QED BY <3>2, <4>1, <4>2
    <3> QED BY <2>3, <3>1, <3>2
  <2>7. PICK g : g = Over(f, c)
    OBVIOUS
  <2>8. "audit" \in DOMAIN g /\ g.audit = AuditEvent(j, i)
    BY <2>4, <2>6, <2>7 DEF Over
  <2>9. ~Announces(jobs'[j].audit)
    BY <2>6, <2>7, <2>8, AuditTold
  <2>10. jobs'[j] = k
    BY <1>1, <2>1
  <2> QED BY <2>2, <2>9, <2>10, OtherEvents DEF Told
<1>5. ASSUME NEW s, NEW g, jobs' = [jobs EXCEPT ![j] = Job("ticket", s, g)],
             "event" \in DOMAIN g, ~Announces(g.event)
      PROVE  Told(jobs'[j])
  <2>1. PICK k : k = Job("ticket", s, g)
    OBVIOUS
  <2>2. IsJob(k, "ticket", s, g)
    BY <2>1, JobFields
  <2>3. k.handler = "ticket" /\ k.event = g.event
    BY <1>5, <2>2 DEF IsJob
  <2>4. jobs'[j] = k
    BY <1>1, <1>5, <2>1
  <2> QED BY <1>5, <2>3, <2>4 DEF Told
<1>6. ASSUME NEW q, NEW id, CreateTicketBinding(j, q, id) PROVE Told(jobs'[j])
  <2>1. PICK b : b = TicketBinding(q, id, j)
    OBVIOUS
  <2>2. PICK g : g = [event |-> CreatedEvent(j, b)]
    OBVIOUS
  <2>3. jobs' = [jobs EXCEPT ![j] = Job("ticket", <<"event">>, g)]
    BY <1>6, <2>1, <2>2 DEF CreateTicketBinding
  <2>4. "event" \in DOMAIN g /\ g.event = CreatedEvent(j, b)
    BY <2>2
  <2> QED BY <1>5, <2>3, <2>4, OtherEvents
<1>7. ASSUME NEW q, NEW h, ResolveAuthorityContext(j, q, h) PROVE Told(jobs'[j])
  <2>1. PICK k, b, a, actor : jobs' = [jobs EXCEPT ![j] = k]
                              /\ ResolutionStarted(j, q, h, k, b, a, actor)
    BY <1>7, ResolutionArrives
  <2>2. k.handler = "resolve" /\ k.event = ResolvedEvent(j, a)
    BY <2>1 DEF ResolutionStarted
  <2>3. jobs'[j] = k
    BY <1>1, <2>1
  <2> QED BY <2>2, <2>3, OtherEvents DEF Told
<1>8. ASSUME NEW w, IngestWebhook(j, w) PROVE Told(jobs'[j])
  <2>1. PICK k, d : jobs' = [jobs EXCEPT ![j] = k] /\ WebhookStarted(w, k, d)
    BY <1>8, WebhookArrives
  <2>2. k.handler = "webhook" /\ k.event.type = "webhook" /\ k.event.about = <<k.delivery>>
    BY <2>1 DEF WebhookStarted
  <2>3. jobs'[j] = k
    BY <1>1, <2>1
  <2> QED BY <2>2, <2>3 DEF Told, Announces
<1>9. ASSUME NEW q \in Checks, NEW h, PlanCheckRun(j, q, h) PROVE Told(jobs'[j])
  <2>1. PICK k, b, mission : jobs' = [jobs EXCEPT ![j] = k] /\ CheckStarted(j, q, k, b, mission)
    BY <1>9, CheckArrives
  <2>2. k.handler = "check" /\ k.event = EventOf(j, "check", mission, b.tenant, <<b.id>>)
    BY <2>1 DEF CheckStarted
  <2>3. jobs'[j] = k
    BY <1>1, <2>1
  <2> QED BY <2>2, <2>3, OtherEvents DEF Told
<1>10. ASSUME NEW b, NEW state, UpdateTicketStatus(j, b, state) PROVE Told(jobs'[j])
  <2>1. PICK g : g = [row |-> [b EXCEPT !.state = state],
                      event |-> EventOf(j, "ticket", b.mission, b.tenant, <<b.id>>)]
    OBVIOUS
  <2>2. jobs' = [jobs EXCEPT ![j] = Job("ticket", <<"update", "event">>, g)]
    BY <1>10, <2>1 DEF UpdateTicketStatus
  <2>3. "event" \in DOMAIN g
        /\ g.event = EventOf(j, "ticket", b.mission, b.tenant, <<b.id>>)
    BY <2>1
  <2> QED BY <1>5, <2>2, <2>3, OtherEvents
<1>11. ASSUME NEW b, DeleteTicketBinding(j, b) PROVE Told(jobs'[j])
  <2>1. PICK g : g = [row |-> b, event |-> EventOf(j, "ticket", b.mission, b.tenant, <<b.id>>)]
    OBVIOUS
  <2>2. jobs' = [jobs EXCEPT ![j] = Job("ticket", <<"delete", "event">>, g)]
    BY <1>11, <2>1 DEF DeleteTicketBinding
  <2>3. "event" \in DOMAIN g
        /\ g.event = EventOf(j, "ticket", b.mission, b.tenant, <<b.id>>)
    BY <2>1
  <2> QED BY <1>5, <2>2, <2>3, OtherEvents
<1> QED BY <1>2, <1>3, <1>4, <1>6, <1>7, <1>8, <1>9, <1>10, <1>11 DEF Request

\* What a handler says never changes (AppendHandlerEvent).
LEMMA ToldKept ==
    ASSUME SettingOK, JobsOK, ToldOK, [Next]_vars
    PROVE  ToldOK'
<1>1. Jobs' = Jobs
  BY JobsStep DEF Jobs
<1>2. ASSUME NEW i \in Jobs PROVE Told(jobs[i])'
  <2>1. PICK k, m : k = jobs[i] /\ m = jobs'[i]
    OBVIOUS
  <2>2. Told(k)
    BY <2>1 DEF ToldOK
  <2>3. ASSUME k # NotStarted, Moved(k, m) PROVE Told(m)
    <3>1. ServedBy(i, k)
      BY <2>1, <2>3 DEF JobsOK
    <3>2. m.handler = k.handler /\ DOMAIN m = DOMAIN k
      BY <2>3, <3>1 DEF Moved, ServedBy, Common
    <3>3. "event" \in DOMAIN k => m.event = k.event
      BY <2>3 DEF Moved
    <3>4. "delivery" \in DOMAIN k => m.delivery = k.delivery
      BY <2>3 DEF Moved
    <3>5. "audit" \in DOMAIN k => m.audit = k.audit
      BY <2>3 DEF Moved
    <3>6. FieldsOf[k.handler] \subseteq DOMAIN k
      BY <3>1 DEF ServedBy
    <3>7. {"delivery", "event"} \subseteq FieldsOf["webhook"]
      BY DEF FieldsOf
    <3>8. "audit" \in FieldsOf["admin"] /\ "audit" \in FieldsOf["create"]
      BY DEF FieldsOf
    <3>9. CASE k.handler = "webhook"
      <4>1. m.event = k.event /\ m.delivery = k.delivery
        BY <3>3, <3>4, <3>6, <3>7, <3>9
      <4> QED BY <2>2, <3>2, <3>9, <4>1 DEF Told
    <3>10. CASE k.handler \in {"admin", "create"}
      <4>1. m.audit = k.audit
        BY <3>5, <3>6, <3>8, <3>10
      <4> QED BY <2>2, <3>2, <3>3, <3>10, <4>1 DEF Told
    <3>11. CASE k.handler \notin {"webhook", "admin", "create"}
      BY <2>2, <3>2, <3>3, <3>11 DEF Told
    <3> QED BY <3>9, <3>10, <3>11
  <2>4. ASSUME k = NotStarted, m # NotStarted PROVE Told(m)
    <3>1. Request(i)
      BY <2>1, <2>4, Arrived
    <3> QED BY <2>1, <3>1, TellsItsKind
  <2>5. k = NotStarted \/ m = k \/ Moved(k, m)
    BY <2>1, JobsStep
  <2>6. Told(m)
    BY <2>2, <2>3, <2>4, <2>5
  <2> QED BY <2>1, <2>6 DEF Told
<1> QED BY <1>1, <1>2 DEF ToldOK

\* Handler k has recorded its delivery, and has announced it or is about to.
Recorder(k) ==
    /\ k.handler = "webhook" /\ "deliver" \notin ToSet(k.steps)
    /\ "event" \in ToSet(k.steps) \/ k.event \in ToSet(ledger)

\* A delivery is recorded by one handler, as that handler received it.
InboxOK ==
    /\ \A j \in Jobs : Recorder(jobs[j]) =>
           deliveries[jobs[j].delivery.id] = jobs[j].delivery
    /\ \A i, j \in Jobs :
           Recorder(jobs[i]) /\ Recorder(jobs[j]) =>
               (jobs[i].delivery.id = jobs[j].delivery.id => i = j)

\* Handler i records its delivery in this step.
Records(i) ==
    /\ jobs[i].handler = "webhook" /\ deliveries[jobs[i].delivery.id] = Nothing
    /\ deliveries' = [deliveries EXCEPT ![jobs[i].delivery.id] = jobs[i].delivery]

\* A webhook's record.
LEMMA WebhookFields ==
    ASSUME JobsOK, NEW j \in Jobs, jobs[j].handler = "webhook"
    PROVE  /\ jobs[j] # NotStarted /\ ServedBy(j, jobs[j]) /\ InOrder(jobs[j].steps)
           /\ jobs[j].event.id = <<j, "event">>
           /\ Common \cup {"delivery", "event"} \subseteq DOMAIN jobs[j]
           /\ "deliver" \in ToSet(jobs[j].steps) => "event" \in ToSet(jobs[j].steps)
<1>1. jobs[j] # NotStarted
  BY DEF NotStarted
<1>2. ServedBy(j, jobs[j])
  BY <1>1 DEF JobsOK
<1>3. {"delivery", "event"} \subseteq FieldsOf["webhook"]
  BY DEF FieldsOf
<1>4. Common \cup FieldsOf["webhook"] \subseteq DOMAIN jobs[j]
  BY <1>2 DEF ServedBy
<1>5. "event" \in DOMAIN jobs[j]
  BY <1>3, <1>4
<1>6. jobs[j].event.id = <<j, "event">> /\ InOrder(jobs[j].steps)
  BY <1>2, <1>5 DEF ServedBy
<1>7. ToSet(jobs[j].steps) \subseteq {"audit"} \/ "event" \in ToSet(jobs[j].steps)
  BY <1>2 DEF ServedBy
<1> QED BY <1>1, <1>2, <1>3, <1>4, <1>6, <1>7

\* What a webhook's handler becomes.
LEMMA WebhookMoves ==
    ASSUME SettingOK, JobsOK, [Next]_vars, NEW j \in Jobs, jobs[j].handler = "webhook"
    PROVE  /\ jobs'[j].handler = "webhook" /\ jobs'[j].event = jobs[j].event
           /\ jobs'[j].delivery = jobs[j].delivery
           /\ ToSet(jobs'[j].steps) \subseteq ToSet(jobs[j].steps)
           /\ jobs'[j].steps \in {jobs[j].steps, Tail(jobs[j].steps), << >>}
<1>1. PICK k, m : k = jobs[j] /\ m = jobs'[j]
  OBVIOUS
<1>2. k # NotStarted /\ ServedBy(j, k) /\ {"handler", "delivery", "event"} \subseteq DOMAIN k
      /\ k.handler = "webhook"
  BY <1>1, WebhookFields DEF Common
<1>3. m = k \/ (k.steps # << >> /\ Moved(k, m))
  BY <1>1, <1>2, JobsStep
<1>4. ASSUME k.steps # << >>, Moved(k, m)
      PROVE  /\ m.handler = "webhook" /\ m.event = k.event /\ m.delivery = k.delivery
             /\ ToSet(m.steps) \subseteq ToSet(k.steps) /\ m.steps \in {Tail(k.steps), << >>}
  <2>1. m.handler = "webhook" /\ ToSet(m.steps) \subseteq ToSet(k.steps)
    BY <1>2, <1>4, MovedIsServed
  <2>2. m.event = k.event /\ m.delivery = k.delivery /\ m.steps \in {Tail(k.steps), << >>}
    BY <1>2, <1>4 DEF Moved
  <2> QED BY <2>1, <2>2
<1> QED BY <1>1, <1>2, <1>3, <1>4

\* Nobody else's event has the id of a webhook's.
LEMMA OwnEvent ==
    ASSUME SettingOK, JobsOK, LedgerOK, NEW i \in Jobs, jobs[i].handler = "webhook",
           NEW j \in Jobs, NEW e, NEW since, Appends(j, e, since),
           jobs[i].event \in ToSet(ledger)', jobs[i].event \notin ToSet(ledger)
    PROVE  i = j /\ e = jobs[j].event /\ "event" \in ToSet(jobs[j].steps)
<1>1. jobs[i].event.id = <<i, "event">>
  BY WebhookFields
<1>2. ToSet(ledger)' = ToSet(ledger) \/ ToSet(ledger)' = ToSet(ledger) \cup {e}
  <2>1. AppendEvent(e, since) /\ LedgerOnce
    BY DEF Appends, LedgerOK
  <2>2. /\ ~Keeps(e) => ledger' = ledger
        /\ Keeps(e) => ToSet(ledger)' = ToSet(ledger) \cup {e}
    BY <2>1, Appending
  <2> QED BY <2>2 DEF ToSet
<1>3. jobs[i].event = e
  BY <1>2
<1>4. \/ e.id = <<j, "event">> /\ e = jobs[j].event /\ "event" \in ToSet(jobs[j].steps)
      \/ e.id = <<j, "audit">>
  <2>1. \/ /\ e = jobs[j].event /\ e.id = <<j, "event">> /\ "event" \in DOMAIN jobs[j]
           /\ ToSet(jobs[j].steps) = {"event"} \cup ToSet(jobs'[j].steps)
           /\ "event" \notin ToSet(jobs'[j].steps)
        \/ /\ e = jobs[j].audit /\ e.id = <<j, "audit">> /\ e.mission = ""
           /\ jobs[j].handler \in {"admin", "create"}
           /\ ToSet(jobs[j].steps) = {"audit"} \cup ToSet(jobs'[j].steps)
           /\ "audit" \notin ToSet(jobs'[j].steps)
    BY AppendsOnce
  <2> QED BY <2>1
<1> QED BY <1>1, <1>3, <1>4

\* The call that records a delivery comes right before its event
\* (SaveWebhookDelivery).
LEMMA RecordsNow ==
    ASSUME SettingOK, JobsOK, LedgerOK, [Next]_vars, NEW i \in Jobs,
           jobs[i].handler = "webhook", "deliver" \in ToSet(jobs[i].steps),
           "deliver" \notin ToSet(jobs'[i].steps), Recorder(jobs[i])'
    PROVE  /\ Records(i) /\ jobs' = [jobs EXCEPT ![i] = Proceed(@)] /\ ledger' = ledger
           /\ "event" \in ToSet(jobs'[i].steps)
<1>1. /\ jobs[i] # NotStarted /\ InOrder(jobs[i].steps) /\ "steps" \in DOMAIN jobs[i]
      /\ jobs[i].event.id = <<i, "event">> /\ "event" \in ToSet(jobs[i].steps)
  BY WebhookFields DEF Common
<1>2. /\ jobs'[i].event = jobs[i].event
      /\ jobs'[i].steps \in {jobs[i].steps, Tail(jobs[i].steps), << >>}
  BY WebhookMoves
<1>3. jobs[i].event \notin ToSet(ledger)
  <2>1. <<i, "event">> \notin Ids(ledger)
    BY <1>1, Unrecorded
  <2> QED BY <1>1, <2>1, IdsOfEntries
<1>4. jobs[i].steps # << >>
  BY <1>1, StepsInOrder
<1>5. /\ ToSet(jobs[i].steps) = {Head(jobs[i].steps)} \cup ToSet(Tail(jobs[i].steps))
      /\ Head(jobs[i].steps) # "evaluate" =>
             Head(jobs[i].steps) \notin ToSet(Tail(jobs[i].steps))
  BY <1>1, <1>4, Proceeding
<1>6. ASSUME NEW j \in Jobs, NEW e, NEW since, Appends(j, e, since) PROVE FALSE
  <2>1. /\ jobs'[j] = Proceed(jobs[j]) /\ \A l \in Jobs \ {j} : jobs'[l] = jobs[l]
        /\ Head(jobs[j].steps) \in {"event", "audit"}
    BY <1>6, AppendsOnce DEF Appends
  <2>2. CASE i = j
    <3>1. jobs'[i].steps = Tail(jobs[i].steps)
      BY <1>1, <2>1, <2>2 DEF Proceed
    <3> QED BY <1>5, <2>1, <2>2, <3>1
  <2>3. CASE i # j
    BY <2>1, <2>3
  <2> QED BY <2>2, <2>3
<1>7. ASSUME jobs'[i] = jobs[i] PROVE FALSE
  BY <1>7
<1>8. ASSUME NEW j \in Jobs, Request(j) PROVE FALSE
  <2>1. jobs[j] = NotStarted /\ \E k : jobs' = [jobs EXCEPT ![j] = k]
    BY <1>8, RequestStarts
  <2> QED BY <1>1, <1>7, <2>1
<1>9. ASSUME ledger' = ledger, jobs'[i].steps = << >> PROVE FALSE
  <2>1. "event" \notin ToSet(jobs'[i].steps)
    BY <1>9, StepsInOrder
  <2>2. jobs'[i].event \in ToSet(ledger)
    <3>1. "event" \in ToSet(jobs'[i].steps) \/ jobs'[i].event \in ToSet(ledger)'
      BY DEF Recorder
    <3> QED BY <1>9, <2>1, <3>1 DEF ToSet
  <2> QED BY <1>2, <1>3, <2>2
<1>10. ASSUME Crash PROVE FALSE
  <2>1. jobs'[i] = [Finish(jobs[i]) EXCEPT !.cut = TRUE] /\ ledger' = ledger
    BY <1>4, <1>10 DEF Crash
  <2>2. jobs'[i].steps = << >>
    BY <1>1, <2>1 DEF Finish
  <2> QED BY <1>9, <2>1, <2>2
<1>11. ASSUME NEW j \in Jobs, Works(j), j # i PROVE FALSE
  <2>1. \E k : jobs' = [jobs EXCEPT ![j] = k]
    BY <1>11, Continuing DEF Works
  <2> QED BY <1>7, <1>11, <2>1
<1>12. ASSUME Works(i)
       PROVE  /\ Records(i) /\ jobs' = [jobs EXCEPT ![i] = Proceed(@)] /\ ledger' = ledger
              /\ "event" \in ToSet(jobs'[i].steps)
  <2>1. ledger' = ledger
    BY <1>12 DEF Works, ledgerVars
  <2>2. jobs'[i].steps = Tail(jobs[i].steps) /\ Head(jobs[i].steps) = "deliver"
    <3>1. jobs'[i].steps # << >>
      BY <1>9, <2>1
    <3>2. jobs'[i].steps = Tail(jobs[i].steps)
      BY <1>2, <3>1
    <3> QED BY <1>5, <3>2
  <2>3. SaveWebhookDelivery(i)
    BY <1>12, <2>2 DEF Works, Continue, EvaluateBound, EvaluateFile, UpdateBinding, DeleteRow,
                       AppendHandlerEvent, RecordAdminAction, Waiting
  <2>4. deliveries[jobs[i].delivery.id] = Nothing
    <3>1. ASSUME jobs' = [jobs EXCEPT ![i] = Finish(@)] PROVE FALSE
      <4>1. jobs'[i] = [jobs[i] EXCEPT !.steps = << >>]
        BY <3>1 DEF JobsOK, Finish
      <4>2. jobs'[i].steps = << >>
        BY <1>1, <4>1
      <4> QED BY <1>9, <2>1, <4>2
    <3> QED BY <2>3, <3>1 DEF SaveWebhookDelivery
  <2>5. "event" \in ToSet(jobs'[i].steps)
    BY <1>1, <1>5, <2>2
  <2> QED BY <2>1, <2>3, <2>4, <2>5 DEF SaveWebhookDelivery, Records
<1>13. CASE Idles
  BY <1>7, <1>13 DEF Idles
<1> QED BY <1>6, <1>8, <1>10, <1>11, <1>12, <1>13, Steps

\* Who has recorded a delivery did so before or does so now.
LEMMA RecordersArise ==
    ASSUME SettingOK, JobsOK, LedgerOK, RowsOK, [Next]_vars, NEW i \in Jobs, Recorder(jobs[i])'
    PROVE  /\ jobs[i].handler = "webhook" /\ jobs'[i].delivery = jobs[i].delivery
           /\ \/ Recorder(jobs[i])
              \/ "deliver" \in ToSet(jobs[i].steps) /\ Records(i)
<1>1. jobs'[i].handler = "webhook" /\ "deliver" \notin ToSet(jobs'[i].steps)
      /\ ("event" \in ToSet(jobs'[i].steps) \/ jobs'[i].event \in ToSet(ledger)')
  BY DEF Recorder
<1>2. jobs[i] # NotStarted
  <2> SUFFICES ASSUME jobs[i] = NotStarted PROVE FALSE
    OBVIOUS
  <2>1. jobs'[i] # NotStarted
    BY <1>1 DEF NotStarted
  <2>2. Request(i)
    BY <2>1, Arrived
  <2> QED BY <1>1, <2>2, DeliveryArrives
<1>3. jobs[i].handler = "webhook"
  <2>1. ServedBy(i, jobs[i])
    BY <1>2 DEF JobsOK
  <2>2. jobs'[i] = jobs[i] \/ (jobs[i].steps # << >> /\ Moved(jobs[i], jobs'[i]))
    BY <1>2, JobsStep
  <2>3. jobs'[i] = jobs[i] \/ jobs'[i].handler = jobs[i].handler
    BY <2>1, <2>2, MovedIsServed
  <2> QED BY <1>1, <2>3
<1>4. /\ jobs'[i].event = jobs[i].event /\ jobs'[i].delivery = jobs[i].delivery
      /\ ToSet(jobs'[i].steps) \subseteq ToSet(jobs[i].steps)
  BY <1>3, WebhookMoves
<1>5. CASE "deliver" \in ToSet(jobs[i].steps)
  BY <1>1, <1>3, <1>4, <1>5, RecordsNow
<1>6. CASE "deliver" \notin ToSet(jobs[i].steps)
  <2>1. CASE "event" \in ToSet(jobs[i].steps) \/ jobs[i].event \in ToSet(ledger)
    BY <1>3, <1>4, <1>6, <2>1 DEF Recorder
  <2>2. CASE "event" \notin ToSet(jobs[i].steps) /\ jobs[i].event \notin ToSet(ledger)
    <3>1. jobs[i].event \in ToSet(ledger)'
      BY <1>1, <1>4, <2>2
    <3>2. ASSUME NEW j \in Jobs, NEW e, NEW since, Appends(j, e, since) PROVE FALSE
      BY <1>3, <2>2, <3>1, <3>2, OwnEvent
    <3>3. ledger' # ledger
      BY <2>2, <3>1 DEF ToSet
    <3>4. ASSUME NEW j \in Jobs, Request(j) \/ Works(j) PROVE ledger' = ledger
      BY <3>4, RequestStarts DEF Works, ledgerVars
    <3>5. ASSUME Crash \/ Idles PROVE ledger' = ledger
      BY <3>5 DEF Crash, Idles
    <3> QED BY <3>2, <3>3, <3>4, <3>5, Steps
  <2> QED BY <2>1, <2>2
<1> QED BY <1>3, <1>4, <1>5, <1>6

\* One handler records a delivery, whatever is repeated (SaveWebhookDelivery).
LEMMA InboxKept ==
    ASSUME SettingOK, JobsOK, LedgerOK, RowsOK, DeliveriesOK, InboxOK, [Next]_vars
    PROVE  InboxOK'
<1>1. Jobs' = Jobs
  BY JobsStep DEF Jobs
<1>2. \A j \in Jobs : jobs[j].handler = "webhook" =>
          jobs[j].delivery.id \in DeliveryIds /\ jobs[j].delivery # Nothing
  BY DEF DeliveriesOK, Delivers
<1>3. deliveries = [d \in DeliveryIds |-> deliveries[d]]
  BY DEF DeliveriesOK
<1>4. ASSUME NEW j \in Jobs, jobs[j].handler = "webhook", Recorder(jobs[j])
      PROVE  /\ deliveries[jobs[j].delivery.id] = jobs[j].delivery
             /\ deliveries'[jobs[j].delivery.id] = jobs[j].delivery
  <2>1. deliveries[jobs[j].delivery.id] = jobs[j].delivery
    BY <1>4 DEF InboxOK
  <2>2. \/ deliveries' = deliveries
        \/ \E l \in Jobs : /\ deliveries[jobs[l].delivery.id] = Nothing
                           /\ deliveries' = [deliveries EXCEPT
                                 ![jobs[l].delivery.id] = jobs[l].delivery]
    BY DeliveriesStep
  <2>3. PICK d, v : d = jobs[j].delivery.id /\ v = jobs[j].delivery
    OBVIOUS
  <2>4. d \in DeliveryIds /\ v # Nothing /\ deliveries[d] = v
    BY <1>2, <1>4, <2>1, <2>3
  <2>5. ASSUME NEW x, NEW y, deliveries[x] = Nothing, deliveries' = [deliveries EXCEPT ![x] = y]
        PROVE  deliveries'[d] = v
    <3>1. x # d
      BY <2>4, <2>5
    <3>2. deliveries' = [c \in DeliveryIds |-> IF c = x THEN y ELSE deliveries[c]]
      BY <1>3, <2>5
    <3> QED BY <2>4, <3>1, <3>2
  <2> QED BY <2>2, <2>3, <2>4, <2>5
<1>5. ASSUME NEW j \in Jobs, Recorder(jobs[j])'
      PROVE  deliveries'[jobs'[j].delivery.id] = jobs'[j].delivery
  <2>1. jobs[j].handler = "webhook" /\ jobs'[j].delivery = jobs[j].delivery
    BY <1>5, RecordersArise
  <2>2. CASE Recorder(jobs[j])
    BY <1>4, <2>1, <2>2
  <2>3. CASE Records(j)
    BY <1>2, <1>3, <2>1, <2>3 DEF Records
  <2> QED BY <1>5, <2>2, <2>3, RecordersArise
<1>6. ASSUME NEW i \in Jobs, NEW j \in Jobs, Recorder(jobs[i])', Recorder(jobs[j])',
             jobs'[i].delivery.id = jobs'[j].delivery.id
      PROVE  i = j
  <2>1. /\ jobs[i].handler = "webhook" /\ jobs'[i].delivery = jobs[i].delivery
        /\ Recorder(jobs[i]) \/ Records(i)
        /\ jobs[j].handler = "webhook" /\ jobs'[j].delivery = jobs[j].delivery
        /\ Recorder(jobs[j]) \/ Records(j)
    BY <1>6, RecordersArise
  <2>2. CASE Recorder(jobs[i]) /\ Recorder(jobs[j])
    BY <1>6, <2>1, <2>2 DEF InboxOK
  <2>3. CASE Recorder(jobs[i]) /\ Records(j)
    BY <1>2, <1>4, <1>6, <2>1, <2>3 DEF Records
  <2>4. CASE Records(i) /\ Recorder(jobs[j])
    BY <1>2, <1>4, <1>6, <2>1, <2>4 DEF Records
  <2>5. CASE ~Recorder(jobs[i]) /\ ~Recorder(jobs[j])
    <3>1. /\ "deliver" \in ToSet(jobs[i].steps) /\ "deliver" \notin ToSet(jobs'[i].steps)
          /\ "deliver" \in ToSet(jobs[j].steps) /\ "deliver" \notin ToSet(jobs'[j].steps)
      <4>1. "deliver" \in ToSet(jobs[i].steps) /\ "deliver" \in ToSet(jobs[j].steps)
        BY <1>6, <2>5, RecordersArise
      <4>2. "deliver" \notin ToSet(jobs'[i].steps) /\ "deliver" \notin ToSet(jobs'[j].steps)
        BY <1>6 DEF Recorder
      <4> QED BY <4>1, <4>2
    <3>2. jobs' = [jobs EXCEPT ![i] = Proceed(@)]
      BY <1>6, <2>1, <3>1, RecordsNow
    <3>3. PICK k : k = Proceed(jobs[i])
      OBVIOUS
    <3>4. i # j => jobs'[j] = jobs[j]
      <4>1. jobs' = [l \in Jobs |-> IF l = i THEN k ELSE jobs[l]]
        BY <3>2, <3>3 DEF JobsOK
      <4> QED BY <4>1
    <3> QED BY <3>1, <3>4
  <2>6. \/ Recorder(jobs[i]) /\ Recorder(jobs[j])
        \/ Recorder(jobs[i]) /\ Records(j)
        \/ Records(i) /\ Recorder(jobs[j])
        \/ ~Recorder(jobs[i]) /\ ~Recorder(jobs[j])
    BY <2>1
  <2> QED BY <2>2, <2>3, <2>4, <2>5, <2>6
<1>7. \A j \in Jobs : Recorder(jobs[j])' => deliveries'[jobs'[j].delivery.id] = jobs'[j].delivery
  BY <1>5
<1>8. \A i, j \in Jobs :
          Recorder(jobs[i])' /\ Recorder(jobs[j])' =>
              (jobs'[i].delivery.id = jobs'[j].delivery.id => i = j)
  BY <1>6
<1> QED BY <1>1, <1>7, <1>8, Zenon DEF InboxOK


-----------------------------------------------------------------------------
(* Steps of DeliveryInbox.                                                 *)

\* Deliveries whose announcement will not come.
Dropped ==
    {d \in DeliveryIds : /\ deliveries[d] # Nothing
                         /\ Announcements(d) = {} /\ ~WillAnnounce(d)}

\* Announcements that will not come, because a handler died or its event was not
\* kept, are dropped.
LEMMA Dropping ==
    ASSUME deliveries' = deliveries, Dropped \subseteq Dropped',
           \A d \in DeliveryIds : Announcements(d)' = Announcements(d)
    PROVE  [Inbox!Next]_(Inbox!inbox)
<1>1. [d \in DeliveryIds |-> Announcements(d)]' = [d \in DeliveryIds |-> Announcements(d)]
  OBVIOUS
<1>2. PICK D : D = Dropped' \ Dropped
  OBVIOUS
<1>3. Dropped' = Dropped \cup D /\ D \in SUBSET DeliveryIds
  BY <1>2 DEF Dropped
<1>4. \A d \in D : deliveries[d] # Nothing /\ Announcements(d) = {}
  BY <1>2 DEF Dropped
<1>5. CASE D = {}
  <2>1. Dropped' = Dropped
    BY <1>3, <1>5
  <2> QED BY <1>1, <2>1 DEF Inbox!inbox, Dropped
<1>6. CASE D # {}
  <2>1. \A d \in D : [c \in DeliveryIds |-> Announcements(c)][d] = Announcements(d)
    BY <1>3
  <2>2. Inbox!Drop(D)
    BY <1>1, <1>3, <1>4, <1>6, <2>1 DEF Inbox!Drop, Dropped
  <2> QED BY <1>3, <2>2 DEF Inbox!Next
<1> QED BY <1>5, <1>6

\* A delivery is recorded, and its handler is about to announce it.
LEMMA Receiving ==
    ASSUME NEW d \in DeliveryIds, deliveries[d] = Nothing, deliveries'[d] # Nothing,
           deliveries' = [deliveries EXCEPT ![d] = deliveries'[d]], Dropped' = Dropped,
           \A c \in DeliveryIds : Announcements(c)' = Announcements(c)
    PROVE  [Inbox!Next]_(Inbox!inbox)
<1>1. [c \in DeliveryIds |-> Announcements(c)]' = [c \in DeliveryIds |-> Announcements(c)]
  OBVIOUS
<1>2. Inbox!Receive(d)
  BY <1>1 DEF Inbox!Receive, Dropped
<1> QED BY <1>2 DEF Inbox!Next

\* A delivery that was recorded is announced as it was recorded.
LEMMA Announcing ==
    ASSUME NEW d \in DeliveryIds, NEW e \in EventIds, deliveries' = deliveries,
           deliveries[d] # Nothing, Announcements(d) = {}, d \notin Dropped,
           Announcements(d)' = {<<e, deliveries[d]>>}, Dropped' = Dropped,
           \A c \in DeliveryIds \ {d} : Announcements(c)' = Announcements(c)
    PROVE  [Inbox!Next]_(Inbox!inbox)
<1>1. PICK a, b : /\ a = [c \in DeliveryIds |-> Announcements(c)]
                  /\ b = [c \in DeliveryIds |-> Announcements(c)]'
  OBVIOUS
<1>2. b = [a EXCEPT ![d] = {<<e, deliveries[d]>>}]
  <2>1. b = [c \in DeliveryIds |-> Announcements(c)']
    BY <1>1
  <2>2. b = [c \in DeliveryIds |-> IF c = d THEN {<<e, deliveries[d]>>} ELSE Announcements(c)]
    BY <2>1
  <2> QED BY <1>1, <2>2
<1>3. a[d] = {}
  BY <1>1
<1>4. Inbox!Announce(d)
  BY <1>1, <1>2, <1>3 DEF Inbox!Announce, Dropped
<1> QED BY <1>4 DEF Inbox!Next

\* What is said of a delivery changes only when an event says so.
LEMMA SameAnnouncements ==
    ASSUME \/ ToSet(ledger)' = ToSet(ledger)
           \/ \E e : ToSet(ledger)' = ToSet(ledger) \cup {e} /\ ~Announces(e)
    PROVE  \A d : Announcements(d)' = Announcements(d)
<1> SUFFICES ASSUME NEW d PROVE Announcements(d)' = Announcements(d)
  OBVIOUS
<1>1. {x \in ToSet(ledger) : x.type = "webhook" /\ x.about[1].id = d}'
        = {x \in ToSet(ledger) : x.type = "webhook" /\ x.about[1].id = d}
  BY DEF Announces
<1> QED BY <1>1 DEF Announcements

\* A dropped announcement stays dropped: whoever recorded the delivery is gone
\* (RecordersArise).
LEMMA DroppedStay ==
    ASSUME SettingOK, JobsOK, LedgerOK, RowsOK, [Next]_vars, deliveries' = deliveries,
           \A d \in DeliveryIds : Announcements(d)' = Announcements(d)
    PROVE  Dropped \subseteq Dropped'
<1> SUFFICES ASSUME NEW d \in Dropped PROVE d \in Dropped'
  OBVIOUS
<1>1. d \in DeliveryIds /\ deliveries[d] # Nothing /\ Announcements(d) = {} /\ ~WillAnnounce(d)
  BY DEF Dropped
<1>2. ASSUME WillAnnounce(d)' PROVE FALSE
  <2>1. PICK j \in By({"webhook"})' :
             /\ jobs'[j].delivery.id = d
             /\ "event" \in ToSet(jobs'[j].steps) /\ "deliver" \notin ToSet(jobs'[j].steps)
    BY <1>2 DEF WillAnnounce, Ahead
  <2>2. j \in Jobs /\ Recorder(jobs[j])'
    <3>1. j \in Jobs' /\ jobs'[j].handler = "webhook"
      BY <2>1 DEF By, Started
    <3>2. Jobs' = Jobs
      BY JobsStep DEF Jobs
    <3> QED BY <2>1, <3>1, <3>2 DEF Recorder
  <2>3. /\ jobs[j].handler = "webhook" /\ jobs'[j].delivery = jobs[j].delivery
        /\ Recorder(jobs[j]) \/ Records(j)
    BY <2>2, RecordersArise
  <2>4. ~Records(j)
    BY <1>1, <2>1, <2>3 DEF Records
  <2>5. "event" \in ToSet(jobs[j].steps) /\ "deliver" \notin ToSet(jobs[j].steps)
    <3>1. ToSet(jobs'[j].steps) \subseteq ToSet(jobs[j].steps)
      BY <2>2, <2>3, WebhookMoves
    <3> QED BY <2>1, <2>3, <2>4, <3>1 DEF Recorder
  <2>6. j \in By({"webhook"})
    <3>1. jobs[j] # NotStarted
      BY <2>3 DEF NotStarted
    <3> QED BY <2>2, <2>3, <3>1 DEF By, Started
  <2>7. WillAnnounce(d)
    BY <2>1, <2>3, <2>5, <2>6 DEF WillAnnounce, Ahead
  <2> QED BY <1>1, <2>7
<1>3. deliveries'[d] # Nothing /\ Announcements(d)' = {} /\ ~WillAnnounce(d)'
  BY <1>1, <1>2
<1> QED BY <1>1, <1>3 DEF Dropped

\* Who appends an event that announces a delivery recorded it, and nothing was said
\* of that delivery before (AppendHandlerEvent).
LEMMA Announcer ==
    ASSUME SettingOK, JobsOK, LedgerOK, DeliveriesOK, ToldOK, InboxOK,
           NEW j \in Jobs, NEW e, NEW since, Appends(j, e, since), Announces(e)
    PROVE  /\ jobs[j].handler = "webhook" /\ jobs[j].delivery.id \in DeliveryIds
           /\ jobs[j].delivery # Nothing
           /\ deliveries[jobs[j].delivery.id] = jobs[j].delivery
           /\ e.about = <<jobs[j].delivery>> /\ e.id \in EventIds
           /\ "event" \in ToSet(jobs[j].steps) /\ "deliver" \notin ToSet(jobs[j].steps)
           /\ Announcements(jobs[j].delivery.id) = {}
<1>1. jobs[j] # NotStarted
  BY AppendsOnce
<1>2. e = jobs[j].event /\ "event" \in DOMAIN jobs[j] /\ e.id = <<j, "event">>
      /\ "event" \in ToSet(jobs[j].steps)
  <2>1. \/ e = jobs[j].event /\ "event" \in DOMAIN jobs[j] /\ e.id = <<j, "event">>
           /\ "event" \in ToSet(jobs[j].steps)
        \/ e = jobs[j].audit /\ jobs[j].handler \in {"admin", "create"}
    <3>1. \/ /\ e = jobs[j].event /\ e.id = <<j, "event">> /\ "event" \in DOMAIN jobs[j]
             /\ ToSet(jobs[j].steps) = {"event"} \cup ToSet(jobs'[j].steps)
             /\ "event" \notin ToSet(jobs'[j].steps)
          \/ /\ e = jobs[j].audit /\ e.id = <<j, "audit">> /\ e.mission = ""
             /\ jobs[j].handler \in {"admin", "create"}
             /\ ToSet(jobs[j].steps) = {"audit"} \cup ToSet(jobs'[j].steps)
             /\ "audit" \notin ToSet(jobs'[j].steps)
      BY AppendsOnce
    <3> QED BY <3>1
  <2>2. Told(jobs[j])
    BY DEF ToldOK
  <2> QED BY <2>1, <2>2 DEF Told
<1>3. jobs[j].handler = "webhook" /\ e.about = <<jobs[j].delivery>>
  <2>1. Told(jobs[j])
    BY DEF ToldOK
  <2> QED BY <1>2, <2>1 DEF Told
<1>4. "deliver" \notin ToSet(jobs[j].steps)
  <2>1. ServedBy(j, jobs[j]) /\ InOrder(jobs[j].steps)
    BY <1>3, WebhookFields
  <2>2. jobs[j].steps # << >> /\ Head(jobs[j].steps) \in {"event", "audit"}
    BY DEF Appends
  <2>3. /\ ToSet(jobs[j].steps) = {Head(jobs[j].steps)} \cup ToSet(Tail(jobs[j].steps))
        /\ \A c \in ToSet(Tail(jobs[j].steps)) :
              Turn[Head(jobs[j].steps)] < Turn[c] \/ c = "evaluate"
    BY <2>1, <2>2, Proceeding
  <2>4. Turn["event"] = 3 /\ Turn["audit"] = 4 /\ Turn["deliver"] = 2
    BY DEF Turn
  <2>5. "deliver" \notin ToSet(Tail(jobs[j].steps))
    <3>1. CASE Head(jobs[j].steps) = "event"
      BY <2>3, <2>4, <3>1
    <3>2. CASE Head(jobs[j].steps) = "audit"
      BY <2>3, <2>4, <3>2
    <3> QED BY <2>2, <3>1, <3>2
  <2> QED BY <2>2, <2>3, <2>5
<1>5. Recorder(jobs[j])
  BY <1>2, <1>3, <1>4 DEF Recorder
<1>6. /\ jobs[j].delivery.id \in DeliveryIds /\ jobs[j].delivery # Nothing
      /\ deliveries[jobs[j].delivery.id] = jobs[j].delivery
  BY <1>3, <1>5 DEF DeliveriesOK, Delivers, InboxOK
<1>7. e.id \in EventIds
  BY <1>2, EventsNamed
<1>8. ASSUME NEW x \in ToSet(ledger), Announces(x), x.about[1].id = jobs[j].delivery.id
      PROVE  FALSE
  <2>1. PICK i \in Jobs :
             \/ /\ "event" \in DOMAIN jobs[i] /\ x = jobs[i].event
                /\ "event" \notin ToSet(jobs[i].steps)
             \/ /\ jobs[i].handler \in {"admin", "create"} /\ x = jobs[i].audit
                /\ "audit" \notin ToSet(jobs[i].steps)
    BY DEF LedgerOK, Sourced
  <2>2. Told(jobs[i])
    BY DEF ToldOK
  <2>3. /\ "event" \in DOMAIN jobs[i] /\ x = jobs[i].event
        /\ "event" \notin ToSet(jobs[i].steps)
    BY <1>8, <2>1, <2>2 DEF Told
  <2>4. jobs[i].handler = "webhook" /\ x.about = <<jobs[i].delivery>>
    BY <1>8, <2>2, <2>3 DEF Told
  <2>5. jobs[i].delivery.id = jobs[j].delivery.id
    BY <1>8, <2>4
  <2>6. "deliver" \notin ToSet(jobs[i].steps)
    BY <2>3, <2>4, WebhookFields
  <2>7. Recorder(jobs[i])
    BY <2>3, <2>4, <2>6 DEF Recorder
  <2>8. i = j
    BY <1>5, <2>5, <2>7 DEF InboxOK
  <2> QED BY <1>2, <2>3, <2>8
<1>9. Announcements(jobs[j].delivery.id) = {}
  <2>1. {x \in ToSet(ledger) : x.type = "webhook" /\ x.about[1].id = jobs[j].delivery.id} = {}
    BY <1>8 DEF Announces
  <2> QED BY <2>1 DEF Announcements
<1> QED BY <1>2, <1>3, <1>4, <1>6, <1>7, <1>9

\* What a handler does says nothing of the deliveries of the others.
LEMMA OthersAnnounce ==
    ASSUME Jobs' = Jobs, NEW j \in Jobs, \A i \in Jobs \ {j} : jobs'[i] = jobs[i],
           NEW d, jobs[j].delivery.id # d, jobs'[j].delivery.id # d
    PROVE  WillAnnounce(d)' <=> WillAnnounce(d)
<1>1. ASSUME WillAnnounce(d) PROVE WillAnnounce(d)'
  <2>1. PICK i \in By({"webhook"}) :
            /\ jobs[i].delivery.id = d /\ "event" \in ToSet(jobs[i].steps)
            /\ "deliver" \notin ToSet(jobs[i].steps)
    BY <1>1 DEF WillAnnounce, Ahead
  <2>2. i \in Jobs /\ jobs'[i] = jobs[i] /\ i \in By({"webhook"})'
    BY <2>1 DEF By, Started
  <2> QED BY <2>1, <2>2 DEF WillAnnounce, Ahead
<1>2. ASSUME WillAnnounce(d)' PROVE WillAnnounce(d)
  <2>1. PICK i \in By({"webhook"})' :
            /\ jobs'[i].delivery.id = d /\ "event" \in ToSet(jobs'[i].steps)
            /\ "deliver" \notin ToSet(jobs'[i].steps)
    BY <1>2 DEF WillAnnounce, Ahead
  <2>2. i \in Jobs /\ jobs'[i] = jobs[i] /\ i \in By({"webhook"})
    BY <2>1 DEF By, Started
  <2> QED BY <2>1, <2>2 DEF WillAnnounce, Ahead
<1> QED BY <1>1, <1>2

\* Every step of the service is one of DeliveryInbox: the first of the handlers to
\* record a delivery announces it, and the others end (IngestWebhook,
\* SaveWebhookDelivery).
LEMMA InboxSteps ==
    ASSUME SettingOK, JobsOK, LedgerOK, RowsOK, DeliveriesOK, ToldOK, InboxOK, [Next]_vars
    PROVE  [Inbox!Next]_(Inbox!inbox)
<1>1. Jobs' = Jobs
  BY JobsStep DEF Jobs
<1>2. ASSUME deliveries' = deliveries, \A d \in DeliveryIds : Announcements(d)' = Announcements(d)
      PROVE  [Inbox!Next]_(Inbox!inbox)
  BY <1>2, DroppedStay, Dropping
<1>3. ASSUME deliveries' = deliveries, ledger' = ledger
      PROVE  [Inbox!Next]_(Inbox!inbox)
  <2>1. ToSet(ledger)' = ToSet(ledger)
    BY <1>3 DEF ToSet
  <2> QED BY <1>2, <1>3, <2>1, SameAnnouncements
<1>4. ASSUME NEW j \in Jobs, Request(j) PROVE [Inbox!Next]_(Inbox!inbox)
  <2>1. deliveries' = deliveries /\ ledger' = ledger
    BY <1>4, RequestStarts DEF ledgerVars
  <2> QED BY <1>3, <2>1
<1>5. ASSUME Idles \/ Crash PROVE [Inbox!Next]_(Inbox!inbox)
  <2>1. deliveries' = deliveries /\ ledger' = ledger
    BY <1>5 DEF Idles, Crash
  <2> QED BY <1>3, <2>1
<1>6. ASSUME NEW j \in Jobs, Works(j), ~SaveWebhookDelivery(j)
      PROVE  [Inbox!Next]_(Inbox!inbox)
  <2>1. deliveries' = deliveries
    BY <1>6 DEF Works, Continue, EvaluateBound, EvaluateFile, UpdateBinding, DeleteRow,
                AppendHandlerEvent, RecordAdminAction
  <2>2. ledger' = ledger
    BY <1>6 DEF Works, ledgerVars
  <2> QED BY <1>3, <2>1, <2>2
<1>7. ASSUME NEW j \in Jobs, Works(j), SaveWebhookDelivery(j)
      PROVE  [Inbox!Next]_(Inbox!inbox)
  <2>1. PICK v, d : v = jobs[j].delivery /\ d = jobs[j].delivery.id
    OBVIOUS
  <2>2. ledger' = ledger
    BY <1>7 DEF Works, ledgerVars
  <2>3. CASE deliveries[d] # Nothing
    <3>1. deliveries' = deliveries
      BY <1>7, <2>1, <2>3 DEF SaveWebhookDelivery
    <3> QED BY <1>3, <2>2, <3>1
  <2>4. CASE deliveries[d] = Nothing
    <3>1. /\ deliveries' = [deliveries EXCEPT ![d] = v] /\ jobs' = [jobs EXCEPT ![j] = Proceed(@)]
          /\ jobs[j].steps # << >> /\ Head(jobs[j].steps) = "deliver"
      BY <1>7, <2>1, <2>4 DEF SaveWebhookDelivery, Waiting
    <3>2. /\ jobs[j] # NotStarted /\ ServedBy(j, jobs[j])
          /\ InOrder(jobs[j].steps) /\ Common \subseteq DOMAIN jobs[j]
      <4>1. jobs[j] # NotStarted
        BY <3>1 DEF NotStarted
      <4> QED BY <4>1 DEF JobsOK, ServedBy
    <3>3. "deliver" \in ToSet(jobs[j].steps) /\ "deliver" \notin ToSet(Tail(jobs[j].steps))
      BY <3>1, <3>2, Proceeding
    <3>4. jobs[j].handler = "webhook"
      <4>1. \A h \in Handlers : "deliver" \in CallsOf[h] => h = "webhook"
        BY DEF Handlers, CallsOf
      <4> QED BY <3>2, <3>3, <4>1 DEF ServedBy
    <3>5. "event" \in ToSet(Tail(jobs[j].steps))
      <4>1. "event" \in ToSet(jobs[j].steps)
        BY <3>3, <3>4, WebhookFields
      <4> QED BY <3>1, <3>2, <4>1, Proceeding
    <3>6. d \in DeliveryIds /\ v # Nothing
      BY <2>1, <3>4 DEF DeliveriesOK, Delivers
    <3>7. deliveries' = [c \in DeliveryIds |-> IF c = d THEN v ELSE deliveries[c]]
      BY <3>1 DEF DeliveriesOK
    <3>8. /\ deliveries'[d] # Nothing
          /\ deliveries' = [deliveries EXCEPT ![d] = deliveries'[d]]
      BY <3>1, <3>6, <3>7
    <3>9. /\ jobs'[j].steps = Tail(jobs[j].steps)
          /\ jobs'[j].handler = "webhook" /\ jobs'[j].delivery = v
          /\ \A i \in Jobs \ {j} : jobs'[i] = jobs[i]
      <4>1. PICK k : k = Proceed(jobs[j])
        OBVIOUS
      <4>2. jobs' = [i \in Jobs |-> IF i = j THEN k ELSE jobs[i]]
        BY <3>1, <4>1 DEF JobsOK
      <4>3. jobs'[j] = [jobs[j] EXCEPT !.steps = Tail(@)]
        BY <4>1, <4>2 DEF Proceed
      <4>4. jobs'[j].steps = Tail(jobs[j].steps)
        BY <3>2, <4>3 DEF Common
      <4>5. jobs'[j].handler = "webhook" /\ jobs'[j].delivery = v
        BY <2>1, <3>4, WebhookMoves
      <4> QED BY <4>2, <4>4, <4>5
    <3>10. WillAnnounce(d)'
      <4>1. jobs'[j] # NotStarted
        BY <3>9 DEF NotStarted
      <4>2. j \in By({"webhook"})'
        BY <1>1, <3>9, <4>1 DEF By, Started
      <4>3. /\ jobs'[j].delivery.id = d /\ "event" \in ToSet(jobs'[j].steps)
            /\ "deliver" \notin ToSet(jobs'[j].steps)
        BY <2>1, <3>3, <3>5, <3>9
      <4> QED BY <4>2, <4>3 DEF WillAnnounce, Ahead
    <3>11. \A c \in DeliveryIds : Announcements(c)' = Announcements(c)
      <4>1. ToSet(ledger)' = ToSet(ledger)
        BY <2>2 DEF ToSet
      <4> QED BY <4>1, SameAnnouncements
    <3>12. \A c \in DeliveryIds \ {d} : WillAnnounce(c)' <=> WillAnnounce(c)
      BY <1>1, <2>1, <3>9, OthersAnnounce
    <3>13. Dropped' = Dropped
      <4>1. ASSUME NEW c \in DeliveryIds PROVE c \in Dropped' <=> c \in Dropped
        <5>1. CASE c = d
          BY <2>4, <3>10, <5>1 DEF Dropped
        <5>2. CASE c # d
          <6>1. deliveries'[c] = deliveries[c]
            BY <3>7, <5>2
          <6> QED BY <3>11, <3>12, <5>2, <6>1 DEF Dropped
        <5> QED BY <5>1, <5>2
      <4>2. Dropped \subseteq DeliveryIds /\ Dropped' \subseteq DeliveryIds
        BY DEF Dropped
      <4> QED BY <4>1, <4>2
    <3> QED BY <2>4, <3>6, <3>8, <3>11, <3>13, Receiving
  <2> QED BY <2>3, <2>4
<1>8. ASSUME NEW j \in Jobs, NEW e, NEW since, Appends(j, e, since)
      PROVE  [Inbox!Next]_(Inbox!inbox)
  <2>1. deliveries' = deliveries /\ AppendEvent(e, since)
        /\ \A i \in Jobs \ {j} : jobs'[i] = jobs[i]
    BY <1>8, AppendsOnce DEF Appends
  <2>2. /\ ~Keeps(e) => ledger' = ledger
        /\ Keeps(e) => ToSet(ledger)' = ToSet(ledger) \cup {e}
    BY <2>1, Appending DEF LedgerOK
  <2>3. CASE ~Keeps(e)
    BY <1>3, <2>1, <2>2, <2>3
  <2>4. CASE Keeps(e) /\ ~Announces(e)
    BY <1>2, <2>1, <2>2, <2>4, SameAnnouncements
  <2>5. CASE Keeps(e) /\ Announces(e)
    <3>1. PICK v, d : v = jobs[j].delivery /\ d = jobs[j].delivery.id
      OBVIOUS
    <3>2. /\ jobs[j].handler = "webhook" /\ d \in DeliveryIds /\ v # Nothing
          /\ deliveries[d] = v /\ e.about = <<v>> /\ e.id \in EventIds
          /\ "event" \in ToSet(jobs[j].steps) /\ "deliver" \notin ToSet(jobs[j].steps)
          /\ Announcements(d) = {}
      BY <1>8, <2>5, <3>1, Announcer
    <3>3. e.type = "webhook" /\ e.about[1] = v /\ v.id = d
      BY <2>5, <3>1, <3>2 DEF Announces
    <3>4. ToSet(ledger)' = ToSet(ledger) \cup {e}
      BY <2>2, <2>5
    <3>5. Announcements(d)' = {<<e.id, v>>}
      <4>1. {x \in ToSet(ledger) : x.type = "webhook" /\ x.about[1].id = d} = {}
        BY <3>2 DEF Announcements
      <4>2. {x \in ToSet(ledger)' : x.type = "webhook" /\ x.about[1].id = d} = {e}
        BY <3>3, <3>4, <4>1
      <4>3. Announcements(d)' = {<<x.id, x.about[1]>> : x \in {e}}
        BY <4>2 DEF Announcements
      <4> QED BY <3>3, <4>3
    <3>6. \A c \in DeliveryIds \ {d} : Announcements(c)' = Announcements(c)
      <4>1. ASSUME NEW c \in DeliveryIds \ {d} PROVE Announcements(c)' = Announcements(c)
        <5>1. {x \in ToSet(ledger)' : x.type = "webhook" /\ x.about[1].id = c}
                = {x \in ToSet(ledger) : x.type = "webhook" /\ x.about[1].id = c}
          BY <3>3, <3>4
        <5> QED BY <5>1 DEF Announcements
      <4> QED BY <4>1
    <3>7. j \in By({"webhook"})
      <4>1. jobs[j] # NotStarted
        BY <3>2 DEF NotStarted
      <4> QED BY <3>2, <4>1 DEF By, Started
    <3>8. d \notin Dropped
      <4>1. WillAnnounce(d)
        BY <3>1, <3>2, <3>7 DEF WillAnnounce, Ahead
      <4> QED BY <4>1 DEF Dropped
    <3>9. jobs'[j].delivery = v
      BY <3>1, <3>2, WebhookMoves
    <3>10. \A c \in DeliveryIds \ {d} : WillAnnounce(c)' <=> WillAnnounce(c)
      BY <1>1, <2>1, <3>1, <3>9, OthersAnnounce
    <3>11. Dropped' = Dropped
      <4>1. ASSUME NEW c \in DeliveryIds PROVE c \in Dropped' <=> c \in Dropped
        <5>1. CASE c = d
          BY <3>5, <3>8, <5>1 DEF Dropped
        <5>2. CASE c # d
          BY <2>1, <3>6, <3>10, <5>2 DEF Dropped
        <5> QED BY <5>1, <5>2
      <4>2. Dropped \subseteq DeliveryIds /\ Dropped' \subseteq DeliveryIds
        BY DEF Dropped
      <4> QED BY <4>1, <4>2
    <3> QED BY <2>1, <3>2, <3>5, <3>6, <3>8, <3>11, Announcing
  <2> QED BY <2>3, <2>4, <2>5
<1> QED BY <1>4, <1>5, <1>6, <1>7, <1>8, Steps

-----------------------------------------------------------------------------
(* The theorems.                                                           *)

\* What is true after every step, whatever the deployment.
Inv ==
    /\ SettingOK /\ JobsOK /\ LedgerOK /\ OutboxOK /\ AuditsOK
    /\ RowsOK /\ CopiesOK /\ DeliveriesOK /\ NotesOK
    /\ ResolutionsOK /\ AuthorityOK /\ AnswersOK /\ ChecksOK /\ VouchOK
    /\ ToldOK /\ InboxOK

\* A process that just started serves nobody and has no rows (Init).
LEMMA Initially ==
    ASSUME Init
    PROVE  Inv /\ Feed!Init /\ Inbox!Init
<1>1. setting \in Deployments /\ store = setting.store /\ ledger = << >> /\ outbox = {}
      /\ batch = << >> /\ published = << >> /\ lost = {} /\ rows = {}
      /\ deliveries = [d \in DeliveryIds |-> Nothing] /\ jobs = [j \in Jobs |-> NotStarted]
  BY DEF Init, LedgerInit
<1>2. \A j \in Jobs : jobs[j] = NotStarted
  BY <1>1
<1>3. NotStarted.handler = "none" /\ ~HasCopy(NotStarted)
  BY DEF NotStarted, HasCopy, Noted
<1>4. ToSet(<< >>) = {} /\ Ids(ledger) = {} /\ ToSet(ledger) = {}
  BY <1>1 DEF ToSet, Ids
<1>5. SettingOK /\ JobsOK
  BY <1>1, <1>2 DEF SettingOK, JobsOK
<1>6. LedgerOK
  BY <1>1, <1>4 DEF LedgerOK, LedgerOnce
<1>7. OutboxOK
  BY <1>1, <1>4 DEF OutboxOK
<1>8. AuditsOK /\ ResolutionsOK /\ ChecksOK
  BY <1>2, <1>3 DEF AuditsOK, ResolutionsOK, ChecksOK
<1>9. RowsOK
  BY <1>1, FS_EmptySet DEF RowsOK
<1>10. CopiesOK
  BY <1>2, <1>3 DEF CopiesOK, Placed, Kept
<1>11. DeliveriesOK
  BY <1>1, <1>2, <1>3 DEF DeliveriesOK, Delivers
<1>12. NotesOK
  BY <1>1, <1>2, <1>3 DEF NotesOK
<1>13. AuthorityOK
  BY <1>1, <1>2, <1>3 DEF AuthorityOK
<1>14. AnswersOK
  BY <1>1, <1>2, <1>3 DEF AnswersOK
<1>15. VouchOK
  BY <1>1, <1>2, <1>3 DEF VouchOK, Unjudged
<1>16. Feed!Init
  BY <1>1, <1>4 DEF Feed!Init, Queued
<1>17. ToldOK
  <2>1. "event" \notin DOMAIN NotStarted
    BY DEF NotStarted
  <2>2. \A k : k = NotStarted => Told(k)
    BY <1>3, <2>1 DEF Told
  <2> QED BY <1>2, <2>2 DEF ToldOK
<1>18. InboxOK
  BY <1>2, <1>3 DEF InboxOK, Recorder
<1>19. Inbox!Init
  <2>1. \A d \in DeliveryIds : Announcements(d) = {}
    BY <1>4 DEF Announcements
  <2> QED BY <1>1, <2>1 DEF Inbox!Init
<1> QED BY <1>5, <1>6, <1>7, <1>8, <1>9, <1>10, <1>11, <1>12, <1>13, <1>14, <1>15, <1>16, <1>17,
           <1>18, <1>19 DEF Inv

\* The invariant is inductive: handlers that overlap at every call, the publisher
\* and crashes keep every part of it.
THEOREM Invariant == Spec => []Inv
<1>1. Init => Inv
  BY Initially
<1>2. Inv /\ [Next]_vars => Inv'
  <2> SUFFICES ASSUME Inv, [Next]_vars PROVE Inv'
    OBVIOUS
  <2>1. /\ SettingOK /\ JobsOK /\ LedgerOK /\ OutboxOK /\ AuditsOK
        /\ RowsOK /\ CopiesOK /\ DeliveriesOK /\ NotesOK
        /\ ResolutionsOK /\ AuthorityOK /\ AnswersOK /\ ChecksOK /\ VouchOK
        /\ ToldOK /\ InboxOK
    BY DEF Inv
  <2>2. SettingOK' /\ JobsOK'
    BY <2>1, JobsStep
  <2>3. LedgerOK' /\ OutboxOK'
    BY <2>1, LedgerKept, OutboxKept
  <2>4. AuditsOK'
    BY <2>1, AuditsKept
  <2>5. RowsOK' /\ CopiesOK'
    BY <2>1, RowsKept, CopiesKept
  <2>6. DeliveriesOK' /\ NotesOK'
    BY <2>1, DeliveriesKept, NotesKept
  <2>7. ResolutionsOK' /\ AuthorityOK'
    BY <2>1, ResolutionsKept, AuthorityKept
  <2>8. AnswersOK'
    BY <2>1, AnswersKept
  <2>9. ChecksOK' /\ VouchOK'
    BY <2>1, ChecksKept, VouchesKept
  <2>10. ToldOK' /\ InboxOK'
    BY <2>1, ToldKept, InboxKept
  <2> QED BY <2>2, <2>3, <2>4, <2>5, <2>6, <2>7, <2>8, <2>9, <2>10 DEF Inv
<1> QED BY <1>1, <1>2, PTL DEF Spec

\* Rows replaced whole by copies stay one per id, the ledger has an event once and
\* the outbox only names what is recorded (UpdateAppBinding and its like,
\* appendEventTx).
THEOREM TypeCorrect == Spec => []TypeOK
<1>1. Inv => TypeOK
  <2> SUFFICES ASSUME Inv PROVE TypeOK
    OBVIOUS
  <2>1. SettingOK /\ JobsOK /\ LedgerOK /\ OutboxOK /\ RowsOK /\ DeliveriesOK
    BY DEF Inv
  <2>2. setting \in Deployments /\ store = setting.store
    BY <2>1 DEF SettingOK
  <2>3. \A b, c \in rows : b.id \in BindingIds /\ (b.id = c.id => b = c)
    BY <2>1, MadeFields DEF RowsOK
  <2>4. \A d \in DeliveryIds : deliveries[d] = Nothing \/ deliveries[d].id = d
    BY <2>1 DEF DeliveriesOK
  <2>5. ASSUME NEW j \in Started PROVE jobs[j].handler \in Handlers /\ Ahead(j) \subseteq Calls
    <3>1. ServedBy(j, jobs[j])
      BY <2>1 DEF Started, JobsOK
    <3>2. InOrder(jobs[j].steps)
      BY <3>1 DEF ServedBy
    <3>3. ASSUME NEW s, InOrder(s) PROVE ToSet(s) \subseteq Calls
      BY <3>3 DEF InOrder, ToSet
    <3> QED BY <3>1, <3>2, <3>3 DEF ServedBy, Ahead
  <2>6. Cardinality(Ids(ledger)) = Len(ledger) /\ Ids(ledger) \subseteq EventIds
    BY <2>1, IdsCounted, EventsNamed DEF LedgerOK
  <2>7. outbox \cup ToSet(batch) \cup ToSet(published) \cup lost \subseteq Ids(ledger)
    <3>1. ASSUME NEW S, NEW s \in Seq(S) PROVE ToSet(s) \subseteq S
      BY <3>1 DEF ToSet
    <3> QED BY <2>1, <3>1 DEF OutboxOK
  <2> QED BY <2>2, <2>3, <2>4, <2>5, <2>6, <2>7 DEF TypeOK
<1> QED BY <1>1, Invariant, PTL

\* Whoever follows the outbox sees EventFeed, its liveness aside: events are
\* recorded once, handed over at most once and only after they were recorded, and
\* never after they were lost (appendEventTx, PublishOutboxEvents, Start).
THEOREM FeedSafety == Spec => Feed!Init /\ [][Feed!Next]_(Feed!feed)
<1>1. Init => Feed!Init
  BY Initially
<1>2. Inv /\ [Next]_vars => [Feed!Next]_(Feed!feed)
  BY OutboxKept DEF Inv
<1> QED BY <1>1, <1>2, Invariant, PTL DEF Spec

\* Whoever sends webhooks sees DeliveryInbox, its liveness aside: however often a
\* delivery is repeated it is recorded once, and announced at most once and as it was
\* recorded (IngestWebhook, SaveWebhookDelivery).
THEOREM InboxSafety == Spec => Inbox!Init /\ [][Inbox!Next]_(Inbox!inbox)
<1>1. Init => Inbox!Init
  BY Initially
<1>2. Inv /\ [Next]_vars => [Inbox!Next]_(Inbox!inbox)
  BY InboxSteps DEF Inv
<1> QED BY <1>1, <1>2, Invariant, PTL DEF Spec

\* An administrator's write that has returned is in the ledger
\* (RecordAdminAction).
THEOREM AdminAudited == Spec => []AdminEffectsAudited
<1>1. Inv => AdminEffectsAudited
  <2> SUFFICES ASSUME Inv, NEW j \in By({"admin", "create"}),
                      jobs[j].steps = << >>, ~jobs[j].cut
               PROVE  Recorded(jobs[j].audit) <=> jobs[j].route.audited
    BY DEF AdminEffectsAudited
  <2>1. j \in Jobs /\ jobs[j].handler \in {"admin", "create"}
    BY DEF By, Started
  <2>2. AuditOK(jobs[j])
    BY <2>1 DEF Inv, AuditsOK
  <2>3. ToSet(jobs[j].steps) = {}
    BY StepsInOrder
  <2>4. jobs[j].audit \in ToSet(ledger) <=> jobs[j].route.audited
    BY <2>2, <2>3 DEF AuditOK
  <2> QED BY <2>4 DEF Recorded, ToSet
<1> QED BY <1>1, Invariant, PTL

\* The delivery a repository's row names is recorded, about to be, or its handler
\* died (IngestWebhook).
THEOREM DeliveriesKnown == Spec => []LastDeliveryKnown
<1>1. Inv => LastDeliveryKnown
  <2> SUFFICES ASSUME Inv, setting.provider = "github", NEW b \in rows, b.lastDelivery # 0
               PROVE  \/ deliveries[b.lastDelivery] # Nothing
                      \/ \E j \in By({"webhook"}) :
                           /\ jobs[j].delivery.id = b.lastDelivery
                           /\ "deliver" \in Ahead(j) \/ jobs[j].cut
    BY DEF LastDeliveryKnown
  <2>1. Known(b.lastDelivery)
    BY DEF Inv, NotesOK
  <2>2. ASSUME NEW j \in Jobs, jobs[j].handler = "webhook" PROVE j \in By({"webhook"})
    <3>1. jobs[j] # NotStarted
      BY <2>2 DEF NotStarted
    <3> QED BY <2>2, <3>1 DEF By, Started
  <2> QED BY <2>1, <2>2 DEF Known, Ahead
<1> QED BY <1>1, Invariant, PTL

\* Bindings never compete for a request (the Save and bindingFor of every
\* integration with a store).
THEOREM BindingsUnambiguous == Spec => []OneBindingPerRequest
<1>1. Inv => OneBindingPerRequest
  BY RowsAnswerOnce DEF Inv
<1> QED BY <1>1, Invariant, PTL

\* A mission is only evaluated for what its binding says
\* (ResolveAuthorityContext, bindActorIdentity).
THEOREM EvaluationsBound == Spec => []EvaluatedUnderBinding
<1>1. Inv => EvaluatedUnderBinding
  <2> SUFFICES ASSUME Inv, NEW j \in By({"resolve"})
               PROVE  UnderBinding(jobs[j])
    BY DEF EvaluatedUnderBinding, UnderBinding
  <2>1. j \in Jobs /\ jobs[j].handler = "resolve"
    BY DEF By, Started
  <2> QED BY <2>1 DEF Inv, ResolutionsOK
<1> QED BY <1>1, Invariant, PTL

\* Administrators and agents are served what they were given
\* (requireAdminPermission, bindAdminTenant, bindActorIdentity).
THEOREM Authorised == Spec => []EffectsAuthorised
<1>1. Inv => EffectsAuthorised
  BY EffectsAreAuthorised DEF Inv
<1> QED BY <1>1, Invariant, PTL

\* What a binding says of its last resolution, the ledger explains
\* (ResolveAuthorityContext).
THEOREM ResolutionsLedgered == Spec => []ResolutionLedgered
<1>1. Inv => ResolutionLedgered
  BY StatusesLedgered DEF Inv
<1> QED BY <1>1, Invariant, PTL

\* A recorded check judged every file, and "success" on a row means that some
\* check of that row allowed every file (PlanCheckRun, CombineConclusion).
THEOREM ChecksAreSound == Spec => []CheckSound
<1>1. Inv => CheckSound
  BY ChecksSound DEF Inv
<1> QED BY <1>1, Invariant, PTL

-----------------------------------------------------------------------------
(* Pages of the events.                                                    *)

\* An entry of the ledger for a tenant has a place in the list, which says how
\* many of the tenant's entries are newer (ListEvents).
LEMMA Listing ==
    ASSUME NEW s, s \in Seq(ToSet(s)), NEW tenant
    PROVE  /\ IsFiniteSet(Listed(s, tenant)) /\ Cardinality(Listed(s, tenant)) \in Nat
           /\ DOMAIN ListEvents(s, tenant) = 1..Cardinality(Listed(s, tenant))
           /\ ListEvents(s, tenant) \in Seq(ToSet(s))
           /\ Len(ListEvents(s, tenant)) = Cardinality(Listed(s, tenant))
           /\ Ids(ListEvents(s, tenant)) = {s[k].id : k \in Listed(s, tenant)}
           /\ \A k \in Listed(s, tenant) :
                LET newer == Cardinality(Newer(s, tenant, k))
                IN  /\ newer \in 0..(Cardinality(Listed(s, tenant)) - 1)
                    /\ ListEvents(s, tenant)[newer + 1] = s[k]
<1>1. PICK m : m = Len(s) /\ m \in Nat /\ DOMAIN s = 1..m
  OBVIOUS
<1>2. PICK S, n : S = Listed(s, tenant) /\ n = Cardinality(S)
  OBVIOUS
<1>3. S \in SUBSET (1..m)
  BY <1>1, <1>2 DEF Listed
<1>4. IsFiniteSet(S) /\ n \in Nat
  <2>1. IsFiniteSet(1..m)
    BY <1>1, FS_Interval
  <2>2. IsFiniteSet(S)
    BY <1>3, <2>1, FS_Subset
  <2> QED BY <1>2, <2>2, FS_CardinalityType
<1>5. PICK p : p = [k \in S |-> m - k]
  OBVIOUS
<1>6. p \in [S -> Nat] /\ \A x, y \in S : p[x] = p[y] => x = y
  BY <1>1, <1>3, <1>5
<1>7. PICK r : r = [x \in S |-> Cardinality({y \in S : p[y] < p[x]})]
  OBVIOUS
<1>8. \A x \in S : r[x] = Cardinality(Newer(s, tenant, x))
  <2> TAKE x \in S
  <2>1. \A y \in S : p[y] < p[x] <=> x < y
    BY <1>1, <1>3, <1>5
  <2>2. {y \in S : p[y] < p[x]} = Newer(s, tenant, x)
    BY <1>2, <2>1 DEF Newer
  <2> QED BY <1>7, <2>2
<1>9. /\ \A x \in S : r[x] \in 0..(n - 1)
      /\ \A x, y \in S : r[x] = r[y] => x = y
      /\ \A k \in 0..(n - 1) : \E x \in S : r[x] = k
  <2>1. Ranking(S, p, r)
    BY <1>7 DEF Ranking
  <2> QED BY <1>2, <1>4, <1>6, <2>1, Ranks
<1>10. PICK q : q = ListEvents(s, tenant)
  OBVIOUS
<1>11. q = [i \in 1..Cardinality(Listed(s, tenant)) |->
              s[CHOOSE k \in Listed(s, tenant) : Cardinality(Newer(s, tenant, k)) = i - 1]]
  BY <1>10, Zenon DEF ListEvents
<1>12. ASSUME NEW i \in 1..n PROVE \E k \in S : r[k] = i - 1 /\ q[i] = s[k]
  <2>1. i - 1 \in 0..(n - 1)
    BY <1>4
  <2>2. \E k \in S : Cardinality(Newer(s, tenant, k)) = i - 1
    BY <1>8, <1>9, <2>1
  <2>3. PICK k : k = CHOOSE x \in Listed(s, tenant) : Cardinality(Newer(s, tenant, x)) = i - 1
    OBVIOUS
  <2>4. k \in S /\ Cardinality(Newer(s, tenant, k)) = i - 1
    BY <1>2, <2>2, <2>3, Zenon
  <2>5. q[i] = s[k]
    BY <1>2, <1>11, <2>3, Zenon
  <2> QED BY <1>8, <2>4, <2>5
<1>13. DOMAIN q = 1..n
  BY <1>2, <1>11, Zenon
<1>14. q \in Seq(ToSet(s)) /\ Len(q) = n
  <2>1. \A i \in 1..n : q[i] \in ToSet(s)
    BY <1>1, <1>3, <1>12 DEF ToSet
  <2>2. q \in [1..n -> ToSet(s)]
    BY <1>2, <1>11, <2>1
  <2>3. q \in Seq(ToSet(s))
    BY <1>4, <2>2, SeqDef
  <2> QED BY <1>4, <1>13, <2>3
<1>15. ASSUME NEW k \in S PROVE r[k] \in 0..(n - 1) /\ q[r[k] + 1] = s[k]
  <2>1. r[k] \in 0..(n - 1) /\ r[k] + 1 \in 1..n /\ (r[k] + 1) - 1 = r[k]
    BY <1>4, <1>9
  <2>2. PICK l \in S : r[l] = (r[k] + 1) - 1 /\ q[r[k] + 1] = s[l]
    BY <1>12, <2>1
  <2>3. l = k
    BY <1>9, <2>1, <2>2
  <2> QED BY <2>1, <2>2, <2>3
<1>16. Ids(q) = {s[k].id : k \in S}
  <2>1. ASSUME NEW i \in DOMAIN q PROVE q[i].id \in {s[k].id : k \in S}
    BY <1>12, <1>13
  <2>2. ASSUME NEW k \in S PROVE s[k].id \in Ids(q)
    <3>1. r[k] + 1 \in DOMAIN q /\ q[r[k] + 1] = s[k]
      BY <1>4, <1>13, <1>15
    <3> QED BY <3>1 DEF Ids
  <2> QED BY <2>1, <2>2 DEF Ids
<1> QED BY <1>2, <1>4, <1>8, <1>10, <1>13, <1>14, <1>15, <1>16

\* An event that is appended moves the others to the end of the list or leaves
\* them where they are, wherever the store puts it (AppendEvent).
LEMMA PlacesGrow ==
    ASSUME LedgerOnce, LedgerOnce', NEW e, NEW since, AppendEvent(e, since), NEW tenant
    PROVE  /\ Cardinality(Listed(ledger, tenant)) <= Cardinality(Listed(ledger', tenant))
           /\ \A k \in Listed(ledger, tenant) : \E l \in Listed(ledger', tenant) :
                /\ ledger'[l] = ledger[k]
                /\ Cardinality(Newer(ledger, tenant, k)) <= Cardinality(Newer(ledger', tenant, l))
<1>1. PICK s, t : s = ledger /\ t = ledger'
  OBVIOUS
<1>2. /\ Len(s) \in Nat /\ DOMAIN s = 1..Len(s)
      /\ Len(t) \in Nat /\ DOMAIN t = 1..Len(t)
  BY <1>1 DEF LedgerOnce
<1>3. \E g \in [DOMAIN s -> DOMAIN t] :
         /\ \A k \in DOMAIN s : t[g[k]] = s[k]
         /\ \A k, l \in DOMAIN s : k < l => g[k] < g[l]
  <2>1. CASE ~Keeps(e)
    <3>1. t = s
      BY <1>1, <2>1, Appending
    <3>2. PICK g : g = [k \in DOMAIN s |-> k]
      OBVIOUS
    <3>3. g \in [DOMAIN s -> DOMAIN t] /\ \A k \in DOMAIN s : g[k] = k
      BY <3>1, <3>2
    <3> QED BY <3>1, <3>3
  <2>2. CASE Keeps(e)
    <3>1. PICK n \in 0..Len(s) : Inserted(ToSet(s) \cup {e}, s, n, e, t)
      BY <1>1, <2>2, Inserts
    <3>2. /\ Len(t) = Len(s) + 1
          /\ \A i \in 1..n : t[i] = s[i]
          /\ \A i \in (n + 1)..Len(s) : t[i + 1] = s[i]
      BY <3>1 DEF Inserted
    <3>3. PICK g : g = [k \in DOMAIN s |-> IF k <= n THEN k ELSE k + 1]
      OBVIOUS
    <3>4. g \in [DOMAIN s -> DOMAIN t]
      BY <1>2, <3>1, <3>2, <3>3
    <3>5. \A k \in DOMAIN s : t[g[k]] = s[k]
      BY <1>2, <3>1, <3>2, <3>3
    <3>6. \A k, l \in DOMAIN s : k < l => g[k] < g[l]
      BY <1>2, <3>1, <3>3
    <3> QED BY <3>4, <3>5, <3>6
  <2> QED BY <2>1, <2>2
<1>4. PICK g \in [DOMAIN s -> DOMAIN t] :
         /\ \A k \in DOMAIN s : t[g[k]] = s[k]
         /\ \A k, l \in DOMAIN s : k < l => g[k] < g[l]
  BY <1>3
<1>5. \A k, l \in DOMAIN s : g[k] = g[l] => k = l
  BY <1>2, <1>4
<1>6. \A k \in Listed(s, tenant) : k \in DOMAIN s /\ g[k] \in Listed(t, tenant)
  BY <1>4 DEF Listed
<1>7. IsFiniteSet(Listed(t, tenant))
  <2>1. t \in Seq(ToSet(t))
    BY <1>1 DEF LedgerOnce
  <2> QED BY <2>1, Listing
<1>8. ASSUME NEW A \in SUBSET Listed(s, tenant), NEW B \in SUBSET Listed(t, tenant),
             \A k \in A : g[k] \in B
      PROVE  Cardinality(A) <= Cardinality(B)
  <2>1. IsFiniteSet(B)
    BY <1>7, FS_Subset
  <2>2. PICK h : h = [k \in A |-> g[k]]
    OBVIOUS
  <2>3. h \in [A -> B] /\ \A k, l \in A : h[k] = h[l] => k = l
    BY <1>5, <1>6, <1>8, <2>2
  <2>4. h \in Injection(A, B)
    BY <2>3 DEF Injection, IsInjective
  <2> QED BY <2>1, <2>4, FS_Injection
<1>9. Cardinality(Listed(s, tenant)) <= Cardinality(Listed(t, tenant))
  BY <1>6, <1>8
<1>10. ASSUME NEW k \in Listed(s, tenant)
       PROVE  Cardinality(Newer(s, tenant, k)) <= Cardinality(Newer(t, tenant, g[k]))
  <2>1. /\ Newer(s, tenant, k) \in SUBSET Listed(s, tenant)
        /\ Newer(t, tenant, g[k]) \in SUBSET Listed(t, tenant)
    BY DEF Newer
  <2>2. \A l \in Newer(s, tenant, k) : g[l] \in Newer(t, tenant, g[k])
    BY <1>4, <1>6 DEF Newer
  <2> QED BY <1>8, <2>1, <2>2
<1> QED BY <1>1, <1>4, <1>6, <1>9, <1>10

\* A page goes on where it starts, and the next one where it ends (paginate).
LEMMA Paging ==
    ASSUME NEW S, NEW items \in Seq(S), NEW start \in 0..Len(items), NEW limit \in Int
    PROVE  LET page == paginate(items, start, limit)
               Shown(end) == \A i \in (start + 1)..end : items[i].id \in Ids(page.items)
           IN  /\ page.valid
               /\ page.next = 0 => Shown(Len(items))
               /\ page.next # 0 => page.next \in 0..Len(items) /\ Shown(page.next)
<1>1. PICK m : m = Len(items) /\ m \in Nat
  OBVIOUS
<1>2. PICK size : size = PageLimit(limit)
  OBVIOUS
<1>3. size \in Nat /\ size >= 1
  BY <1>2, LedgerAssumption DEF PageLimit
<1>4. PICK end : end = IF start + size < m THEN start + size ELSE m
  OBVIOUS
<1>5. end \in Nat /\ start \in Nat /\ start <= end /\ end <= m /\ (end < m => end >= 1)
  BY <1>1, <1>3, <1>4
<1>6. PICK page : page = paginate(items, start, limit)
  OBVIOUS
<1>7. page = [valid |-> start <= m, items |-> SubSeq(items, start + 1, end),
              next |-> IF end < m THEN end ELSE 0]
  BY <1>1, <1>2, <1>4, <1>6 DEF paginate
<1>8. page.valid /\ page.items = SubSeq(items, start + 1, end)
      /\ page.next = IF end < m THEN end ELSE 0
  <2>1. start <= m
    BY <1>1, <1>5
  <2>2. page.valid = (start <= m) /\ page.items = SubSeq(items, start + 1, end)
        /\ page.next = IF end < m THEN end ELSE 0
    BY <1>7, Zenon
  <2> QED BY <2>1, <2>2
<1>9. ASSUME NEW i \in (start + 1)..end PROVE items[i].id \in Ids(page.items)
  <2>1. \A k \in (start + 1)..end : items[k] \in S
    BY <1>1, <1>5
  <2>2. /\ SubSeq(items, start + 1, end) \in Seq(S)
        /\ Len(SubSeq(items, start + 1, end)) =
              IF start + 1 <= end THEN end - (start + 1) + 1 ELSE 0
        /\ \A k \in 1..(end - (start + 1) + 1) :
              SubSeq(items, start + 1, end)[k] = items[(start + 1) + k - 1]
    BY <1>5, <2>1, SubSeqProperties
  <2>3. PICK k : k = i - start
    OBVIOUS
  <2>4. /\ k \in 1..(end - (start + 1) + 1) /\ (start + 1) + k - 1 = i
        /\ k \in 1..Len(page.items)
    BY <1>5, <1>8, <2>2, <2>3
  <2>5. page.items[k] = items[i] /\ k \in DOMAIN page.items
    BY <1>8, <2>2, <2>4
  <2> QED BY <2>5 DEF Ids
<1> QED BY <1>1, <1>5, <1>6, <1>8, <1>9

\* What a reader is.
IsReader(r) ==
    /\ r = [state |-> r.state, tenant |-> r.tenant, limit |-> r.limit, next |-> r.next,
            owed |-> r.owed, seen |-> r.seen, failed |-> r.failed]
    /\ r.limit \in Int /\ r.failed \in BOOLEAN

\* The entries a reader is to be shown yet are no newer than where the next page
\* starts.
ShownLater(r, log) ==
    /\ r.next \in 0..Cardinality(Listed(log, r.tenant))
    /\ \A id \in r.owed \ r.seen : \E k \in Listed(log, r.tenant) :
         log[k].id = id /\ r.next <= Cardinality(Newer(log, r.tenant, k))

\* A reader whom no failure misled was refused nothing, and what it is owed it has
\* seen or is on the pages that come.
Reads(r, log) ==
    /\ r.state \in {"reading", "finished"}
    /\ r.state = "finished" => r.owed \subseteq r.seen
    /\ r.state = "reading" => ShownLater(r, log)

PagesOK == reader # NotReading => IsReader(reader) /\ (~reader.failed => Reads(reader, ledger))

\* An event that is appended leaves what is owed on the pages that come
\* (AppendEvent).
LEMMA AppendedPages ==
    ASSUME LedgerOnce, LedgerOnce', NEW e, NEW since, AppendEvent(e, since),
           reader' = reader, PagesOK
    PROVE  PagesOK'
<1> SUFFICES ASSUME NEW r, r = reader, r # NotReading, ~r.failed, r.state = "reading"
             PROVE  ShownLater(r, ledger')
  BY DEF PagesOK, Reads, IsReader
<1>1. PICK s, t : s = ledger /\ t = ledger'
  OBVIOUS
<1>2. PICK tenant : tenant = r.tenant
  OBVIOUS
<1>3. /\ r.next \in 0..Cardinality(Listed(s, tenant))
      /\ \A id \in r.owed \ r.seen : \E k \in Listed(s, tenant) :
           s[k].id = id /\ r.next <= Cardinality(Newer(s, tenant, k))
  BY <1>1, <1>2 DEF PagesOK, Reads, ShownLater
<1>4. /\ Cardinality(Listed(s, tenant)) <= Cardinality(Listed(t, tenant))
      /\ \A k \in Listed(s, tenant) : \E l \in Listed(t, tenant) :
           t[l] = s[k] /\ Cardinality(Newer(s, tenant, k)) <= Cardinality(Newer(t, tenant, l))
  BY <1>1, PlacesGrow
<1>5. /\ IsFiniteSet(Listed(t, tenant)) /\ Cardinality(Listed(t, tenant)) \in Nat
      /\ Cardinality(Listed(s, tenant)) \in Nat
      /\ \A k \in Listed(s, tenant) : Cardinality(Newer(s, tenant, k)) \in Nat
      /\ \A l \in Listed(t, tenant) : Cardinality(Newer(t, tenant, l)) \in Nat
  <2>1. s \in Seq(ToSet(s)) /\ t \in Seq(ToSet(t))
    BY <1>1 DEF LedgerOnce
  <2> QED BY <2>1, Listing
<1>6. r.next \in 0..Cardinality(Listed(t, tenant))
  BY <1>3, <1>4, <1>5
<1>7. ASSUME NEW id \in r.owed \ r.seen
      PROVE  \E l \in Listed(t, tenant) :
               t[l].id = id /\ r.next <= Cardinality(Newer(t, tenant, l))
  <2>1. PICK k \in Listed(s, tenant) :
             s[k].id = id /\ r.next <= Cardinality(Newer(s, tenant, k))
    BY <1>3
  <2>2. PICK l \in Listed(t, tenant) :
             t[l] = s[k] /\ Cardinality(Newer(s, tenant, k)) <= Cardinality(Newer(t, tenant, l))
    BY <1>4
  <2> QED BY <1>3, <1>5, <2>1, <2>2
<1> QED BY <1>1, <1>2, <1>6, <1>7 DEF ShownLater

\* A page shows what it moves past (ReadPage).
LEMMA PageRead ==
    ASSUME LedgerOnce, PagesOK, ReadPage
    PROVE  PagesOK'
<1>1. PICK r, s : r = reader /\ s = ledger
  OBVIOUS
<1>2. r.state = "reading" /\ ledger' = s
  BY <1>1 DEF ReadPage
<1>3. r # NotReading /\ IsReader(r) /\ (~r.failed => ShownLater(r, s))
  BY <1>1, <1>2 DEF PagesOK, Reads, NotReading
<1>4. PICK from \in Events :
        LET page == paginate(ListEvents(from, r.tenant), r.next, r.limit)
        IN  reader' = [r EXCEPT
               !.state = IF ~page.valid THEN "refused"
                         ELSE IF page.next = 0 THEN "finished" ELSE "reading",
               !.next = page.next,
               !.seen = @ \cup (IF page.valid THEN Ids(page.items) ELSE {}),
               !.failed = @ \/ from # s]
  BY <1>1 DEF ReadPage
<1>5. PICK page : page = paginate(ListEvents(from, r.tenant), r.next, r.limit)
  OBVIOUS
<1>6. PICK m : m = reader'
  OBVIOUS
<1>7. m = [r EXCEPT
             !.state = IF ~page.valid THEN "refused"
                       ELSE IF page.next = 0 THEN "finished" ELSE "reading",
             !.next = page.next,
             !.seen = r.seen \cup (IF page.valid THEN Ids(page.items) ELSE {}),
             !.failed = r.failed \/ from # s]
  BY <1>4, <1>5, <1>6
<1>8. /\ m.state = IF ~page.valid THEN "refused"
                   ELSE IF page.next = 0 THEN "finished" ELSE "reading"
      /\ m.next = page.next
      /\ m.seen = r.seen \cup (IF page.valid THEN Ids(page.items) ELSE {})
      /\ m.failed = (r.failed \/ from # s)
      /\ m.tenant = r.tenant /\ m.limit = r.limit /\ m.owed = r.owed
      /\ m = [state |-> m.state, tenant |-> m.tenant, limit |-> m.limit, next |-> m.next,
              owed |-> m.owed, seen |-> m.seen, failed |-> m.failed]
  BY <1>3, <1>7 DEF IsReader
<1>9. IsReader(m)
  BY <1>3, <1>8 DEF IsReader
<1>10. ASSUME ~m.failed PROVE Reads(m, s)
  <2>1. ~r.failed /\ from = s /\ ShownLater(r, s)
    BY <1>3, <1>8, <1>10
  <2>2. PICK tenant, items : tenant = r.tenant /\ items = ListEvents(s, tenant)
    OBVIOUS
  <2>3. s \in Seq(ToSet(s))
    BY <1>1 DEF LedgerOnce
  <2>4. PICK n : n = Cardinality(Listed(s, tenant))
    OBVIOUS
  <2>5. /\ n \in Nat /\ items \in Seq(ToSet(s)) /\ Len(items) = n
        /\ \A k \in Listed(s, tenant) :
             /\ Cardinality(Newer(s, tenant, k)) \in 0..(n - 1)
             /\ items[Cardinality(Newer(s, tenant, k)) + 1] = s[k]
    BY <2>2, <2>3, <2>4, Listing
  <2>6. /\ r.next \in 0..n
        /\ \A id \in r.owed \ r.seen : \E k \in Listed(s, tenant) :
             s[k].id = id /\ r.next <= Cardinality(Newer(s, tenant, k))
    BY <2>1, <2>2, <2>4 DEF ShownLater
  <2>7. page = paginate(items, r.next, r.limit)
    BY <1>5, <2>1, <2>2
  <2>8. /\ page.valid
        /\ page.next = 0 => \A i \in (r.next + 1)..n : items[i].id \in Ids(page.items)
        /\ page.next # 0 =>
             /\ page.next \in 0..n
             /\ \A i \in (r.next + 1)..page.next : items[i].id \in Ids(page.items)
    <3>1. r.limit \in Int /\ r.next \in 0..Len(items)
      BY <1>3, <2>5, <2>6 DEF IsReader
    <3> QED BY <2>5, <2>7, <3>1, Paging
  <2>9. m.seen = r.seen \cup Ids(page.items)
    BY <1>8, <2>8
  <2>10. ASSUME NEW id \in m.owed \ m.seen
         PROVE  page.next # 0 /\ \E k \in Listed(s, tenant) :
                  s[k].id = id /\ page.next <= Cardinality(Newer(s, tenant, k))
    <3>1. id \in r.owed \ r.seen /\ id \notin Ids(page.items)
      BY <1>8, <2>9
    <3>2. PICK k \in Listed(s, tenant) :
               s[k].id = id /\ r.next <= Cardinality(Newer(s, tenant, k))
      BY <2>6, <3>1
    <3>3. PICK c : c = Cardinality(Newer(s, tenant, k))
      OBVIOUS
    <3>4. c \in 0..(n - 1) /\ items[c + 1] = s[k] /\ r.next <= c
      BY <2>5, <3>2, <3>3
    <3>5. items[c + 1].id \notin Ids(page.items)
      BY <3>1, <3>2, <3>4
    <3>6. c + 1 \in (r.next + 1)..n
      BY <2>5, <2>6, <3>4
    <3>7. page.next # 0
      BY <2>8, <3>5, <3>6
    <3>8. page.next \in 0..n /\ ~(c + 1 \in (r.next + 1)..page.next)
      BY <2>8, <3>5, <3>7
    <3>9. page.next <= c
      BY <2>5, <2>6, <3>4, <3>6, <3>8
    <3> QED BY <3>2, <3>3, <3>7, <3>9
  <2>11. CASE page.next = 0
    BY <1>8, <2>8, <2>10, <2>11 DEF Reads
  <2>12. CASE page.next # 0
    <3>1. m.state = "reading" /\ m.next \in 0..n
      BY <1>8, <2>8, <2>12
    <3>2. ShownLater(m, s)
      BY <1>8, <2>2, <2>4, <2>10, <3>1 DEF ShownLater
    <3> QED BY <3>1, <3>2 DEF Reads
  <2> QED BY <2>11, <2>12
<1> QED BY <1>1, <1>2, <1>6, <1>9, <1>10 DEF PagesOK

\* Whoever starts is owed the list as it is (StartReading).
LEMMA ReadingStarts ==
    ASSUME SettingOK, LedgerOnce, NEW p \in setting.presented, NEW t \in setting.tenants,
           NEW limit \in setting.limits, ServeEvents(p, t, limit)
    PROVE  PagesOK'
<1>1. PICK tenant : StartReading(tenant, limit)
  BY DEF ServeEvents
<1>2. PICK r, s : r = reader' /\ s = ledger
  OBVIOUS
<1>3. r = [state |-> "reading", tenant |-> tenant, limit |-> limit, next |-> 0,
           owed |-> Ids(ListEvents(s, tenant)), seen |-> {}, failed |-> FALSE]
      /\ ledger' = s
  BY <1>1, <1>2 DEF StartReading
<1>4. limit \in Int
  BY DeploymentAssumption DEF SettingOK
<1>5. /\ r.state = "reading" /\ r.tenant = tenant /\ r.limit = limit /\ r.next = 0
      /\ r.owed = Ids(ListEvents(s, tenant)) /\ r.seen = {} /\ r.failed = FALSE
      /\ r = [state |-> r.state, tenant |-> r.tenant, limit |-> r.limit, next |-> r.next,
              owed |-> r.owed, seen |-> r.seen, failed |-> r.failed]
  BY <1>3
<1>6. IsReader(r)
  BY <1>4, <1>5 DEF IsReader
<1>7. s \in Seq(ToSet(s))
  BY <1>2 DEF LedgerOnce
<1>8. PICK n : n = Cardinality(Listed(s, tenant))
  OBVIOUS
<1>9. /\ n \in Nat /\ Ids(ListEvents(s, tenant)) = {s[k].id : k \in Listed(s, tenant)}
      /\ \A k \in Listed(s, tenant) : Cardinality(Newer(s, tenant, k)) \in 0..(n - 1)
  BY <1>7, <1>8, Listing
<1>10. ShownLater(r, s)
  <2>1. 0 \in 0..n /\ \A c \in 0..(n - 1) : 0 <= c
    BY <1>9
  <2> QED BY <1>5, <1>8, <1>9, <2>1 DEF ShownLater
<1> QED BY <1>2, <1>3, <1>5, <1>6, <1>10 DEF PagesOK, Reads

\* Whatever is done between two pages, what is owed is on the pages that come.
LEMMA PagesKept ==
    ASSUME Inv, Inv', PagesOK, [Next]_vars
    PROVE  PagesOK'
<1>1. SettingOK /\ JobsOK /\ LedgerOK /\ LedgerOnce /\ LedgerOnce'
  BY DEF Inv, LedgerOK
<1>2. CASE reader' = reader /\ ledger' = ledger
  BY <1>2 DEF PagesOK
<1>3. ASSUME NEW j \in Jobs, NEW e, NEW since, Appends(j, e, since)
      PROVE  PagesOK'
  <2>1. AppendEvent(e, since) /\ reader' = reader
    BY <1>3 DEF Appends
  <2> QED BY <1>1, <2>1, AppendedPages
<1>4. ASSUME NEW j \in Jobs, Request(j) \/ Works(j)
      PROVE  reader' = reader /\ ledger' = ledger
  BY <1>4, RequestStarts DEF Works, ledgerVars
<1>5. CASE Reader
  <2>1. CASE ReadPage
    BY <1>1, <2>1, PageRead
  <2>2. ASSUME NEW p \in setting.presented, NEW t \in setting.tenants,
               NEW limit \in setting.limits, ServeEvents(p, t, limit)
        PROVE  PagesOK'
    BY <1>1, <2>2, ReadingStarts
  <2> QED BY <1>5, <2>1, <2>2 DEF Reader
<1>6. CASE Idles
  BY <1>2, <1>5, <1>6 DEF Idles
<1>7. CASE Crash
  BY <1>2, <1>7 DEF Crash
<1> QED BY <1>2, <1>3, <1>4, <1>6, <1>7, Steps

\* An administrator who follows the cursors to the last page is shown every event
\* of the tenant that was there when the first page was served, and is never refused
\* a cursor, whatever is appended in between and wherever the store puts it
\* (ListEvents, paginate, appendEventTx).
THEOREM PagesCover == Spec => []PagesCoverLedger
<1>1. Init => PagesOK
  BY DEF Init, LedgerInit, PagesOK
<1>2. Inv /\ Inv' /\ PagesOK /\ [Next]_vars => PagesOK'
  BY PagesKept
<1>3. PagesOK => PagesCoverLedger
  BY DEF PagesOK, Reads, PagesCoverLedger
<1> QED BY <1>1, <1>2, <1>3, Invariant, PTL DEF Spec
=============================================================================
