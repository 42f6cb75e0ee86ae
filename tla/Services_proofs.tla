--------------------------- MODULE Services_proofs ---------------------------
(***************************************************************************)
(* Theorems about the services that all requests of a process share, each   *)
(* for any value of its constants: the circuit breaker, the cached          *)
(* settings of an organisation, accounts with their links and sessions, and *)
(* the cost accounting of the LLM calls.                                    *)
(***************************************************************************)
EXTENDS CircuitBreaker, OrgSettings, Accounts, LlmCalls, FiniteSetTheorems,
        WellFoundedInduction, TLAPS

----------------------------------------------------------------------------
(* The circuit breaker *)

BreakerTypeOK ==
  /\ state \in {"closed", "open", "half_open"}
  /\ failures \in Nat /\ since \in Nat
  /\ in_flight \in BOOLEAN /\ late \in BOOLEAN /\ cut_off \in BOOLEAN
  /\ thread \in [Threads -> {"idle", "call", "trial"}]

\* A breaker that is not closed has failed often enough that one more failure opens it
\* again; until an ordinary call intrudes, a trial call means that recovery is probed.
BreakerInv ==
  /\ BreakerTypeOK
  /\ state # "closed" => failures >= FailureThreshold
  /\ state = "half_open" => in_flight /\ (Trials # {} \/ cut_off)
  /\ ~late => /\ \A t, u \in Trials : t = u
              /\ Trials # {} => state = "half_open"

\* Every step of a caller or of the clock keeps the breaker's invariant.
LEMMA BreakerStep == BreakerInv /\ [BreakerNext]_breakerVars => BreakerInv'
<1> SUFFICES ASSUME BreakerInv, [BreakerNext]_breakerVars PROVE BreakerInv'
  OBVIOUS
<1> USE BreakerAssumption DEF BreakerInv, BreakerTypeOK, Trials
<1>1. ASSUME NEW t \in Threads, Call(t) PROVE BreakerInv'
  BY <1>1 DEF Call
<1>2. ASSUME NEW t \in Threads, Probe(t) PROVE BreakerInv'
  BY <1>2 DEF Probe, ProbeDue
<1>3. ASSUME NEW t \in Threads, Succeed(t) PROVE BreakerInv'
  <2>1. BreakerTypeOK'
    <3>1. failures' \in Nat /\ since' \in Nat /\ state' = "closed"
      BY <1>3 DEF Succeed
    <3>2. in_flight' \in BOOLEAN /\ late' \in BOOLEAN /\ cut_off' \in BOOLEAN
      BY <1>3 DEF Succeed, Returned
    <3>3. thread' \in [Threads -> {"idle", "call", "trial"}]
      BY <1>3 DEF Succeed, Returned
    <3> QED BY <3>1, <3>2, <3>3
  <2> QED BY <1>3, <2>1 DEF Succeed, Returned
<1>4. ASSUME NEW t \in Threads, Fail(t) PROVE BreakerInv'
  <2>1. state # "closed" => state' = "open"
    BY <1>4 DEF Fail, Opens
  <2>2. state' # "closed" => failures' >= FailureThreshold
    BY <1>4 DEF Fail, Opens
  <2>3. BreakerTypeOK'
    <3>1. failures' \in Nat /\ since' \in Nat /\ state' \in {"closed", "open", "half_open"}
      BY <1>4 DEF Fail
    <3>2. in_flight' \in BOOLEAN /\ late' \in BOOLEAN /\ cut_off' \in BOOLEAN
      BY <1>4 DEF Fail, Returned
    <3>3. thread' \in [Threads -> {"idle", "call", "trial"}]
      BY <1>4 DEF Fail, Returned
    <3> QED BY <3>1, <3>2, <3>3
  <2> QED BY <1>4, <2>1, <2>2, <2>3 DEF Fail, Returned
<1>5. CASE BreakerTick
  BY <1>5 DEF BreakerTick
<1>6. CASE UNCHANGED breakerVars
  BY <1>6 DEF breakerVars
<1>7. ASSUME NEW t \in Threads, CutOff(t) PROVE BreakerInv'
  <2>1. cut_off' = (cut_off \/ thread[t] = "trial") /\ cut_off' \in BOOLEAN
    BY <1>7 DEF CutOff
  <2>2. thread' = [thread EXCEPT ![t] = "idle"] /\ Trials' = Trials \ {t}
    BY <1>7 DEF CutOff
  <2>3. Trials' # {} \/ cut_off' \/ Trials = {}
    BY <2>1, <2>2
  <2> QED BY <1>7, <2>1, <2>2, <2>3 DEF CutOff
<1> QED BY <1>1, <1>2, <1>3, <1>4, <1>5, <1>6, <1>7 DEF BreakerNext

\* circuit_breaker.py: one caller at a time probes a failed service, unless a call from
\* before intruded, and a breaker that refuses everybody has a probe under way, unless that
\* was cut off.
THEOREM BreakerAlwaysProbes == BreakerSpec => []BreakerProbes
<1>1. BreakerInit => BreakerInv
  <2> SUFFICES ASSUME BreakerInit PROVE BreakerInv
    OBVIOUS
  <2>1. BreakerTypeOK /\ Trials = {}
    BY DEF BreakerInit, BreakerTypeOK, Trials
  <2> QED BY <2>1 DEF BreakerInit, BreakerInv
<1>2. BreakerInv => BreakerProbes
  <2> SUFFICES ASSUME BreakerInv, ~late PROVE Cardinality(Trials) <= 1
    BY DEF BreakerInv, BreakerProbes
  <2>1. CASE Trials = {}
    BY <2>1, FS_EmptySet
  <2>2. ASSUME NEW t \in Trials PROVE Cardinality(Trials) <= 1
    <3>1. Trials = {t}
      BY <2>2 DEF BreakerInv
    <3> QED BY <3>1, FS_Singleton
  <2> QED BY <2>1, <2>2
<1> QED BY <1>1, <1>2, BreakerStep, PTL DEF BreakerSpec

----------------------------------------------------------------------------
(* The settings of an organisation *)

Value == [Fields -> Nat]
Copy  == [value : Value, age : 0 .. Ttl]
Asker == [at : {"idle", "getting", "querying", "keeping", "writing", "invalidating"},
          value : Value \cup {NoCopy}, age : 0 .. Ttl, field : Fields \cup {NoCopy}]

SettingsTypeOK ==
  /\ settings \in Value /\ updates \in Nat /\ changed \in 0 .. Ttl
  /\ copy \in [Processes -> Copy \cup {NoCopy}]
  /\ task \in [Tasks -> Asker]
  /\ \A t \in Tasks : task[t].at \in {"keeping", "writing"} => task[t].value \in Value

\* A copy, and a value on its way into one, is as old as its age says at least.
SettingsInv ==
  /\ SettingsTypeOK
  /\ \A p \in Processes : copy[p] # NoCopy /\ copy[p].value # settings => changed <= copy[p].age
  /\ \A t \in Tasks : task[t].at = "keeping" /\ task[t].value # settings
                        => changed <= task[t].age

\* Every step of a query, an update or the clock keeps the invariant of the copies.
LEMMA SettingsStep == SettingsInv /\ [SettingsNext]_settingsVars => SettingsInv'
<1> SUFFICES ASSUME SettingsInv, [SettingsNext]_settingsVars PROVE SettingsInv'
  OBVIOUS
<1> USE SettingsAssumption DEF SettingsInv, SettingsTypeOK
<1>1. \A t \in Tasks : ProcessOf[t] \in Processes
  BY DEF Processes
<1>2. Resting \in Asker /\ Resting.at = "idle" /\ Defaults \in Value
  BY DEF Resting, Asker, Value, Defaults
\* What a task that alone changes must show of itself.
<1>3. ASSUME NEW t \in Tasks, NEW new \in Asker, task' = [task EXCEPT ![t] = new],
             new.at = "writing" => new.value \in Value,
             new.at = "keeping" => new.value = settings,
             UNCHANGED <<settings, updates, changed, copy>>
      PROVE  SettingsInv'
  BY <1>3
<1>4. ASSUME NEW t \in Tasks, NEW v \in Value
      PROVE  Got(t, v) \in Asker /\ (Got(t, v) = Resting \/ (Got(t, v).at = "writing" /\ Got(t, v).value = v))
  BY <1>2 DEF Got, Asker
<1>5. ASSUME NEW t \in Tasks, Begin(t) PROVE SettingsInv'
  <2>1. CASE \E f \in Fields \cup {NoCopy} :
               task' = [task EXCEPT ![t].at = "getting", ![t].field = f]
    <3>1. PICK f \in Fields \cup {NoCopy} :
            task' = [task EXCEPT ![t].at = "getting", ![t].field = f]
      BY <2>1
    <3>2. task'[t] \in Asker /\ task'[t].at = "getting" /\ \A u \in Tasks \ {t} : task'[u] = task[u]
          /\ task' = [task EXCEPT ![t] = task'[t]]
      BY <3>1 DEF Asker
    <3> QED BY <1>3, <1>5, <3>2 DEF Begin
  <2>2. CASE task' = [task EXCEPT ![t].at = "writing", ![t].value = Defaults]
    <3>1. task'[t] \in Asker /\ task'[t].at = "writing" /\ task'[t].value = Defaults
          /\ task' = [task EXCEPT ![t] = task'[t]]
      BY <1>2, <2>2 DEF Asker
    <3> QED BY <1>2, <1>3, <1>5, <3>1 DEF Begin
  <2> QED BY <1>5, <2>1, <2>2 DEF Begin
<1>6. ASSUME NEW t \in Tasks, LookUp(t) PROVE SettingsInv'
  <2>1. CASE Fresh(ProcessOf[t])
    <3>1. copy[ProcessOf[t]].value \in Value
      BY <1>1, <2>1 DEF Fresh, Copy
    <3>2. task' = [task EXCEPT ![t] = Got(t, copy[ProcessOf[t]].value)]
      BY <1>6, <2>1 DEF LookUp
    <3> QED BY <1>2, <1>3, <1>4, <1>6, <3>1, <3>2 DEF LookUp
  <2>2. CASE ~Fresh(ProcessOf[t])
    <3> DEFINE zero == 0
               old == task[t]
               new == [old EXCEPT !.at = "querying", !.age = zero]
               Ages == 0 .. Ttl
               Ats == {"idle", "getting", "querying", "keeping", "writing", "invalidating"}
    <3>1. zero \in Ages /\ "querying" \in Ats /\ old \in Asker
      OBVIOUS
    <3>2. Asker = [at : Ats, value : Value \cup {NoCopy}, age : Ages, field : Fields \cup {NoCopy}]
      BY DEF Asker
    <3>3. task' = [task EXCEPT ![t] = new]
      BY <1>6, <2>2 DEF LookUp
    <3> HIDE DEF zero, old, Ages, Ats
    <3>4. new \in Asker /\ new.at = "querying"
      BY <3>1, <3>2
    <3> HIDE DEF new
    <3> QED BY <1>3, <1>6, <3>3, <3>4 DEF LookUp
  <2> QED BY <2>1, <2>2
<1>7. ASSUME NEW t \in Tasks, Query(t) PROVE SettingsInv'
  <2>1. task'[t] \in Asker /\ task'[t].at = "keeping" /\ task'[t].value = settings
        /\ task' = [task EXCEPT ![t] = task'[t]]
    BY <1>7 DEF Query, Asker
  <2> QED BY <1>3, <1>7, <2>1 DEF Query
<1>8. ASSUME NEW t \in Tasks, Keep(t) PROVE SettingsInv'
  <2> DEFINE p == ProcessOf[t]
             new == [value |-> task[t].value, age |-> task[t].age]
  <2>1. /\ new \in Copy /\ copy' = [copy EXCEPT ![p] = new] /\ p \in Processes
        /\ new.value # settings => changed <= new.age
    BY <1>1, <1>8 DEF Keep, AgeOf, Copy, Asker
  <2>2. task' = [task EXCEPT ![t] = Got(t, task[t].value)] /\ UNCHANGED <<settings, updates, changed>>
    BY <1>8 DEF Keep
  <2>3. task[t].value \in Value
    BY <1>8 DEF Keep
  <2> HIDE DEF new, p
  <2> QED BY <1>2, <1>4, <2>1, <2>2, <2>3
<1>9. ASSUME NEW t \in Tasks, Write(t) PROVE SettingsInv'
  <2>1. changed' = 0 /\ updates' \in Nat /\ UNCHANGED copy
    BY <1>9 DEF Write
  <2>2. settings' \in Value
    BY <1>9, <2>1 DEF Write, Value
  <2>3. task'[t] \in Asker /\ task'[t].at = "invalidating" /\ task' = [task EXCEPT ![t] = task'[t]]
    BY <1>9 DEF Write, Asker
  <2>4. \A p \in Processes : copy[p] # NoCopy => copy[p].age \in Nat
    BY DEF Copy
  <2>5. \A u \in Tasks : task[u].age \in Nat
    BY DEF Asker
  <2> QED BY <2>1, <2>2, <2>3, <2>4, <2>5
<1>10. ASSUME NEW t \in Tasks, Invalidate(t) PROVE SettingsInv'
  <2>1. [Resting EXCEPT !.at = "getting"] \in Asker /\ [Resting EXCEPT !.at = "getting"].at = "getting"
    BY <1>2 DEF Asker
  <2> QED BY <1>1, <1>10, <2>1 DEF Invalidate
<1>11. CASE SettingsTick
  <2>1. changed' \in 0 .. Ttl /\ \A n \in 0 .. Ttl : /\ Aged(n) \in 0 .. Ttl
                                                     /\ changed <= n => changed' <= Aged(n)
    BY <1>11 DEF SettingsTick, Aged
  <2>2. ASSUME NEW p \in Processes
        PROVE  \/ copy'[p] = NoCopy
               \/ /\ copy[p] # NoCopy /\ copy'[p] \in Copy /\ copy'[p].value = copy[p].value
                  /\ copy'[p].age = Aged(copy[p].age)
    BY <1>11, <2>1 DEF SettingsTick, Copy
  <2>3. ASSUME NEW t \in Tasks
        PROVE  /\ task'[t] \in Asker /\ task'[t].at = task[t].at /\ task'[t].value = task[t].value
               /\ task[t].at = "keeping" => task'[t].age = Aged(task[t].age)
    BY <1>11, <2>1 DEF SettingsTick, Asker
  <2>4. SettingsTypeOK'
    BY <1>11, <2>1, <2>2, <2>3 DEF SettingsTick
  <2>5. \A p \in Processes : copy'[p] # NoCopy /\ copy'[p].value # settings => changed' <= copy'[p].age
    BY <2>1, <2>2 DEF Copy
  <2>6. \A t \in Tasks : task'[t].at = "keeping" /\ task'[t].value # settings => changed' <= task'[t].age
    BY <2>1, <2>3 DEF Asker
  <2> QED BY <1>11, <2>4, <2>5, <2>6 DEF SettingsTick
<1>12. CASE UNCHANGED settingsVars
  BY <1>12 DEF settingsVars
<1> QED BY <1>5, <1>6, <1>7, <1>8, <1>9, <1>10, <1>11, <1>12 DEF SettingsNext

\* org_settings.py:94: a copy that is handed out is no older than the time to live.
THEOREM CopiesAreYoung == SettingsSpec => []StaleAtMostTtl
<1>1. SettingsInit => SettingsInv
  BY SettingsAssumption DEF SettingsInit, SettingsInv, SettingsTypeOK, Defaults, Resting, Value,
     Copy, Asker
<1>2. SettingsInv => StaleAtMostTtl
  BY DEF SettingsInv, StaleAtMostTtl, Fresh
<1> QED BY <1>1, <1>2, SettingsStep, PTL DEF SettingsSpec

----------------------------------------------------------------------------
(* Accounts, links and sessions *)

AccountsTypeOK ==
  /\ account \in [Emails -> AccountRow \cup {Nothing}]
  /\ org \in [Orgs -> {"none", "live", "erased"}]
  /\ link \in [Links -> LinkRow \cup {Nothing}]
  /\ session \in [Sessions -> SessionRow \cup {Nothing}]
  /\ called \in SUBSET Sessions /\ changes \in Nat
  /\ redeemed \in [Links -> Nat]

\* A link that has been redeemed is there and spent.
SpentOnce == \A l \in Links : /\ redeemed[l] <= 1
                              /\ redeemed[l] # 0 => link[l] # Nothing /\ ~Live(l)

Same(k, l) == link[k].purpose = link[l].purpose /\ link[k].email = link[l].email
OneLive == \A k, l \in Links : Live(k) /\ Live(l) /\ Same(k, l) => k = l

\* The session of an account: opened under its present password, in its organisation.
Holds(e, s) == /\ account[e] \in AccountRow
                /\ account[e].user = session[s].user /\ account[e].org = session[s].org
                /\ account[e].pw = session[s].pw
SessionsOpen == \A s \in Sessions : Active(s) => \E e \in Emails : Holds(e, s)

AccountsInv == /\ AccountsTypeOK /\ SpentOnce /\ OneLive /\ SessionsOpen
               /\ \A s \in called : session[s] # Nothing

\* What may become of a link that is there: it stays, or it is not live any more.
Spent(l)   == link[l] # Nothing /\ link'[l] \in LinkRow /\ link'[l].state # "live"
OnlySpends == /\ link' \in [Links -> LinkRow \cup {Nothing}]
              /\ \A l \in Links : link'[l] = link[l] \/ Spent(l)

\* What may become of a session: a new one, one that is over, or one whose account stays.
Begun(s) == /\ session[s] = Nothing /\ session'[s] \in SessionRow
             /\ \E e \in Emails : /\ account'[e] \in AccountRow
                                  /\ account'[e].user = session'[s].user
                                  /\ account'[e].org = session'[s].org
                                  /\ account'[e].pw = session'[s].pw
Over(s)   == session[s] # Nothing /\ session'[s] \in SessionRow /\ session'[s].state # "active"
Kept(s)   == /\ session'[s] = session[s]
             /\ \A e \in Emails : Holds(e, s) =>
                  /\ account'[e] \in AccountRow
                  /\ account'[e].user = account[e].user /\ account'[e].org = account[e].org
                  /\ account'[e].pw = account[e].pw
Unused(s) == session'[s] = session[s] /\ ~Active(s)
SessionsMove == /\ session' \in [Sessions -> SessionRow \cup {Nothing}]
                /\ \A s \in Sessions : Begun(s) \/ Over(s) \/ Kept(s) \/ Unused(s)

\* Spending links is harmless.
LEMMA SpendStep ==
  ASSUME AccountsInv, OnlySpends, UNCHANGED redeemed
  PROVE  SpentOnce' /\ OneLive'
BY AccountsAssumption DEF AccountsInv, AccountsTypeOK, OnlySpends, Spent, SpentOnce, OneLive, Live, In,
   Same

\* create_onetime_token leaves one live link of the purpose and the email.
LEMMA CreateStep ==
  ASSUME AccountsInv, NEW p \in {Invite, Reset}, NEW e \in Emails, NEW o \in Orgs,
         NEW u \in Nat \cup {Nothing}, NEW admin \in BOOLEAN, Created(p, e, o, u, admin),
         UNCHANGED redeemed
  PROVE  link' \in [Links -> LinkRow \cup {Nothing}] /\ SpentOnce' /\ OneLive'
<1> DEFINE new == [state |-> "live", purpose |-> p, email |-> e, org |-> o, user |-> u, admin |-> admin]
<1>1. PICK l \in Links : link[l] = Nothing /\ link' = [Superseded(p, e) EXCEPT ![l] = new]
  BY DEF Created
<1>2. new \in LinkRow /\ new.state = "live" /\ new.purpose = p /\ new.email = e
  BY DEF LinkRow
<1> HIDE DEF new
<1>3. ASSUME NEW k \in Links
      PROVE  /\ Superseded(p, e)[k] \in LinkRow \cup {Nothing}
             /\ Superseded(p, e)[k] = link[k] \/ (link[k] # Nothing /\ Superseded(p, e)[k] \in LinkRow
                                                  /\ Superseded(p, e)[k].state # "live")
             /\ Live(k) /\ link[k].purpose = p /\ link[k].email = e => Superseded(p, e)[k].state # "live"
  <2>1. CASE Live(k) /\ link[k].purpose = p /\ link[k].email = e
    <3>1. Superseded(p, e)[k] = [link[k] EXCEPT !.state = "used"] /\ link[k] \in LinkRow
          /\ link[k] # Nothing
      BY <2>1 DEF Superseded, AccountsInv, AccountsTypeOK, Live, In
    <3> QED BY <3>1 DEF LinkRow
  <2>2. CASE ~ (Live(k) /\ link[k].purpose = p /\ link[k].email = e)
    BY <2>2 DEF Superseded, AccountsInv, AccountsTypeOK
  <2> QED BY <2>1, <2>2
<1>4. /\ link' \in [Links -> LinkRow \cup {Nothing}] /\ link'[l] = new
      /\ \A k \in Links \ {l} : link'[k] = Superseded(p, e)[k]
  <2>1. Superseded(p, e) \in [Links -> LinkRow \cup {Nothing}]
    BY <1>3 DEF Superseded
  <2> QED BY <1>1, <1>2, <2>1
<1>5. SpentOnce'
  BY <1>1, <1>3, <1>4, AccountsAssumption DEF AccountsInv, SpentOnce, Live, In
<1>6. \A k \in Links \ {l} : Live(k)' => Live(k) /\ link'[k] = link[k] /\ ~ (link[k].purpose = p /\ link[k].email = e)
  BY <1>3, <1>4 DEF Live, In
<1>7. OneLive'
  BY <1>2, <1>4, <1>6 DEF AccountsInv, OneLive, Same
<1> QED BY <1>4, <1>5, <1>7

\* consume_token: the UPDATE that spends the link is the one that redeems it.
LEMMA ConsumeStep ==
  ASSUME AccountsInv, NEW l \in Links, NEW p \in {Invite, Reset}, Consume(l, p)
  PROVE  /\ link' \in [Links -> LinkRow \cup {Nothing}] /\ redeemed' \in [Links -> Nat]
         /\ changes' \in Nat /\ link[l] \in LinkRow /\ SpentOnce' /\ OneLive'
<1>1. Live(l) /\ link[l] \in LinkRow /\ link[l] # Nothing /\ redeemed[l] = 0
  BY DEF Consume, Redeemable, AccountsInv, AccountsTypeOK, SpentOnce, Live, In
<1>2. /\ link' \in [Links -> LinkRow \cup {Nothing}] /\ link'[l] \in LinkRow /\ link'[l].state = "used"
      /\ \A k \in Links \ {l} : link'[k] = link[k]
  BY <1>1 DEF Consume, AccountsInv, AccountsTypeOK, LinkRow
<1>3. redeemed' \in [Links -> Nat] /\ redeemed'[l] = 1 /\ \A k \in Links \ {l} : redeemed'[k] = redeemed[k]
  BY <1>1 DEF Consume, AccountsInv, AccountsTypeOK
<1>4. SpentOnce'
  BY <1>2, <1>3, AccountsAssumption DEF AccountsInv, SpentOnce, Live, In
<1>5. OneLive'
  BY <1>2 DEF AccountsInv, OneLive, Same, Live, In
<1>6. changes' \in Nat
  BY DEF Consume, Change, AccountsInv, AccountsTypeOK
<1> QED BY <1>1, <1>2, <1>3, <1>4, <1>5, <1>6

\* A session that is there when a session move is over is one that holds.
LEMMA SessionsStep ==
  ASSUME AccountsInv, SessionsMove
  PROVE  SessionsOpen' /\ \A s \in Sessions : session[s] # Nothing => session'[s] # Nothing
<1>1. \A s \in Sessions : session[s] # Nothing => session'[s] # Nothing
  BY AccountsAssumption DEF SessionsMove, Begun, Over, Kept, Unused
<1>2. ASSUME NEW s \in Sessions, Active(s)' PROVE \E e \in Emails : Holds(e, s)'
  <2>1. CASE Begun(s)
    BY <2>1 DEF Begun, Holds
  <2>2. CASE Kept(s)
    <3>1. Active(s)
      BY <1>2, <2>2 DEF Kept, Active, In
    <3>2. PICK e \in Emails : Holds(e, s)
      BY <3>1 DEF AccountsInv, SessionsOpen
    <3> QED BY <2>2, <3>2 DEF Kept, Holds
  <2>3. ~Over(s) /\ ~Unused(s)
    BY <1>2 DEF Over, Unused, Active, In
  <2> QED BY <2>1, <2>2, <2>3 DEF SessionsMove
<1> QED BY <1>1, <1>2 DEF SessionsOpen

\* A token is registered for an account that is there after the step.
LEMMA RegisterMove ==
  ASSUME AccountsInv, NEW e \in Emails, NEW a \in AccountRow, a = account'[e], Registered(a),
         \A f \in Emails : account[f] \in AccountRow => account'[f] = account[f]
  PROVE  SessionsMove
<1>1. \A s \in Sessions : session'[s] = session[s] => Kept(s)
  BY DEF Kept, Holds
<1>2. CASE session' = session
  BY <1>1, <1>2 DEF SessionsMove, AccountsInv, AccountsTypeOK
<1>3. CASE session' # session
  <2> DEFINE new == [state |-> "active", user |-> a.user, org |-> a.org, admin |-> a.admin, pw |-> a.pw]
  <2>1. PICK s \in Sessions : session[s] = Nothing /\ session' = [session EXCEPT ![s] = new]
    BY <1>3 DEF Registered
  <2>2. new \in SessionRow /\ new.user = a.user /\ new.org = a.org /\ new.pw = a.pw
    BY DEF AccountRow, SessionRow
  <2> HIDE DEF new
  <2>3. session' \in [Sessions -> SessionRow \cup {Nothing}] /\ session'[s] = new
        /\ \A r \in Sessions \ {s} : session'[r] = session[r]
    BY <2>1, <2>2 DEF AccountsInv, AccountsTypeOK
  <2>4. Begun(s)
    BY <2>1, <2>2, <2>3 DEF Begun
  <2> QED BY <1>1, <2>3, <2>4 DEF SessionsMove
<1> QED BY <1>2, <1>3

\* Every handler of auth_routes.py, the deactivation and the erasure preserve the invariant.
LEMMA AccountsStep == AccountsInv /\ [AccountsNext]_accountVars => AccountsInv'
<1> SUFFICES ASSUME AccountsInv, [AccountsNext]_accountVars PROVE AccountsInv'
  OBVIOUS
<1> USE AccountsAssumption
<1>t. AccountsTypeOK
  BY DEF AccountsInv
\* The links, the sessions and the requests are shown by the lemmas above.
<1>q. ASSUME SessionsMove, SpentOnce', OneLive', redeemed' \in [Links -> Nat], changes' \in Nat,
             link' \in [Links -> LinkRow \cup {Nothing}],
             account' \in [Emails -> AccountRow \cup {Nothing}],
             org' \in [Orgs -> {"none", "live", "erased"}],
             called' \subseteq called
      PROVE  AccountsInv'
  BY <1>q, SessionsStep DEF AccountsInv, AccountsTypeOK, SessionsMove
<1>k. ASSUME UNCHANGED <<account, session>> PROVE SessionsMove
  BY <1>k, <1>t DEF AccountsTypeOK, SessionsMove, Kept, Holds
<1>l. ASSUME UNCHANGED <<link, redeemed>>
      PROVE  SpentOnce' /\ OneLive' /\ link' \in [Links -> LinkRow \cup {Nothing}]
             /\ redeemed' \in [Links -> Nat]
  BY <1>l, <1>t DEF AccountsInv, AccountsTypeOK, SpentOnce, OneLive, Live, In, Same
<1>1. ASSUME NEW e \in Emails, NEW o \in Orgs, Opened(e, o) PROVE AccountsInv'
  <2> DEFINE new == NewUser(o, TRUE)
  <2>1. changes' \in Nat /\ org' \in [Orgs -> {"none", "live", "erased"}]
    BY <1>1, <1>t DEF Opened, Change, AccountsTypeOK
  <2>2. new \in AccountRow
    BY <2>1 DEF NewUser, AccountRow
  <2>3. account' = [account EXCEPT ![e] = new] /\ account[e] = Nothing
    BY <1>1 DEF Opened, Taken
  <2> HIDE DEF new
  <2>4. /\ account' \in [Emails -> AccountRow \cup {Nothing}] /\ account'[e] \in AccountRow
        /\ \A f \in Emails : account[f] \in AccountRow => account'[f] = account[f]
    BY <1>t, <2>2, <2>3 DEF AccountsTypeOK
  <2>5. SessionsMove
    BY <1>1, <2>4, RegisterMove DEF Opened
  <2> QED BY <1>1, <1>q, <1>l, <2>1, <2>4, <2>5 DEF Opened
<1>2. ASSUME NEW e \in Emails, Login(e) PROVE AccountsInv'
  <2>1. CASE Opened(e, DevOrg)
    BY <1>1, <2>1
  <2>2. CASE Taken(e) /\ Registered(account[e]) /\ UNCHANGED <<account, org, link, called, changes, redeemed>>
    <3>1. account[e] \in AccountRow /\ account'[e] = account[e]
      BY <1>t, <2>2 DEF Taken, AccountsTypeOK
    <3>2. SessionsMove
      BY <2>2, <3>1, RegisterMove
    <3> QED BY <1>q, <1>l, <1>t, <2>2, <3>2 DEF AccountsTypeOK
  <2> QED BY <1>2, <2>1, <2>2 DEF Login
<1>3. ASSUME NEW e \in Emails, RequestPasswordReset(e) PROVE AccountsInv'
  <2>1. account[e] \in AccountRow
    BY <1>3, <1>t DEF RequestPasswordReset, Taken, AccountsTypeOK
  <2>2. account[e].org \in Orgs /\ account[e].user \in Nat \cup {Nothing}
    BY <2>1 DEF AccountRow
  <2>3. link' \in [Links -> LinkRow \cup {Nothing}] /\ SpentOnce' /\ OneLive'
    BY <1>3, <2>2, CreateStep DEF RequestPasswordReset
  <2> QED BY <1>3, <1>q, <1>k, <1>t, <2>3 DEF RequestPasswordReset, AccountsTypeOK
<1>4. ASSUME NEW s \in Sessions, Authenticate(s) PROVE AccountsInv'
  <2>1. SessionsOpen' /\ \A r \in Sessions : session[r] # Nothing => session'[r] # Nothing
    BY <1>4, <1>k, SessionsStep DEF Authenticate
  <2>2. \A r \in called' : session'[r] # Nothing
    BY <1>4 DEF Authenticate, Active, In, AccountsInv
  <2> QED BY <1>4, <1>l, <1>t, <2>1, <2>2 DEF Authenticate, AccountsInv, AccountsTypeOK
\* One session is over, the others and the accounts stay.
<1>5. ASSUME NEW s \in Sessions, NEW st \in {"revoked", "expired"}, Active(s),
             session' = [session EXCEPT ![s].state = st], UNCHANGED account
      PROVE  SessionsMove
  <2>1. session[s] \in SessionRow /\ session[s] # Nothing
    BY <1>5, <1>t DEF Active, In, AccountsTypeOK
  <2>2. session' \in [Sessions -> SessionRow \cup {Nothing}] /\ Over(s)
    BY <1>5, <1>t, <2>1 DEF AccountsTypeOK, SessionRow, Over
  <2>3. \A r \in Sessions \ {s} : Kept(r)
    BY <1>5, <1>t DEF AccountsTypeOK, Kept, Holds
  <2> QED BY <2>2, <2>3 DEF SessionsMove
<1>6. ASSUME NEW s \in Sessions, Logout(s) PROVE AccountsInv'
  <2>1. SessionsMove
    BY <1>6, <1>k, <1>5 DEF Logout
  <2> QED BY <1>6, <1>q, <1>l, <1>t, <2>1 DEF Logout, AccountsTypeOK
<1>7. ASSUME NEW s \in Sessions, NEW e \in Emails, NEW admin \in BOOLEAN, InviteUser(s, e, admin)
      PROVE  AccountsInv'
  <2>1. session[s].org \in Orgs
    BY <1>7, <1>t DEF InviteUser, AccountsInv, AccountsTypeOK, SessionRow
  <2>2. link' \in [Links -> LinkRow \cup {Nothing}] /\ SpentOnce' /\ OneLive' /\ redeemed' \in [Links -> Nat]
    <3>0. UNCHANGED redeemed /\ redeemed \in [Links -> Nat]
      BY <1>7, <1>t DEF InviteUser, AccountsTypeOK
    <3>1. CASE UNCHANGED link
      BY <1>l, <3>0, <3>1
    <3>2. CASE Created(Invite, e, session[s].org, Nothing, admin)
      <4>1. Invite \in {Invite, Reset} /\ Nothing \in Nat \cup {Nothing}
        OBVIOUS
      <4>2. link' \in [Links -> LinkRow \cup {Nothing}] /\ SpentOnce' /\ OneLive'
        BY <2>1, <3>0, <3>2, <4>1, CreateStep
      <4> QED BY <3>0, <4>2
    <3>3. UNCHANGED link \/ Created(Invite, e, session[s].org, Nothing, admin)
      BY <1>7 DEF InviteUser
    <3> QED BY <3>1, <3>2, <3>3
  <2> QED BY <1>7, <1>q, <1>k, <1>t, <2>2 DEF InviteUser, AccountsTypeOK
<1>8. ASSUME NEW l \in Links, AcceptInvite(l) PROVE AccountsInv'
  <2> DEFINE e == link[l].email
             new == NewUser(link[l].org, link[l].admin)
  <2>1. /\ link' \in [Links -> LinkRow \cup {Nothing}] /\ redeemed' \in [Links -> Nat]
        /\ changes' \in Nat /\ link[l] \in LinkRow /\ SpentOnce' /\ OneLive'
    BY <1>8, ConsumeStep DEF AcceptInvite
  <2>2. new \in AccountRow /\ e \in Emails
    BY <2>1 DEF NewUser, AccountRow, LinkRow
  <2>3. account' = [account EXCEPT ![e] = new] /\ account[e] = Nothing /\ Registered(account'[e])
    BY <1>8 DEF AcceptInvite, Taken
  <2> HIDE DEF new, e
  <2>4. /\ account' \in [Emails -> AccountRow \cup {Nothing}] /\ account'[e] \in AccountRow
        /\ \A f \in Emails : account[f] \in AccountRow => account'[f] = account[f]
    BY <1>t, <2>2, <2>3 DEF AccountsTypeOK
  <2>5. SessionsMove
    BY <2>2, <2>3, <2>4, RegisterMove
  <2> QED BY <1>8, <1>q, <1>t, <2>1, <2>4, <2>5 DEF AcceptInvite, AccountsTypeOK
<1>9. ASSUME NEW l \in Links, ConfirmPasswordReset(l) PROVE AccountsInv'
  <2> DEFINE u == link[l].user
  <2>1. /\ link' \in [Links -> LinkRow \cup {Nothing}] /\ redeemed' \in [Links -> Nat]
        /\ changes' \in Nat /\ link[l] \in LinkRow /\ SpentOnce' /\ OneLive'
    BY <1>9, ConsumeStep DEF ConfirmPasswordReset
  <2>2. account' = [e \in Emails |-> IF e \in UserSet(u) THEN [account[e] EXCEPT !.pw = changes'] ELSE account[e]]
        /\ session' = Revoked(u)
    BY <1>9 DEF ConfirmPasswordReset
  <2> HIDE DEF u
  <2>3. ASSUME NEW e \in Emails
        PROVE  /\ account'[e] \in AccountRow \cup {Nothing}
               /\ account[e] \in AccountRow /\ account[e].user # u => account'[e] = account[e]
    <3>1. CASE e \in UserSet(u)
      <4>1. account[e] \in AccountRow /\ account[e].user = u
        BY <1>t, <3>1 DEF UserSet, Taken, AccountsTypeOK
      <4>2. account'[e] = [account[e] EXCEPT !.pw = changes']
        BY <2>2, <3>1
      <4> QED BY <2>1, <4>1, <4>2 DEF AccountRow
    <3>2. CASE e \notin UserSet(u)
      BY <1>t, <2>2, <3>2 DEF AccountsTypeOK
    <3> QED BY <3>1, <3>2
  <2>4. account' \in [Emails -> AccountRow \cup {Nothing}]
    BY <2>2, <2>3
  <2>5. ASSUME NEW s \in Sessions
        PROVE  session'[s] \in SessionRow \cup {Nothing} /\ (Over(s) \/ Kept(s) \/ Unused(s))
    <3>1. CASE Active(s) /\ session[s].user = u
      <4>1. session[s] \in SessionRow /\ session[s] # Nothing
        BY <1>t, <3>1 DEF Active, In, AccountsTypeOK
      <4>2. session'[s] = [session[s] EXCEPT !.state = "revoked"]
        BY <2>2, <3>1 DEF Revoked
      <4> QED BY <4>1, <4>2 DEF SessionRow, Over
    <3>2. CASE ~ (Active(s) /\ session[s].user = u)
      <4>1. session'[s] = session[s]
        BY <2>2, <3>2 DEF Revoked
      <4> QED BY <1>t, <2>3, <3>2, <4>1 DEF Kept, Unused, Holds, AccountsTypeOK
    <3> QED BY <3>1, <3>2
  <2>6. SessionsMove
    BY <2>2, <2>5 DEF SessionsMove, Revoked
  <2> QED BY <1>9, <1>q, <1>t, <2>1, <2>4, <2>6 DEF ConfirmPasswordReset, AccountsTypeOK
<1>10. ASSUME NEW s \in Sessions, NEW e \in Emails, Deactivate(s, e) PROVE AccountsInv'
  <2>1. /\ account' \in [Emails -> AccountRow \cup {Nothing}]
        /\ \A f \in Emails : account[f] \in AccountRow =>
             /\ account'[f] \in AccountRow
             /\ account'[f].user = account[f].user /\ account'[f].org = account[f].org
             /\ account'[f].pw = account[f].pw
    <3>1. CASE Taken(e) /\ account' = [account EXCEPT ![e].active = FALSE]
      <4>1. account[e] \in AccountRow
        BY <1>t, <3>1 DEF Taken, AccountsTypeOK
      <4> QED BY <1>t, <3>1, <4>1 DEF AccountsTypeOK, AccountRow
    <3>2. CASE UNCHANGED account
      BY <1>t, <3>2 DEF AccountsTypeOK
    <3> QED BY <1>10, <3>1, <3>2 DEF Deactivate
  <2>2. SessionsMove
    BY <1>10, <1>t, <2>1 DEF Deactivate, AccountsTypeOK, SessionsMove, Kept, Holds
  <2> QED BY <1>10, <1>q, <1>l, <1>t, <2>1, <2>2 DEF Deactivate, AccountsTypeOK
<1>11. ASSUME NEW s \in Sessions, EraseOrg(s) PROVE AccountsInv'
  <2> DEFINE o == session[s].org
  <2>1. account' = [e \in Emails |-> IF Taken(e) /\ account[e].org = o THEN Nothing ELSE account[e]]
    BY <1>11 DEF EraseOrg
  <2>2. /\ account' \in [Emails -> AccountRow \cup {Nothing}]
        /\ \A e \in Emails : account[e] \in AccountRow /\ account[e].org # o => account'[e] = account[e]
    BY <1>t, <2>1 DEF AccountsTypeOK
  <2>3. OnlySpends
    <3>1. \A l \in Links : link'[l] = IF link[l] # Nothing /\ link[l].org = o
                                      THEN [link[l] EXCEPT !.state = "deleted"] ELSE link[l]
      BY <1>11 DEF EraseOrg
    <3>2. \A l \in Links : link[l] \in LinkRow => /\ [link[l] EXCEPT !.state = "deleted"] \in LinkRow
                                                  /\ [link[l] EXCEPT !.state = "deleted"].state = "deleted"
      BY DEF LinkRow
    <3>3. link' = [l \in Links |-> link'[l]]
      BY <1>11 DEF EraseOrg
    <3> QED BY <1>t, <3>1, <3>2, <3>3, ZenonT(30) DEF OnlySpends, Spent, AccountsTypeOK
  <2>4. ASSUME NEW r \in Sessions
        PROVE  session'[r] \in SessionRow \cup {Nothing} /\ (Over(r) \/ Kept(r) \/ Unused(r))
    <3>1. CASE session[r] # Nothing /\ session[r].org = o
      <4>1. session'[r] = [session[r] EXCEPT !.state = "deleted"] /\ session[r] \in SessionRow
        BY <1>11, <1>t, <3>1 DEF EraseOrg, AccountsTypeOK
      <4> QED BY <3>1, <4>1 DEF SessionRow, Over
    <3>2. CASE ~ (session[r] # Nothing /\ session[r].org = o)
      <4>1. session'[r] = session[r] /\ session[r] \in SessionRow \cup {Nothing}
        BY <1>11, <1>t, <3>2 DEF EraseOrg, AccountsTypeOK
      <4>2. CASE session[r] = Nothing
        BY <4>1, <4>2 DEF Unused, Active, In
      <4>3. CASE session[r] # Nothing
        BY <2>2, <3>2, <4>1, <4>3 DEF Kept, Holds
      <4> QED BY <4>1, <4>2, <4>3
    <3> QED BY <3>1, <3>2
  <2>5. SessionsMove
    <3>1. session' = [r \in Sessions |-> session'[r]]
      BY <1>11 DEF EraseOrg
    <3> QED BY <2>4, <3>1 DEF SessionsMove
  <2>6. SpentOnce' /\ OneLive' /\ link' \in [Links -> LinkRow \cup {Nothing}]
    BY <1>11, <2>3, SpendStep DEF EraseOrg, OnlySpends
  <2>7. org' \in [Orgs -> {"none", "live", "erased"}]
    BY <1>11, <1>t DEF EraseOrg, AccountsTypeOK
  <2> QED BY <1>11, <1>q, <1>t, <2>2, <2>5, <2>6, <2>7 DEF EraseOrg, AccountsTypeOK
<1>12. CASE Expire
  <2>1. OnlySpends
    <3>1. ASSUME NEW l \in Links, Live(l), link' = [link EXCEPT ![l].state = "expired"] PROVE OnlySpends
      <4>1. link[l] \in LinkRow /\ link[l] # Nothing
        BY <1>t, <3>1 DEF Live, In, AccountsTypeOK
      <4> QED BY <1>t, <3>1, <4>1 DEF OnlySpends, Spent, AccountsTypeOK, LinkRow
    <3>2. CASE UNCHANGED link
      BY <1>t, <3>2 DEF OnlySpends, AccountsTypeOK
    <3> QED BY <1>12, <3>1, <3>2 DEF Expire
  <2>2. SpentOnce' /\ OneLive' /\ link' \in [Links -> LinkRow \cup {Nothing}]
    BY <1>12, <2>1, SpendStep DEF Expire, OnlySpends
  <2>3. SessionsMove
    BY <1>12, <1>5, <1>k DEF Expire
  <2> QED BY <1>12, <1>q, <1>t, <2>2, <2>3 DEF Expire, AccountsTypeOK
<1>13. CASE UNCHANGED accountVars
  BY <1>13, <1>q, <1>k, <1>l, <1>t DEF accountVars, AccountsTypeOK
<1> QED
  BY <1>1, <1>2, <1>3, <1>4, <1>6, <1>7, <1>8, <1>9, <1>10, <1>11, <1>12, <1>13
  DEF AccountsNext, Signup

\* Every reachable state of the account tables satisfies the invariant.
LEMMA AccountsInvariance == AccountsSpec => []AccountsInv
<1>1. AccountsInit => AccountsInv
  BY AccountsAssumption
  DEF AccountsInit, AccountsInv, AccountsTypeOK, SpentOnce, OneLive, SessionsOpen, Live, Active, In
<1> QED BY <1>1, AccountsStep, PTL DEF AccountsSpec

\* tokens.py:60, 114: one redemption of a link, one live link of a purpose and an email.
THEOREM LinksSpentOnce == AccountsSpec => []LinksAreSingleUse
<1>1. AccountsInv => LinksAreSingleUse
  BY DEF AccountsInv, LinksAreSingleUse, SpentOnce, OneLive, Same
<1> QED BY <1>1, AccountsInvariance, PTL

\* auth_routes.py:515: a session that passes the check was opened under the present password.
THEOREM ResetsEndSessions == AccountsSpec => []NoSessionOutlivesReset
<1>1. AccountsInv => NoSessionOutlivesReset
  BY AccountsAssumption
  DEF AccountsInv, SessionsOpen, Holds, NoSessionOutlivesReset, UserSet, Taken
<1> QED BY <1>1, AccountsInvariance, PTL

----------------------------------------------------------------------------
(* The cost of the LLM calls *)

CostTypeOK ==
  /\ pipe \in [Pipelines -> {"new", "open", "closed"}]
  /\ phase \in [Calls -> {"new", "queued", "asleep", "calling", "done", "failed"}]
  /\ acc \in [Runs -> (SUBSET Calls) \cup {None}]
  /\ alone \in SUBSET Pipelines /\ paid \in SUBSET Calls

Peers(p, q) == p # q /\ RunOf[p] = RunOf[q]

\* An accumulator has an open pipeline, a pipeline that is alone has no open peer, a call
\* under way has an open pipeline, and only a pipeline that has begun has paid calls.
CostInv ==
  /\ CostTypeOK /\ CostIsOwn
  /\ \A r \in Runs : acc[r] # None => \E p \in Pipelines : pipe[p] = "open" /\ RunOf[p] = r
  /\ \A p \in alone, q \in Pipelines : pipe[p] = "open" /\ Peers(p, q) => pipe[q] # "open"
  /\ \A c \in Calls : phase[c] \in {"queued", "asleep", "calling"} => pipe[Owner[c]] = "open"
  /\ \A c \in paid : pipe[Owner[c]] # "new"

\* A call that moves on, pays nothing and leaves the pipelines alone.
LEMMA FreeStep ==
  ASSUME CostInv, UNCHANGED <<pipe, alone, acc, paid>>,
         phase' \in [Calls -> {"new", "queued", "asleep", "calling", "done", "failed"}],
         \A c \in Calls : phase'[c] \in {"queued", "asleep", "calling"} =>
           phase[c] \in {"queued", "asleep", "calling"} \/ pipe[Owner[c]] = "open"
  PROVE  CostInv'
BY DEF CostInv, CostTypeOK, CostIsOwn, Peers

\* set_run_context finds no accumulator unless a peer is open.
LEMMA OpenStep ==
  ASSUME CostInv, NEW p \in Pipelines, OpenPipeline(p)
  PROVE  CostInv'
<1> DEFINE others == {q \in Pipelines : pipe[q] = "open" /\ RunOf[q] = RunOf[p]}
           r == RunOf[p]
<1> USE LlmAssumption
<1>r. r \in Runs /\ \A q \in Pipelines : RunOf[q] \in Runs
  BY DEF Runs, Range
<1>1. /\ pipe[p] = "new" /\ pipe' \in [Pipelines -> {"new", "open", "closed"}] /\ pipe'[p] = "open"
      /\ \A q \in Pipelines \ {p} : pipe'[q] = pipe[q]
      /\ UNCHANGED <<phase, paid>>
  BY DEF OpenPipeline, CostInv, CostTypeOK
<1>2. alone' \subseteq alone /\ \A q \in others : p \notin alone' /\ q \notin alone'
  BY DEF OpenPipeline
<1>3. /\ acc' \in [Runs -> (SUBSET Calls) \cup {None}]
      /\ acc'[r] = IF acc[r] = None THEN {} ELSE acc[r]
      /\ \A s \in Runs \ {r} : acc'[s] = acc[s]
  BY <1>r DEF OpenPipeline, CostInv, CostTypeOK
<1>4. {c \in paid : Owner[c] = p} = {}
  BY <1>1 DEF CostInv
<1>5. others = {} => acc[r] = None
  BY <1>r DEF CostInv
<1>6. CostTypeOK'
  BY <1>1, <1>2, <1>3 DEF CostInv, CostTypeOK
<1>7. CostIsOwn'
  <2>1. \A s \in Runs : acc'[s] # None => \A c \in acc'[s] : RunOf[Owner[c]] = s
    BY <1>3 DEF CostInv, CostIsOwn
  <2>2. ASSUME NEW q \in alone', pipe'[q] = "open" PROVE acc'[RunOf[q]] = {c \in paid : Owner[c] = q}
    <3>1. CASE q = p
      <4>1. others = {}
        BY <1>2, <2>2, <3>1
      <4> QED BY <1>3, <1>4, <1>5, <3>1, <4>1
    <3>2. CASE q # p
      <4>1. q \in alone /\ q \in Pipelines /\ pipe[q] = "open" /\ q \notin others
        BY <1>1, <1>2, <2>2, <3>2 DEF CostInv, CostTypeOK
      <4>2. RunOf[q] \in Runs \ {r}
        BY <1>r, <4>1
      <4> QED BY <1>3, <4>1, <4>2 DEF CostInv, CostIsOwn
    <3> QED BY <3>1, <3>2
  <2> QED BY <1>1, <2>1, <2>2 DEF CostIsOwn
<1>8. ASSUME NEW s \in Runs, acc'[s] # None PROVE \E q \in Pipelines : pipe'[q] = "open" /\ RunOf[q] = s
  <2>1. CASE s = r
    BY <1>1, <2>1
  <2>2. CASE s # r
    <3>1. PICK q \in Pipelines : pipe[q] = "open" /\ RunOf[q] = s
      BY <1>3, <1>8, <2>2 DEF CostInv
    <3> QED BY <1>1, <3>1
  <2> QED BY <2>1, <2>2
<1>9. ASSUME NEW q \in alone', NEW w \in Pipelines, pipe'[q] = "open", Peers(q, w) PROVE pipe'[w] # "open"
  <2>1. CASE q = p
    <3>1. others = {}
      BY <1>2, <1>9, <2>1
    <3> QED BY <1>1, <1>9, <2>1, <3>1 DEF Peers
  <2>2. CASE q # p
    <3>1. q \in alone /\ q \in Pipelines /\ pipe[q] = "open" /\ q \notin others
      BY <1>1, <1>2, <1>9, <2>2 DEF CostInv, CostTypeOK
    <3>2. w # p
      BY <1>9, <3>1 DEF Peers
    <3> QED BY <1>1, <1>9, <3>1, <3>2 DEF CostInv
  <2> QED BY <2>1, <2>2
<1>10. \A c \in Calls : phase'[c] \in {"queued", "asleep", "calling"} => pipe'[Owner[c]] = "open"
  BY <1>1 DEF CostInv
<1>11. \A c \in paid' : pipe'[Owner[c]] # "new"
  BY <1>1 DEF CostInv, CostTypeOK
<1> QED BY <1>6, <1>7, <1>8, <1>9, <1>10, <1>11 DEF CostInv, Peers

\* The finally block clears the accumulator of peers too, none of which is alone.
LEMMA CloseStep ==
  ASSUME CostInv, NEW p \in Pipelines, ClosePipeline(p)
  PROVE  CostInv'
<1> DEFINE r == RunOf[p]
<1> USE LlmAssumption
<1>r. r \in Runs /\ \A q \in Pipelines : RunOf[q] \in Runs
  BY DEF Runs, Range
<1>1. /\ pipe[p] = "open" /\ pipe' \in [Pipelines -> {"new", "open", "closed"}] /\ pipe'[p] = "closed"
      /\ \A q \in Pipelines \ {p} : pipe'[q] = pipe[q]
      /\ UNCHANGED <<phase, paid, alone>>
  BY DEF ClosePipeline, CostInv, CostTypeOK
<1>2. /\ acc' \in [Runs -> (SUBSET Calls) \cup {None}] /\ acc'[r] = None
      /\ \A s \in Runs \ {r} : acc'[s] = acc[s]
  BY <1>r DEF ClosePipeline, Cleared, CostInv, CostTypeOK
<1>3. ASSUME NEW q \in alone, pipe'[q] = "open"
      PROVE  q \in Pipelines /\ pipe[q] = "open" /\ RunOf[q] \in Runs \ {r}
  BY <1>r, <1>1, <1>3 DEF CostInv, CostTypeOK, Peers
<1>4. CostIsOwn'
  BY <1>1, <1>2, <1>3 DEF CostInv, CostIsOwn
<1>5. ASSUME NEW s \in Runs, acc'[s] # None PROVE \E q \in Pipelines : pipe'[q] = "open" /\ RunOf[q] = s
  <2>1. s # r /\ acc[s] # None
    BY <1>2, <1>5
  <2>2. PICK q \in Pipelines : pipe[q] = "open" /\ RunOf[q] = s
    BY <2>1 DEF CostInv
  <2> QED BY <1>1, <2>1, <2>2
<1>6. \A q \in alone', w \in Pipelines : pipe'[q] = "open" /\ Peers(q, w) => pipe'[w] # "open"
  BY <1>1, <1>3 DEF CostInv
<1>7. \A c \in Calls : phase'[c] \in {"queued", "asleep", "calling"} => pipe'[Owner[c]] = "open"
  BY <1>1 DEF ClosePipeline, CostInv
<1>8. \A c \in paid' : pipe'[Owner[c]] # "new"
  BY <1>1 DEF CostInv, CostTypeOK
<1> QED BY <1>1, <1>2, <1>4, <1>5, <1>6, <1>7, <1>8 DEF CostInv, CostTypeOK, Peers

\* record_llm_call: the answer counts for the run of its pipeline, which is open.
LEMMA RespondStep ==
  ASSUME CostInv, NEW c \in Calls, Respond(c)
  PROVE  CostInv'
<1> DEFINE p == Owner[c]
           r == RunOf[p]
<1> USE LlmAssumption
<1>1. /\ phase[c] = "calling" /\ UNCHANGED <<pipe, alone>>
      /\ phase' \in [Calls -> {"new", "queued", "asleep", "calling", "done", "failed"}]
      /\ phase'[c] \in {"done", "failed"} /\ \A d \in Calls \ {c} : phase'[d] = phase[d]
  BY DEF Respond, Settle, CostInv, CostTypeOK
<1>2. CASE UNCHANGED <<paid, acc>>
  BY <1>1, <1>2, FreeStep
<1>3. CASE paid' = paid \cup {c} /\ acc' = Recorded(c)
  <2>1. p \in Pipelines /\ pipe[p] = "open" /\ r \in Runs /\ \A q \in Pipelines : RunOf[q] \in Runs
    BY <1>1 DEF CostInv, Runs, Range
  <2>2. /\ acc' \in [Runs -> (SUBSET Calls) \cup {None}]
        /\ acc'[r] = IF acc[r] = None THEN None ELSE acc[r] \cup {c}
        /\ \A s \in Runs \ {r} : acc'[s] = acc[s]
        /\ \A s \in Runs : acc'[s] # None => acc[s] # None
    BY <1>3, <2>1 DEF Recorded, CostInv, CostTypeOK
  <2>3. CostIsOwn'
    <3>1. \A s \in Runs : acc'[s] # None => \A d \in acc'[s] : RunOf[Owner[d]] = s
      BY <2>2 DEF CostInv, CostIsOwn
    <3>2. ASSUME NEW q \in alone, pipe[q] = "open" PROVE acc'[RunOf[q]] = {d \in paid' : Owner[d] = q}
      <4>0. q \in Pipelines /\ acc[RunOf[q]] = {d \in paid : Owner[d] = q} /\ acc[RunOf[q]] # None
        BY <3>2 DEF CostInv, CostIsOwn, CostTypeOK
      <4>1. CASE q = p
        BY <1>3, <2>2, <4>0, <4>1
      <4>2. CASE q # p
        <5>1. RunOf[q] \in Runs \ {r}
          BY <2>1, <3>2, <4>0, <4>2 DEF CostInv, Peers
        <5> QED BY <1>3, <2>2, <4>0, <4>2, <5>1
      <4> QED BY <4>1, <4>2
    <3> QED BY <1>1, <3>1, <3>2 DEF CostIsOwn
  <2> QED BY <1>1, <1>3, <2>1, <2>2, <2>3 DEF CostInv, CostTypeOK, Peers
<1> QED BY <1>2, <1>3 DEF Respond

\* cost_tracker.py: a pipeline that was alone on its run reports exactly its own paid calls,
\* and no run ever carries the calls of another.
THEOREM RunsPayTheirOwn == LlmSpec => []CostIsOwn
<1>1. LlmInit => CostInv
  BY LlmAssumption DEF LlmInit, CostInv, CostTypeOK, CostIsOwn, Runs, Range
<1>2. CostInv /\ [LlmNext]_llmVars => CostInv'
  <2> SUFFICES ASSUME CostInv, [LlmNext]_llmVars PROVE CostInv'
    OBVIOUS
  <2>1. ASSUME NEW c \in Calls, Lookup(c) \/ Acquire(c) \/ Wake(c) \/ Retry(c) \/ GiveUp(c)
        PROVE  CostInv'
    <3>1. /\ UNCHANGED <<pipe, alone, acc, paid>>
          /\ phase[c] \in {"queued", "asleep", "calling"} \/ pipe[Owner[c]] = "open"
          /\ \/ UNCHANGED phase
             \/ \E s \in {"queued", "asleep", "calling", "done", "failed"} :
                  phase' = [phase EXCEPT ![c] = s]
      BY <2>1 DEF Lookup, Acquire, Wake, Retry, GiveUp, TakeSlot, Settle, costVars
    <3> QED BY <3>1, FreeStep DEF CostInv, CostTypeOK
  <2>2. CASE PurgeCache \/ LlmTick
    BY <2>2, FreeStep DEF PurgeCache, LlmTick, costVars, CostInv, CostTypeOK
  <2>3. CASE UNCHANGED llmVars
    BY <2>3, FreeStep DEF llmVars, costVars, CostInv, CostTypeOK
  <2> QED BY <2>1, <2>2, <2>3, OpenStep, CloseStep, RespondStep DEF LlmNext
<1>3. CostInv => CostIsOwn
  BY DEF CostInv
<1> QED BY <1>1, <1>2, <1>3, PTL DEF LlmSpec

----------------------------------------------------------------------------
(* The rate limiter *)

Age  == 0 .. Window
Ages == {s \in Seq(Age) : \A i, j \in 1 .. Len(s) : i <= j => s[j] <= s[i]}

\* p is s without its first k ages, which are those that have left the window.
Cut(s, p, k) == /\ k \in 0 .. Len(s) /\ Len(p) = Len(s) - k
                /\ \A i \in 1 .. Len(p) : p[i] = s[i + k] /\ p[i] < Window
                /\ \A i \in 1 .. k : s[i] = Window

\* All slots granted within the window have a time stamp, the stamps never exceed the
\* limit, and the one caller that may sleep does so until the oldest is out of the window.
SlotInv ==
  /\ phase \in [Calls -> {"new", "queued", "asleep", "calling", "done", "failed"}]
  /\ wait \in [Calls -> Nat]
  /\ stamps \in Ages /\ Len(stamps) <= Rpm
  /\ granted \in Ages /\ \E k \in Nat : Cut(stamps, granted, k)
  /\ \A c, d \in Calls : phase[c] = "asleep" /\ phase[d] = "asleep" => c = d
  /\ \A c \in Calls : phase[c] = "asleep" => /\ stamps # <<>>
                                             /\ stamps[1] + wait[c] >= Window

\* A set of naturals has a least element: the first age that is young enough.
LEMMA NatMin ==
  ASSUME NEW S \in SUBSET Nat, S # {}
  PROVE  \E m \in S : \A n \in S : m <= n
<1> DEFINE R == OpToRel(<, Nat)
<1>1. \A x, y \in Nat : <<x, y>> \in R <=> x < y
  BY DEF OpToRel
<1>2. IsWellFoundedOn(R, Nat)
  BY NatLessThanWellFounded
<1> HIDE DEF R
<1>3. PICK m \in S : \A n \in S : ~ (<<n, m>> \in R)
  BY <1>2, WFMin
<1>4. \A n \in S : ~ (n < m)
  BY <1>1, <1>3, Zenon
<1> QED BY <1>4

\* The while loop of acquire drops the stamps that have left the window, which come first.
LEMMA PurgedCuts ==
  ASSUME NEW s \in Ages
  PROVE  Purged(s) \in Ages /\ \E k \in Nat : Cut(s, Purged(s), k)
<1> DEFINE young == {i \in DOMAIN s : s[i] < Window}
<1>0. s \in Seq(Age) /\ DOMAIN s = 1 .. Len(s) /\ Len(s) \in Nat /\ Window \in Nat \ {0}
      /\ \A i, j \in 1 .. Len(s) : i <= j => s[j] <= s[i]
  BY LlmAssumption DEF Ages
<1>1. CASE young = {}
  <2>1. Purged(s) = <<>>
    BY <1>1 DEF Purged
  <2>2. \A i \in 1 .. Len(s) : s[i] = Window
    BY <1>0, <1>1 DEF Age
  <2>3. <<>> \in Ages
    BY DEF Ages
  <2>4. Cut(s, <<>>, Len(s))
    BY <1>0, <2>2 DEF Cut
  <2> QED BY <1>0, <2>1, <2>3, <2>4
<1>2. CASE young # {}
  <2> DEFINE m == Min(young)
             p == SubSeq(s, m, Len(s))
  <2>1. m \in young /\ \A i \in young : m <= i
    <3>1. young \in SUBSET Nat
      BY <1>0
    <3>2. \E i \in young : \A j \in young : i <= j
      BY <1>2, <3>1, NatMin
    <3> QED BY <3>2 DEF Min
  <2>2. Purged(s) = p
    BY <1>2 DEF Purged
  <2> HIDE DEF m
  <2>3. m \in 1 .. Len(s) /\ s[m] < Window /\ \A i \in 1 .. m - 1 : s[i] = Window
    BY <1>0, <2>1 DEF Age
  <2>4. p \in Seq(Age) /\ Len(p) = Len(s) - (m - 1) /\ \A i \in 1 .. Len(p) : p[i] = s[i + (m - 1)]
    BY <1>0, <2>3
  <2> HIDE DEF p
  <2>5. ASSUME NEW i \in 1 .. Len(p)
        PROVE  i + (m - 1) \in 1 .. Len(s) /\ m <= i + (m - 1) /\ p[i] < Window
    <3>1. i + (m - 1) \in 1 .. Len(s) /\ m <= i + (m - 1)
      BY <1>0, <2>3, <2>4
    <3>2. p[i] = s[i + (m - 1)] /\ s[i + (m - 1)] \in Age /\ s[m] \in Age
      <4>1. \A x \in 1 .. Len(s) : s[x] \in Age
        BY <1>0
      <4> QED BY <2>3, <2>4, <3>1, <4>1
    <3>3. s[i + (m - 1)] <= s[m]
      BY <1>0, <2>3, <3>1
    <3> QED BY <1>0, <2>3, <3>1, <3>2, <3>3 DEF Age
  <2>6. p \in Ages
    <3>1. ASSUME NEW i \in 1 .. Len(p), NEW j \in 1 .. Len(p), i <= j PROVE p[j] <= p[i]
      <4>1. i + (m - 1) \in 1 .. Len(s) /\ j + (m - 1) \in 1 .. Len(s)
        BY <2>5
      <4>2. i + (m - 1) <= j + (m - 1)
        BY <2>3, <2>4, <3>1
      <4>3. s[j + (m - 1)] <= s[i + (m - 1)]
        BY <1>0, <4>1, <4>2
      <4> QED BY <2>4, <4>3
    <3> QED BY <2>4, <3>1 DEF Ages
  <2>7. Cut(s, p, m - 1)
    BY <1>0, <2>3, <2>4, <2>5 DEF Cut
  <2> QED BY <2>2, <2>3, <2>6, <2>7
<1> QED BY <1>1, <1>2

\* Slots granted within the window have stamps before and after the loop.
LEMMA CutsPurged ==
  ASSUME SlotInv
  PROVE  /\ Purged(granted) = granted
         /\ Len(Purged(stamps)) <= Len(stamps) /\ \E k \in Nat : Cut(Purged(stamps), granted, k)
<1>1. PICK k \in Nat : Cut(stamps, granted, k)
  BY DEF SlotInv
<1>2. PICK m \in Nat : Cut(stamps, Purged(stamps), m) /\ Purged(stamps) \in Ages
  BY PurgedCuts DEF SlotInv
<1>3. PICK n \in Nat : Cut(granted, Purged(granted), n) /\ Purged(granted) \in Ages
  BY PurgedCuts DEF SlotInv
<1> DEFINE p == Purged(stamps)
           q == Purged(granted)
<1> HIDE DEF p, q
<1>4. /\ stamps \in Seq(Age) /\ granted \in Seq(Age) /\ p \in Seq(Age) /\ q \in Seq(Age)
      /\ Window \in Nat /\ Cut(stamps, p, m) /\ Cut(granted, q, n)
  BY <1>2, <1>3, LlmAssumption DEF SlotInv, Ages, p, q
<1>5. n = 0
  <2>1. CASE n # 0
    <3>1. 1 \in 1 .. n /\ 1 \in 1 .. Len(granted)
      BY <1>4, <2>1 DEF Cut
    <3>2. granted[1] = Window /\ granted[1] < Window
      BY <1>1, <1>4, <3>1 DEF Cut
    <3> QED BY <1>4, <3>2
  <2> QED BY <2>1
<1>6. q = granted
  BY <1>4, <1>5 DEF Cut
<1>7. k = m
  <2>1. CASE k < m
    <3>1. m - k \in 1 .. Len(granted) /\ m \in 1 .. m /\ (m - k) + k = m
      BY <1>1, <1>4, <2>1 DEF Cut
    <3>2. granted[m - k] = stamps[m] /\ granted[m - k] < Window /\ stamps[m] = Window
      BY <1>1, <1>4, <3>1 DEF Cut
    <3> QED BY <1>4, <3>2
  <2>2. CASE m < k
    <3>1. k - m \in 1 .. Len(p) /\ k \in 1 .. k /\ (k - m) + m = k
      BY <1>1, <1>4, <2>2 DEF Cut
    <3>2. p[k - m] = stamps[k] /\ p[k - m] < Window /\ stamps[k] = Window
      BY <1>1, <1>4, <3>1 DEF Cut
    <3> QED BY <1>4, <3>2
  <2> QED BY <2>1, <2>2
<1>8. Cut(p, granted, 0)
  BY <1>1, <1>4, <1>7 DEF Cut
<1>9. Len(p) <= Len(stamps)
  BY <1>4 DEF Cut
<1> QED BY <1>6, <1>8, <1>9 DEF p, q

\* A slot is taken with fewer than requests_per_minute stamps in the window.
LEMMA TakeStep ==
  ASSUME SlotInv, NEW c \in Calls, TakeSlot(c), Len(Purged(stamps)) < Rpm,
         \A d \in Calls : phase[d] = "asleep" => d = c
  PROVE  SlotInv'
<1> DEFINE p == Purged(stamps)
<1> USE LlmAssumption
<1>1. PICK k \in Nat : Cut(p, granted, k)
  BY CutsPurged
<1>2. p \in Ages /\ Purged(granted) = granted /\ granted \in Ages
  BY PurgedCuts, CutsPurged DEF SlotInv
<1>3. stamps' = Append(p, 0) /\ granted' = Append(granted, 0) /\ Len(p) < Rpm
  BY <1>2 DEF TakeSlot
<1> HIDE DEF p
<1>4. 0 \in Age /\ \A a \in Age : 0 <= a
  BY DEF Age
<1>5. ASSUME NEW s \in Ages PROVE Append(s, 0) \in Ages
  <2>1. s \in Seq(Age) /\ \A i, j \in 1 .. Len(s) : i <= j => s[j] <= s[i]
    BY DEF Ages
  <2>2. /\ Append(s, 0) \in Seq(Age) /\ Len(Append(s, 0)) = Len(s) + 1
        /\ \A i \in 1 .. Len(s) : Append(s, 0)[i] = s[i] /\ s[i] \in Age
        /\ Append(s, 0)[Len(s) + 1] = 0
    BY <1>4, <2>1
  <2>3. \A i, j \in 1 .. Len(s) + 1 : i <= j => Append(s, 0)[j] <= Append(s, 0)[i]
    BY <1>4, <2>1, <2>2
  <2> QED BY <2>2, <2>3 DEF Ages
<1>6. stamps' \in Ages /\ granted' \in Ages
  BY <1>2, <1>3, <1>5
<1>7. p \in Seq(Age) /\ granted \in Seq(Age)
  BY <1>2 DEF Ages
<1>8. /\ Len(stamps') = Len(p) + 1 /\ Len(granted') = Len(granted) + 1
      /\ \A i \in 1 .. Len(p) : stamps'[i] = p[i]
      /\ \A i \in 1 .. Len(granted) : granted'[i] = granted[i]
      /\ stamps'[Len(p) + 1] = 0 /\ granted'[Len(granted) + 1] = 0
  BY <1>3, <1>7
<1>9. Cut(stamps', granted', k)
  <2>1. /\ k \in 0 .. Len(p) /\ Len(granted) = Len(p) - k /\ Len(p) \in Nat /\ Len(granted) \in Nat
        /\ \A i \in 1 .. Len(granted) : granted[i] = p[i + k] /\ granted[i] < Window
        /\ \A i \in 1 .. k : p[i] = Window
    BY <1>1, <1>7 DEF Cut
  <2>2. k \in 0 .. Len(stamps') /\ Len(granted') = Len(stamps') - k
    BY <1>8, <2>1
  <2>3. ASSUME NEW i \in 1 .. Len(granted') PROVE granted'[i] = stamps'[i + k] /\ granted'[i] < Window
    <3>1. CASE i = Len(granted) + 1
      <4>1. i + k = Len(p) + 1
        BY <2>1, <3>1
      <4> QED BY <1>8, <3>1, <4>1
    <3>2. CASE i # Len(granted) + 1
      <4>1. i \in 1 .. Len(granted) /\ i + k \in 1 .. Len(p)
        BY <1>8, <2>1, <3>2
      <4> QED BY <1>8, <2>1, <4>1
    <3> QED BY <3>1, <3>2
  <2>4. \A i \in 1 .. k : i \in 1 .. Len(p)
    BY <2>1
  <2> QED BY <1>8, <2>1, <2>2, <2>3, <2>4 DEF Cut
<1>10. Len(stamps') <= Rpm
  BY <1>3, <1>7, <1>8
<1>11. /\ phase' \in [Calls -> {"new", "queued", "asleep", "calling", "done", "failed"}]
       /\ wait' \in [Calls -> Nat] /\ \A d \in Calls : phase'[d] # "asleep"
  BY DEF TakeSlot, SlotInv
<1> QED BY <1>6, <1>9, <1>10, <1>11 DEF SlotInv

\* A call that neither falls asleep nor takes a slot, or nobody moves.
LEMMA IdleStep ==
  ASSUME SlotInv, UNCHANGED limiterVars,
         phase' \in [Calls -> {"new", "queued", "asleep", "calling", "done", "failed"}],
         \A c \in Calls : phase'[c] = "asleep" => phase[c] = "asleep"
  PROVE  SlotInv'
BY DEF SlotInv, limiterVars

\* acquire: take a slot, or sleep until the oldest stamp has left the window.
LEMMA AcquireStep ==
  ASSUME SlotInv, NEW c \in Calls, Acquire(c)
  PROVE  SlotInv'
<1> USE LlmAssumption
<1>0. PICK m \in Nat : Cut(stamps, Purged(stamps), m) /\ Purged(stamps) \in Ages
  BY PurgedCuts DEF SlotInv
<1> DEFINE p == Purged(stamps)
<1>1. \A d \in Calls : phase[d] # "asleep"
  BY DEF Acquire, LockFree
<1>2. p \in Seq(Age) /\ Len(p) \in Nat /\ Len(p) <= Rpm
  BY <1>0, CutsPurged DEF SlotInv, Ages
<1>3. CASE Len(p) < Rpm /\ TakeSlot(c)
  BY <1>1, <1>3, TakeStep
<1>4. CASE /\ Len(p) >= Rpm /\ stamps' = p /\ wait' = [wait EXCEPT ![c] = Window - Head(stamps')]
           /\ phase' = [phase EXCEPT ![c] = "asleep"] /\ UNCHANGED <<granted, attempt>>
  <2>1. p # <<>> /\ Head(p) = p[1] /\ p[1] \in Age
    BY <1>2, <1>4
  <2> DEFINE w == Window - Head(p)
  <2>2. w \in Nat /\ p[1] + w >= Window
    BY <2>1 DEF Age
  <2>3. wait' = [wait EXCEPT ![c] = w]
    BY <1>4
  <2>4. \E k \in Nat : Cut(p, granted, k)
    BY CutsPurged
  <2> HIDE DEF w, p
  <2>5. wait' \in [Calls -> Nat] /\ wait'[c] = w
    BY <2>2, <2>3 DEF SlotInv
  <2>6. /\ phase' \in [Calls -> {"new", "queued", "asleep", "calling", "done", "failed"}]
        /\ \A d \in Calls : phase'[d] = "asleep" => d = c
    BY <1>1, <1>4 DEF SlotInv
  <2>7. p \in Ages /\ granted' = granted /\ stamps' = p
    BY <1>0, <1>4 DEF p
  <2> QED BY <1>2, <2>1, <2>2, <2>4, <2>5, <2>6, <2>7 DEF SlotInv
<1> QED BY <1>3, <1>4 DEF Acquire

\* Whoever wakes finds the oldest stamp out of the window, for nobody else took a slot.
LEMMA WakeStep ==
  ASSUME SlotInv, NEW c \in Calls, Wake(c)
  PROVE  SlotInv'
<1> USE LlmAssumption
<1>1. PICK m \in Nat : Cut(stamps, Purged(stamps), m) /\ Purged(stamps) \in Ages
  BY PurgedCuts DEF SlotInv
<1>2. stamps \in Seq(Age) /\ stamps # <<>> /\ stamps[1] = Window /\ Len(stamps) <= Rpm
  <2>1. stamps \in Seq(Age) /\ stamps # <<>> /\ stamps[1] + wait[c] >= Window /\ wait[c] = 0
    BY DEF Wake, SlotInv, Ages
  <2>2. stamps[1] \in Age
    BY <2>1
  <2> QED BY <2>1, <2>2 DEF Age, SlotInv
<1> DEFINE p == Purged(stamps)
<1>3. Len(p) \in Nat /\ p \in Seq(Age)
  BY <1>1 DEF Ages
<1> HIDE DEF p
<1>4. m # 0
  <2>1. CASE m = 0
    <3>1. Len(p) = Len(stamps) /\ 1 \in 1 .. Len(p) /\ p[1] = stamps[1 + 0] /\ p[1] < Window
      BY <1>1, <1>2, <1>3, <2>1 DEF Cut, p
    <3> QED BY <1>2, <3>1
  <2> QED BY <2>1
<1>5. Len(p) < Rpm
  BY <1>1, <1>2, <1>3, <1>4 DEF Cut, p
<1>6. \A d \in Calls : phase[d] = "asleep" => d = c
  BY DEF Wake, SlotInv
<1> QED BY <1>5, <1>6, TakeStep DEF Wake, p

\* A tick makes all ages older, up to the window.
LEMMA OlderAges ==
  ASSUME NEW s \in Ages
  PROVE  /\ Older(s) \in Ages /\ Len(Older(s)) = Len(s)
         /\ \A i \in 1 .. Len(s) : Older(s)[i] = IF s[i] < Window THEN s[i] + 1 ELSE Window
<1>1. s \in Seq(Age) /\ DOMAIN s = 1 .. Len(s) /\ Len(s) \in Nat /\ Window \in Nat
      /\ \A i, j \in 1 .. Len(s) : i <= j => s[j] <= s[i]
  BY LlmAssumption DEF Ages
<1> DEFINE o == Older(s)
<1>2. \A i \in 1 .. Len(s) : o[i] = (IF s[i] < Window THEN s[i] + 1 ELSE Window) /\ o[i] \in Age
  BY <1>1 DEF Older, Age
<1>3. o \in Seq(Age) /\ Len(o) = Len(s)
  <2>1. o = [i \in 1 .. Len(s) |-> o[i]]
    BY <1>1 DEF Older
  <2> HIDE DEF o
  <2> QED BY <1>1, <1>2, <2>1
<1> HIDE DEF o
<1>4. ASSUME NEW i \in 1 .. Len(s), NEW j \in 1 .. Len(s), i <= j PROVE o[j] <= o[i]
  <2>1. s[j] <= s[i] /\ s[i] \in Age /\ s[j] \in Age
    BY <1>1, <1>4
  <2> QED BY <1>1, <1>2, <2>1, SMTT(30) DEF Age
<1>5. o \in Ages
  <2>1. \A i, j \in 1 .. Len(o) : i <= j => o[j] <= o[i]
    BY <1>3, <1>4
  <2> QED BY <1>3, <2>1 DEF Ages
<1> QED BY <1>2, <1>3, <1>5 DEF o

\* A slot leaves the window together with its stamp.
LEMMA SlotTickStep ==
  ASSUME SlotInv, LlmTick
  PROVE  SlotInv'
<1> USE LlmAssumption
<1> DEFINE s == Older(stamps)
           g == Older(granted)
           p == Purged(g)
<1>1. PICK k \in Nat : Cut(stamps, granted, k)
  BY DEF SlotInv
<1>2. /\ s \in Ages /\ Len(s) = Len(stamps) /\ g \in Ages /\ Len(g) = Len(granted)
      /\ \A i \in 1 .. Len(stamps) : s[i] = IF stamps[i] < Window THEN stamps[i] + 1 ELSE Window
      /\ \A i \in 1 .. Len(granted) : g[i] = IF granted[i] < Window THEN granted[i] + 1 ELSE Window
  BY OlderAges DEF SlotInv
<1>3. PICK m \in Nat : Cut(g, p, m) /\ p \in Ages
  BY <1>2, PurgedCuts
<1>4. stamps' = s /\ granted' = p /\ UNCHANGED phase
      /\ wait' = [c \in Calls |-> IF wait[c] > 0 THEN wait[c] - 1 ELSE 0]
  BY DEF LlmTick
<1> HIDE DEF s, g, p
<1>5. /\ stamps \in Seq(Age) /\ granted \in Seq(Age) /\ s \in Seq(Age) /\ g \in Seq(Age)
      /\ p \in Seq(Age) /\ Len(stamps) \in Nat /\ Len(granted) \in Nat /\ Len(p) \in Nat
  BY <1>2, <1>3 DEF SlotInv, Ages
<1>6. k \in 0 .. Len(s) /\ Len(g) = Len(s) - k /\ \A i \in 1 .. Len(g) : g[i] = s[i + k]
  <2>1. k \in 0 .. Len(s) /\ Len(g) = Len(s) - k
    BY <1>1, <1>2 DEF Cut
  <2>2. ASSUME NEW i \in 1 .. Len(g) PROVE g[i] = s[i + k]
    <3>1. i \in 1 .. Len(granted) /\ i + k \in 1 .. Len(stamps)
      BY <1>2, <1>5, <2>1
    <3>2. granted[i] = stamps[i + k]
      BY <1>1, <3>1 DEF Cut
    <3> QED BY <1>2, <3>1, <3>2
  <2> QED BY <2>1, <2>2
<1>7. \A i \in 1 .. k : s[i] = Window
  BY <1>1, <1>2, <1>6 DEF Cut
<1>8. Cut(s, p, k + m)
  <2>1. /\ m \in 0 .. Len(g) /\ Len(p) = Len(g) - m
        /\ \A i \in 1 .. Len(p) : p[i] = g[i + m] /\ p[i] < Window
        /\ \A i \in 1 .. m : g[i] = Window
    BY <1>3 DEF Cut
  <2>2. k + m \in 0 .. Len(s) /\ Len(p) = Len(s) - (k + m)
    BY <1>2, <1>5, <1>6, <2>1
  <2>3. ASSUME NEW i \in 1 .. Len(p) PROVE p[i] = s[i + (k + m)] /\ p[i] < Window
    <3>1. i + m \in 1 .. Len(g) /\ (i + m) + k = i + (k + m)
      BY <1>2, <1>5, <1>6, <2>1
    <3> QED BY <1>6, <2>1, <3>1
  <2>4. ASSUME NEW i \in 1 .. k + m PROVE s[i] = Window
    <3>1. CASE i <= k
      BY <1>7, <3>1
    <3>2. CASE i > k
      <4>1. i - k \in 1 .. m /\ i - k \in 1 .. Len(g) /\ (i - k) + k = i
        BY <1>5, <1>6, <2>1, <3>2
      <4> QED BY <1>6, <2>1, <4>1
    <3> QED BY <3>1, <3>2
  <2> QED BY <2>2, <2>3, <2>4 DEF Cut
<1>9. ASSUME NEW c \in Calls, phase'[c] = "asleep"
      PROVE  stamps' # <<>> /\ stamps'[1] + wait'[c] >= Window
  <2>1. stamps # <<>> /\ stamps[1] + wait[c] >= Window /\ wait[c] \in Nat
    BY <1>4, <1>9 DEF SlotInv
  <2>2. 1 \in 1 .. Len(stamps) /\ stamps[1] \in Age
    BY <1>5, <2>1
  <2>3. s # <<>> /\ s[1] = IF stamps[1] < Window THEN stamps[1] + 1 ELSE Window
    BY <1>2, <1>5, <2>2
  <2>4. wait'[c] = IF wait[c] > 0 THEN wait[c] - 1 ELSE 0
    BY <1>4
  <2> QED BY <1>4, <2>1, <2>2, <2>3, <2>4 DEF Age
<1>10. wait' \in [Calls -> Nat]
  BY <1>4 DEF SlotInv
<1> QED BY <1>2, <1>3, <1>4, <1>8, <1>9, <1>10 DEF SlotInv

\* rate_limiter.py:31: no more than requests_per_minute slots within any window.
THEOREM SlotsAreLimited == LlmSpec => []SlotsPerWindow
<1> USE LlmAssumption
<1>1. LlmInit => SlotInv
  BY DEF LlmInit, SlotInv, Ages, Cut
<1>2. SlotInv /\ [LlmNext]_llmVars => SlotInv'
  <2> SUFFICES ASSUME SlotInv, [LlmNext]_llmVars PROVE SlotInv'
    OBVIOUS
  <2>1. ASSUME NEW c \in Calls, Lookup(c) \/ Respond(c) \/ Retry(c) \/ GiveUp(c)
        PROVE  SlotInv'
    <3>1. /\ UNCHANGED limiterVars
          /\ UNCHANGED phase \/ \E s \in {"queued", "done", "failed"} : phase' = [phase EXCEPT ![c] = s]
      BY <2>1 DEF Lookup, Respond, Retry, GiveUp, Settle
    <3> QED BY <3>1, IdleStep DEF SlotInv
  <2>2. ASSUME NEW p \in Pipelines, OpenPipeline(p) \/ ClosePipeline(p) PROVE SlotInv'
    BY <2>2, IdleStep DEF OpenPipeline, ClosePipeline, SlotInv
  <2>3. CASE PurgeCache \/ UNCHANGED llmVars
    BY <2>3, IdleStep DEF PurgeCache, llmVars, SlotInv
  <2> QED BY <2>1, <2>2, <2>3, AcquireStep, WakeStep, SlotTickStep DEF LlmNext
<1>3. SlotInv => SlotsPerWindow
  <2> SUFFICES ASSUME SlotInv PROVE SlotsPerWindow
    OBVIOUS
  <2>1. PICK k \in Nat : Cut(stamps, granted, k)
    BY DEF SlotInv
  <2>2. stamps \in Seq(Age) /\ Len(stamps) <= Rpm
    BY DEF SlotInv, Ages
  <2>3. Len(granted) = Len(stamps) - k
    BY <2>1 DEF Cut
  <2> QED BY <2>2, <2>3 DEF SlotsPerWindow
<1> QED BY <1>1, <1>2, <1>3, PTL DEF LlmSpec
=============================================================================
