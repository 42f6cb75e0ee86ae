----------------------------- MODULE MCServices -----------------------------
(***************************************************************************)
(* The services that all requests of a process share.  They have no state   *)
(* in common, so each behaviour explores one of them: part says which.      *)
(***************************************************************************)
EXTENDS LlmCalls, CircuitBreaker, OrgSettings, Accounts, TenantStamp

VARIABLE part

MCOwner     == [c1 |-> "p1", c2 |-> "p1", c3 |-> "p2", c4 |-> "p3"]
MCCalls     == DOMAIN MCOwner
MCRunOf     == [p1 |-> "r1", p2 |-> "r1", p3 |-> "r2"]
MCPipelines == DOMAIN MCRunOf
MCPrompt    == [c1 |-> "a", c2 |-> "b", c3 |-> "a", c4 |-> "a"]
MCCaching   == {"c1", "c3", "c4"}
MCProcessOf == [t1 |-> "w1", t2 |-> "w1", t3 |-> "w2"]
MCTasks     == DOMAIN MCProcessOf

Init == /\ LlmInit /\ BreakerInit /\ SettingsInit /\ AccountsInit /\ StampInit
        /\ part \in {"llm", "breaker", "settings", "accounts", "stamp"}

Next ==
  /\ \/ part = "llm" /\ LlmNext /\ UNCHANGED <<breakerVars, settingsVars, accountVars, stampVars>>
     \/ part = "breaker" /\ BreakerNext /\ UNCHANGED <<llmVars, settingsVars, accountVars, stampVars>>
     \/ part = "settings" /\ SettingsNext /\ UNCHANGED <<llmVars, breakerVars, accountVars, stampVars>>
     \/ part = "accounts" /\ AccountsNext /\ UNCHANGED <<llmVars, breakerVars, settingsVars, stampVars>>
     \/ part = "stamp" /\ StampNext /\ UNCHANGED <<llmVars, breakerVars, settingsVars, accountVars>>
  /\ UNCHANGED part

Spec == Init /\ [][Next]_<<llmVars, breakerVars, settingsVars, accountVars, stampVars, part>>
=============================================================================
