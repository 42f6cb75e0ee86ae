------------------------------ MODULE Accounts ------------------------------
(***************************************************************************)
(* Accounts, one-time links and sessions: api/auth_routes.py with           *)
(* auth/tokens.py and auth/sessions.py, the deactivation endpoint of        *)
(* api/tenant_routes.py and what the erasure of an organisation does to     *)
(* them.  A handler runs without an await, one transaction at a time; the   *)
(* check of the caller's session is a step of its own, before the handler.  *)
(* A password is the number of the transaction that set it, a user_id the   *)
(* number of the one that inserted the row.                                 *)
(***************************************************************************)
EXTENDS Naturals, FiniteSets

CONSTANTS
  Emails, Orgs,
  DevEmail, DevOrg,   \* the account seeded on first boot, and its organisation
  Links,        \* one-time tokens that may be created
  Sessions,     \* JWTs that may be issued, by their jti
  MaxChanges,   \* bound on accounts created and passwords set
  Nothing

Invite == "invite"
Reset  == "password_reset"

VARIABLES
  account,   \* the row of users of an email, or Nothing
  org,       \* "none", "live" or "erased", of each organisation
  link,      \* rows of auth_onetime_tokens, with the state of each
  session,   \* tokens issued, with the state of their row in auth_sessions; pw
             \* is the password the user had at the time (history)
  called,    \* sessions with a request that has passed get_current_user
  changes,   \* number of changes so far
  redeemed   \* how often a link has opened or changed an account (history)

accountVars == <<account, org, link, session, called, changes, redeemed>>

AccountRow == [user : Nat, pw : Nat, org : Orgs, admin : BOOLEAN, active : BOOLEAN]
LinkRow    == [state : {"live", "used", "expired", "deleted"}, purpose : {Invite, Reset},
               email : Emails, org : Orgs, user : Nat \cup {Nothing}, admin : BOOLEAN]
SessionRow == [state : {"active", "revoked", "expired", "deleted"}, user : Nat, org : Orgs,
               admin : BOOLEAN, pw : Nat]

ASSUME AccountsAssumption ==
  /\ DevEmail \in Emails /\ DevOrg \in Orgs /\ MaxChanges \in Nat
  /\ Nothing \notin AccountRow /\ Nothing \notin LinkRow /\ Nothing \notin SessionRow

AccountsInit == /\ account = [e \in Emails |-> Nothing] /\ org = [o \in Orgs |-> "none"]
                /\ link = [l \in Links |-> Nothing] /\ session = [s \in Sessions |-> Nothing]
                /\ called = {} /\ changes = 0 /\ redeemed = [l \in Links |-> 0]

Taken(e)   == account[e] # Nothing
UserSet(u) == {e \in Emails : Taken(e) /\ account[e].user = u}

In(row, state) == row # Nothing /\ row.state = state
Live(l) == In(link[l], "live")

\* get_current_user: the row exists and is neither revoked nor expired.
Active(s) == In(session[s], "active")

\* A token is issued to the user of row a; the insert that registers it is a
\* transaction of its own, and without it the token is of no use.
Registered(a) ==
  \/ session' = session
  \/ \E s \in Sessions :
       /\ session[s] = Nothing
       /\ session' = [session EXCEPT ![s] = [state |-> "active", user |-> a.user, org |-> a.org,
                                             admin |-> a.admin, pw |-> a.pw]]

NewUser(o, admin) == [user |-> changes', pw |-> changes', org |-> o, admin |-> admin, active |-> TRUE]

Change == changes < MaxChanges /\ changes' = changes + 1

Opened(e, o) == /\ ~Taken(e) /\ Change
                /\ org' = [org EXCEPT ![o] = "live"]
                /\ account' = [account EXCEPT ![e] = NewUser(o, TRUE)]
                /\ Registered(account'[e])
                /\ UNCHANGED <<link, called, redeemed>>

Signup(e, o) == org[o] = "none" /\ o # DevOrg /\ Opened(e, o)

\* The first login of the dev user creates the account, and the organisation
\* when it is not there.
Login(e) == \/ /\ Taken(e) /\ account[e].active
               /\ Registered(account[e])
               /\ UNCHANGED <<account, org, link, called, changes, redeemed>>
            \/ e = DevEmail /\ Opened(e, DevOrg)

\* A request whose dependencies are resolved; the handler comes later.
Authenticate(s) == /\ Active(s) /\ called' = called \cup {s}
           /\ UNCHANGED <<account, org, link, session, changes, redeemed>>

Logout(s) ==
  /\ s \in called /\ called' = called \ {s}
  /\ session' = IF Active(s) THEN [session EXCEPT ![s].state = "revoked"] ELSE session
  /\ UNCHANGED <<account, org, link, changes, redeemed>>

Superseded(p, e) == [l \in Links |-> IF Live(l) /\ link[l].purpose = p /\ link[l].email = e
                                     THEN [link[l] EXCEPT !.state = "used"] ELSE link[l]]

\* create_onetime_token: earlier links of the same purpose are spent first.
Created(p, e, o, u, admin) ==
  \E l \in Links :
    /\ link[l] = Nothing
    /\ link' = [Superseded(p, e) EXCEPT ![l] =
                  [state |-> "live", purpose |-> p, email |-> e, org |-> o,
                   user |-> u, admin |-> admin]]

\* The role comes from the caller's token; a foreign key refuses an erased org.
InviteUser(s, e, admin) ==
  /\ s \in called /\ session[s].admin /\ called' = called \ {s}
  /\ IF ~Taken(e) /\ org[session[s].org] = "live"
     THEN Created(Invite, e, session[s].org, Nothing, admin)
     ELSE UNCHANGED link
  /\ UNCHANGED <<account, org, session, changes, redeemed>>

RequestPasswordReset(e) ==
  /\ Taken(e) /\ Created(Reset, e, account[e].org, account[e].user, FALSE)
  /\ UNCHANGED <<account, org, session, called, changes, redeemed>>

RedeemableBug(l, p) == (Live(l) \/ In(link[l], "used")) /\ link[l].purpose = p
Redeemable(l, p)    == Live(l) /\ link[l].purpose = p

\* consume_token; a later error of the handler takes the stamp back.
Consume(l, p) == /\ Redeemable(l, p) /\ Change
                 /\ link' = [link EXCEPT ![l].state = "used"]
                 /\ redeemed' = [redeemed EXCEPT ![l] = @ + 1]

AcceptInvite(l) ==
  /\ Consume(l, Invite) /\ ~Taken(link[l].email)
  /\ account' = [account EXCEPT ![link[l].email] = NewUser(link[l].org, link[l].admin)]
  /\ Registered(account'[link[l].email])
  /\ UNCHANGED <<org, called>>

RevokedBug(u) == session
Revoked(u) == [s \in Sessions |-> IF Active(s) /\ session[s].user = u
                                  THEN [session[s] EXCEPT !.state = "revoked"] ELSE session[s]]

ConfirmPasswordReset(l) ==
  /\ Consume(l, Reset)
  /\ account' = [e \in Emails |-> IF e \in UserSet(link[l].user)
                                  THEN [account[e] EXCEPT !.pw = changes'] ELSE account[e]]
  /\ session' = Revoked(link[l].user)
  /\ UNCHANGED <<org, called>>

Deactivate(s, e) ==
  /\ s \in called /\ session[s].admin /\ called' = called \ {s}
  /\ account' = IF Taken(e) /\ account[e].org = session[s].org
                THEN [account EXCEPT ![e].active = FALSE] ELSE account
  /\ UNCHANGED <<org, link, session, changes, redeemed>>

\* purge_org_postgres, for a company_admin who passed the session check.
EraseOrg(s) ==
  LET o == session[s].org
      Purged(row) == IF row # Nothing /\ row.org = o THEN [row EXCEPT !.state = "deleted"] ELSE row
  IN /\ s \in called /\ session[s].admin /\ org[o] = "live"
     /\ called' = called \ {s} /\ org' = [org EXCEPT ![o] = "erased"]
     /\ account' = [e \in Emails |-> IF Taken(e) /\ account[e].org = o THEN Nothing ELSE account[e]]
     /\ link' = [l \in Links |-> Purged(link[l])]
     /\ session' = [t \in Sessions |-> Purged(session[t])]
     /\ UNCHANGED <<changes, redeemed>>

Expire == /\ \/ \E l \in Links : /\ Live(l) /\ UNCHANGED session
                                 /\ link' = [link EXCEPT ![l].state = "expired"]
             \/ \E s \in Sessions : /\ Active(s) /\ UNCHANGED link
                                    /\ session' = [session EXCEPT ![s].state = "expired"]
          /\ UNCHANGED <<account, org, called, changes, redeemed>>

AccountsNext ==
  \/ \E e \in Emails : \/ \E o \in Orgs : Signup(e, o)
                       \/ Login(e) \/ RequestPasswordReset(e)
  \/ \E s \in Sessions : \/ Authenticate(s) \/ Logout(s) \/ EraseOrg(s)
                         \/ \E e \in Emails : \/ Deactivate(s, e)
                                              \/ \E admin \in BOOLEAN : InviteUser(s, e, admin)
  \/ \E l \in Links : AcceptInvite(l) \/ ConfirmPasswordReset(l)
  \/ Expire

AccountsSpec == AccountsInit /\ [][AccountsNext]_accountVars

(***************************************************************************)
(* "A token cannot be redeemed twice even under a race" and "a user never   *)
(* holds two live links" (tokens.py:60, 114), whichever invitations, resets *)
(* and refused redemptions come before, from several organisations.         *)
(***************************************************************************)
LinksAreSingleUse ==
  /\ \A l \in Links : redeemed[l] <= 1
  /\ \A k, l \in {j \in Links : Live(j)} :
       k # l => <<link[k].purpose, link[k].email>> # <<link[l].purpose, link[l].email>>

(***************************************************************************)
(* "Any token issued before the reset is dead" (auth_routes.py:515): a      *)
(* session that passes the check belongs to an existing user and was opened *)
(* under the password that user has now.                                    *)
(***************************************************************************)
NoSessionOutlivesReset ==
  \A s \in Sessions : Active(s) =>
    \E e \in UserSet(session[s].user) : account[e].pw = session[s].pw
=============================================================================
