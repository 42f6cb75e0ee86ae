----------------------------- MODULE RunAccess -----------------------------
(***************************************************************************)
(* Who may see and correct an evaluation run (auth/rbac.py,                 *)
(* domain/visibility.py, runs_visible_to of db/schema.sql, list_runs and    *)
(* the handlers of evaluation_routes.py), while runs, roles, memberships,   *)
(* invitations and approvers change under the users' feet.  Requests read   *)
(* the database anew, but the role is the one the user's token was issued   *)
(* with, which the row of the user may contradict.                          *)
(***************************************************************************)
EXTENDS Naturals, FiniteSets

CONSTANTS
  Users,
  OrgOf,        \* [Users -> organisations]
  DeptOf,       \* [Users -> departments], of the token
  Runs,
  Departments,
  Roles,        \* the roles users take, a subset of VALID_ROLES
  ListLimit,    \* rows of a list, LIMIT 100
  MaxAccessChanges, \* bound on deletions, memberships, roles changed and reviews
  NoRun

ASSUME AccessAssumption == IsFiniteSet(Runs) /\ ListLimit \in Nat

VARIABLES
  run,          \* [Runs -> organisation, creator, department and created_at of a row]
  started,      \* rows ever created, by which created_at counts
  role,         \* [Users -> role], users.role
  token,        \* [Users -> role], of the token in use
  member,       \* user_departments
  invited,      \* rfp_collaborators
  approver,     \* approval_assignments; nothing resolves one
  correction,   \* [Runs -> what is stored of a human correction of it]
  changes

accessVars == <<run, started, role, token, member, invited, approver, correction, changes>>

OrgWide == {"platform_admin", "company_admin"}
Wide    == OrgWide \cup {"department_admin"}
Writing == Wide \cup {"department_user"}

AccessInit ==
  /\ run = [r \in Runs |-> NoRun] /\ started = 0
  /\ role \in [Users -> Roles] /\ token = role
  /\ member = {} /\ invited = {} /\ approver = {}
  /\ correction = [r \in Runs |-> "none"] /\ changes = 0

Rows(o) == {r \in Runs : run[r] # NoRun /\ run[r].org = o}

\* Plausible bug: the query reads the role from the row of the user.
VisibleToBug(u) ==
  {r \in Rows(OrgOf[u]) : \/ role[u] \in OrgWide
                          \/ run[r].by = u
                          \/ <<u, run[r].dept>> \in member
                          \/ <<r, u>> \in invited \/ <<r, u>> \in approver}

\* runs_visible_to
VisibleTo(u) ==
  {r \in Rows(OrgOf[u]) : \/ token[u] \in OrgWide
                          \/ run[r].by = u
                          \/ <<u, run[r].dept>> \in member
                          \/ <<r, u>> \in invited \/ <<r, u>> \in approver}

\* _db_get_run, then require_run_access: every handler of one run begins so.
CanView(u, r) == /\ r \in Rows(OrgOf[u])
                 /\ token[u] \in Wide \/ run[r].by = u \/ r \in VisibleTo(u)

\* visible_runs: what one scope leaves of the visible runs.
Scoped(u, scope) ==
  {r \in VisibleTo(u) :
     CASE scope = "mine"       -> run[r].by = u
       [] scope = "department" -> <<u, run[r].dept>> \in member
       [] scope = "approvals"  -> <<r, u>> \in approver
       [] scope = "shared"     -> <<r, u>> \in invited
       [] scope = "all"        -> token[u] \in OrgWide}

\* list_runs: without a scope, the legacy query on the table itself.
Selected(u, scope) ==
  IF token[u] \notin Writing THEN {}
  ELSE IF scope # "auto" THEN Scoped(u, scope)
  ELSE {r \in Rows(OrgOf[u]) : token[u] = "department_user" => run[r].by = u}

Newer(q, r) == run[q].at > run[r].at

\* ORDER BY created_at DESC LIMIT.
Listed(u, scope) ==
  {r \in Selected(u, scope) : Cardinality({q \in Selected(u, scope) : Newer(q, r)}) < ListLimit}

Scopes == {"auto", "mine", "department", "approvals", "shared", "all"}

Changed == changes < MaxAccessChanges /\ changes' = changes + 1

\* /start, and /rerun of a run the user can see, which keeps its department.  The id of the
\* row is a new one: no correction names it.
StartRun(u, r) ==
  /\ run[r] = NoRun /\ correction[r] = "none" /\ token[u] \in Writing
  /\ \E d \in {DeptOf[u]} \cup {run[o].dept : o \in {o \in Runs : CanView(u, o)}} :
       run' = [run EXCEPT ![r] = [org |-> OrgOf[u], by |-> u, dept |-> d, at |-> started + 1]]
  /\ started' = started + 1
  /\ UNCHANGED <<role, token, member, invited, approver, correction, changes>>

\* delete_run of a run that is not running: the foreign keys cascade to its collaborators
\* and approvers; corrections and overrides stay.
DeleteRun(u, r) ==
  /\ CanView(u, r) /\ Changed
  /\ run' = [run EXCEPT ![r] = NoRun]
  /\ invited' = {i \in invited : i[1] # r} /\ approver' = {a \in approver : a[1] # r}
  /\ UNCHANGED <<started, role, token, member, correction>>

\* add_collaborator takes any user id, also one of another organisation.
Invite(u, r, w) == /\ CanView(u, r) /\ Changed /\ invited' = invited \cup {<<r, w>>}
                   /\ UNCHANGED <<run, started, role, token, member, approver, correction>>

Uninvite(u, r, w) == /\ CanView(u, r) /\ <<r, w>> \in invited /\ Changed
                     /\ invited' = invited \ {<<r, w>>}
                     /\ UNCHANGED <<run, started, role, token, member, approver, correction>>

JoinDepartment(u, w, d) == /\ token[u] \in Wide /\ Changed /\ member' = member \cup {<<w, d>>}
                           /\ UNCHANGED <<run, started, role, token, invited, approver, correction>>

\* assign_approver: the row-level policy wants a run of the caller's tenant.
AssignApprover(u, r, w) == /\ token[u] \in Wide /\ r \in Rows(OrgOf[u]) /\ Changed
                           /\ approver' = approver \cup {<<r, w>>}
                           /\ UNCHANGED <<run, started, role, token, member, invited, correction>>

\* update_role writes the row of a user and leaves the tokens in use alone.
ChangeRole(u, w, new) == /\ token[u] \in OrgWide /\ OrgOf[w] = OrgOf[u] /\ Changed
                         /\ role' = [role EXCEPT ![w] = new]
                         /\ UNCHANGED <<run, started, token, member, invited, approver, correction>>

\* login: a new token, with the role of the row.
Login(u) == /\ token' = [token EXCEPT ![u] = role[u]]
            /\ UNCHANGED <<run, started, role, member, invited, approver, correction, changes>>

Reviewed(r, to) == /\ correction' = [correction EXCEPT ![r] = to]
                   /\ UNCHANGED <<run, started, role, token, member, invited, approver>>

\* submit_override writes its record in one transaction, and leaves the decision
\* as it is; submit_correction writes a correction and then, in a second one, its
\* override.  A further step writes the trail and swallows its errors.
Review(u, r) == /\ CanView(u, r) /\ token[u] \in Wide /\ correction[r] = "none" /\ Changed
                /\ \E to \in {"override only", "correction only"} : Reviewed(r, to)

SaveOverride(r) == correction[r] = "correction only" /\ Reviewed(r, "both") /\ UNCHANGED changes

AccessNext ==
  \/ \E u \in Users, r \in Runs : \/ StartRun(u, r) \/ DeleteRun(u, r) \/ Review(u, r)
  \/ \E r \in Runs : SaveOverride(r)
  \/ \E u \in Users : Login(u)
  \/ \E u, w \in Users, r \in Runs : Invite(u, r, w) \/ Uninvite(u, r, w) \/ AssignApprover(u, r, w)
  \/ \E u, w \in Users, d \in Departments : JoinDepartment(u, w, d)
  \/ \E u, w \in Users, new \in Roles : ChangeRole(u, w, new)

AccessSpec == AccessInit /\ [][AccessNext]_accessVars

\* The run is on the list, or the list is full of newer ones.
OnOrFull(r, list) == \/ r \in list
                     \/ Cardinality(list) = ListLimit /\ \A q \in list : Newer(q, r)

(***************************************************************************)
(* The lists and the handlers of one run go through four different queries, *)
(* in SQL and in Python.  Of a user whose role may list runs, all agree,    *)
(* whoever has been invited, moved or promoted since the token was issued,  *)
(* across organisations too: each run of a list can be opened, and of a run *)
(* that can be opened some list has it, or is full of newer ones.           *)
(***************************************************************************)
AccessAgrees ==
  \A u \in Users : token[u] \in Writing =>
    /\ \A scope \in Scopes : \A r \in Listed(u, scope) : CanView(u, r)
    /\ \A r \in Runs : CanView(u, r) => \E scope \in Scopes : OnOrFull(r, Listed(u, scope))

=============================================================================
