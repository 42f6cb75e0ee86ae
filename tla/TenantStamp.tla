---------------------------- MODULE TenantStamp ----------------------------
(***************************************************************************)
(* The tenant setting app.current_org_id of the pooled connections of the   *)
(* app engine: db/session.py, the context that api/middleware.py and        *)
(* org_context bind, and the SET LOCAL of the background helpers.  Every    *)
(* row-level security policy compares with this setting.                    *)
(***************************************************************************)
EXTENDS Naturals

CONSTANTS Connections, Workers, Tenants, NoTenant, Unset

ASSUME UnsetAssumption == Unset \notin Workers \cup Tenants \cup {NoTenant}

VARIABLES
  conn,   \* per pooled connection: base, the setting of its session; local, that
          \* of the open transaction; marker, conn_record.info["app_org"]; holder
  work    \* per worker: the tenant it works for, and its ContextVar

stampVars == <<conn, work>>

Contexts  == Tenants \cup {NoTenant}
Connected == [base |-> NoTenant, local |-> Unset, marker |-> Unset, holder |-> Unset]

StampInit == /\ conn = [c \in Connections |-> Connected]
             /\ work = [w \in Workers |-> Unset]

Holds(w) == {c \in Connections : conn[c].holder = w}

\* A request (OrgContextMiddleware), a job (org_context), or a task without
\* context that names its tenant in SET LOCAL.
EnterContext(w) ==
  /\ work[w] = Unset
  /\ \E o \in Tenants, x \in Contexts :
       /\ x \in {o, NoTenant}
       /\ work' = [work EXCEPT ![w] = [tenant |-> o, context |-> x]]
  /\ UNCHANGED conn

\* The previous value is restored when the connections are back.
LeaveContext(w) == /\ work[w] # Unset /\ Holds(w) = {}
                   /\ work' = [work EXCEPT ![w] = Unset]
                   /\ UNCHANGED conn

\* set_config in a transaction of its own, committed at once.
StampedBug(k, x) == [k EXCEPT !.local = x, !.marker = x]
Stamped(k, x)    == [k EXCEPT !.base = x, !.marker = x]

\* The checkout listener stamps when the marker differs; when that fails the
\* pool closes the connection, and the next one starts afresh.
Checkout(w, c) ==
  /\ work[w] # Unset /\ conn[c].holder = Unset
  /\ LET x == work[w].context
     IN IF conn[c].marker = x THEN conn' = [conn EXCEPT ![c].holder = w]
        ELSE \/ conn' = [conn EXCEPT ![c] = [Stamped(conn[c], x) EXCEPT !.holder = w]]
             \/ conn' = [conn EXCEPT ![c] = Connected]
  /\ UNCHANGED work

SetLocal(w, c) == /\ conn[c].holder = w
                  /\ conn' = [conn EXCEPT ![c].local = work[w].tenant]
                  /\ UNCHANGED work

\* Commit, or the rollback of a failed request: SET LOCAL ends with either.
EndTransaction(w, c) == /\ conn[c].holder = w
                        /\ conn' = [conn EXCEPT ![c].local = Unset]
                        /\ UNCHANGED work

\* The pool rolls back on return.
Checkin(w, c) == /\ conn[c].holder = w
                 /\ conn' = [conn EXCEPT ![c].local = Unset, ![c].holder = Unset]
                 /\ UNCHANGED work

\* The server closes a connection; the pool connects again and the connect
\* listener drops the marker.
Reconnect(c) == conn' = [conn EXCEPT ![c] = Connected] /\ UNCHANGED work

StampNext == \/ \E w \in Workers : \/ EnterContext(w) \/ LeaveContext(w)
                                   \/ \E c \in Connections : \/ Checkout(w, c) \/ SetLocal(w, c)
                                                             \/ EndTransaction(w, c)
                                                             \/ Checkin(w, c)
             \/ \E c \in Connections : Reconnect(c)

\* What the policies see.
Effective(c) == IF conn[c].local # Unset THEN conn[c].local ELSE conn[c].base

(***************************************************************************)
(* Marker and setting stay in lock-step (db/session.py:88): a statement     *)
(* never runs as a tenant the work is not for, whichever work used the      *)
(* connection before and however it ended, and work with a context never    *)
(* loses it ("run not found", db/session.py:79-88).                         *)
(***************************************************************************)
OwnTenantOnly ==
  \A c \in Connections : conn[c].holder # Unset =>
    LET w == work[conn[c].holder]
    IN Effective(c) \in IF w.context = NoTenant THEN {NoTenant, w.tenant} ELSE {w.tenant}
=============================================================================
