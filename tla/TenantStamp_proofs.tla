------------------------- MODULE TenantStamp_proofs -------------------------
(***************************************************************************)
(* Theorems about TenantStamp, for any connections, workers and tenants.    *)
(***************************************************************************)
EXTENDS TenantStamp, TLAPS

StampSpec == StampInit /\ [][StampNext]_stampVars

Conn == [base : Contexts, local : Tenants \cup {Unset}, marker : Contexts \cup {Unset},
         holder : Workers \cup {Unset}]

\* A worker's own tenant, which its ContextVar names or does not.
Work == {x \in [tenant : Tenants, context : Contexts] : x.context \in {x.tenant, NoTenant}}

\* Marker and setting are in lock-step, but for a connection that was never stamped.
InStep(k) == k.marker = k.base \/ (k.marker = Unset /\ k.base = NoTenant /\ k.holder = Unset)

\* A connection in use is stamped for its holder, and a local setting is the holder's; one
\* in the pool has none.
StampedFor(k) ==
  /\ k.holder # Unset => /\ work[k.holder] # Unset
                         /\ k.marker = work[k.holder].context
                         /\ k.local \in {Unset, work[k.holder].tenant}
  /\ k.holder = Unset => k.local = Unset

StampTypeOK == /\ conn \in [Connections -> Conn]
               /\ work \in [Workers -> Work \cup {Unset}]

StampInv == /\ StampTypeOK
            /\ \A c \in Connections : InStep(conn[c]) /\ StampedFor(conn[c])

\* What a step must show of the connections it leaves alone and of the one it changes.
Good(k) == InStep(k) /\ StampedFor(k)

(***************************************************************************)
(* Fresh connections carry the empty setting of the connect listener.       *)
(***************************************************************************)
LEMMA StampInitInv == StampInit => StampInv
  BY SMT DEF StampInit, StampInv, StampTypeOK, Conn, Contexts, Connected, InStep, StampedFor

(***************************************************************************)
(* Binding and resetting the ContextVar happens while the worker holds no   *)
(* connection, so no connection in use changes its meaning.                 *)
(***************************************************************************)
LEMMA ContextStep ==
  ASSUME StampInv, NEW w \in Workers, EnterContext(w) \/ LeaveContext(w)
  PROVE  StampInv'
<1>1. StampTypeOK'
  <2>1. CASE EnterContext(w)
    <3>1. PICK o \in Tenants, x \in Contexts :
            /\ x \in {o, NoTenant}
            /\ work' = [work EXCEPT ![w] = [tenant |-> o, context |-> x]]
      BY <2>1 DEF EnterContext
    <3>2. [tenant |-> o, context |-> x] \in Work
      BY <3>1 DEF Work
    <3> QED BY <2>1, <3>1, <3>2 DEF EnterContext, StampInv, StampTypeOK
  <2>2. CASE LeaveContext(w)
    BY <2>2 DEF LeaveContext, StampInv, StampTypeOK
  <2> QED BY <2>1, <2>2
<1>2. \A c \in Connections : conn[c].holder # w
  BY UnsetAssumption DEF EnterContext, LeaveContext, Holds, StampInv, StampedFor
<1>3. conn' = conn /\ \A v \in Workers \ {w} : work'[v] = work[v]
  BY DEF EnterContext, LeaveContext, StampInv, StampTypeOK
<1>4. ASSUME NEW c \in Connections
      PROVE  (InStep(conn[c]) /\ StampedFor(conn[c]))'
  <2>1. conn[c].holder \in (Workers \ {w}) \cup {Unset}
    BY <1>2 DEF StampInv, StampTypeOK, Conn
  <2> QED BY <1>3, <2>1 DEF StampInv, InStep, StampedFor
<1> QED BY <1>1, <1>4 DEF StampInv

(***************************************************************************)
(* A step that changes one connection and no context preserves the          *)
(* invariant when the connection it leaves behind is good.                  *)
(***************************************************************************)
LEMMA OneConnection ==
  ASSUME StampInv, NEW c \in Connections, NEW k \in Conn, Good(k),
         conn' = [conn EXCEPT ![c] = k], work' = work
  PROVE  StampInv'
<1>1. StampTypeOK'
  BY DEF StampInv, StampTypeOK
<1>2. ASSUME NEW d \in Connections
      PROVE  (InStep(conn[d]) /\ StampedFor(conn[d]))'
  <2>1. CASE d = c
    BY <2>1 DEF StampInv, StampTypeOK, Good, InStep, StampedFor
  <2>2. CASE d # c
    BY <2>2 DEF StampInv, StampTypeOK, InStep, StampedFor
  <2> QED BY <2>1, <2>2
<1> QED BY <1>1, <1>2 DEF StampInv

(***************************************************************************)
(* A connection that the pool opened again is good.                         *)
(***************************************************************************)
LEMMA ConnectedGood == Connected \in Conn /\ Good(Connected)
  BY SMT DEF Connected, Conn, Contexts, Good, InStep, StampedFor

(***************************************************************************)
(* Stamping and handing over change the fields they name.                   *)
(***************************************************************************)
LEMMA Fields ==
  ASSUME NEW k \in Conn, NEW x \in Contexts, NEW h \in Workers \cup {Unset}
  PROVE  /\ [k EXCEPT !.holder = h] =
              [base |-> k.base, local |-> k.local, marker |-> k.marker, holder |-> h]
         /\ [k EXCEPT !.local = Unset, !.holder = h] =
              [base |-> k.base, local |-> Unset, marker |-> k.marker, holder |-> h]
         /\ Stamped(k, x) =
              [base |-> x, local |-> k.local, marker |-> x, holder |-> k.holder]
<1>1. \A q \in Conn : [q EXCEPT !.holder = h] =
        [base |-> q.base, local |-> q.local, marker |-> q.marker, holder |-> h]
  BY DEF Conn
<1>2. \A q \in Conn : [q EXCEPT !.marker = x] =
        [base |-> q.base, local |-> q.local, marker |-> x, holder |-> q.holder]
  BY DEF Conn
<1>3. PICK q \in Conn : /\ q = [k EXCEPT !.local = Unset]
                        /\ q.base = k.base /\ q.local = Unset /\ q.marker = k.marker
  <2> DEFINE q0 == [k EXCEPT !.local = Unset]
  <2>1. q0 \in Conn /\ q0.base = k.base /\ q0.local = Unset /\ q0.marker = k.marker
    BY SMT DEF Conn
  <2> HIDE DEF q0
  <2> SUFFICES \E q \in Conn : /\ q = q0
                               /\ q.base = k.base /\ q.local = Unset /\ q.marker = k.marker
    BY DEF q0
  <2> QED BY <2>1
<1>4. PICK r \in Conn : /\ r = [k EXCEPT !.base = x] /\ r.base = x
                        /\ r.local = k.local /\ r.holder = k.holder
  <2> DEFINE r0 == [k EXCEPT !.base = x]
  <2>1. r0 \in Conn /\ r0.base = x /\ r0.local = k.local /\ r0.holder = k.holder
    BY SMT DEF Conn
  <2> HIDE DEF r0
  <2> SUFFICES \E r \in Conn : /\ r = r0 /\ r.base = x
                               /\ r.local = k.local /\ r.holder = k.holder
    BY DEF r0
  <2> QED BY <2>1
<1>5. [k EXCEPT !.local = Unset, !.holder = h] = [q EXCEPT !.holder = h]
  BY <1>3
<1>6. Stamped(k, x) = [r EXCEPT !.marker = x]
  BY <1>4 DEF Stamped
<1> QED BY <1>1, <1>2, <1>3, <1>4, <1>5, <1>6

(***************************************************************************)
(* The checkout listener leaves the connection stamped for the worker that  *)
(* takes it: an equal marker is never one that was left Unset, so the       *)
(* setting it vouches for is real; otherwise both are written.              *)
(***************************************************************************)
LEMMA CheckoutStep ==
  ASSUME StampInv, NEW w \in Workers, NEW c \in Connections, Checkout(w, c)
  PROVE  StampInv'
<1> DEFINE x    == work[w].context
           same == [conn[c] EXCEPT !.holder = w]
           new  == [Stamped(conn[c], x) EXCEPT !.holder = w]
<1>1. conn[c] \in Conn /\ work[w] \in Work /\ x \in Contexts /\ x # Unset /\ w # Unset
  BY UnsetAssumption DEF Checkout, StampInv, StampTypeOK, Work, Contexts
<1>2. conn[c].holder = Unset /\ conn[c].local = Unset /\ InStep(conn[c]) /\ work' = work
  BY DEF Checkout, StampInv, StampedFor
<1>3. CASE conn[c].marker = x
  <2>1. same \in Conn /\ Good(same)
    BY <1>1, <1>2, <1>3, UnsetAssumption, SMT DEF Conn, Good, InStep, StampedFor, Checkout
  <2>2. conn' = [conn EXCEPT ![c] = same]
    BY <1>3 DEF Checkout, StampInv, StampTypeOK
  <2> QED BY <1>2, <2>1, <2>2, OneConnection
<1>4. CASE conn[c].marker # x
  <2>4. new = [base |-> x, local |-> Unset, marker |-> x, holder |-> w]
    <3>1. Stamped(conn[c], x) =
            [base |-> x, local |-> Unset, marker |-> x, holder |-> Unset]
      BY <1>1, <1>2, Fields
    <3> QED BY <3>1
  <2>1. new \in Conn /\ Good(new)
    BY <1>1, <2>4 DEF Conn, Good, InStep, StampedFor, Checkout
  <2>2. conn' = [conn EXCEPT ![c] = new] \/ conn' = [conn EXCEPT ![c] = Connected]
    BY <1>4 DEF Checkout
  <2> QED BY <1>2, <2>1, <2>2, OneConnection, ConnectedGood
<1> QED BY <1>3, <1>4

(***************************************************************************)
(* SET LOCAL, the end of a transaction and the return to the pool touch the *)
(* local setting only, and a connection is never returned with one.         *)
(***************************************************************************)
LEMMA HolderStep ==
  ASSUME StampInv, NEW w \in Workers, NEW c \in Connections,
         SetLocal(w, c) \/ EndTransaction(w, c) \/ Checkin(w, c)
  PROVE  StampInv'
<1> DEFINE k == conn[c]
<1>1. k \in Conn /\ k.holder = w /\ w # Unset /\ work[w] \in Work /\ work' = work
  BY UnsetAssumption DEF SetLocal, EndTransaction, Checkin, StampInv, StampTypeOK, StampedFor
<1>2. InStep(k) /\ StampedFor(k)
  BY DEF StampInv
<1>3. k.marker = k.base
  BY <1>1, <1>2 DEF InStep
<1>4. CASE SetLocal(w, c)
  <2> DEFINE k1 == [k EXCEPT !.local = work[w].tenant]
  <2>1. k1 \in Conn /\ Good(k1)
    BY <1>1, <1>2, <1>3, SMT DEF Conn, Work, Good, InStep, StampedFor
  <2> QED BY <1>1, <1>4, <2>1, OneConnection DEF SetLocal
<1>5. CASE EndTransaction(w, c)
  <2> DEFINE k2 == [k EXCEPT !.local = Unset]
  <2>1. k2 \in Conn /\ Good(k2)
    BY <1>1, <1>2, <1>3, SMT DEF Conn, Good, InStep, StampedFor
  <2> QED BY <1>1, <1>5, <2>1, OneConnection DEF EndTransaction
<1>6. CASE Checkin(w, c)
  <2> DEFINE k3 == [k EXCEPT !.local = Unset, !.holder = Unset]
  <2>3. k3 = [base |-> k.base, local |-> Unset, marker |-> k.marker, holder |-> Unset]
    BY <1>1, Fields DEF Conn
  <2>1. k3 \in Conn /\ Good(k3)
    BY <1>1, <1>3, <2>3 DEF Conn, Good, InStep, StampedFor
  <2>2. conn' = [conn EXCEPT ![c] = k3]
    BY <1>6 DEF Checkin, StampInv, StampTypeOK
  <2> QED BY <1>1, <2>1, <2>2, OneConnection
<1> QED BY <1>4, <1>5, <1>6

(***************************************************************************)
(* Every step of a worker, of the pool and of the server keeps marker and   *)
(* setting in lock-step.                                                    *)
(***************************************************************************)
LEMMA StampStepInv == StampInv /\ [StampNext]_stampVars => StampInv'
<1> SUFFICES ASSUME StampInv, [StampNext]_stampVars PROVE StampInv'
  OBVIOUS
<1>1. CASE \E w \in Workers : EnterContext(w) \/ LeaveContext(w)
  BY <1>1, ContextStep
<1>2. CASE \E w \in Workers, c \in Connections : Checkout(w, c)
  BY <1>2, CheckoutStep
<1>3. CASE \E w \in Workers, c \in Connections :
             SetLocal(w, c) \/ EndTransaction(w, c) \/ Checkin(w, c)
  BY <1>3, HolderStep
<1>4. CASE \E c \in Connections : Reconnect(c)
  BY <1>4, OneConnection, ConnectedGood DEF Reconnect
<1>5. CASE UNCHANGED stampVars
  BY <1>5 DEF stampVars, StampInv, StampTypeOK, InStep, StampedFor
<1> QED BY <1>1, <1>2, <1>3, <1>4, <1>5 DEF StampNext

(***************************************************************************)
(* What the policies see of a connection in use is its holder's: the local  *)
(* setting names its tenant, and without one the setting is the marker,     *)
(* the holder's context.                                                    *)
(***************************************************************************)
LEMMA StampInvImplies == StampInv => OwnTenantOnly
<1> SUFFICES ASSUME StampInv, NEW c \in Connections, conn[c].holder # Unset
             PROVE  LET w == work[conn[c].holder]
                    IN Effective(c) \in IF w.context = NoTenant THEN {NoTenant, w.tenant}
                                        ELSE {w.tenant}
  BY DEF OwnTenantOnly
<1> DEFINE w == work[conn[c].holder]
<1>1. w \in Work /\ conn[c].marker = w.context /\ conn[c].local \in {Unset, w.tenant}
  BY DEF StampInv, StampTypeOK, StampedFor, Conn
<1>2. w.context \in {w.tenant, NoTenant}
  BY <1>1 DEF Work
<1>3. conn[c].base = w.context
  BY <1>1 DEF StampInv, InStep
<1> QED BY <1>1, <1>2, <1>3 DEF Effective

(***************************************************************************)
(* The lock-step of db/session.py:88 holds in every reachable state.        *)
(***************************************************************************)
THEOREM StampInvariance == StampSpec => []StampInv
<1>1. StampInit => StampInv
  BY StampInitInv
<1>2. StampInv /\ [StampNext]_stampVars => StampInv'
  BY StampStepInv
<1> QED BY <1>1, <1>2, PTL DEF StampSpec

(***************************************************************************)
(* A statement never runs as a tenant its worker does not work for, and a   *)
(* worker with a context never runs without it, for any number of           *)
(* connections, workers and tenants.                                        *)
(***************************************************************************)
THEOREM TenantIsOwn == StampSpec => []OwnTenantOnly
<1>1. StampInv => OwnTenantOnly
  BY StampInvImplies
<1> QED BY <1>1, StampInvariance, PTL
=============================================================================
