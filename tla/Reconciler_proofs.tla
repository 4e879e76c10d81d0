-------------------------- MODULE Reconciler_proofs --------------------------
(***************************************************************************)
(* The operator creates the manager's Deployment only when what it builds  *)
(* on has been created, for every number of failed creations, deletions    *)
(* and restarts and with either kind of registry.                          *)
(***************************************************************************)
EXTENDS Reconciler, TLAPS

\* The operator's variables keep their types, so it only ever creates what is needed.
THEOREM TypeCorrect == Spec => []TypeOK
<1> USE SpecAssumption
<1>1. Init => TypeOK
  <2> SUFFICES ASSUME Init
               PROVE  TypeOK
    OBVIOUS
  <2>1. faults \in [error : Nat, delete : Nat, restart : Nat]
    BY DEF Init
  <2>2. QED
    BY <2>1 DEF Init, TypeOK
<1>2. TypeOK /\ [Next]_vars => TypeOK'
  <2> SUFFICES ASSUME TypeOK, [Next]_vars
               PROVE  TypeOK'
    OBVIOUS
  <2>0. ASSUME NEW kind \in {"error", "delete", "restart"}, Fault(kind)
        PROVE  faults' \in [error : Nat, delete : Nat, restart : Nat]
    BY <2>0 DEF Fault, TypeOK
  <2> USE DEF Needed, Services, Manager, Registry, RBAC, ClusterScoped
  <2>1. CASE Begin
    BY <2>1 DEF Begin, TypeOK
  <2>2. ASSUME NEW o \in Needed, LookupFinds(o)
        PROVE  TypeOK'
    BY <2>2 DEF LookupFinds, Found, AfterRBAC, TypeOK
  <2>3. ASSUME NEW o \in Needed, Create(o)
        PROVE  TypeOK'
    BY <2>3 DEF Create, Created, AfterRBAC, TypeOK
  <2>4. ASSUME NEW o \in Needed, CreateFails(o)
        PROVE  TypeOK'
    BY <2>0, <2>4 DEF CreateFails, TypeOK
  <2>5. ASSUME NEW o \in Needed \cup {"StateMachine"}, Sync(o)
        PROVE  TypeOK'
    BY <2>5 DEF Sync, TypeOK
  <2>6. ASSUME NEW o \in Needed \cup {"StateMachine"}, Delete(o)
        PROVE  TypeOK'
    BY <2>0, <2>6 DEF Delete, TypeOK
  <2>7. ASSUME NEW o \in Needed \cup {"StateMachine"}, Collect(o)
        PROVE  TypeOK'
    BY <2>7 DEF Collect, TypeOK
  <2>8. CASE Resync
    BY <2>8 DEF Resync, TypeOK
  <2>9. CASE Restart
    BY <2>0, <2>9 DEF Restart, TypeOK
  <2>10. CASE UNCHANGED vars
    BY <2>10 DEF vars, TypeOK
  <2>11. QED
    BY <2>1, <2>2, <2>3, <2>4, <2>5, <2>6, <2>7, <2>8, <2>9, <2>10 DEF Next, Reconcile
<1>3. QED
  BY <1>1, <1>2, PTL DEF Spec

(***************************************************************************)
(* What stays behind a reconcile that has passed o is what stood behind it *)
(* at o, and o itself.                                                     *)
(***************************************************************************)
LEMMA BehindNext ==
    ASSUME NEW o \in Needed
    PROVE  /\ Behind(Found(o)) \subseteq Behind(o) \cup {o}
           /\ Behind(Created(o)) \subseteq Behind(o) \cup {o}
           /\ Behind("idle") = {}
<1> USE SpecAssumption DEF Needed, Services, Manager, Registry, RBAC, ClusterScoped, AfterRBAC
<1>1. Behind(Found(o)) \subseteq Behind(o) \cup {o}
  BY DEF Behind, Found
<1>2. Behind(Created(o)) \subseteq Behind(o) \cup {o}
  BY DEF Behind, Created
<1>3. Behind("idle") = {}
  BY DEF Behind
<1>4. QED
  BY <1>1, <1>2, <1>3

\* A creation keeps the objects in order, because what is behind it was created.
LEMMA CreateKeepsOrder ==
    ASSUME TypeOK, OrderInv, NEW o \in Needed, Create(o)
    PROVE  OrderInv'
<1>1. made \subseteq made' /\ made' = made \cup {o} /\ Behind(o) \subseteq made
  BY DEF Create, OrderInv
<1>2. (objects \cup cache \subseteq made \cup {"StateMachine"})'
  BY DEF Create, OrderInv
<1>3. (Behind(pc) \subseteq made)'
  <2>1. Behind(Created(o)) \subseteq made'
    BY <1>1, BehindNext
  <2>2. QED
    BY <2>1 DEF Create
<1>4. ("ConfigMap" \in made => Behind("ConfigMap") \subseteq made)'
  BY <1>1 DEF OrderInv
<1>5. MadeInOrder'
  BY <1>1 DEF OrderInv, MadeInOrder, Behind, Registry
<1>6. QED
  BY <1>2, <1>3, <1>4, <1>5 DEF OrderInv

\* Every step keeps the objects in order.
LEMMA OrderInvNext == TypeOK /\ OrderInv /\ [Next]_vars => OrderInv'
<1> SUFFICES ASSUME TypeOK, OrderInv, [Next]_vars
             PROVE  OrderInv'
  OBVIOUS
<1>1. ASSUME UNCHANGED made, (objects \cup cache)' \subseteq made \cup {"StateMachine"},
             Behind(pc') \subseteq made
      PROVE  OrderInv'
  BY <1>1 DEF OrderInv, MadeInOrder
<1>2. Behind("Service") = {} /\ Behind("idle") = {}
  BY DEF Behind
<1>3. CASE Begin
  BY <1>1, <1>2, <1>3 DEF Begin, OrderInv
<1>4. ASSUME NEW o \in Needed, LookupFinds(o)
      PROVE  OrderInv'
  <2>1. o # "StateMachine"
    BY DEF Needed, Services, Manager, RBAC, ClusterScoped, Registry
  <2>2. o \in made /\ Behind(o) \subseteq made
    BY <1>4, <2>1 DEF LookupFinds, OrderInv
  <2>3. Behind(Found(o)) \subseteq made
    BY <2>2, BehindNext
  <2>4. QED
    BY <1>1, <1>4, <2>3 DEF LookupFinds, OrderInv
<1>5. ASSUME NEW o \in Needed, Create(o)
      PROVE  OrderInv'
  BY <1>5, CreateKeepsOrder
<1>6. ASSUME NEW o \in Needed, CreateFails(o)
      PROVE  OrderInv'
  BY <1>1, <1>2, <1>6 DEF CreateFails, OrderInv
<1>7. ASSUME NEW o \in Needed \cup {"StateMachine"}, Sync(o)
      PROVE  OrderInv'
  BY <1>1, <1>7 DEF Sync, OrderInv
<1>8. ASSUME NEW o \in Needed \cup {"StateMachine"}, Delete(o) \/ Collect(o)
      PROVE  OrderInv'
  BY <1>1, <1>8 DEF Delete, Collect, OrderInv
<1>9. CASE Resync
  BY <1>1, <1>9 DEF Resync, OrderInv
<1>10. CASE Restart
  BY <1>1, <1>2, <1>10 DEF Restart, OrderInv
<1>11. CASE UNCHANGED vars
  BY <1>1, <1>11 DEF vars, OrderInv
<1>12. QED
  BY <1>3, <1>4, <1>5, <1>6, <1>7, <1>8, <1>9, <1>10, <1>11 DEF Next, Reconcile

(***************************************************************************)
(* What a reconcile has passed was created at some time, in every state    *)
(* the operator, its cache and their faults can reach.                     *)
(***************************************************************************)
THEOREM OrderInvHolds == Spec => []OrderInv
<1>1. Init => OrderInv
  BY DEF Init, OrderInv, MadeInOrder, Behind
<1>2. TypeOK /\ OrderInv /\ [Next]_vars => OrderInv'
  BY OrderInvNext
<1>3. QED
  BY <1>1, <1>2, TypeCorrect, PTL DEF Spec

(***************************************************************************)
(* ensureStateMachine's order survives stale caches, failed creations,     *)
(* deletions and restarts: the Deployment is created after the Service,    *)
(* the ServiceAccount, the ConfigMap and the registry.                     *)
(***************************************************************************)
THEOREM MadeInOrderHolds == Spec => []MadeInOrder
<1>1. OrderInv => MadeInOrder
  BY DEF OrderInv
<1>2. QED
  BY <1>1, OrderInvHolds, PTL
=============================================================================
