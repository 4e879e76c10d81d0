----------------------------- MODULE Reconciler -----------------------------
(***************************************************************************)
(* The operator (internal/controller) bringing up what a StateMachine      *)
(* needs.  A reconcile looks the objects up one after the other in the     *)
(* controller's cache, which lags behind the API server, and creates one   *)
(* it does not find; what happens next depends on which one that was.      *)
(* Reconciles of one StateMachine never overlap, and requests that arrive  *)
(* meanwhile are merged into one.                                          *)
(***************************************************************************)
EXTENDS Naturals

CONSTANTS
    InClusterRegistry,   \* HasInClusterRegistry: no external registry host is given
    TemplateFails,       \* does an event of the workflow set minCompletions?
    MaxSize, Completed,  \* the sizes Validate looks at
    MaxErrors, MaxDeletes, MaxRestarts   \* bounds on the environment

ASSUME SpecAssumption == InClusterRegistry \in BOOLEAN /\ TemplateFails \in BOOLEAN
ASSUME SizesAssumption == MaxSize \in Nat /\ Completed \in Nat
ASSUME FaultsAssumption == MaxErrors \in Nat /\ MaxDeletes \in Nat /\ MaxRestarts \in Nat

Validate == MaxSize >= 1 /\ Completed >= 1

Services == {"Service"}
ClusterScoped == {"ClusterRole", "ClusterRoleBinding"}
RBAC == {"ServiceAccount", "Role", "RoleBinding"} \cup ClusterScoped
Registry == IF InClusterRegistry THEN {"StatefulSet"} ELSE {}
Manager == {"ConfigMap", "Deployment"}
Needed == Services \cup RBAC \cup Registry \cup Manager

\* SetupWithManager: the kinds whose changes ask for a reconcile.
Watched == {"StateMachine"} \cup (Needed \ ClusterScoped)

VARIABLES
    objects,    \* what exists at the API server, the StateMachine included
    cache,      \* what the controller's cache shows
    pc,         \* the object the reconcile looks up next, or "idle"
    pending,    \* is a reconcile request queued?
    made,       \* history: the objects the operator has created so far
    faults      \* how often each fault has happened

vars == <<objects, cache, pc, pending, made, faults>>

Init ==
    /\ objects = {"StateMachine"}
    /\ cache = {}
    /\ pc = "idle"
    /\ pending = FALSE
    /\ made = {}
    /\ faults = [error |-> 0, delete |-> 0, restart |-> 0]

-----------------------------------------------------------------------------
\* Mutant: the registry is deployed although the spec names an external one.
AfterRBACAlwaysRegistry == "StatefulSet"

\* Mutant: the manager's Deployment is looked up ahead of its ConfigMap.
AfterRBACDeploysFirst == "Deployment"

AfterRBAC == IF InClusterRegistry THEN "StatefulSet" ELSE "ConfigMap"

\* Mutant: createRBAC does not look for the role binding.
FoundNoBinding(o) ==
    CASE o = "Service" -> "ServiceAccount"
      [] o = "ServiceAccount" -> "ClusterRole"
      [] o = "ClusterRole" -> "ClusterRoleBinding"
      [] o = "ClusterRoleBinding" -> "Role"
      [] o = "Role" -> AfterRBAC
      [] o = "StatefulSet" -> "ConfigMap"
      [] o = "ConfigMap" -> "Deployment"
      [] OTHER -> "idle"

\* Where the reconcile goes on when it has found o.
Found(o) ==
    CASE o = "Service" -> "ServiceAccount"
      [] o = "ServiceAccount" -> "ClusterRole"
      [] o = "ClusterRole" -> "ClusterRoleBinding"
      [] o = "ClusterRoleBinding" -> "Role"
      [] o = "Role" -> "RoleBinding"
      [] o = "RoleBinding" -> AfterRBAC
      [] o = "StatefulSet" -> "ConfigMap"
      [] o = "ConfigMap" -> "Deployment"
      [] OTHER -> "idle"

(***************************************************************************)
(* Where it goes on when it has created o: createRBAC creates one object a *)
(* time and returns no error, so ensureStateMachine carries on; after the  *)
(* ConfigMap of the entrypoint ensureManager returns.                      *)
(***************************************************************************)
Created(o) ==
    CASE o = "Service" -> "ServiceAccount"
      [] o \in RBAC -> AfterRBAC
      [] o = "StatefulSet" -> "ConfigMap"
      [] OTHER -> "idle"

\* NewEntrypoint cannot execute its template.
CannotCreate(o) == o = "ConfigMap" /\ TemplateFails

Fault(kind) == faults' = [faults EXCEPT ![kind] = @ + 1]

\* Reconcile: a StateMachine that is gone, or does not validate, is left alone.
Begin ==
    /\ pc = "idle"
    /\ pending
    /\ pending' = FALSE
    /\ pc' = IF "StateMachine" \in cache /\ Validate THEN "Service" ELSE "idle"
    /\ UNCHANGED <<objects, cache, made, faults>>

LookupFinds(o) ==
    /\ pc = o
    /\ o \in cache
    /\ pc' = Found(o)
    /\ UNCHANGED <<objects, cache, pending, made, faults>>

Create(o) ==
    /\ pc = o
    /\ o \notin cache \cup objects
    /\ ~ CannotCreate(o)
    /\ objects' = objects \cup {o}
    /\ made' = made \cup {o}
    /\ pc' = Created(o)
    /\ UNCHANGED <<cache, pending, faults>>

\* Mutant: the error is dropped and the reconcile carries on.
CreateFailsCarriesOn(o) ==
    /\ pc = o
    /\ o \notin cache
    /\ IF o \in objects \/ CannotCreate(o)
       THEN UNCHANGED faults
       ELSE faults.error < MaxErrors /\ Fault("error")
    /\ pc' = Created(o)
    /\ UNCHANGED <<objects, cache, pending, made>>

\* It exists after all, or the creation fails: the error puts the request back.
CreateFails(o) ==
    /\ pc = o
    /\ o \notin cache
    /\ IF o \in objects \/ CannotCreate(o)
       THEN UNCHANGED faults
       ELSE faults.error < MaxErrors /\ Fault("error")
    /\ pc' = "idle"
    /\ pending' = TRUE
    /\ UNCHANGED <<objects, cache, made>>

-----------------------------------------------------------------------------
(* The controller's cache and queue, the API server, and its users.        *)

\* The watch tells the cache of a change, and the queue if the kind is watched.
Sync(o) ==
    /\ (o \in objects) # (o \in cache)
    /\ cache' = IF o \in objects THEN cache \cup {o} ELSE cache \ {o}
    /\ pending' = (pending \/ o \in Watched)
    /\ UNCHANGED <<objects, pc, made, faults>>

\* A status update of a watched object, or the periodic resync of the cache.
Resync ==
    /\ cache \cap Watched # {}
    /\ pending' = TRUE
    /\ UNCHANGED <<objects, cache, pc, made, faults>>

\* Someone deletes the StateMachine or one of its objects.
Delete(o) ==
    /\ o \in objects
    /\ faults.delete < MaxDeletes
    /\ Fault("delete")
    /\ objects' = objects \ {o}
    /\ UNCHANGED <<cache, pc, pending, made>>

\* The garbage collector follows owner references within the namespace.
Collect(o) ==
    /\ "StateMachine" \notin objects
    /\ o \in objects \ ClusterScoped
    /\ objects' = objects \ {o}
    /\ UNCHANGED <<cache, pc, pending, made, faults>>

\* The operator's process is replaced: a fresh cache, and what it shows is queued.
Restart ==
    /\ faults.restart < MaxRestarts
    /\ Fault("restart")
    /\ cache' = objects
    /\ pc' = "idle"
    /\ pending' = (objects \cap Watched # {})
    /\ UNCHANGED <<objects, made>>

Reconcile ==
    \/ Begin
    \/ \E o \in Needed : LookupFinds(o) \/ Create(o) \/ CreateFails(o)

Next ==
    \/ Reconcile
    \/ \E o \in Needed \cup {"StateMachine"} : Sync(o) \/ Delete(o) \/ Collect(o)
    \/ Resync
    \/ Restart

Spec == Init /\ [][Next]_vars

(***************************************************************************)
(* The worker and the watches run; the cache is resynced again and again   *)
(* (main.go leaves SyncPeriod at its default); garbage is collected.       *)
(***************************************************************************)
Fairness ==
    /\ WF_vars(Reconcile)
    /\ WF_vars(Resync)
    /\ \A o \in Needed \cup {"StateMachine"} : WF_vars(Sync(o)) /\ WF_vars(Collect(o))

FairSpec == Spec /\ Fairness

-----------------------------------------------------------------------------
\* Every variable holds a value of its type; the operator creates only what is needed.
TypeOK ==
    /\ objects \subseteq Needed \cup {"StateMachine"}
    /\ cache \subseteq Needed \cup {"StateMachine"}
    /\ pc \in Needed \cup {"idle"}
    /\ pending \in BOOLEAN
    /\ made \subseteq Needed
    /\ faults \in [error : Nat, delete : Nat, restart : Nat]

(***************************************************************************)
(* "It should be created before the ML Server deployment": when the        *)
(* manager's Deployment comes to exist, the ConfigMap it mounts, the       *)
(* ServiceAccount it runs under, the Service and the registry have been    *)
(* created, whatever the cache showed, failed or was deleted in between.   *)
(***************************************************************************)
MadeInOrder ==
    "Deployment" \in made =>
        {"Service", "ServiceAccount", "ConfigMap"} \cup Registry \subseteq made

(***************************************************************************)
(* Creations that fail, stale caches, restarts of the operator and         *)
(* deletions are made up for: in the end a valid StateMachine that exists  *)
(* has all its objects, and one that is gone has none in its namespace.    *)
(***************************************************************************)
Converges ==
    <>[](IF "StateMachine" \in objects THEN Validate => Needed \subseteq objects
                                        ELSE objects \subseteq ClusterScoped)

-----------------------------------------------------------------------------
(***************************************************************************)
(* Why MadeInOrder holds: what the reconcile has passed was created at     *)
(* some time, because it was created just now or the cache showed it; and  *)
(* the ConfigMap, created only past all the rest, stands between.          *)
(***************************************************************************)
Behind(o) ==
    CASE o = "Service" -> {}
      [] o = "ServiceAccount" -> {"Service"}
      [] o \in {"ClusterRole", "ClusterRoleBinding", "Role", "RoleBinding", "StatefulSet"} ->
             {"Service", "ServiceAccount"}
      [] o = "ConfigMap" -> {"Service", "ServiceAccount"} \cup Registry
      [] o = "Deployment" -> {"Service", "ServiceAccount", "ConfigMap"} \cup Registry
      [] OTHER -> {}

OrderInv ==
    /\ objects \cup cache \subseteq made \cup {"StateMachine"}
    /\ Behind(pc) \subseteq made
    /\ "ConfigMap" \in made => Behind("ConfigMap") \subseteq made
    /\ MadeInOrder
=============================================================================
