------------------------- MODULE ControllerService -------------------------
(***************************************************************************)
(* The CSI controller service, src/src/services/controller.rs: CreateVolume *)
(* and DeleteVolume over an in-memory map from volume name to Volume,      *)
(* guarded by a std Mutex that is never held across an await.              *)
(*                                                                         *)
(* A CreateVolume handler runs in three stretches separated by the one     *)
(* await it has, the PersistentVolumeClaim listing:                        *)
(*   - Lookup: validation and the map lookup, under the lock;              *)
(*   - the API server answers the listing, a snapshot of the claims;       *)
(*   - Insert: the volume is built and inserted, under the lock again.     *)
(* Between the stretches other handlers, DeleteVolume, users editing       *)
(* claims, a cancellation or a restart of the process may take place.      *)
(*                                                                         *)
(* The container orchestrator (CO: the external-provisioner side-car) and  *)
(* the users of the API server are external.  `answers' and `deleted' are  *)
(* what the CO knows; `created' and `observed' are history.                *)
(***************************************************************************)
EXTENDS Naturals, FiniteSets

CONSTANTS
    Names,        \* volume names the CO asks for
    EmptyName,    \* the empty string as a name
    Uids,         \* uids of PersistentVolumeClaims
    UidOf,        \* UidOf[n]: name n without its "pvc-" prefix, NULL if it has none
    Namespaces,   \* namespaces of claims and of the StorageClass parameter
    Annotations,  \* annotation maps a claim may carry, absent keys are NULL
    Capacities,   \* values of capacity_range.required_bytes
    DefaultCapacity, \* 5 GiB, used without a capacity_range
    VolumeIds,    \* the ids Uuid::new_v4 may produce
    Calls,        \* slots for concurrent CreateVolume handlers
    SerialCalls,  \* TRUE: the CO has one call per volume in flight
    FaultKinds,   \* the faults that may happen, see AllFaults
    MaxFaults,    \* bound on the number of faults
    NULL,         \* nothing: no prefix, no claim yet, no volume, ...
    GONE          \* a claim that was deleted; its uid never comes back

AllFaults == {"restart", "cancel", "list_error"}

VARIABLES
    volumes,   \* volumes[n]: the registered Volume of name n, or NULL
    pc,        \* pc[c]: where the handler in slot c is
    req,       \* req[c]: the request it serves
    found,     \* found[c]: the claim the listing returned, or NULL
    reply,     \* reply[c]: its response
    claims,    \* claims[u]: the claim with uid u, NULL before and GONE after its life
    answers,   \* [name, volume] of the OK responses the CO received
    deleted,   \* ids the CO deleted
    created,   \* history: [name, volume] of every volume inserted
    observed,  \* history: observed[c]: the configs of c's claim during the call
    faults     \* number of faults so far

service == <<volumes, pc, req, found, reply>>
co == <<answers, deleted>>
vars == <<volumes, pc, req, found, reply, claims, answers, deleted, created,
          observed, faults>>

-----------------------------------------------------------------------------
(* Data *)

Request == [name : Names \cup {EmptyName},
            namespace : Namespaces \cup {NULL},
            capacity : Capacities \cup {NULL}]

Claim == [namespace : Namespaces, annotations : Annotations]

\* Mutation of OrElse: the default is forgotten.
NoDefault(value, default) == value

OrElse(value, default) == IF value # NULL THEN value ELSE default

\* The required annotations are there: node name, pod name, mount mode.
HasConfig(claim) ==
    /\ claim.annotations.node # NULL
    /\ claim.annotations.pod # NULL
    /\ claim.annotations.mount # NULL

\* The volume context: missing namespaces default to the claim's own.
ConfigFromPvcMeta(claim) ==
    LET a == claim.annotations
    IN  [node   |-> a.node,
         nodeNs |-> OrElse(a.nodeNs, claim.namespace),
         pod    |-> a.pod,
         podNs  |-> OrElse(a.podNs, claim.namespace),
         mount  |-> a.mount]

\* The configs a claim offers: one if it exists and is complete, else none.
Configs(claim) ==
    IF claim \notin {NULL, GONE} /\ HasConfig(claim)
    THEN {ConfigFromPvcMeta(claim)} ELSE {}

\* The claim the name is for; NULL also stands for "no prefix".
ClaimNamed(n) ==
    IF n = EmptyName \/ UidOf[n] = NULL THEN NULL ELSE claims[UidOf[n]]

Contexts == {ConfigFromPvcMeta(k) : k \in {k \in Claim : HasConfig(k)}}

Volume == [id : VolumeIds,
           capacity : Capacities \cup {DefaultCapacity},
           context : Contexts]

ASSUME ConstantsAssumption ==
    /\ NULL \notin Uids \cup Namespaces \cup Capacities \cup {GONE, EmptyName}
    /\ NULL \notin Request \cup Claim \cup Volume
    /\ GONE \notin Claim
    /\ EmptyName \notin Names
    /\ UidOf \in [Names -> Uids \cup {NULL}]
    /\ DefaultCapacity # NULL
    /\ SerialCalls \in BOOLEAN
    /\ FaultKinds \subseteq AllFaults
    /\ MaxFaults \in Nat

Errors == {"invalid_argument", "not_found", "internal"}
Failed(status) == [status |-> status, volume |-> NULL]
Succeeded(volume) == [status |-> "ok", volume |-> volume]
NoReply == Failed("none")

Entry == [name : Names, volume : Volume]

\* Mutation of UsedIds: only the ids that the map holds are avoided.
RegisteredIds == {volumes[n].id : n \in {n \in Names : volumes[n] # NULL}}

\* Uuid::new_v4 returns none of these.
UsedIds == {e.volume.id : e \in created}

-----------------------------------------------------------------------------
Init ==
    /\ volumes = [n \in Names |-> NULL]
    /\ pc = [c \in Calls |-> "idle"]
    /\ req = [c \in Calls |-> NULL]
    /\ found = [c \in Calls |-> NULL]
    /\ reply = [c \in Calls |-> NoReply]
    /\ claims = [u \in Uids |-> NULL]
    /\ answers = {}
    /\ deleted = {}
    /\ created = {}
    /\ observed = [c \in Calls |-> {}]
    /\ faults = 0

Fault(kind) ==
    /\ kind \in FaultKinds
    /\ faults < MaxFaults
    /\ faults' = faults + 1

\* The handler in slot c is gone, and its locals with it.
Forget(c) ==
    /\ pc' = [pc EXCEPT ![c] = "idle"]
    /\ req' = [req EXCEPT ![c] = NULL]
    /\ found' = [found EXCEPT ![c] = NULL]
    /\ reply' = [reply EXCEPT ![c] = NoReply]
    /\ observed' = [observed EXCEPT ![c] = {}]

Respond(c, response) ==
    /\ reply' = [reply EXCEPT ![c] = response]
    /\ pc' = [pc EXCEPT ![c] = "done"]

-----------------------------------------------------------------------------
(* create_volume *)

\* No call for the name is in flight; a serial CO waits for that.
Quiet(n) == \A c \in Calls : pc[c] # "idle" => req[c].name # n

MayCall(c, r) ==
    /\ pc[c] = "idle"
    /\ SerialCalls => Quiet(r.name)

Begin(c, r) ==
    /\ MayCall(c, r)
    /\ req' = [req EXCEPT ![c] = r]
    /\ observed' = [observed EXCEPT ![c] = Configs(ClaimNamed(r.name))]
    /\ UNCHANGED <<volumes, found, claims, co, created, faults>>

\* The name is already registered: its volume is returned as it is.
LookupExisting(c, r) ==
    /\ r.name # EmptyName
    /\ volumes[r.name] # NULL
    /\ Begin(c, r)
    /\ Respond(c, Succeeded(volumes[r.name]))

\* Mutation of LookupInvalid: the parameters are checked before the lookup.
LookupInvalidFirst(c, r) ==
    /\ r.name # EmptyName => NULL \in {r.namespace, UidOf[r.name]}
    /\ Begin(c, r)
    /\ Respond(c, Failed("invalid_argument"))

\* No name; no resourceNamespace parameter; a name without "pvc-" prefix.
LookupInvalid(c, r) ==
    /\ r.name # EmptyName =>
        /\ volumes[r.name] = NULL
        /\ NULL \in {r.namespace, UidOf[r.name]}
    /\ Begin(c, r)
    /\ Respond(c, Failed("invalid_argument"))

\* Bound: there is an id for every call that may need one.
IdsLeft ==
    Cardinality(VolumeIds \ UsedIds) >
    Cardinality({c \in Calls : pc[c] \in {"listing", "listed"}})

\* Mutation of LookupMissing: the map is not looked at.
LookupMissingBlind(c, r) ==
    /\ r.name # EmptyName
    /\ r.namespace # NULL
    /\ UidOf[r.name] # NULL
    /\ IdsLeft
    /\ Begin(c, r)
    /\ pc' = [pc EXCEPT ![c] = "listing"]
    /\ UNCHANGED reply

\* Not registered: the lock is released and the claims are listed.
LookupMissing(c, r) ==
    /\ r.name # EmptyName
    /\ volumes[r.name] = NULL
    /\ r.namespace # NULL
    /\ UidOf[r.name] # NULL
    /\ IdsLeft
    /\ Begin(c, r)
    /\ pc' = [pc EXCEPT ![c] = "listing"]
    /\ UNCHANGED reply

CreateVolume(c, r) ==
    LookupExisting(c, r) \/ LookupInvalid(c, r) \/ LookupMissing(c, r)

\* Mutation of FindClaim: some claim of the namespace, whatever its uid.
FindAnyClaim(namespace, uid) ==
    LET candidates == {u \in Uids : claims[u] \notin {NULL, GONE}
                                     /\ claims[u].namespace = namespace}
    IN  IF candidates # {} THEN claims[CHOOSE u \in candidates : TRUE] ELSE NULL

\* The claim of the listing of a namespace that has this uid.
FindClaim(namespace, uid) ==
    IF claims[uid] \notin {NULL, GONE} /\ claims[uid].namespace = namespace
    THEN claims[uid] ELSE NULL

\* The API server answers the listing.
ListClaims(c) ==
    /\ pc[c] = "listing"
    /\ found' = [found EXCEPT ![c] = FindClaim(req[c].namespace, UidOf[req[c].name])]
    /\ pc' = [pc EXCEPT ![c] = "listed"]
    /\ UNCHANGED <<volumes, req, reply, claims, co, created, observed, faults>>

ListClaimsFails(c) ==
    /\ pc[c] = "listing"
    /\ Fault("list_error")
    /\ Respond(c, Failed("internal"))
    /\ UNCHANGED <<volumes, req, found, claims, co, created, observed>>

\* Mutation of RejectClaim: the handler of a claim that is not there waits for it.
RejectClaimLater(c) ==
    /\ pc[c] = "listed"
    /\ \/ found[c] = NULL /\ pc' = [pc EXCEPT ![c] = "waiting"] /\ UNCHANGED reply
       \/ /\ found[c] # NULL
          /\ ~HasConfig(found[c])
          /\ Respond(c, Failed("invalid_argument"))
    /\ UNCHANGED <<volumes, req, found, claims, co, created, observed, faults>>

\* No claim with that uid, or one without the required annotations.
RejectClaim(c) ==
    /\ pc[c] = "listed"
    /\ \/ found[c] = NULL /\ Respond(c, Failed("not_found"))
       \/ /\ found[c] # NULL
          /\ ~HasConfig(found[c])
          /\ Respond(c, Failed("invalid_argument"))
    /\ UNCHANGED <<volumes, req, found, claims, co, created, observed, faults>>

\* A volume with a fresh id is inserted, whatever the map holds by now.
InsertVolume(c) ==
    /\ pc[c] = "listed"
    /\ found[c] # NULL
    /\ HasConfig(found[c])
    /\ \E id \in VolumeIds \ UsedIds :
        LET volume == [id       |-> id,
                       capacity |-> OrElse(req[c].capacity, DefaultCapacity),
                       context  |-> ConfigFromPvcMeta(found[c])]
        IN  /\ volumes' = [volumes EXCEPT ![req[c].name] = volume]
            /\ created' = created \cup {[name |-> req[c].name, volume |-> volume]}
            /\ Respond(c, Succeeded(volume))
    /\ UNCHANGED <<req, found, claims, co, observed, faults>>

-----------------------------------------------------------------------------
(* delete_volume: the entry with this id, if any, leaves the map *)

\* Mutation of DeleteVolume: the entry stays in the map.
DeleteNothing(id) ==
    /\ deleted' = deleted \cup {id}
    /\ UNCHANGED <<service, claims, answers, created, observed, faults>>

DeleteVolume(id) ==
    /\ volumes' = [n \in Names |->
                    IF volumes[n] # NULL /\ volumes[n].id = id THEN NULL ELSE volumes[n]]
    /\ deleted' = deleted \cup {id}
    /\ UNCHANGED <<pc, req, found, reply, claims, answers, created, observed, faults>>

\* list_volumes: every volume of the map.
ListVolumes == {volumes[n] : n \in {n \in Names : volumes[n] # NULL}}

-----------------------------------------------------------------------------
(* The CO, the process and the users of the API server *)

\* The CO receives the response and learns the volume of an OK one.
Receive(c) ==
    /\ pc[c] = "done"
    /\ Forget(c)
    /\ answers' = IF reply[c].status = "ok"
                  THEN answers \cup {[name |-> req[c].name, volume |-> reply[c].volume]}
                  ELSE answers
    /\ UNCHANGED <<volumes, claims, deleted, created, faults>>

\* The CO gives up on a call: the handler is dropped at its await, or its
\* response is lost.
Cancel(c) ==
    /\ pc[c] # "idle"
    /\ Fault("cancel")
    /\ Forget(c)
    /\ UNCHANGED <<volumes, claims, co, created>>

\* The CO deletes volumes it was told of, again if it does not know better.
CoDeletes ==
    \E a \in answers :
        /\ SerialCalls => Quiet(a.name)
        /\ DeleteVolume(a.volume.id)

\* The process restarts: the map starts empty, the calls in flight are gone.
Restart ==
    /\ Fault("restart")
    /\ volumes' = [n \in Names |-> NULL]
    /\ pc' = [c \in Calls |-> "idle"]
    /\ req' = [c \in Calls |-> NULL]
    /\ found' = [c \in Calls |-> NULL]
    /\ reply' = [c \in Calls |-> NoReply]
    /\ observed' = [c \in Calls |-> {}]
    /\ UNCHANGED <<claims, co, created>>

\* A user creates a claim, edits its annotations or deletes it.
\* A claim never changes its namespace.
SetClaim(u, claim) ==
    /\ claims' = [claims EXCEPT ![u] = claim]
    /\ observed' = [c \in Calls |->
                       IF pc[c] # "idle" /\ req[c].name # EmptyName /\ UidOf[req[c].name] = u
                       THEN observed[c] \cup Configs(claim) ELSE observed[c]]
    /\ UNCHANGED <<service, co, created, faults>>

WriteClaim(u, claim) ==
    /\ claims[u] # GONE
    /\ claims[u] # NULL => claims[u].namespace = claim.namespace
    /\ SetClaim(u, claim)

DeleteClaim(u) ==
    /\ claims[u] \notin {NULL, GONE}
    /\ SetClaim(u, GONE)

-----------------------------------------------------------------------------
Handler(c) ==
    \/ ListClaims(c)
    \/ RejectClaim(c)
    \/ InsertVolume(c)

Next ==
    \/ \E c \in Calls :
        \/ \E r \in Request : CreateVolume(c, r)
        \/ Handler(c)
        \/ ListClaimsFails(c)
        \/ Receive(c)
        \/ Cancel(c)
    \/ CoDeletes
    \/ Restart
    \/ \E u \in Uids :
        \/ \E claim \in Claim : WriteClaim(u, claim)
        \/ DeleteClaim(u)

Spec == Init /\ [][Next]_vars

\* The executor runs a handler to its end, the API server answers a listing,
\* the CO takes responses, and it retries each request again and again: a
\* slot is a bound of this model, so a retry does not starve for one.
Fairness ==
    /\ \A c \in Calls : WF_vars(Handler(c)) /\ WF_vars(Receive(c))
    /\ \A r \in Request : SF_vars(\E c \in Calls : CreateVolume(c, r))

FairSpec == Spec /\ Fairness

-----------------------------------------------------------------------------
(* Properties *)

InFlight(c) == pc[c] # "idle"
Registered(n) == volumes[n] # NULL

\* Every variable holds what its declaration says; a slot has a request
\* exactly while a handler runs in it.
TypeOK ==
    /\ volumes \in [Names -> Volume \cup {NULL}]
    /\ pc \in [Calls -> {"idle", "listing", "listed", "done"}]
    /\ req \in [Calls -> Request \cup {NULL}]
    /\ \A c \in Calls : InFlight(c) <=> req[c] # NULL
    /\ found \in [Calls -> Claim \cup {NULL}]
    /\ reply \in [Calls -> [status : Errors \cup {"ok", "none"}, volume : Volume \cup {NULL}]]
    /\ claims \in [Uids -> Claim \cup {NULL, GONE}]
    /\ answers \subseteq Entry
    /\ created \subseteq Entry
    /\ observed \in [Calls -> SUBSET Contexts]
    /\ faults \in 0 .. MaxFaults

\* An id the CO was given names one volume, with one name, one capacity and
\* one context, through races, restarts, deletions and re-creations: the
\* volume_context of an id is never seen to change.
IdsNameOneVolume ==
    \A a, b \in answers : a.volume.id = b.volume.id => a = b

\* At no time do two volumes that nobody deleted exist for one name,
\* whatever calls failed, were cancelled or were retried: create_volume is
\* idempotent in the name.
OneVolumePerName ==
    \A d, e \in created :
        /\ d.name = e.name
        /\ {d.volume.id, e.volume.id} \cap deleted = {}
        => d = e

\* A volume the CO was told of, and has not deleted, is still the one the
\* service holds for the name: a retry gets the same answer, list_volumes
\* lists it.
AnswersKept ==
    \A a \in answers : a.volume.id \notin deleted => volumes[a.name] = a.volume

\* No OK answer tells a volume that the CO has deleted, not even the answer to
\* a retry that comes after the deletion.
NoDeletedAnswer ==
    \A c \in Calls :
        pc[c] = "done" /\ reply[c].status = "ok" => reply[c].volume.id \notin deleted

\* When create_volume fails, no volume of that name was left behind in the
\* map by a step of the handler before the one that failed.
ErrorsLeaveNothing ==
    \A c \in Calls :
        /\ pc[c] = "done"
        /\ reply[c].status # "ok"
        /\ req[c].name # EmptyName
        => ~Registered(req[c].name)

\* The context of a new volume is one that the claim with the name's uid
\* offered at some time during the call, although claims are edited and
\* deleted while the handler awaits the listing, and other claims and other
\* handlers come and go.
ContextFromClaim ==
    [][\A e \in created' \ created :
         \E c \in Calls : /\ InFlight(c)
                          /\ req[c].name = e.name
                          /\ e.volume.context \in observed[c]]_vars

\* A request that can succeed: its claim is there, complete, in its namespace.
Provisionable(r) ==
    /\ r.name # EmptyName
    /\ UidOf[r.name] # NULL
    /\ claims[UidOf[r.name]] \notin {NULL, GONE}
    /\ claims[UidOf[r.name]].namespace = r.namespace
    /\ HasConfig(claims[UidOf[r.name]])

\* Faults being finite, a name whose claim stays complete is answered, with
\* every retry, cancellation and restart on the way.
EventuallyAnswered ==
    \A r \in Request :
        <>[]Provisionable(r) => <>(\E a \in answers : a.name = r.name)

\* With one call per volume in flight the service is a volume registry.
Registry == INSTANCE VolumeRegistry WITH
    Volumes <- Volume, registered <- volumes, issued <- created,
    told <- answers, removed <- deleted

ImplementsRegistry == Registry!Spec

=============================================================================
