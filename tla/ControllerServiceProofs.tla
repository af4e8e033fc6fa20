----------------------- MODULE ControllerServiceProofs -----------------------
(***************************************************************************)
(* Proofs about ControllerService, for every value of its constants.       *)
(***************************************************************************)
EXTENDS ControllerService, TLAPS

(***************************************************************************)
(* The inductive invariant.  CallsOK: what a handler's locals are at each  *)
(* of its await points, and that the claim it found was offered during its *)
(* call.  CreatedOK: whatever is registered, replied or answered is a      *)
(* volume that was inserted for that name, and no two of those share an id.*)
(***************************************************************************)
CallOK(c) ==
    /\ pc[c] \in {"listing", "listed"} =>
        req[c].name \in Names /\ UidOf[req[c].name] \in Uids
    /\ pc[c] = "listing" => Configs(ClaimNamed(req[c].name)) \subseteq observed[c]
    /\ pc[c] = "listed" => Configs(found[c]) \subseteq observed[c]
    /\ reply[c].status = "ok" =>
        /\ InFlight(c)
        /\ [name |-> req[c].name, volume |-> reply[c].volume] \in created

CreatedOK ==
    /\ \A n \in Names : Registered(n) => [name |-> n, volume |-> volumes[n]] \in created
    /\ answers \subseteq created
    /\ deleted \subseteq UsedIds
    /\ \A d, e \in created : d.volume.id = e.volume.id => d = e

IInv == TypeOK /\ (\A c \in Calls : CallOK(c)) /\ CreatedOK

(***************************************************************************)
(* With one call per volume in flight and no restart: a handler past its   *)
(* lookup finds its name still free, so it is after an error; a successful *)
(* reply is still what is registered, and so is every undeleted volume.    *)
(***************************************************************************)
SerialCallOK(c) ==
    /\ pc[c] \in {"listing", "listed"} => ~Registered(req[c].name)
    /\ pc[c] = "done" =>
        IF reply[c].status = "ok" THEN volumes[req[c].name] = reply[c].volume
        ELSE req[c].name # EmptyName => ~Registered(req[c].name)
    /\ \A d \in Calls : InFlight(c) /\ InFlight(d) /\ c # d => req[c].name # req[d].name

CreatedKept ==
    /\ \A e \in created : e.volume.id \notin deleted => volumes[e.name] = e.volume
    /\ \A n \in Names : Registered(n) => volumes[n].id \notin deleted

SerialInv == (\A c \in Calls : SerialCallOK(c)) /\ CreatedKept

NoRestart == SerialCalls /\ "restart" \notin FaultKinds

-----------------------------------------------------------------------------
(* Data *)

\* What a claim offers is a set of contexts, and nothing if there is no claim.
LEMMA ConfigsTyped ==
    ASSUME NEW k \in Claim \cup {NULL, GONE}
    PROVE  /\ Configs(k) \in SUBSET Contexts
           /\ k \in {NULL, GONE} => Configs(k) = {}
           /\ k \in Claim /\ HasConfig(k) =>
                ConfigFromPvcMeta(k) \in Contexts /\ Configs(k) = {ConfigFromPvcMeta(k)}
BY ConstantsAssumption DEF Configs, Contexts

\* The claim a name is for is typed like every claim.
LEMMA ClaimNamedTyped ==
    ASSUME TypeOK, NEW n \in Names \cup {EmptyName}
    PROVE  ClaimNamed(n) \in Claim \cup {NULL, GONE}
BY ConstantsAssumption DEF TypeOK, ClaimNamed

\* The initial states satisfy the invariant.
LEMMA InitIInv == Init => IInv
BY ConstantsAssumption, ConfigsTyped
   DEF Init, IInv, TypeOK, CallOK, CreatedOK, InFlight, Registered, NoReply, Failed, Errors

-----------------------------------------------------------------------------
(* Type correctness, one step per action *)

LEMMA TypeStep ==
    ASSUME IInv, [Next]_vars
    PROVE  TypeOK'
<1> USE ConstantsAssumption DEF IInv, TypeOK, InFlight
<1>1. ASSUME NEW c \in Calls, NEW r \in Request, CreateVolume(c, r)
      PROVE  TypeOK'
  <2>1. r.name \in Names \cup {EmptyName} /\ r # NULL
    BY DEF Request
  <2>2. Configs(ClaimNamed(r.name)) \in SUBSET Contexts
    BY <2>1, ClaimNamedTyped, ConfigsTyped
  <2>3. CASE LookupExisting(c, r)
    BY <2>1, <2>2, <2>3
       DEF LookupExisting, Begin, MayCall, Respond, Succeeded, Errors, co
  <2>4. CASE LookupInvalid(c, r)
    BY <2>1, <2>2, <2>4 DEF LookupInvalid, Begin, MayCall, Respond, Failed, Errors, co
  <2>5. CASE LookupMissing(c, r)
    BY <2>1, <2>2, <2>5 DEF LookupMissing, Begin, MayCall, co
  <2>6. QED
    BY <1>1, <2>3, <2>4, <2>5 DEF CreateVolume
<1>2. ASSUME NEW c \in Calls, ListClaims(c)
      PROVE  TypeOK'
  BY <1>2 DEF ListClaims, FindClaim, CallOK, co
<1>3. ASSUME NEW c \in Calls, RejectClaim(c)
      PROVE  TypeOK'
  BY <1>3 DEF RejectClaim, Respond, Failed, Errors, co
<1>4. ASSUME NEW c \in Calls, InsertVolume(c)
      PROVE  TypeOK'
  <2>1. req[c] \in Request /\ req[c].name \in Names
    BY <1>4 DEF InsertVolume, CallOK
  <2>2. ConfigFromPvcMeta(found[c]) \in Contexts
    BY <1>4, ConfigsTyped DEF InsertVolume
  <2>3. OrElse(req[c].capacity, DefaultCapacity) \in Capacities \cup {DefaultCapacity}
    BY <2>1 DEF OrElse, Request
  <2>4. PICK id \in VolumeIds \ UsedIds :
          LET volume == [id       |-> id,
                         capacity |-> OrElse(req[c].capacity, DefaultCapacity),
                         context  |-> ConfigFromPvcMeta(found[c])]
          IN  /\ volumes' = [volumes EXCEPT ![req[c].name] = volume]
              /\ created' = created \cup {[name |-> req[c].name, volume |-> volume]}
              /\ Respond(c, Succeeded(volume))
    BY <1>4 DEF InsertVolume
  <2> DEFINE volume == [id       |-> id,
                        capacity |-> OrElse(req[c].capacity, DefaultCapacity),
                        context  |-> ConfigFromPvcMeta(found[c])]
  <2>5. volume \in Volume /\ [name |-> req[c].name, volume |-> volume] \in Entry
    BY <2>1, <2>2, <2>3 DEF Volume, Entry
  <2> HIDE DEF volume
  <2>6. /\ volumes' = [volumes EXCEPT ![req[c].name] = volume]
        /\ created' = created \cup {[name |-> req[c].name, volume |-> volume]}
        /\ Respond(c, Succeeded(volume))
    BY <2>4 DEF volume
  <2>7. QED
    BY <1>4, <2>1, <2>5, <2>6 DEF InsertVolume, Respond, Succeeded, Errors, co
<1>5. ASSUME NEW c \in Calls, ListClaimsFails(c)
      PROVE  TypeOK'
  BY <1>5 DEF ListClaimsFails, Fault, Respond, Failed, Errors, co
<1>6. ASSUME NEW c \in Calls, Receive(c)
      PROVE  TypeOK'
  <2>1. reply[c].status = "ok" =>
          [name |-> req[c].name, volume |-> reply[c].volume] \in Entry
    BY DEF CallOK
  <2>2. QED
    BY <1>6, <2>1 DEF Receive, Forget, NoReply, Failed
<1>7. ASSUME NEW c \in Calls, Cancel(c)
      PROVE  TypeOK'
  BY <1>7 DEF Cancel, Forget, Fault, NoReply, Failed, co
<1>8. ASSUME CoDeletes
      PROVE  TypeOK'
  BY <1>8 DEF CoDeletes, DeleteVolume
<1>9. ASSUME Restart
      PROVE  TypeOK'
  BY <1>9 DEF Restart, Fault, NoReply, Failed, co
<1>10. ASSUME NEW u \in Uids, NEW claim \in Claim \cup {GONE}, SetClaim(u, claim)
       PROVE  TypeOK'
  BY <1>10, ConfigsTyped DEF SetClaim, service, co
<1>11. CASE UNCHANGED vars
  BY <1>11 DEF vars, co
<1>12. QED
  BY <1>1, <1>2, <1>3, <1>4, <1>5, <1>6, <1>7, <1>8, <1>9, <1>10, <1>11
     DEF Next, Handler, WriteClaim, DeleteClaim

-----------------------------------------------------------------------------
(* The rest of the inductive step *)

\* The step of slot c leaves the locals of the other slots alone.
OthersKept(c) ==
    \A d \in Calls \ {c} :
        /\ pc'[d] = pc[d]
        /\ req'[d] = req[d]
        /\ found'[d] = found[d]
        /\ reply'[d] = reply[d]
        /\ observed'[d] = observed[d]

\* A slot whose locals, and whose claim, a step leaves alone stays as it was.
LEMMA CallKept ==
    ASSUME NEW d \in Calls, CallOK(d),
           pc'[d] = pc[d], req'[d] = req[d], found'[d] = found[d],
           reply'[d] = reply[d], observed'[d] = observed[d],
           claims' = claims, created \subseteq created'
    PROVE  CallOK(d)'
BY DEF CallOK, InFlight, ClaimNamed, Configs

\* A slot that is idle again satisfies the invariant.
LEMMA IdleOK ==
    ASSUME NEW c \in Calls, pc'[c] = "idle", reply'[c] = NoReply
    PROVE  CallOK(c)'
BY DEF CallOK, NoReply, Failed

LEMMA CallStep ==
    ASSUME IInv, [Next]_vars, NEW d \in Calls
    PROVE  CallOK(d)'
<1> USE ConstantsAssumption DEF IInv, TypeOK, InFlight
<1>1. ASSUME NEW c \in Calls, NEW r \in Request, CreateVolume(c, r)
      PROVE  CallOK(d)'
  <2>1. r.name \in Names \cup {EmptyName} /\ r # NULL
    BY DEF Request
  <2>2. OthersKept(c) /\ claims' = claims /\ created' = created
    BY <1>1 DEF CreateVolume, LookupExisting, LookupInvalid, LookupMissing, Begin,
                Respond, OthersKept, co
  <2>3. CASE d # c
    BY <2>2, <2>3, CallKept DEF OthersKept
  <2>4. CASE d = c
    <3>1. pc[c] = "idle" /\ req'[c] = r /\ observed'[c] = Configs(ClaimNamed(r.name))
      BY <1>1 DEF CreateVolume, LookupExisting, LookupInvalid, LookupMissing, Begin, MayCall
    <3>2. CASE LookupExisting(c, r)
      <4>1. [name |-> r.name, volume |-> volumes[r.name]] \in created
        BY <2>1, <3>2 DEF LookupExisting, CreatedOK, Registered
      <4>2. pc'[c] = "done" /\ reply'[c] = Succeeded(volumes[r.name])
        BY <3>2 DEF LookupExisting, Respond
      <4>3. QED
        BY <2>2, <2>4, <3>1, <4>1, <4>2 DEF CallOK, Succeeded
    <3>3. CASE LookupInvalid(c, r)
      BY <2>4, <3>3 DEF LookupInvalid, Respond, Failed, CallOK
    <3>4. CASE LookupMissing(c, r)
      <4>1. pc'[c] = "listing" /\ reply'[c] = reply[c] /\ r.name \in Names
            /\ UidOf[r.name] \in Uids
        BY <2>1, <3>4 DEF LookupMissing
      <4>2. reply[c].status # "ok"
        BY <3>1 DEF CallOK
      <4>3. ClaimNamed(r.name)' = ClaimNamed(r.name)
        BY <2>2 DEF ClaimNamed
      <4>4. Configs(ClaimNamed(r.name))' = Configs(ClaimNamed(r.name))
        BY <4>3 DEF Configs
      <4>5. QED
        BY <2>4, <3>1, <4>1, <4>2, <4>4 DEF CallOK
    <3>5. QED
      BY <1>1, <3>2, <3>3, <3>4 DEF CreateVolume
  <2>5. QED
    BY <2>3, <2>4
<1>2. ASSUME NEW c \in Calls, ListClaims(c)
      PROVE  CallOK(d)'
  <2>1. OthersKept(c) /\ claims' = claims /\ created' = created
    BY <1>2 DEF ListClaims, OthersKept, co
  <2>2. CASE d # c
    BY <2>1, <2>2, CallKept DEF OthersKept
  <2>3. CASE d = c
    <3>1. pc[c] = "listing" /\ pc'[c] = "listed" /\ req'[c] = req[c]
          /\ reply'[c] = reply[c] /\ observed'[c] = observed[c]
      BY <1>2 DEF ListClaims
    <3>2. found'[c] \in {NULL, ClaimNamed(req[c].name)}
      BY <1>2, <3>1 DEF ListClaims, FindClaim, ClaimNamed, CallOK
    <3>3. Configs(NULL) = {}
      BY DEF Configs
    <3>4. QED
      BY <2>1, <2>3, <3>1, <3>2, <3>3 DEF CallOK
  <2>4. QED
    BY <2>2, <2>3
<1>3. ASSUME NEW c \in Calls, RejectClaim(c) \/ ListClaimsFails(c)
      PROVE  CallOK(d)'
  <2>1. OthersKept(c) /\ claims' = claims /\ created' = created
    BY <1>3 DEF RejectClaim, ListClaimsFails, Respond, OthersKept, co
  <2>2. CASE d # c
    BY <2>1, <2>2, CallKept DEF OthersKept
  <2>3. CASE d = c
    BY <1>3, <2>3 DEF RejectClaim, ListClaimsFails, Respond, Failed, CallOK
  <2>4. QED
    BY <2>2, <2>3
<1>4. ASSUME NEW c \in Calls, InsertVolume(c)
      PROVE  CallOK(d)'
  <2>1. OthersKept(c) /\ claims' = claims /\ created \subseteq created'
    BY <1>4 DEF InsertVolume, Respond, OthersKept, co
  <2>2. CASE d # c
    BY <2>1, <2>2, CallKept DEF OthersKept
  <2>3. CASE d = c
    <3>1. pc'[c] = "done" /\ req'[c] = req[c]
      BY <1>4 DEF InsertVolume, Respond
    <3>2. \E v : reply'[c] = Succeeded(v) /\ [name |-> req[c].name, volume |-> v] \in created'
      BY <1>4 DEF InsertVolume, Respond
    <3>3. QED
      BY <2>3, <3>1, <3>2 DEF CallOK, Succeeded
  <2>4. QED
    BY <2>2, <2>3
<1>5. ASSUME NEW c \in Calls, Receive(c) \/ Cancel(c)
      PROVE  CallOK(d)'
  <2>1. OthersKept(c) /\ claims' = claims /\ created' = created
    BY <1>5 DEF Receive, Cancel, Forget, OthersKept, co
  <2>2. pc'[c] = "idle" /\ reply'[c] = NoReply
    BY <1>5 DEF Receive, Cancel, Forget
  <2>3. CASE d # c
    BY <2>1, <2>3, CallKept DEF OthersKept
  <2>4. QED
    BY <2>2, <2>3, IdleOK
<1>6. CASE CoDeletes
  BY <1>6, CallKept DEF CoDeletes, DeleteVolume
<1>7. CASE Restart
  BY <1>7, IdleOK DEF Restart
<1>8. ASSUME NEW u \in Uids, NEW claim \in Claim \cup {GONE}, SetClaim(u, claim)
      PROVE  CallOK(d)'
  <2>1. UNCHANGED service /\ created' = created
    BY <1>8 DEF SetClaim, co
  <2>2. observed[d] \subseteq observed'[d]
    BY <1>8 DEF SetClaim
  <2>3. Configs(found[d])' = Configs(found[d])
    BY <2>1 DEF Configs, service
  <2>4. ASSUME pc[d] = "listing"
        PROVE  Configs(ClaimNamed(req[d].name))' \subseteq observed'[d]
    <3>1. req[d].name \in Names /\ UidOf[req[d].name] \in Uids
      BY <2>4 DEF CallOK
    <3>2. CASE UidOf[req[d].name] = u
      <4>1. ClaimNamed(req[d].name)' = claim
        BY <1>8, <2>1, <3>1, <3>2 DEF SetClaim, ClaimNamed, service
      <4>2. Configs(claim) \subseteq observed'[d]
        BY <1>8, <2>4, <3>1, <3>2 DEF SetClaim
      <4>3. QED
        BY <4>1, <4>2 DEF Configs
    <3>3. CASE UidOf[req[d].name] # u
      <4>1. ClaimNamed(req[d].name)' = ClaimNamed(req[d].name)
        BY <1>8, <2>1, <3>1, <3>3 DEF SetClaim, ClaimNamed, service
      <4>2. Configs(ClaimNamed(req[d].name))' = Configs(ClaimNamed(req[d].name))
        BY <4>1 DEF Configs
      <4>3. QED
        BY <2>2, <2>4, <4>2 DEF CallOK
    <3>4. QED
      BY <3>2, <3>3
  <2>5. QED
    BY <2>1, <2>2, <2>3, <2>4 DEF CallOK, service
<1>9. CASE UNCHANGED vars
  BY <1>9, CallKept DEF vars, co
<1>10. QED
  BY <1>1, <1>2, <1>3, <1>4, <1>5, <1>6, <1>7, <1>8, <1>9
     DEF Next, Handler, WriteClaim, DeleteClaim

\* What InsertVolume registers: a volume of its request's name, with a new id.
LEMMA Inserted ==
    ASSUME IInv, NEW c \in Calls, InsertVolume(c)
    PROVE  \E v \in Volume :
             /\ v.id \notin UsedIds
             /\ v.context \in observed[c]
             /\ volumes' = [volumes EXCEPT ![req[c].name] = v]
             /\ created' = created \cup {[name |-> req[c].name, volume |-> v]}
             /\ reply' = [reply EXCEPT ![c] = Succeeded(v)]
             /\ req[c].name \in Names
<1> USE ConstantsAssumption DEF IInv, TypeOK
<1>1. req[c] \in Request /\ req[c].name \in Names
  BY DEF InsertVolume, CallOK, InFlight
<1>2. found[c] \in Claim /\ HasConfig(found[c])
  BY DEF InsertVolume
<1>3. ConfigFromPvcMeta(found[c]) \in Contexts \cap observed[c]
  BY <1>2, ConfigsTyped DEF InsertVolume, CallOK
<1>4. OrElse(req[c].capacity, DefaultCapacity) \in Capacities \cup {DefaultCapacity}
  BY <1>1 DEF OrElse, Request
<1>5. PICK id \in VolumeIds \ UsedIds :
        LET volume == [id       |-> id,
                       capacity |-> OrElse(req[c].capacity, DefaultCapacity),
                       context  |-> ConfigFromPvcMeta(found[c])]
        IN  /\ volumes' = [volumes EXCEPT ![req[c].name] = volume]
            /\ created' = created \cup {[name |-> req[c].name, volume |-> volume]}
            /\ Respond(c, Succeeded(volume))
  BY DEF InsertVolume
<1> DEFINE volume == [id       |-> id,
                      capacity |-> OrElse(req[c].capacity, DefaultCapacity),
                      context  |-> ConfigFromPvcMeta(found[c])]
<1>6. volume \in Volume /\ volume.id \notin UsedIds /\ volume.context \in observed[c]
  BY <1>3, <1>4, <1>5 DEF Volume
<1>7. /\ volumes' = [volumes EXCEPT ![req[c].name] = volume]
      /\ created' = created \cup {[name |-> req[c].name, volume |-> volume]}
      /\ reply' = [reply EXCEPT ![c] = Succeeded(volume)]
  BY <1>5 DEF Respond
<1> HIDE DEF volume
<1>8. QED
  BY <1>1, <1>6, <1>7

LEMMA CreatedStep ==
    ASSUME IInv, [Next]_vars
    PROVE  CreatedOK'
<1> USE ConstantsAssumption DEF IInv, TypeOK, CreatedOK, Registered, UsedIds
<1>1. ASSUME NEW c \in Calls, NEW r \in Request, CreateVolume(c, r)
      PROVE  CreatedOK'
  BY <1>1 DEF CreateVolume, LookupExisting, LookupInvalid, LookupMissing, Begin, co
<1>2. ASSUME NEW c \in Calls, ListClaims(c) \/ RejectClaim(c) \/ ListClaimsFails(c) \/ Cancel(c)
      PROVE  CreatedOK'
  BY <1>2 DEF ListClaims, RejectClaim, ListClaimsFails, Cancel, co
<1>3. ASSUME NEW c \in Calls, InsertVolume(c)
      PROVE  CreatedOK'
  <2>1. PICK v \in Volume :
          /\ v.id \notin UsedIds
          /\ volumes' = [volumes EXCEPT ![req[c].name] = v]
          /\ created' = created \cup {[name |-> req[c].name, volume |-> v]}
          /\ req[c].name \in Names
    BY <1>3, Inserted
  <2>2. answers' = answers /\ deleted' = deleted
    BY <1>3 DEF InsertVolume, co
  <2>3. \A d, e \in created' : d.volume.id = e.volume.id => d = e
    BY <2>1
  <2>4. \A n \in Names : volumes'[n] # NULL => [name |-> n, volume |-> volumes'[n]] \in created'
    BY <2>1
  <2>5. QED
    BY <2>1, <2>2, <2>3, <2>4
<1>4. ASSUME NEW c \in Calls, Receive(c)
      PROVE  CreatedOK'
  BY <1>4 DEF Receive, CallOK
<1>5. CASE CoDeletes
  <2>1. PICK a \in answers : DeleteVolume(a.volume.id)
    BY <1>5 DEF CoDeletes
  <2>2. QED
    BY <2>1 DEF DeleteVolume
<1>6. CASE Restart
  BY <1>6 DEF Restart, co
<1>7. ASSUME NEW u \in Uids, NEW claim \in Claim \cup {GONE}, SetClaim(u, claim)
      PROVE  CreatedOK'
  BY <1>7 DEF SetClaim, service, co
<1>8. CASE UNCHANGED vars
  BY <1>8 DEF vars, co
<1>9. QED
  BY <1>1, <1>2, <1>3, <1>4, <1>5, <1>6, <1>7, <1>8
     DEF Next, Handler, WriteClaim, DeleteClaim

-----------------------------------------------------------------------------
(* What holds with any number of concurrent calls, faults and restarts *)

\* The inductive invariant holds always.
THEOREM Invariance == Spec => []IInv
<1>1. IInv /\ [Next]_vars => IInv'
  BY TypeStep, CallStep, CreatedStep DEF IInv
<1>2. QED
  BY InitIInv, <1>1, PTL DEF Spec

\* Every variable holds what its declaration says; a slot has a request
\* exactly while a handler runs in it.
THEOREM TypeCorrect == Spec => []TypeOK
<1>1. IInv => TypeOK
  BY DEF IInv
<1>2. QED
  BY Invariance, <1>1, PTL

\* An id the CO was given names one volume for ever: the volume_context of a
\* volume_id that create_volume answered never changes.
THEOREM IdsAreUnique == Spec => []IdsNameOneVolume
<1>1. IInv => IdsNameOneVolume
  BY DEF IInv, CreatedOK, IdsNameOneVolume
<1>2. QED
  BY Invariance, <1>1, PTL

\* A new volume's context was offered by the claim of its name during the call.
THEOREM ContextsComeFromClaims == Spec => ContextFromClaim
<1>1. IInv /\ [Next]_vars =>
        [\A e \in created' \ created :
           \E c \in Calls : /\ InFlight(c)
                            /\ req[c].name = e.name
                            /\ e.volume.context \in observed[c]]_vars
  <2> SUFFICES ASSUME IInv, [Next]_vars, NEW e \in created' \ created
               PROVE  \E c \in Calls : /\ InFlight(c)
                                       /\ req[c].name = e.name
                                       /\ e.volume.context \in observed[c]
    OBVIOUS
  <2>1. PICK c \in Calls : InsertVolume(c)
    BY DEF Next, vars, CreateVolume, LookupExisting, LookupInvalid, LookupMissing, Begin,
           Handler, ListClaims, RejectClaim, ListClaimsFails, Receive, Cancel, CoDeletes,
           DeleteVolume, Restart, WriteClaim, DeleteClaim, SetClaim
  <2>2. PICK v \in Volume :
          /\ v.context \in observed[c]
          /\ created' = created \cup {[name |-> req[c].name, volume |-> v]}
    BY <2>1, Inserted
  <2>3. InFlight(c)
    BY <2>1 DEF InsertVolume, InFlight
  <2>4. QED
    BY <2>2, <2>3
<1>2. QED
  BY Invariance, <1>1, PTL DEF Spec, ContextFromClaim

-----------------------------------------------------------------------------
(* One call per volume in flight, and no restart *)

\* A slot whose request and reply, and whose name's volume, are left alone.
LEMMA SerialCallKept ==
    ASSUME NEW d \in Calls, SerialCallOK(d), pc'[d] = pc[d], req'[d] = req[d],
           reply'[d] = reply[d], volumes'[req[d].name] = volumes[req[d].name],
           \A e \in Calls \ {d} : InFlight(d) /\ InFlight(e)' => req'[e].name # req[d].name
    PROVE  SerialCallOK(d)'
BY DEF SerialCallOK, InFlight, Registered

LEMMA InitSerial == Init => SerialInv
BY DEF Init, SerialInv, SerialCallOK, CreatedKept, InFlight, Registered

LEMMA SerialStep ==
    ASSUME NoRestart, IInv, SerialInv, [Next]_vars
    PROVE  SerialInv'
<1> USE ConstantsAssumption DEF NoRestart, IInv, TypeOK, SerialInv, InFlight, Registered
<1>1. ASSUME NEW c \in Calls, NEW r \in Request, CreateVolume(c, r)
      PROVE  SerialInv'
  <2>1. /\ pc[c] = "idle" /\ pc'[c] # "idle" /\ req' = [req EXCEPT ![c] = r]
        /\ OthersKept(c) /\ UNCHANGED <<volumes, created, deleted>>
        /\ \A e \in Calls : InFlight(e) => req[e].name # r.name
    BY <1>1 DEF CreateVolume, LookupExisting, LookupInvalid, LookupMissing, Begin,
                MayCall, Quiet, Respond, OthersKept, co
  <2>2. ASSUME NEW d \in Calls, d # c
        PROVE  SerialCallOK(d)'
    BY <2>1, <2>2 DEF SerialCallOK, OthersKept
  <2>3. SerialCallOK(c)'
    <3>1. \A d \in Calls : InFlight(d)' /\ c # d => req'[c].name # req'[d].name
      BY <2>1 DEF OthersKept
    <3>2. CASE LookupExisting(c, r)
      BY <2>1, <3>1, <3>2 DEF LookupExisting, Respond, Succeeded, SerialCallOK
    <3>3. CASE LookupInvalid(c, r)
      BY <2>1, <3>1, <3>3 DEF LookupInvalid, Respond, Failed, SerialCallOK
    <3>4. CASE LookupMissing(c, r)
      BY <2>1, <3>1, <3>4 DEF LookupMissing, SerialCallOK
    <3>5. QED
      BY <1>1, <3>2, <3>3, <3>4 DEF CreateVolume
  <2>4. CreatedKept'
    BY <2>1 DEF CreatedKept
  <2>5. QED
    BY <2>2, <2>3, <2>4
<1>2. ASSUME NEW c \in Calls,
             ListClaims(c) \/ RejectClaim(c) \/ ListClaimsFails(c) \/ Receive(c) \/ Cancel(c)
      PROVE  SerialInv'
  <2>1. /\ pc[c] # "idle" /\ OthersKept(c) /\ UNCHANGED <<volumes, created, deleted>>
        /\ pc'[c] # "idle" => req' = req
    BY <1>2 DEF ListClaims, RejectClaim, ListClaimsFails, Receive, Cancel, Forget,
                Respond, OthersKept, co
  <2>2. ASSUME NEW d \in Calls, d # c
        PROVE  SerialCallOK(d)'
    BY <2>1, <2>2 DEF SerialCallOK, OthersKept
  <2>3. SerialCallOK(c)'
    <3>1. \A d \in Calls : InFlight(c)' /\ InFlight(d)' /\ c # d => req'[c].name # req'[d].name
      BY <2>1 DEF SerialCallOK, OthersKept
    <3>2. CASE ListClaims(c)
      BY <2>1, <3>1, <3>2 DEF ListClaims, SerialCallOK
    <3>3. CASE RejectClaim(c)
      BY <2>1, <3>1, <3>3 DEF RejectClaim, Respond, Failed, SerialCallOK
    <3>4. CASE ListClaimsFails(c)
      BY <2>1, <3>1, <3>4 DEF ListClaimsFails, Respond, Failed, SerialCallOK
    <3>5. CASE Receive(c) \/ Cancel(c)
      BY <3>5 DEF Receive, Cancel, Forget, SerialCallOK
    <3>6. QED
      BY <1>2, <3>2, <3>3, <3>4, <3>5
  <2>4. CreatedKept'
    BY <2>1 DEF CreatedKept
  <2>5. QED
    BY <2>2, <2>3, <2>4
<1>3. ASSUME NEW c \in Calls, InsertVolume(c)
      PROVE  SerialInv'
  <2>1. PICK v \in Volume :
          /\ v.id \notin UsedIds
          /\ volumes' = [volumes EXCEPT ![req[c].name] = v]
          /\ created' = created \cup {[name |-> req[c].name, volume |-> v]}
          /\ reply' = [reply EXCEPT ![c] = Succeeded(v)]
          /\ req[c].name \in Names
    BY <1>3, Inserted
  <2>2. /\ pc[c] = "listed" /\ pc' = [pc EXCEPT ![c] = "done"]
        /\ req' = req /\ deleted' = deleted
    BY <1>3 DEF InsertVolume, Respond, co
  <2>3. ~Registered(req[c].name)
    BY <2>2 DEF SerialCallOK
  <2>4. ASSUME NEW d \in Calls, d # c
        PROVE  SerialCallOK(d)'
    <3>1. CASE pc[d] = "idle"
      BY <2>1, <2>2, <2>4, <3>1 DEF SerialCallOK
    <3>2. CASE pc[d] # "idle"
      <4>1. req[d].name # req[c].name
        BY <2>2, <2>4, <3>2 DEF SerialCallOK
      <4>2. volumes'[req[d].name] = volumes[req[d].name]
        BY <2>1, <4>1
      <4>3. QED
        BY <2>1, <2>2, <2>4, <4>2 DEF SerialCallOK
    <3>3. QED
      BY <3>1, <3>2
  <2>5. SerialCallOK(c)'
    BY <2>1, <2>2 DEF SerialCallOK, Succeeded
  <2>6. CreatedKept'
    <3>1. ASSUME NEW e \in created', e.volume.id \notin deleted
          PROVE  volumes'[e.name] = e.volume
      <4>1. CASE e \in created
        <5>1. e.name \in Names /\ e.volume \in Volume /\ volumes[e.name] = e.volume
          BY <3>1, <4>1 DEF CreatedKept, Entry
        <5>2. e.name # req[c].name
          BY <2>3, <5>1
        <5>3. QED
          BY <2>1, <5>1, <5>2
      <4>2. CASE e \notin created
        BY <2>1, <4>2
      <4>3. QED
        BY <4>1, <4>2
    <3>2. v.id \notin deleted
      BY <2>1 DEF CreatedOK
    <3>3. ASSUME NEW n \in Names, volumes'[n] # NULL
          PROVE  volumes'[n].id \notin deleted
      BY <2>1, <3>2, <3>3 DEF CreatedKept
    <3>4. QED
      BY <2>2, <3>1, <3>3 DEF CreatedKept
  <2>7. QED
    BY <2>4, <2>5, <2>6
<1>4. CASE CoDeletes
  <2>1. PICK a \in answers : Quiet(a.name) /\ DeleteVolume(a.volume.id)
    BY <1>4 DEF CoDeletes
  <2>2. a \in created /\ a.name \in Names
    BY DEF CreatedOK, Entry
  <2>3. ASSUME NEW n \in Names, volumes[n] # NULL, volumes[n].id = a.volume.id
        PROVE  n = a.name
    <3> DEFINE e == [name |-> n, volume |-> volumes[n]]
    <3>1. e \in created
      BY <2>3 DEF CreatedOK
    <3>2. e.volume.id = a.volume.id /\ e.name = n
      BY <2>3
    <3> HIDE DEF e
    <3>3. e = a
      BY <2>2, <3>1, <3>2 DEF CreatedOK
    <3>4. QED
      BY <3>2, <3>3
  <2>4. UNCHANGED <<pc, req, reply, created>> /\ deleted' = deleted \cup {a.volume.id}
        /\ volumes' = [n \in Names |->
              IF volumes[n] # NULL /\ volumes[n].id = a.volume.id THEN NULL ELSE volumes[n]]
    BY <2>1 DEF DeleteVolume
  <2>5. ASSUME NEW d \in Calls
        PROVE  SerialCallOK(d)'
    <3>1. CASE pc[d] = "idle"
      BY <2>4, <3>1 DEF SerialCallOK
    <3>2. CASE pc[d] # "idle" /\ req[d].name \in Names
      <4>1. req[d].name # a.name
        BY <2>1, <3>2 DEF Quiet
      <4>2. volumes'[req[d].name] = volumes[req[d].name]
        BY <2>3, <2>4, <3>2, <4>1
      <4>3. QED
        BY <2>4, <4>2 DEF SerialCallOK
    <3>3. CASE pc[d] # "idle" /\ req[d].name \notin Names
      <4>1. req[d].name = EmptyName /\ pc[d] = "done" /\ reply[d].status # "ok"
        BY <3>3 DEF CallOK, Entry, Request
      <4>2. QED
        BY <2>4, <4>1 DEF SerialCallOK
    <3>4. QED
      BY <3>1, <3>2, <3>3
  <2>6. CreatedKept'
    BY <2>4 DEF CreatedKept, Entry, Volume
  <2>7. QED
    BY <2>5, <2>6
<1>5. CASE Restart
  BY <1>5 DEF Restart, Fault
<1>6. ASSUME NEW u \in Uids, NEW claim \in Claim \cup {GONE}, SetClaim(u, claim)
      PROVE  SerialInv'
  BY <1>6 DEF SetClaim, service, co, SerialCallOK, CreatedKept
<1>7. CASE UNCHANGED vars
  BY <1>7 DEF vars, co, SerialCallOK, CreatedKept
<1>8. QED
  BY <1>1, <1>2, <1>3, <1>4, <1>5, <1>6, <1>7
     DEF Next, Handler, WriteClaim, DeleteClaim

\* The invariant of the serial service holds always.
LEMMA SerialInvariance ==
    ASSUME NoRestart
    PROVE  Spec => []SerialInv
<1>1. IInv /\ SerialInv /\ [Next]_vars => SerialInv'
  BY NoRestart, SerialStep
<1>2. QED
  BY InitSerial, Invariance, <1>1, PTL DEF Spec

\* No two undeleted volumes of one name exist: create_volume is idempotent.
THEOREM CreateIsIdempotent ==
    ASSUME NoRestart
    PROVE  Spec => []OneVolumePerName
<1>1. IInv /\ SerialInv => OneVolumePerName
  <2> SUFFICES ASSUME IInv, SerialInv, NEW d \in created, NEW e \in created,
                      d.name = e.name, d.volume.id \notin deleted, e.volume.id \notin deleted
               PROVE  d = e
    BY DEF OneVolumePerName
  <2>1. d.volume = volumes[d.name] /\ e.volume = volumes[e.name]
    BY DEF SerialInv, CreatedKept
  <2>2. QED
    BY <2>1 DEF IInv, CreatedOK
<1>2. QED
  BY Invariance, SerialInvariance, <1>1, PTL

\* What the CO was told of and did not delete is what the service holds.
THEOREM AnswersAreKept ==
    ASSUME NoRestart
    PROVE  Spec => []AnswersKept
<1>1. IInv /\ SerialInv => AnswersKept
  BY DEF IInv, CreatedOK, SerialInv, CreatedKept, AnswersKept
<1>2. QED
  BY Invariance, SerialInvariance, <1>1, PTL

\* No OK answer tells a volume that the CO has deleted.
THEOREM DeletedStaysDeleted ==
    ASSUME NoRestart
    PROVE  Spec => []NoDeletedAnswer
<1>1. IInv /\ SerialInv => NoDeletedAnswer
  <2> SUFFICES ASSUME IInv, SerialInv, NEW c \in Calls,
                      pc[c] = "done", reply[c].status = "ok"
               PROVE  reply[c].volume.id \notin deleted
    BY DEF NoDeletedAnswer
  <2>1. volumes[req[c].name] = reply[c].volume
    BY DEF SerialInv, SerialCallOK
  <2>2. [name |-> req[c].name, volume |-> reply[c].volume] \in Entry
    BY DEF IInv, TypeOK, CallOK
  <2>3. req[c].name \in Names /\ reply[c].volume # NULL
    BY <2>2, ConstantsAssumption DEF Entry
  <2>4. QED
    BY <2>1, <2>3 DEF SerialInv, CreatedKept, Registered
<1>2. QED
  BY Invariance, SerialInvariance, <1>1, PTL

\* A failed create_volume left no volume of its name behind.
THEOREM ErrorsAreClean ==
    ASSUME NoRestart
    PROVE  Spec => []ErrorsLeaveNothing
<1>1. SerialInv => ErrorsLeaveNothing
  BY DEF SerialInv, SerialCallOK, ErrorsLeaveNothing
<1>2. QED
  BY SerialInvariance, <1>1, PTL

-----------------------------------------------------------------------------
(***************************************************************************)
(* The serial service implements the registry: InsertVolume is Register,   *)
(* the Receive of an OK response is Tell, DeleteVolume is Remove, and      *)
(* every other step stutters.                                              *)
(***************************************************************************)
LEMMA RegistryStep ==
    ASSUME NoRestart, IInv, SerialInv, [Next]_vars
    PROVE  [Registry!Next]_(Registry!vars)
<1> USE ConstantsAssumption DEF NoRestart, IInv, TypeOK, SerialInv, InFlight, Registered
<1>1. ASSUME NEW c \in Calls, InsertVolume(c)
      PROVE  \E n \in Names, v \in Volume : Registry!Register(n, v)
  <2>1. PICK v \in Volume :
          /\ v.id \notin UsedIds
          /\ volumes' = [volumes EXCEPT ![req[c].name] = v]
          /\ created' = created \cup {[name |-> req[c].name, volume |-> v]}
          /\ req[c].name \in Names
    BY <1>1, Inserted
  <2>2. volumes[req[c].name] = NULL /\ UNCHANGED <<answers, deleted>>
    BY <1>1 DEF InsertVolume, SerialCallOK, co
  <2>3. \A e \in created : e.volume.id # v.id
    BY <2>1 DEF UsedIds
  <2>4. Registry!Register(req[c].name, v)
    BY <2>1, <2>2, <2>3 DEF Registry!Register
  <2>5. QED
    BY <2>1, <2>4
<1>2. ASSUME NEW c \in Calls, Receive(c), reply[c].status = "ok"
      PROVE  \E n \in Names : Registry!Tell(n)
  <2>1. /\ req[c].name \in Names
        /\ reply[c].volume \in Volume
        /\ volumes[req[c].name] = reply[c].volume
    BY <1>2 DEF Receive, CallOK, SerialCallOK, Entry
  <2>2. Registry!Tell(req[c].name)
    BY <1>2, <2>1 DEF Receive, Registry!Tell
  <2>3. QED
    BY <2>1, <2>2
<1>3. ASSUME CoDeletes
      PROVE  \E e \in answers : Registry!Remove(e.volume.id)
  BY <1>3 DEF CoDeletes, DeleteVolume, Registry!Remove
<1>4. ASSUME NEW c \in Calls, Receive(c), reply[c].status # "ok"
      PROVE  UNCHANGED <<volumes, created, answers, deleted>>
  BY <1>4 DEF Receive
<1>5. ASSUME NEW c \in Calls, NEW r \in Request, CreateVolume(c, r)
      PROVE  UNCHANGED <<volumes, created, answers, deleted>>
  BY <1>5 DEF CreateVolume, LookupExisting, LookupInvalid, LookupMissing, Begin, co
<1>6. ASSUME NEW c \in Calls, ListClaims(c) \/ RejectClaim(c) \/ ListClaimsFails(c) \/ Cancel(c)
      PROVE  UNCHANGED <<volumes, created, answers, deleted>>
  BY <1>6 DEF ListClaims, RejectClaim, ListClaimsFails, Cancel, co
<1>7. ~Restart
  BY DEF Restart, Fault
<1>8. ASSUME NEW u \in Uids, NEW claim \in Claim \cup {GONE}, SetClaim(u, claim)
      PROVE  UNCHANGED <<volumes, created, answers, deleted>>
  BY <1>8 DEF SetClaim, service, co
<1>9. CASE UNCHANGED vars
  BY <1>9 DEF vars, co, Registry!vars
<1>10. QED
  BY <1>1, <1>2, <1>3, <1>4, <1>5, <1>6, <1>7, <1>8, <1>9
     DEF Next, Handler, WriteClaim, DeleteClaim, Registry!Next, Registry!vars

\* With one call per volume in flight and no restart, the controller service
\* implements the volume registry.
THEOREM ImplementsTheRegistry ==
    ASSUME NoRestart
    PROVE  Spec => ImplementsRegistry
<1>1. Init => Registry!Init
  BY DEF Init, Registry!Init
<1>2. IInv /\ SerialInv /\ [Next]_vars => [Registry!Next]_(Registry!vars)
  BY NoRestart, RegistryStep
<1>3. QED
  BY Invariance, SerialInvariance, <1>1, <1>2, PTL DEF Spec, ImplementsRegistry, Registry!Spec

=============================================================================
