--------------------------- MODULE PluginProcess ----------------------------
(***************************************************************************)
(* The processes that take turns at one CSI endpoint, src/src/main.rs and  *)
(* run in src/src/resource/controller.rs: the socket file, the servers,    *)
(* the start of the reconcilers, signals, and the clients at the socket.   *)
(*                                                                         *)
(* A controller's socket is in a directory of its pod, where one process   *)
(* runs at a time.  A node's is in a directory of the host: the process of *)
(* a pod that is deleted by force (the outcast) may overlap with the next. *)
(*                                                                         *)
(* The process waits for SIGINT; kube-runtime stops the reconcilers on     *)
(* SIGINT and SIGTERM.  Nothing else handles SIGTERM, so a pod that is     *)
(* deleted ends by SIGKILL, after its grace period.                        *)
(*                                                                         *)
(* A client that connects waits in the listener's backlog, and may have    *)
(* written its call already, until the server accepts it; a server that    *)
(* was interrupted accepts nobody, and whoever waits there is dropped.     *)
(*                                                                         *)
(* External: Kubernetes (containers, signals, custom resources), clients   *)
(* (sidecars and kubelet), the kernel's sockets, kube-runtime, and tonic,  *)
(* whose server accepts until the signal, then waits for the calls it has  *)
(* accepted, and only then drops its listener.                             *)
(***************************************************************************)
EXTENDS CsiCalls, Naturals, Sequences

CONSTANTS
    Procs,      \* processes that may run at a time
    Clients,
    FaultKinds, \* the faults that may happen, see AllFaults
    MaxFaults,  \* bound on the number of faults
    NULL

AllFaults == {"kill", "term", "int", "force", "panic", "crd"}

ASSUME ConstantsAssumption ==
    /\ MaxFaults \in Nat
    /\ FaultKinds \subseteq AllFaults
    /\ NULL \notin Procs
    /\ {"none", "stale"} \cap Procs = {}

\* The kinds in the order in which run asks for them.
Kinds == <<"DataNode", "DataPod", "DataReplicaSet">>
KindSet == {"DataNode", "DataPod", "DataReplicaSet"}

VARIABLES
    role,    \* role of the endpoint, from --node-id
    pc,      \* pc[p]: where main is, "none" if no process
    recon,   \* recon[p]: what run does
    termed,  \* processes of deleted pods
    outcast, \* the process of a pod deleted by force, or NULL
    file,    \* whose socket the path leads to, "none", or "stale"
    robbed,  \* processes whose socket file the outcast removed
    crds,    \* kinds that can be queried
    conn,    \* conn[c]: the process that client c is connected to, or NULL
    taken,   \* clients whose connections were accepted
    call,    \* call[c]: the method that c waits for, or NULL
    step,    \* step[c]: how far the handshake of c is
    known,   \* known[c]: capabilities c was told
    refused, \* methods that were answered as not implemented
    faults   \* number of faults so far

procVars == <<pc, recon, termed, outcast, file, robbed>>
clientVars == <<conn, taken, call, step, known, refused>>
vars == <<role, crds, faults, procVars, clientVars>>

Listening == {"bound", "serve", "drain"}
Alive == {p \in Procs : pc[p] # "none"}

-----------------------------------------------------------------------------
Init ==
    /\ role \in Roles
    /\ pc = [p \in Procs |-> "none"]
    /\ recon = [p \in Procs |-> "none"]
    /\ termed = {}
    /\ outcast = NULL
    /\ file \in {"none", "stale"}
    /\ robbed = {}
    /\ crds \in {KindSet, KindSet \ {"DataPod"}}
    /\ conn = [c \in Clients |-> NULL]
    /\ taken = {}
    /\ call = [c \in Clients |-> NULL]
    /\ step = [c \in Clients |-> 0]
    /\ known = [c \in Clients |-> {}]
    /\ refused = {}
    /\ faults = 0

Fault(kind) ==
    /\ kind \in FaultKinds
    /\ faults < MaxFaults
    /\ faults' = faults + 1

GoTo(p, label) == pc' = [pc EXCEPT ![p] = label]

\* The connections of p break, with what is called there.
CutOff(p) ==
    /\ conn' = [c \in Clients |-> IF conn[c] = p THEN NULL ELSE conn[c]]
    /\ taken' = {c \in taken : conn[c] # p}
    /\ call' = [c \in Clients |-> IF conn[c] = p THEN NULL ELSE call[c]]

\* p ends: its connections break, its socket file stays.
Dies(p) ==
    /\ GoTo(p, "none")
    /\ recon' = [recon EXCEPT ![p] = "none"]
    /\ termed' = termed \ {p}
    /\ outcast' = IF outcast = p THEN NULL ELSE outcast
    /\ robbed' = robbed \ {p}
    /\ CutOff(p)

\* The file that p removes is that of a later process.
Robs(p) == IF outcast = p /\ file \in Procs \ {p} THEN {file} ELSE {}

-----------------------------------------------------------------------------
(* main *)

Start(p) ==
    /\ Alive \subseteq {outcast}
    /\ p # outcast
    /\ GoTo(p, "look")
    /\ UNCHANGED <<role, crds, faults, recon, termed, outcast, file, robbed, clientVars>>

LookForOld(p) ==
    /\ pc[p] = "look"
    /\ GoTo(p, IF file = "none" THEN "bind" ELSE "remove")
    /\ UNCHANGED <<role, crds, faults, recon, termed, outcast, file, robbed, clientVars>>

RemoveOld(p) ==
    /\ pc[p] = "remove"
    /\ file # "none"
    /\ file' = "none"
    /\ robbed' = robbed \cup Robs(p)
    /\ GoTo(p, "bind")
    /\ UNCHANGED <<role, crds, faults, recon, termed, outcast, clientVars>>

\* Mutation of Bind: a file that is there is replaced.
BindOver(p) ==
    /\ pc[p] = "bind"
    /\ file' = p
    /\ GoTo(p, "bound")
    /\ UNCHANGED <<role, crds, faults, recon, termed, outcast, robbed, clientVars>>

Bind(p) ==
    /\ pc[p] = "bind"
    /\ file = "none"
    /\ file' = p
    /\ GoTo(p, "bound")
    /\ UNCHANGED <<role, crds, faults, recon, termed, outcast, robbed, clientVars>>

\* The file is gone that was there, or the other way round: main returns the error.
StartFails(p) ==
    /\ \/ pc[p] = "remove" /\ file = "none"
       \/ pc[p] = "bind" /\ file # "none"
    /\ Dies(p)
    /\ UNCHANGED <<role, crds, faults, file, step, known, refused>>

\* The services are made and the server begins; a controller spawns run.
Serve(p) ==
    /\ pc[p] = "bound"
    /\ GoTo(p, "serve")
    /\ recon' = [recon EXCEPT ![p] = IF role = "controller" THEN Kinds[1] ELSE "none"]
    /\ UNCHANGED <<role, crds, faults, termed, outcast, file, robbed, clientVars>>

\* Mutation of Drained: it waits for clients that it does not accept, too.
DrainedAll(p) ==
    /\ pc[p] = "drain"
    /\ \A c \in Clients : conn[c] = p => call[c] = NULL
    /\ GoTo(p, IF file = "none" THEN "exit" ELSE "unlink")
    /\ CutOff(p)
    /\ UNCHANGED <<role, crds, faults, recon, termed, outcast, file, robbed,
                   step, known, refused>>

\* When every call that was accepted is answered, the server is through.  The
\* calls in the backlog are not answered.
Drained(p) ==
    /\ pc[p] = "drain"
    /\ \A c \in taken : conn[c] = p => call[c] = NULL
    /\ GoTo(p, IF file = "none" THEN "exit" ELSE "unlink")
    /\ CutOff(p)
    /\ UNCHANGED <<role, crds, faults, recon, termed, outcast, file, robbed,
                   step, known, refused>>

Unlink(p) ==
    /\ pc[p] = "unlink"
    /\ file' = "none"
    /\ robbed' = robbed \cup Robs(p)
    /\ GoTo(p, "exit")
    /\ UNCHANGED <<role, crds, faults, recon, termed, outcast, clientVars>>

Exit(p) ==
    /\ pc[p] = "exit"
    /\ Dies(p)
    /\ UNCHANGED <<role, crds, faults, file, step, known, refused>>

-----------------------------------------------------------------------------
(* run *)

AfterKind(kind) ==
    CASE kind = "DataNode" -> "DataPod"
      [] kind = "DataPod" -> "DataReplicaSet"
      [] kind = "DataReplicaSet" -> "run"

CheckKind(p) ==
    /\ recon[p] \in crds
    /\ recon' = [recon EXCEPT ![p] = AfterKind(recon[p])]
    /\ UNCHANGED <<role, crds, faults, pc, termed, outcast, file, robbed, clientVars>>

\* Mutation of KindMissing: run returns, the process goes on without it.
KindMissingReturns(p) ==
    /\ recon[p] \in KindSet \ crds
    /\ recon' = [recon EXCEPT ![p] = "stopped"]
    /\ UNCHANGED <<role, crds, faults, pc, termed, outcast, file, robbed, clientVars>>

\* A kind that cannot be queried ends the process, calls and all.
KindMissing(p) ==
    /\ recon[p] \in KindSet \ crds
    /\ Dies(p)
    /\ file' = IF file = p THEN "stale" ELSE file
    /\ UNCHANGED <<role, crds, faults, step, known, refused>>

\* A reconciler panics, in the task of run.
Panic(p) ==
    /\ recon[p] = "run"
    /\ Fault("panic")
    /\ recon' = [recon EXCEPT ![p] = "panicked"]
    /\ UNCHANGED <<role, crds, pc, termed, outcast, file, robbed, clientVars>>

\* The signal handler of the reconcilers, there once they run.
StopReconcilers(p) ==
    recon' = [recon EXCEPT ![p] = IF @ = "run" THEN "stopped" ELSE @]

-----------------------------------------------------------------------------
(* The environment *)

\* SIGINT: nobody is accepted any more, and who was begins no new call.
Interrupt(p) ==
    /\ pc[p] = "serve"
    /\ Fault("int")
    /\ GoTo(p, "drain")
    /\ StopReconcilers(p)
    /\ UNCHANGED <<role, crds, termed, outcast, file, robbed, clientVars>>

\* The pod of p is deleted: SIGTERM.
DeletePod(p) ==
    /\ pc[p] # "none"
    /\ p \notin termed
    /\ Fault("term")
    /\ StopReconcilers(p)
    /\ termed' = termed \cup {p}
    /\ UNCHANGED <<role, crds, pc, outcast, file, robbed, clientVars>>

\* The same, and the next pod does not wait for the end of p.
ForceDeletePod(p) ==
    /\ role = "node"
    /\ pc[p] # "none"
    /\ outcast = NULL
    /\ Fault("force")
    /\ outcast' = p
    /\ StopReconcilers(p)
    /\ termed' = termed \cup {p}
    /\ UNCHANGED <<role, crds, pc, file, robbed, clientVars>>

\* SIGKILL.  The next pod of a controller has a directory of its own, and other
\* clients.
Kill(p) ==
    /\ pc[p] # "none"
    /\ \/ p \in termed /\ UNCHANGED faults
       \/ p \notin termed /\ Fault("kill")
    /\ Dies(p)
    /\ IF role = "controller" /\ p \in termed
       THEN /\ file' = "none"
            /\ step' = [c \in Clients |-> 0]
            /\ known' = [c \in Clients |-> {}]
       ELSE /\ file' = IF file = p THEN "stale" ELSE file
            /\ UNCHANGED <<step, known>>
    /\ UNCHANGED <<role, crds, refused>>

\* A kind is installed or removed, or the API server begins or ceases to answer.
KindChanges(kind) ==
    /\ Fault("crd")
    /\ crds' = IF kind \in crds THEN crds \ {kind} ELSE crds \cup {kind}
    /\ UNCHANGED <<role, procVars, clientVars>>

-----------------------------------------------------------------------------
(* Clients *)

\* Into the backlog, which is open as long as the listener is.
Connect(c) ==
    /\ conn[c] = NULL
    /\ file \in Procs
    /\ pc[file] \in Listening
    /\ conn' = [conn EXCEPT ![c] = file]
    /\ UNCHANGED <<role, crds, faults, procVars, taken, call, step, known, refused>>

\* The server takes the connection from the backlog.
Accept(c) ==
    /\ conn[c] # NULL
    /\ pc[conn[c]] = "serve"
    /\ c \notin taken
    /\ taken' = taken \cup {c}
    /\ UNCHANGED <<role, crds, faults, procVars, conn, call, step, known, refused>>

\* After the handshake, any call that its capabilities permit.
MayCall(c) ==
    IF step[c] < Len(Handshake(role)) THEN {Handshake(role)[step[c] + 1]}
    ELSE Permitted(role, known[c])

Call(c, m) ==
    /\ conn[c] # NULL
    /\ c \in taken => pc[conn[c]] = "serve"
    /\ call[c] = NULL
    /\ m \in MayCall(c)
    /\ call' = [call EXCEPT ![c] = m]
    /\ UNCHANGED <<role, crds, faults, procVars, conn, taken, step, known, refused>>

\* A server routes the call, the service answers it.  The probe is always ready.
Answer(c) ==
    /\ c \in taken
    /\ call[c] # NULL
    /\ call' = [call EXCEPT ![c] = NULL]
    /\ IF Refused(role, call[c])
       THEN /\ refused' = refused \cup {call[c]}
            /\ UNCHANGED <<known, step>>
       ELSE /\ known' = [known EXCEPT ![c] = @ \cup Told(call[c])]
            /\ step' = [step EXCEPT ![c] =
                    IF @ < Len(Handshake(role)) THEN @ + 1 ELSE @]
            /\ UNCHANGED refused
    /\ UNCHANGED <<role, crds, faults, procVars, conn, taken>>

-----------------------------------------------------------------------------
Main(p) ==
    \/ Start(p) \/ LookForOld(p) \/ RemoveOld(p) \/ Bind(p) \/ StartFails(p) \/ Serve(p)
    \/ Drained(p) \/ Unlink(p) \/ Exit(p)

Run(p) == CheckKind(p) \/ KindMissing(p)

Next ==
    \/ \E p \in Procs :
        \/ Main(p) \/ Run(p) \/ Panic(p)
        \/ Interrupt(p) \/ DeletePod(p) \/ ForceDeletePod(p) \/ Kill(p)
    \/ \E kind \in KindSet : KindChanges(kind)
    \/ \E c \in Clients :
        \/ Connect(c) \/ Accept(c) \/ Answer(c)
        \/ \E m \in IdentityCalls \cup ControllerCalls \cup NodeCalls : Call(c, m)

Spec == Init /\ [][Next]_vars

\* Processes and clients go on, a container that ended is started again, and a
\* deleted pod is killed in the end.  Nothing is assumed of faults.
Fairness ==
    /\ WF_vars(\E p \in Procs : Start(p))
    /\ \A p \in Procs :
        /\ WF_vars(Main(p) /\ ~Start(p))
        /\ WF_vars(Run(p))
        /\ WF_vars(p \in termed /\ Kill(p))
    /\ \A c \in Clients :
        /\ WF_vars(Connect(c))
        /\ WF_vars(Accept(c))
        /\ WF_vars(\E m \in MayCall(c) : Call(c, m))
        /\ WF_vars(Answer(c))

FairSpec == Spec /\ Fairness

-----------------------------------------------------------------------------
(* Properties *)

\* Every variable holds what its declaration says.
TypeOK ==
    /\ role \in Roles
    /\ pc \in [Procs -> {"none", "look", "remove", "bind", "bound", "serve",
                         "drain", "unlink", "exit"}]
    /\ recon \in [Procs -> KindSet \cup {"none", "run", "stopped", "panicked"}]
    /\ termed \subseteq Procs
    /\ outcast \in Procs \cup {NULL}
    /\ file \in Procs \cup {"none", "stale"}
    /\ robbed \subseteq Procs
    /\ crds \subseteq KindSet
    /\ conn \in [Clients -> Procs \cup {NULL}]
    /\ taken \subseteq Clients
    /\ call \in [Clients -> IdentityCalls \cup ControllerCalls \cup NodeCalls \cup {NULL}]
    /\ step \in [Clients -> 0 .. Len(Handshake(role))]
    /\ known \in [Clients -> SUBSET (PluginCapabilities \cup ControllerCapabilities
                                       \cup NodeCapabilities)]
    /\ refused \subseteq IdentityCalls \cup ControllerCalls \cup NodeCalls
    /\ faults \in 0 .. MaxFaults

\* The process of the present pod is the one that its path leads to while it
\* serves, whatever the processes before it left there; only the process of a
\* pod deleted by force can take its socket away.
ServingIsReached ==
    \A p \in Procs : pc[p] = "serve" /\ p # outcast => file = p \/ p \in robbed

\* A client that calls what the reported capabilities permit is refused nothing
\* but snapshots, which are reported and not implemented.
OnlySnapshotsRefused == refused \subseteq {"CreateSnapshot", "DeleteSnapshot"}

\* Once all kinds can be queried, and stay, every client comes through its
\* handshake in the end and none of its calls waits for ever, however often it
\* was dropped from the backlog, or its process ended; unless an outcast took
\* the socket.
ClientsGetThrough ==
    <>[](crds = KindSet)
        => \/ \A c \in Clients :
                /\ <>[](step[c] = Len(Handshake(role)))
                /\ []<>(call[c] = NULL)
           \/ <>[](robbed # {})

\* Once all kinds can be queried, and stay, the endpoint is served in the end, by
\* a process whose reconcilers run if it is a controller, whatever signals came
\* in any phase; unless the reconcilers panicked or an outcast took the socket.
ServesInTheEnd ==
    <>[](crds = KindSet)
        => \/ <>[](\E p \in Procs :
                    /\ pc[p] = "serve" /\ file = p
                    /\ role = "controller" => recon[p] = "run")
           \/ <>[](\E p \in Procs : recon[p] = "panicked")
           \/ <>[](robbed # {})

=============================================================================
