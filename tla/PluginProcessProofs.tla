------------------------ MODULE PluginProcessProofs -------------------------
(***************************************************************************)
(* Proofs about PluginProcess, for every value of the constants: any       *)
(* number of processes, clients, restarts, signals and faults.             *)
(***************************************************************************)
EXTENDS PluginProcess, TLAPS

AllCalls == IdentityCalls \cup ControllerCalls \cup NodeCalls

AllCapabilities == PluginCapabilities \cup ControllerCapabilities \cup NodeCapabilities

Snapshots == {"CreateSnapshot", "DeleteSnapshot"}

-----------------------------------------------------------------------------
(* The calls *)

LEMMA HandshakeServed ==
    ASSUME NEW r \in Roles, NEW i \in 1 .. Len(Handshake(r))
    PROVE  Handshake(r)[i] \in AllCalls /\ ~Refused(r, Handshake(r)[i])
<1> USE DEF AllCalls, Routed, Refused, IdentityCalls, ControllerCalls, NodeCalls,
            VolumeCalls, AttachCalls, QueryCalls, AboutController, SnapshotCalls,
            ChangeCalls, StageCalls, PublishCalls, NodeOtherCalls, AboutNode,
            AttachUnimplemented, ChangeUnimplemented, NodeUnimplemented
<1>1. CASE r = "controller"
  <2>1. i \in {1, 2, 3, 4}
    BY <1>1 DEF Handshake
  <2>2. QED
    BY <1>1, <2>1 DEF Handshake
<1>2. CASE r = "node"
  <2>1. i \in {1, 2, 3}
    BY <1>2 DEF Handshake
  <2>2. QED
    BY <1>2, <2>1 DEF Handshake
<1>3. QED
  BY <1>1, <1>2 DEF Roles

\* The capabilities that are reported open nothing but what is served, and the
\* two calls about snapshots.
LEMMA PermittedServed ==
    ASSUME NEW r \in Roles, NEW k \in SUBSET AllCapabilities, NEW m \in Permitted(r, k)
    PROVE  m \in AllCalls /\ (Refused(r, m) => m \in Snapshots)
<1> USE DEF AllCalls, Routed, Refused, IdentityCalls, ControllerCalls, NodeCalls,
            VolumeCalls, AttachCalls, QueryCalls, AboutController, SnapshotCalls,
            ChangeCalls, StageCalls, PublishCalls, NodeOtherCalls, AboutNode,
            AttachUnimplemented, ChangeUnimplemented, NodeUnimplemented, Snapshots
<1>1. k \subseteq {"CONTROLLER_SERVICE", "CREATE_DELETE_VOLUME", "CREATE_DELETE_SNAPSHOT",
                   "STAGE_UNSTAGE_VOLUME"}
  BY DEF AllCapabilities, PluginCapabilities, ControllerCapabilities, NodeCapabilities
<1>2. Opened(PluginOpens, k) \subseteq
        {"ControllerGetCapabilities", "ValidateVolumeCapabilities"}
  BY DEF Opened, PluginOpens
<1>3. Opened(ControllerOpens, k) \subseteq
        {"CreateVolume", "DeleteVolume", "CreateSnapshot", "DeleteSnapshot"}
  BY <1>1 DEF Opened, ControllerOpens
<1>4. Opened(NodeOpens, k) \subseteq {"NodeStageVolume", "NodeUnstageVolume"}
  BY <1>1 DEF Opened, NodeOpens
<1>5. CASE r = "controller"
  BY <1>2, <1>3, <1>5 DEF Permitted
<1>6. CASE r = "node"
  BY <1>4, <1>6 DEF Permitted
<1>7. QED
  BY <1>5, <1>6 DEF Roles

-----------------------------------------------------------------------------
(***************************************************************************)
(* The inductive invariant.  One process beside the outcast is alive at    *)
(* most, so that whoever removes a file that is not its own or stale is    *)
(* the outcast, or a process that begins and finds the outcast's.          *)
(***************************************************************************)
Alone ==
    /\ outcast # NULL => pc[outcast] # "none" /\ role = "node"
    /\ \A p, q \in Procs :
        pc[p] # "none" /\ pc[q] # "none" /\ p # outcast /\ q # outcast => p = q

Reached ==
    \A p \in Procs : pc[p] \in Listening /\ p # outcast => file = p \/ p \in robbed

CallsServed ==
    \A c \in Clients :
        call[c] # NULL => (Refused(role, call[c]) => call[c] \in Snapshots)

PInv == TypeOK /\ Alone /\ Reached /\ CallsServed /\ OnlySnapshotsRefused

LEMMA InitPInv == Init => PInv
<1> SUFFICES ASSUME Init PROVE PInv
  OBVIOUS
<1> USE DEF Init
<1>1. Len(Handshake(role)) \in Nat
  BY DEF Roles, Handshake
<1>2. TypeOK
  BY <1>1, ConstantsAssumption DEF TypeOK, Kinds, KindSet
<1>3. QED
  BY <1>2, ConstantsAssumption
     DEF PInv, Alone, Reached, Listening, CallsServed, OnlySnapshotsRefused

-----------------------------------------------------------------------------
(* Type correctness *)

LEMMA TypeStep ==
    ASSUME PInv, [Next]_vars
    PROVE  TypeOK'
<1> USE DEF PInv, TypeOK, vars, procVars, clientVars
<1>1. ASSUME NEW p \in Procs, Main(p)
      PROVE  TypeOK'
  <2>1. CASE Start(p)
    BY <2>1
       DEF Start, GoTo
  <2>2. CASE LookForOld(p)
    BY <2>2
       DEF LookForOld, GoTo
  <2>3. CASE RemoveOld(p)
    BY <2>3
       DEF RemoveOld, GoTo, Robs
  <2>4. CASE Bind(p)
    BY <2>4, ConstantsAssumption
       DEF Bind, GoTo
  <2>5. CASE StartFails(p)
    BY <2>5
       DEF StartFails, Dies, CutOff, GoTo
  <2>6. CASE Serve(p)
    BY <2>6
       DEF Serve, GoTo, Kinds, KindSet
  <2>7. CASE Drained(p)
    BY <2>7
       DEF Drained, CutOff, GoTo
  <2>8. CASE Unlink(p)
    BY <2>8
       DEF Unlink, GoTo, Robs
  <2>9. CASE Exit(p)
    BY <2>9
       DEF Exit, Dies, CutOff, GoTo
  <2>10. QED
    BY <1>1, <2>1, <2>2, <2>3, <2>4, <2>5, <2>6, <2>7, <2>8, <2>9 DEF Main
<1>2. ASSUME NEW p \in Procs, Run(p)
      PROVE  TypeOK'
  <2>1. CASE CheckKind(p)
    BY <2>1
       DEF CheckKind, AfterKind, KindSet
  <2>2. CASE KindMissing(p)
    BY <2>2
       DEF KindMissing, Dies, CutOff, GoTo
  <2>3. QED
    BY <1>2, <2>1, <2>2 DEF Run
<1>3. ASSUME NEW p \in Procs, Panic(p)
      PROVE  TypeOK'
  BY <1>3, ConstantsAssumption
     DEF Panic, Fault, GoTo
<1>4. ASSUME NEW p \in Procs, Interrupt(p)
      PROVE  TypeOK'
  BY <1>4, ConstantsAssumption
     DEF Interrupt, Fault, StopReconcilers, GoTo
<1>5. ASSUME NEW p \in Procs, DeletePod(p)
      PROVE  TypeOK'
  BY <1>5, ConstantsAssumption
     DEF DeletePod, Fault, StopReconcilers, GoTo
<1>6. ASSUME NEW p \in Procs, ForceDeletePod(p)
      PROVE  TypeOK'
  BY <1>6, ConstantsAssumption
     DEF ForceDeletePod, Fault, StopReconcilers, GoTo
<1>7. ASSUME NEW p \in Procs, Kill(p)
      PROVE  TypeOK'
  BY <1>7, ConstantsAssumption
     DEF Kill, Dies, CutOff, Fault, GoTo
<1>8. ASSUME NEW kind \in KindSet, KindChanges(kind)
      PROVE  TypeOK'
  BY <1>8, ConstantsAssumption
     DEF KindChanges, Fault
<1>9. ASSUME NEW c \in Clients, Connect(c)
      PROVE  TypeOK'
  BY <1>9, ConstantsAssumption
     DEF Connect
<1>10. ASSUME NEW c \in Clients, Answer(c)
      PROVE  TypeOK'
  <2>1. Told(call[c]) \subseteq AllCapabilities
    BY DEF Told, AllCapabilities
  <2>2. Len(Handshake(role)) \in Nat
    BY DEF Roles, Handshake
  <2>3. UNCHANGED <<role, pc, recon, termed, outcast, file, robbed, crds, conn, taken, faults>>
    BY <1>10 DEF Answer
  <2>4. call' = [call EXCEPT ![c] = NULL]
    BY <1>10 DEF Answer
  <2>5. known' \in [Clients -> SUBSET (PluginCapabilities \cup ControllerCapabilities
                                      \cup NodeCapabilities)]
    BY <1>10, <2>1 DEF Answer, AllCapabilities
  <2>6. step' \in [Clients -> 0 .. Len(Handshake(role))]
    <3>1. step[c] \in 0 .. Len(Handshake(role))
      OBVIOUS
    <3>2. \/ step' = step
          \/ /\ step[c] < Len(Handshake(role))
             /\ step' = [step EXCEPT ![c] = step[c] + 1]
      <4>1. CASE Refused(role, call[c])
        BY <1>10, <4>1 DEF Answer
      <4>2. CASE ~Refused(role, call[c]) /\ step[c] < Len(Handshake(role))
        BY <1>10, <4>2 DEF Answer
      <4>3. CASE ~Refused(role, call[c]) /\ ~(step[c] < Len(Handshake(role)))
        BY <1>10, <4>3 DEF Answer
      <4>4. QED
        BY <4>1, <4>2, <4>3
    <3>3. step[c] < Len(Handshake(role)) => step[c] + 1 \in 0 .. Len(Handshake(role))
      BY <2>2, <3>1
    <3>4. QED
      BY <3>2, <3>3
  <2>7. refused' \subseteq IdentityCalls \cup ControllerCalls \cup NodeCalls
    BY <1>10 DEF Answer
  <2>8. QED
    BY <2>3, <2>4, <2>5, <2>6, <2>7
<1>11. ASSUME NEW c \in Clients, NEW m \in AllCalls, Call(c, m)
      PROVE  TypeOK'
  BY <1>11
     DEF Call, AllCalls
<1>12. CASE UNCHANGED vars
  BY <1>12
<1>13. ASSUME NEW c \in Clients, Accept(c)
      PROVE  TypeOK'
  BY <1>13
     DEF Accept
<1>14. QED
  BY <1>1, <1>2, <1>3, <1>4, <1>5, <1>6, <1>7, <1>8, <1>9, <1>10, <1>11, <1>12, <1>13
     DEF Next, AllCalls

-----------------------------------------------------------------------------
(* Who is alive, and whose socket the path leads to *)

LEMMA AloneStep ==
    ASSUME PInv, [Next]_vars
    PROVE  Alone'
<1> USE DEF PInv, TypeOK, vars, procVars, clientVars, Alone
<1>1. ASSUME NEW p \in Procs, Main(p)
      PROVE  Alone'
  <2>1. CASE Start(p)
    BY <2>1
       DEF Start, GoTo, Alive
  <2>2. CASE LookForOld(p)
    BY <2>2
       DEF LookForOld, GoTo
  <2>3. CASE RemoveOld(p)
    BY <2>3
       DEF RemoveOld, GoTo
  <2>4. CASE Bind(p)
    BY <2>4
       DEF Bind, GoTo
  <2>5. CASE StartFails(p)
    BY <2>5, ConstantsAssumption
       DEF StartFails, Dies, CutOff, GoTo
  <2>6. CASE Serve(p)
    BY <2>6
       DEF Serve, GoTo
  <2>7. CASE Drained(p)
    BY <2>7
       DEF Drained, CutOff, GoTo
  <2>8. CASE Unlink(p)
    BY <2>8
       DEF Unlink, GoTo
  <2>9. CASE Exit(p)
    BY <2>9, ConstantsAssumption
       DEF Exit, Dies, CutOff, GoTo
  <2>10. QED
    BY <1>1, <2>1, <2>2, <2>3, <2>4, <2>5, <2>6, <2>7, <2>8, <2>9 DEF Main
<1>2. ASSUME NEW p \in Procs, Run(p)
      PROVE  Alone'
  <2>1. CASE CheckKind(p)
    BY <2>1
       DEF CheckKind, GoTo
  <2>2. CASE KindMissing(p)
    BY <2>2, ConstantsAssumption
       DEF KindMissing, Dies, CutOff, GoTo
  <2>3. QED
    BY <1>2, <2>1, <2>2 DEF Run
<1>3. ASSUME NEW p \in Procs, Panic(p)
      PROVE  Alone'
  BY <1>3
     DEF Panic, Fault
<1>4. ASSUME NEW p \in Procs, Interrupt(p)
      PROVE  Alone'
  BY <1>4
     DEF Interrupt, Fault, StopReconcilers, GoTo
<1>5. ASSUME NEW p \in Procs, DeletePod(p)
      PROVE  Alone'
  BY <1>5
     DEF DeletePod, Fault, StopReconcilers, GoTo
<1>6. ASSUME NEW p \in Procs, ForceDeletePod(p)
      PROVE  Alone'
  BY <1>6, ConstantsAssumption
     DEF ForceDeletePod, Fault, StopReconcilers, GoTo
<1>7. ASSUME NEW p \in Procs, Kill(p)
      PROVE  Alone'
  BY <1>7, ConstantsAssumption
     DEF Kill, Dies, CutOff, Fault, GoTo
<1>8. ASSUME NEW kind \in KindSet, KindChanges(kind)
      PROVE  Alone'
  BY <1>8
     DEF KindChanges, Fault
<1>9. ASSUME NEW c \in Clients, Connect(c)
      PROVE  Alone'
  BY <1>9
     DEF Connect
<1>10. ASSUME NEW c \in Clients, Answer(c)
      PROVE  Alone'
  BY <1>10
     DEF Answer
<1>11. ASSUME NEW c \in Clients, NEW m \in AllCalls, Call(c, m)
      PROVE  Alone'
  BY <1>11
     DEF Call
<1>12. CASE UNCHANGED vars
  BY <1>12
<1>13. ASSUME NEW c \in Clients, Accept(c)
      PROVE  Alone'
  BY <1>13
     DEF Accept
<1>14. QED
  BY <1>1, <1>2, <1>3, <1>4, <1>5, <1>6, <1>7, <1>8, <1>9, <1>10, <1>11, <1>12, <1>13
     DEF Next, AllCalls

LEMMA ReachedStep ==
    ASSUME PInv, [Next]_vars
    PROVE  Reached'
<1> USE DEF PInv, TypeOK, vars, procVars, clientVars, Alone, Reached, Listening
<1>1. ASSUME NEW p \in Procs, Main(p)
      PROVE  Reached'
  <2>1. CASE Start(p)
    BY <2>1, ConstantsAssumption
       DEF Start, GoTo
  <2>2. CASE LookForOld(p)
    BY <2>2, ConstantsAssumption
       DEF LookForOld, GoTo
  <2>3. CASE RemoveOld(p)
    BY <2>3, ConstantsAssumption
       DEF RemoveOld, GoTo, Robs
  <2>4. CASE Bind(p)
    BY <2>4, ConstantsAssumption
       DEF Bind, GoTo
  <2>5. CASE StartFails(p)
    BY <2>5, ConstantsAssumption
       DEF StartFails, Dies, CutOff, GoTo
  <2>6. CASE Serve(p)
    BY <2>6, ConstantsAssumption
       DEF Serve, GoTo
  <2>7. CASE Drained(p)
    BY <2>7, ConstantsAssumption
       DEF Drained, CutOff, GoTo
  <2>8. CASE Unlink(p)
    BY <2>8, ConstantsAssumption
       DEF Unlink, GoTo, Robs
  <2>9. CASE Exit(p)
    BY <2>9, ConstantsAssumption
       DEF Exit, Dies, CutOff, GoTo
  <2>10. QED
    BY <1>1, <2>1, <2>2, <2>3, <2>4, <2>5, <2>6, <2>7, <2>8, <2>9 DEF Main
<1>2. ASSUME NEW p \in Procs, Run(p)
      PROVE  Reached'
  <2>1. CASE CheckKind(p)
    BY <2>1, ConstantsAssumption
       DEF CheckKind, GoTo
  <2>2. CASE KindMissing(p)
    BY <2>2, ConstantsAssumption
       DEF KindMissing, Dies, CutOff, GoTo
  <2>3. QED
    BY <1>2, <2>1, <2>2 DEF Run
<1>3. ASSUME NEW p \in Procs, Panic(p)
      PROVE  Reached'
  BY <1>3, ConstantsAssumption
     DEF Panic, Fault, GoTo
<1>4. ASSUME NEW p \in Procs, Interrupt(p)
      PROVE  Reached'
  BY <1>4, ConstantsAssumption
     DEF Interrupt, Fault, StopReconcilers, GoTo
<1>5. ASSUME NEW p \in Procs, DeletePod(p)
      PROVE  Reached'
  BY <1>5, ConstantsAssumption
     DEF DeletePod, Fault, StopReconcilers, GoTo
<1>6. ASSUME NEW p \in Procs, ForceDeletePod(p)
      PROVE  Reached'
  BY <1>6, ConstantsAssumption
     DEF ForceDeletePod, Fault, StopReconcilers, GoTo
<1>7. ASSUME NEW p \in Procs, Kill(p)
      PROVE  Reached'
  <2>1. /\ pc' = [pc EXCEPT ![p] = "none"]
        /\ outcast' = IF outcast = p THEN NULL ELSE outcast
        /\ robbed' = robbed \ {p}
    BY <1>7 DEF Kill, Dies, CutOff, GoTo
  <2>2. SUFFICES ASSUME NEW q \in Procs, pc'[q] \in Listening, q # outcast'
                 PROVE  file' = q \/ q \in robbed'
    OBVIOUS
  <2>3. q # p /\ pc[q] \in Listening /\ q # outcast
    BY <2>1, <2>2
  <2>4. file = q \/ q \in robbed
    BY <2>3
  <2>5. file' = file \/ file = p
    <3>1. CASE role = "controller"
      <4>1. outcast = NULL
        BY <3>1
      <4>2. QED
        BY <1>7, <2>3, <4>1, ConstantsAssumption DEF Kill
    <3>2. CASE role # "controller"
      BY <1>7, <3>2 DEF Kill
    <3>3. QED
      BY <3>1, <3>2
  <2>6. QED
    BY <2>1, <2>3, <2>4, <2>5
<1>8. ASSUME NEW kind \in KindSet, KindChanges(kind)
      PROVE  Reached'
  BY <1>8
     DEF KindChanges, Fault
<1>9. ASSUME NEW c \in Clients, Connect(c)
      PROVE  Reached'
  BY <1>9
     DEF Connect
<1>10. ASSUME NEW c \in Clients, Answer(c)
      PROVE  Reached'
  BY <1>10
     DEF Answer
<1>11. ASSUME NEW c \in Clients, NEW m \in AllCalls, Call(c, m)
      PROVE  Reached'
  BY <1>11
     DEF Call
<1>12. CASE UNCHANGED vars
  BY <1>12
<1>13. ASSUME NEW c \in Clients, Accept(c)
      PROVE  Reached'
  BY <1>13
     DEF Accept
<1>14. QED
  BY <1>1, <1>2, <1>3, <1>4, <1>5, <1>6, <1>7, <1>8, <1>9, <1>10, <1>11, <1>12, <1>13
     DEF Next, AllCalls

-----------------------------------------------------------------------------
(* What clients call *)

LEMMA CallsStep ==
    ASSUME PInv, [Next]_vars
    PROVE  (CallsServed /\ OnlySnapshotsRefused)'
<1> USE DEF PInv, TypeOK, vars, procVars, clientVars, CallsServed, OnlySnapshotsRefused
<1>1. ASSUME NEW p \in Procs, Main(p)
      PROVE  (CallsServed /\ OnlySnapshotsRefused)'
  <2>1. CASE Start(p)
    BY <2>1
       DEF Start, GoTo
  <2>2. CASE LookForOld(p)
    BY <2>2
       DEF LookForOld, GoTo
  <2>3. CASE RemoveOld(p)
    BY <2>3
       DEF RemoveOld, GoTo
  <2>4. CASE Bind(p)
    BY <2>4
       DEF Bind, GoTo
  <2>5. CASE StartFails(p)
    BY <2>5
       DEF StartFails, Dies, CutOff, GoTo
  <2>6. CASE Serve(p)
    BY <2>6
       DEF Serve, GoTo
  <2>7. CASE Drained(p)
    BY <2>7
       DEF Drained, CutOff, GoTo
  <2>8. CASE Unlink(p)
    BY <2>8
       DEF Unlink, GoTo
  <2>9. CASE Exit(p)
    BY <2>9
       DEF Exit, Dies, CutOff, GoTo
  <2>10. QED
    BY <1>1, <2>1, <2>2, <2>3, <2>4, <2>5, <2>6, <2>7, <2>8, <2>9 DEF Main
<1>2. ASSUME NEW p \in Procs, Run(p)
      PROVE  (CallsServed /\ OnlySnapshotsRefused)'
  <2>1. CASE CheckKind(p)
    BY <2>1
       DEF CheckKind, GoTo
  <2>2. CASE KindMissing(p)
    BY <2>2
       DEF KindMissing, Dies, CutOff, GoTo
  <2>3. QED
    BY <1>2, <2>1, <2>2 DEF Run
<1>3. ASSUME NEW p \in Procs, Panic(p)
      PROVE  (CallsServed /\ OnlySnapshotsRefused)'
  BY <1>3
     DEF Panic, Fault, GoTo
<1>4. ASSUME NEW p \in Procs, Interrupt(p)
      PROVE  (CallsServed /\ OnlySnapshotsRefused)'
  BY <1>4
     DEF Interrupt, Fault, StopReconcilers, GoTo
<1>5. ASSUME NEW p \in Procs, DeletePod(p)
      PROVE  (CallsServed /\ OnlySnapshotsRefused)'
  BY <1>5
     DEF DeletePod, Fault, StopReconcilers, GoTo
<1>6. ASSUME NEW p \in Procs, ForceDeletePod(p)
      PROVE  (CallsServed /\ OnlySnapshotsRefused)'
  BY <1>6
     DEF ForceDeletePod, Fault, StopReconcilers, GoTo
<1>7. ASSUME NEW p \in Procs, Kill(p)
      PROVE  (CallsServed /\ OnlySnapshotsRefused)'
  BY <1>7
     DEF Kill, Dies, CutOff, Fault, GoTo
<1>8. ASSUME NEW kind \in KindSet, KindChanges(kind)
      PROVE  (CallsServed /\ OnlySnapshotsRefused)'
  BY <1>8
     DEF KindChanges, Fault
<1>9. ASSUME NEW c \in Clients, Connect(c)
      PROVE  (CallsServed /\ OnlySnapshotsRefused)'
  BY <1>9
     DEF Connect
<1>10. ASSUME NEW c \in Clients, Answer(c)
      PROVE  (CallsServed /\ OnlySnapshotsRefused)'
  <2>1. /\ call' = [call EXCEPT ![c] = NULL]
        /\ UNCHANGED role
        /\ call[c] # NULL
    BY <1>10 DEF Answer
  <2>2. Refused(role, call[c]) => call[c] \in {"CreateSnapshot", "DeleteSnapshot"}
    BY <2>1 DEF Snapshots
  <2>3. CallsServed'
    BY <2>1
  <2>4. refused' \subseteq {"CreateSnapshot", "DeleteSnapshot"}
    <3>1. CASE Refused(role, call[c])
      BY <1>10, <2>2, <3>1 DEF Answer
    <3>2. CASE ~Refused(role, call[c])
      BY <1>10, <3>2 DEF Answer
    <3>3. QED
      BY <3>1, <3>2
  <2>5. QED
    BY <2>3, <2>4
<1>11. ASSUME NEW c \in Clients, NEW m \in AllCalls, Call(c, m)
      PROVE  (CallsServed /\ OnlySnapshotsRefused)'
  <2>1. Refused(role, m) => m \in Snapshots
    <3>1. CASE step[c] < Len(Handshake(role))
      <4>1. step[c] + 1 \in 1 .. Len(Handshake(role))
        BY <3>1 DEF Roles, Handshake
      <4>2. m = Handshake(role)[step[c] + 1]
        BY <1>11, <3>1 DEF Call, MayCall
      <4>3. QED
        BY <4>1, <4>2, HandshakeServed
    <3>2. CASE ~(step[c] < Len(Handshake(role)))
      <4>1. m \in Permitted(role, known[c])
        BY <1>11, <3>2 DEF Call, MayCall
      <4>2. QED
        BY <4>1, PermittedServed DEF AllCapabilities
    <3>3. QED
      BY <3>1, <3>2
  <2>2. QED
    BY <1>11, <2>1 DEF Call
<1>12. CASE UNCHANGED vars
  BY <1>12
<1>13. ASSUME NEW c \in Clients, Accept(c)
      PROVE  (CallsServed /\ OnlySnapshotsRefused)'
  BY <1>13
     DEF Accept
<1>14. QED
  BY <1>1, <1>2, <1>3, <1>4, <1>5, <1>6, <1>7, <1>8, <1>9, <1>10, <1>11, <1>12, <1>13
     DEF Next, AllCalls

-----------------------------------------------------------------------------
(* The properties *)

LEMMA NextPInv ==
    ASSUME PInv, [Next]_vars
    PROVE  PInv'
BY TypeStep, AloneStep, ReachedStep, CallsStep DEF PInv

\* The inductive invariant holds in every behaviour.
THEOREM Invariance == Spec => []PInv
<1>1. Init => PInv
  BY InitPInv
<1>2. PInv /\ [Next]_vars => PInv'
  BY NextPInv
<1>3. QED
  BY <1>1, <1>2, PTL DEF Spec

\* Every variable of the processes and their clients holds what its declaration
\* says.
THEOREM TypeCorrect == Spec => []TypeOK
<1>1. PInv => TypeOK
  BY DEF PInv
<1>2. QED
  BY <1>1, Invariance, PTL

\* A serving process is the one its path leads to, unless the process of a pod
\* deleted by force took its socket away.
THEOREM ServersAreReached == Spec => []ServingIsReached
<1>1. PInv => ServingIsReached
  BY DEF PInv, Reached, Listening, ServingIsReached
<1>2. QED
  BY <1>1, Invariance, PTL

\* Nothing that the reported capabilities permit is refused, but for snapshots.
THEOREM CapabilitiesHold == Spec => []OnlySnapshotsRefused
<1>1. PInv => OnlySnapshotsRefused
  BY DEF PInv
<1>2. QED
  BY <1>1, Invariance, PTL

=============================================================================
