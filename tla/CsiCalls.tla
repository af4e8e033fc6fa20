------------------------------ MODULE CsiCalls ------------------------------
(***************************************************************************)
(* The calls of the CSI: how the generated servers in                      *)
(* src/src/csi/csi.v1.rs route them, which of them the services implement, *)
(* and which capabilities they report.                                     *)
(*                                                                         *)
(* A process has one role; its endpoint routes the identity service and    *)
(* either the controller or the node service.  What a call does and the    *)
(* messages' contents are left to the modules of the services.             *)
(***************************************************************************)

Roles == {"controller", "node"}

-----------------------------------------------------------------------------
(* Routing: each arm of a server hands its method to the service *)

IdentityCalls == {"GetPluginInfo", "GetPluginCapabilities", "Probe"}

VolumeCalls == {"CreateVolume", "DeleteVolume"}

AttachCalls == {"ControllerPublishVolume", "ControllerUnpublishVolume"}

QueryCalls == {"ValidateVolumeCapabilities", "ListVolumes", "GetCapacity"}

AboutController == {"ControllerGetCapabilities"}

SnapshotCalls == {"CreateSnapshot", "DeleteSnapshot", "ListSnapshots"}

ChangeCalls == {"ControllerExpandVolume", "ControllerGetVolume", "ControllerModifyVolume"}

StageCalls == {"NodeStageVolume", "NodeUnstageVolume"}

PublishCalls == {"NodePublishVolume", "NodeUnpublishVolume"}

NodeOtherCalls == {"NodeGetVolumeStats", "NodeExpandVolume"}

AboutNode == {"NodeGetCapabilities", "NodeGetInfo"}

ControllerCalls ==
    VolumeCalls \cup AttachCalls \cup QueryCalls \cup AboutController
    \cup SnapshotCalls \cup ChangeCalls

NodeCalls == StageCalls \cup PublishCalls \cup NodeOtherCalls \cup AboutNode

\* The servers that the process of a role adds to its endpoint.
Routed(role) ==
    IdentityCalls \cup (IF role = "controller" THEN ControllerCalls ELSE NodeCalls)

-----------------------------------------------------------------------------
(* Methods that only return Status::unimplemented *)

AttachUnimplemented == AttachCalls

ChangeUnimplemented == SnapshotCalls \cup ChangeCalls

NodeUnimplemented == NodeOtherCalls

\* A call that no arm matches is answered like one that is not implemented.
Refused(role, m) ==
    \/ m \notin Routed(role)
    \/ m \in AttachUnimplemented \cup ChangeUnimplemented \cup NodeUnimplemented

-----------------------------------------------------------------------------
(* Capabilities *)

\* The identity service reports the controller service in either role.
PluginCapabilities == {"CONTROLLER_SERVICE"}

\* Mutation of ControllerCapabilities: one that is not implemented.
ControllerCapabilitiesMore == {"CREATE_DELETE_VOLUME", "CREATE_DELETE_SNAPSHOT", "GET_VOLUME"}

ControllerCapabilities == {"CREATE_DELETE_VOLUME", "CREATE_DELETE_SNAPSHOT"}

NodeCapabilities == {"STAGE_UNSTAGE_VOLUME"}

\* Mutation of Told: a capability whose type is left unset.
ToldUnset(m) == {"UNKNOWN"}

\* What the answer to m tells.
Told(m) ==
    CASE m = "GetPluginCapabilities" -> PluginCapabilities
      [] m = "ControllerGetCapabilities" -> ControllerCapabilities
      [] m = "NodeGetCapabilities" -> NodeCapabilities
      [] OTHER -> {}

\* The calls that a capability opens to a client.
PluginOpens ==
    [CONTROLLER_SERVICE |-> {"ControllerGetCapabilities", "ValidateVolumeCapabilities"}]

ControllerOpens ==
    [CREATE_DELETE_VOLUME |-> {"CreateVolume", "DeleteVolume"},
     PUBLISH_UNPUBLISH_VOLUME |-> {"ControllerPublishVolume", "ControllerUnpublishVolume"},
     LIST_VOLUMES |-> {"ListVolumes"},
     GET_CAPACITY |-> {"GetCapacity"},
     CREATE_DELETE_SNAPSHOT |-> {"CreateSnapshot", "DeleteSnapshot"},
     LIST_SNAPSHOTS |-> {"ListSnapshots"},
     EXPAND_VOLUME |-> {"ControllerExpandVolume"},
     GET_VOLUME |-> {"ControllerGetVolume"},
     MODIFY_VOLUME |-> {"ControllerModifyVolume"}]

NodeOpens ==
    [STAGE_UNSTAGE_VOLUME |-> {"NodeStageVolume", "NodeUnstageVolume"},
     GET_VOLUME_STATS |-> {"NodeGetVolumeStats"},
     EXPAND_VOLUME |-> {"NodeExpandVolume"}]

Opened(opens, known) == UNION {opens[cap] : cap \in known \cap DOMAIN opens}

\* What a client of the role's endpoint may call when it knows the capabilities.
Permitted(role, known) ==
    IdentityCalls \cup
    IF role = "controller"
    THEN Opened(PluginOpens, known) \cup Opened(ControllerOpens, known)
    ELSE PublishCalls \cup AboutNode \cup Opened(NodeOpens, known)

\* The calls with which a client begins.
Handshake(role) ==
    IF role = "controller"
    THEN <<"GetPluginInfo", "Probe", "GetPluginCapabilities", "ControllerGetCapabilities">>
    ELSE <<"GetPluginInfo", "NodeGetInfo", "NodeGetCapabilities">>

=============================================================================
