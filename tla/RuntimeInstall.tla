--------------------------- MODULE RuntimeInstall ---------------------------
(***************************************************************************)
(* The installation of a VPN runtime on a node, stage by stage, as         *)
(* operators on the runtime's state on the host (agent/internal/           *)
(* vpncoreinstall and heartbeat/install_task.go).                          *)
(*                                                                         *)
(* A stage maps the state of the runtime and of the installation to the    *)
(* set of their possible successors.  Commands (apt-get, systemctl, the    *)
(* downloads) are external: each may fail, and apt-get may fail after it   *)
(* has unpacked the package.                                               *)
(*                                                                         *)
(* Three kinds of runtime: "package" (sing-box, whose package brings a     *)
(* unit that it enables and a default configuration), "tools" (WireGuard,  *)
(* whose unit exists without any configuration) and "download" (Hysteria2, *)
(* MTProto: a binary, a unit and directories that the Agent writes).       *)
(***************************************************************************)
EXTENDS Naturals

Owners == {"none", "ours", "foreign"}

Runtime == [kind : {"package", "tools", "download"},
            binary : Owners, unit : Owners, dirs : BOOLEAN,
            config : {"none", "package", "applied", "foreign"},
            masked : BOOLEAN, enabled : BOOLEAN, running : BOOLEAN]

Stages == {"check", "mask", "apt", "unmask", "config", "binary", "unit", "dirs",
           "disable", "verify", "prepare", "enable", "succeeded", "failed"}

(* An installation: its stage, whether it found the runtime installed,      *)
(* whether a configuration was there before, whether apt-get failed.        *)
Begun == [stage |-> "check", existing |-> FALSE, configured |-> FALSE, failing |-> FALSE]

At(rt, in, stage) == [rt |-> rt, in |-> [in EXCEPT !.stage = stage]]
Failed(rt, in) == At(rt, in, "failed")

(* What a config apply or an administrator needs to start the service.      *)
Startable(rt) ==
    rt.binary # "none" /\ rt.unit # "none" /\ ~rt.masked /\ rt.enabled

(* The package starts its service when it is installed, unless it is masked.*)
Packaged(rt) ==
    [rt EXCEPT !.binary = "ours", !.unit = "ours", !.dirs = TRUE,
               !.config = IF rt.kind = "package" /\ @ = "none" THEN "package" ELSE @,
               !.enabled = @ \/ rt.kind = "package",
               !.running = @ \/ (rt.kind = "package" /\ ~rt.masked)]

(* inspectManagedRuntime: both files as the Agent writes them, or neither.  *)
Managed(rt) == rt.binary = "ours" /\ rt.unit = "ours"
Present(rt) ==
    IF rt.kind = "download" THEN rt.binary # "none" \/ rt.unit # "none" ELSE rt.binary # "none"

(* Mutant: a runtime that is there is installed once more. *)
CheckExisting_Again(rt, in) ==
    {Failed(rt, in),
     At(rt, [in EXCEPT !.configured = rt.config # "none"],
        CASE rt.kind = "package" -> "mask" [] rt.kind = "tools" -> "apt" [] OTHER -> "binary")}

(* Platform, existing installation, repository, index and downloads: what   *)
(* changes nothing of the runtime.                                          *)
CheckExisting(rt, in) ==
    LET found == [in EXCEPT !.existing = Present(rt), !.configured = rt.config # "none"] IN
    {Failed(rt, in)} \cup
    (IF rt.kind = "download" /\ Present(rt) /\ ~Managed(rt) THEN {}
     ELSE {At(rt, found, IF Present(rt) THEN "verify"
                         ELSE CASE rt.kind = "package" -> "mask"
                                [] rt.kind = "tools" -> "apt"
                                [] OTHER -> "binary")})

(* systemctl mask --runtime: the guard that keeps the package from starting *)
(* its service.                                                             *)
MaskService(rt, in) ==
    {Failed(rt, in), At([rt EXCEPT !.masked = TRUE], in, "apt")}

AptInstall(rt, in) ==
    IF rt.kind = "package"
    THEN {At(Packaged(rt), in, "unmask")} \cup
         {At(r, [in EXCEPT !.failing = TRUE], "unmask") : r \in {rt, Packaged(rt)}}
    ELSE {At(Packaged(rt), in, "verify"), Failed(rt, in), Failed(Packaged(rt), in)}

(* The guard is removed whatever became of the package. *)
UnmaskService(rt, in) ==
    {Failed(rt, in),
     LET free == [rt EXCEPT !.masked = FALSE] IN
     IF in.failing THEN Failed(free, in) ELSE At(free, in, "config")}

(* removeNewPackageConfig: only a configuration that was not there before.  *)
RemovePackageConfig(rt, in) ==
    {At(IF in.configured THEN rt ELSE [rt EXCEPT !.config = "none"], in, "disable"),
     Failed(rt, in)}

InstallBinary(rt, in) == {Failed(rt, in), At([rt EXCEPT !.binary = "ours"], in, "unit")}
InstallUnit(rt, in) == {Failed(rt, in), At([rt EXCEPT !.unit = "ours"], in, "dirs")}
MakeDirectories(rt, in) == {Failed(rt, in), At([rt EXCEPT !.dirs = TRUE], in, "disable")}

(* leaveServiceInactive, reloadAndLeaveInactive: systemctl disable --now.   *)
LeaveInactive(rt, in) ==
    {Failed(rt, in), At([rt EXCEPT !.enabled = FALSE, !.running = FALSE], in, "verify")}

(* The binary answers, systemd knows the unit (LoadState "loaded"), and a   *)
(* package just installed is neither running nor enabled.                   *)
VerifyRuntime(rt, in) ==
    {Failed(rt, in)} \cup
    (IF /\ rt.binary # "none"
        /\ rt.kind = "tools" \/ (rt.unit # "none" /\ ~rt.masked)
        /\ rt.kind = "package" /\ ~in.existing => ~rt.running /\ ~rt.enabled
     THEN {At(rt, in, "prepare")} ELSE {})

(* ensureWireGuardHostPrerequisites, ensureMTProtoCredentialAccess: nothing *)
(* of the runtime itself.                                                   *)
PrepareHost(rt, in) == {Failed(rt, in), At(rt, in, "enable")}

(* ensureInstalledServicePersistent: enabled for the next boot, not started.*)
(* systemctl refuses a unit that is masked or does not exist.               *)
EnableService(rt, in) ==
    {Failed(rt, in)} \cup
    (IF rt.masked \/ rt.unit = "none" THEN {} ELSE {At([rt EXCEPT !.enabled = TRUE], in, "succeeded")})

InstallStage(rt, in) ==
    CASE in.stage = "check"   -> CheckExisting(rt, in)
      [] in.stage = "mask"    -> MaskService(rt, in)
      [] in.stage = "apt"     -> AptInstall(rt, in)
      [] in.stage = "unmask"  -> UnmaskService(rt, in)
      [] in.stage = "config"  -> RemovePackageConfig(rt, in)
      [] in.stage = "binary"  -> InstallBinary(rt, in)
      [] in.stage = "unit"    -> InstallUnit(rt, in)
      [] in.stage = "dirs"    -> MakeDirectories(rt, in)
      [] in.stage = "disable" -> LeaveInactive(rt, in)
      [] in.stage = "verify"  -> VerifyRuntime(rt, in)
      [] in.stage = "prepare" -> PrepareHost(rt, in)
      [] in.stage = "enable"  -> EnableService(rt, in)

(* A reboot clears a runtime mask and starts the enabled services that have *)
(* a configuration.                                                         *)
Rebooted(rt) ==
    [rt EXCEPT !.masked = FALSE,
               !.running = rt.enabled /\ rt.unit # "none" /\ rt.config # "none"]
=============================================================================
