---------------------------- MODULE RuntimeDriver ----------------------------
(***************************************************************************)
(* What the five backends do when a name is taken or missing, and where    *)
(* they put a workload and look for it.  The components that drive a       *)
(* RuntimeDriver (the ephemeral manager, the migration orchestrator) share *)
(* these rules.                                                            *)
(*                                                                         *)
(* A place is <<namespace, name>>.  Only kubernetes has namespaces; the    *)
(* other drivers ignore the one in the spec.                               *)
(***************************************************************************)

Backends == {"docker", "podman", "compose", "remote", "kubernetes"}

DriverNamespace == <<"driver">>

\* Where Deploy puts workload w of a spec asking for namespace ns.
Placed(b, ns, w) == IF b = "kubernetes" THEN <<ns, w>> ELSE <<DriverNamespace, w>>

\* Where Destroy(w) and GetStatus(w) look: they are not told the namespace.
Sought(w) == <<DriverNamespace, w>>

\* Creating what exists is refused; `compose up` brings it up again.
DeployRefused(b, place, present) == b # "compose" /\ place \in present

\* Every Deploy ends in GetStatus, and fails when that does not find it.
DeployVisible(b, ns, w) == Placed(b, ns, w) = Sought(w)

\* Docker's and Kubernetes' APIs report a missing object.  `podman rm -f` and
\* the remote shell's `docker rm -f` do or do not, depending on the version.
DestroyRefused(b, place, present) == b \in {"docker", "kubernetes"} /\ place \notin present

DestroyMayMiss(b, place, present) ==
    b \in {"docker", "kubernetes", "podman", "remote"} /\ place \notin present
=============================================================================
