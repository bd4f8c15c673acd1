----------------------------- MODULE MCRelease -----------------------------
(* Two rule files of one API group, of which one may break or change its   *)
(* target, a third that is no rule; two pods.                              *)
EXTENDS Release

CONSTANT bad

Doc(g, r) == [group |-> g, resource |-> r]
MCContent == {<<Doc("kubevirt.io", "virtualmachines")>>,
              <<Doc("kubevirt.io", "migrations")>>,
              <<Doc("", "pods")>>, <<Doc("apps", "")>>, bad}

MCCheckout == (1 :> <<Doc("kubevirt.io", "virtualmachines")>>)
           @@ (2 :> <<Doc("kubevirt.io", "migrations")>>) @@ (3 :> bad)

Grant(g, r, verbs) == [group |-> g, resources |-> {r}, verbs |-> verbs]
MCLease == Grant("coordination.k8s.io", "leases", {"get", "create", "update"})
MCManager == Grant("ifo.kubevirt.io", "inflightoperations", {"get", "list", "watch", "create"})
MCMetrics == Grant("authentication.k8s.io", "tokenreviews", {"create"})
MCCrds == {[name |-> "inflightoperations", kind |-> "InFlightOperation",
            versions |-> <<[name |-> "v1alpha1", served |-> TRUE]>>]}

MCDefault == [s \in Setting |-> 3]
MCEnvironment ==
    {[s \in Setting |-> Unset],
     [s \in Setting |-> IF s = "DEBOUNCE_THRESHOLD" THEN -1 ELSE 40],
     [s \in Setting |-> IF s = "K8S_API_TIMEOUT" THEN Malformed ELSE 1]}
=============================================================================
