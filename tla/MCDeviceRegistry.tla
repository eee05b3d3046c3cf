-------------------------- MODULE MCDeviceRegistry --------------------------
(* Model-checking instance of DeviceRegistry. *)
EXTENDS DeviceRegistry, TLC

\* Hostnames, ids, addresses and requests are interchangeable: sound for the
\* safety runs.
Symmetry ==
    Permutations(Hosts) \cup Permutations(ServerIds) \cup Permutations(AgentIds)
        \cup Permutations(Addrs) \cup Permutations(Handlers)

=============================================================================
