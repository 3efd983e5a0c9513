----------------------------- MODULE MCDiscovery -----------------------------
(***************************************************************************)
(* Small instances of Discovery and of ProviderCalls for TLC, side by side *)
(* and not multiplied: a behaviour of this specification is one of either  *)
(* component while the other one rests in an initial state.                *)
(***************************************************************************)
EXTENDS Discovery, ProviderCalls, TLC

CONSTANTS c1, c2, c3

MCRuns == {[version |-> 1, reason |-> "scheduled"],
           [version |-> 2, reason |-> "manual"]}

(* Two reviewed versions of the search policy and one research policy, all *)
(* of the one capability that the bootstrap command installs.              *)
MCPolicies == {"search1", "search2", "research"}
MCOperationOf == ("search1" :> "search") @@ ("search2" :> "search")
                   @@ ("research" :> "research")
MCCapabilityOf == [p \in MCPolicies |-> "terra"]
MCPolicyOf == (c1 :> "search1") @@ (c2 :> "search2") @@ (c3 :> "research")
MCCost == (c1 :> 1) @@ (c2 :> 1) @@ (c3 :> 2)
MCMaxCost == [p \in MCPolicies |-> 2]
MCCallLimit == [p \in MCPolicies |-> 1]
MCDailyLimit == [p \in MCPolicies |-> 2]
MCMonthlyLimit == [p \in MCPolicies |-> 3]

DiscoveryRests ==
  /\ \A r \in Runs : run[r] = "absent"
  /\ \A u \in Urls : watch[u] = "absent"
  /\ version = 1
  /\ ~searchEnabled

ProviderRests ==
  /\ \A c \in Calls : call[c] = "absent"
  /\ activePolicies = {"search1", "research"}
  /\ today = 0

MCInit == DiscoveryInit /\ ProviderInit

MCNext ==
  \/ DiscoveryNext /\ ProviderRests /\ UNCHANGED providerVars
  \/ ProviderNext /\ DiscoveryRests /\ UNCHANGED discoveryVars

MCSpec ==
  MCInit /\ [][MCNext]_<<discoveryVars, providerVars>> /\ DiscoveryFairness
=============================================================================
