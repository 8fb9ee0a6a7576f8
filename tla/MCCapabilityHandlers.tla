------------------------ MODULE MCCapabilityHandlers ------------------------
(* Instances of CapabilityHandlers for TLC.                                *)
EXTENDS CapabilityHandlers

MCPlans ==
    {<<k>> : k \in AllCapabilities} \cup
    {<<"outing", k>> : k \in {"outing", "travel.go2", "session.recover_controller"}}
    \cup {<<"travel.go2", "travel.go2">>}
=============================================================================
