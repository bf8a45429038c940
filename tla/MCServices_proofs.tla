-------------------------- MODULE MCServices_proofs --------------------------
(***************************************************************************)
(* The services beside each other.  Whichever of them a behaviour moves,   *)
(* the others stutter, so that what is proved of each one alone holds of   *)
(* all of them; a route is drawn only where the routes are what moves.     *)
(***************************************************************************)
EXTENDS MCServices, AgentServices_proofs, MemoryManager_proofs, Relationships_proofs, TLAPS

services_vars == <<focus, memory_vars, source_vars, draft_vars, route_vars, program_vars,
                   tool_vars, auth_vars, view_vars, loop_vars>>

(* Each service's part of a behaviour is one of its own. *)
LEMMA ServicesAreThemselves ==
  ServicesSpec => /\ MemorySpec /\ SourceSpec /\ DraftSpec /\ ProgramSpec
                  /\ ToolSpec /\ AuthSpec /\ ViewSpec /\ LoopSpec
<1>1. ServicesInit => /\ MemoryInit /\ SourceInit /\ DraftInit /\ ProgramInit
                      /\ ToolInit /\ AuthInit /\ ViewInit /\ LoopInit
  BY DEF ServicesInit
<1>2. [ServicesNext]_services_vars =>
        /\ [MemoryNext]_memory_vars /\ [SourceNext]_source_vars /\ [DraftNext]_draft_vars
        /\ [ProgramNext]_program_vars /\ [ToolNext]_tool_vars /\ [AuthNext]_auth_vars
        /\ [ViewNext]_view_vars /\ [LoopNext]_loop_vars
  BY DEF ServicesNext, services_vars
<1>3. ServicesSpec => ServicesInit /\ [][ServicesNext]_services_vars
  BY DEF ServicesSpec, services_vars
<1> QED BY <1>1, <1>2, <1>3, PTL
        DEF MemorySpec, SourceSpec, DraftSpec, ProgramSpec, ToolSpec, AuthSpec, ViewSpec, LoopSpec

(* The service that moves is the same throughout, and where it is the routes *)
(* the behaviour is one of theirs.                                           *)
LEMMA FocusStays ==
  ServicesSpec => []((focus \in Services) /\ (focus = "routes" => RouteTypeOK))
<1> DEFINE Routing == focus = "routes"
<1>1. ServicesSpec => ServicesInit /\ [][ServicesNext]_services_vars
  BY DEF ServicesSpec, services_vars
<1>2. ServicesInit => focus \in Services /\ (Routing => RouteInit)
  BY DEF ServicesInit
<1>3. [ServicesNext]_services_vars => [RouteNext]_route_vars /\ focus' = focus
  BY DEF ServicesNext, services_vars
<1>4. /\ focus \in Services /\ [ServicesNext]_services_vars => (focus \in Services)'
      /\ Routing /\ [ServicesNext]_services_vars => Routing'
      /\ ~ Routing /\ [ServicesNext]_services_vars => ~ Routing'
  BY <1>3
<1>5. (~ Routing \/ RouteTypeOK) => (focus = "routes" => RouteTypeOK)
  OBVIOUS
<1>6. [ServicesNext]_services_vars => [RouteNext]_route_vars
  BY <1>3
<1> HIDE DEF Routing
<1> QED BY <1>1, <1>2, <1>4, <1>5, <1>6, RouteTypesHold, PTL DEF RouteSpec

(* The variables of the service that moves keep their types, whichever it is. *)
THEOREM ServicesTypesHold == ServicesSpec => []ServicesTypeOK
<1>1. DraftInv => DraftTypeOK
  BY DEF DraftInv
<1>2. /\ focus \in Services /\ (focus = "routes" => RouteTypeOK)
      /\ MemoryTypeOK /\ SourceTypeOK /\ DraftTypeOK /\ ProgramTypeOK /\ ToolTypeOK
      /\ AuthTypeOK /\ ViewTypeOK /\ LoopTypeOK
      => ServicesTypeOK
  BY DEF ServicesTypeOK
<1> QED BY <1>1, <1>2, ServicesAreThemselves, FocusStays, MemoryTypesHold, SourceTypesHold,
           DraftInvariant, ProgramTypesHold, ToolTypesHold, AuthTypesHold, ViewTypesHold,
           LoopTypesHold, PTL
=============================================================================
