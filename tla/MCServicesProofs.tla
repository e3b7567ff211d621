--------------------------- MODULE MCServicesProofs ----------------------------
(***************************************************************************)
(* The instance that exercises the components one at a time is a behaviour *)
(* of each of them: so what is proved of a component alone holds in it,    *)
(* for any values of its constants.                                        *)
(***************************************************************************)
EXTENDS MCServices, ServiceProofs, SignalingProofs, StartupProofs, SettingsProofs, TLAPS

servicesVars ==
    <<component, authVars, sigVars, bridgeVars, traceVars, leaseVars, catalogVars, waitVars, settingsVars>>

\* A step of one component leaves every other as it is.
LEMMA StepOfOne ==
    ASSUME [ServicesNext]_servicesVars
    PROVE  /\ [AuthNext]_authVars /\ [SigNext]_sigVars /\ [BridgeNext]_bridgeVars /\ [TraceNext]_traceVars
           /\ [LeasesNext]_leaseVars /\ [CatalogNext]_catalogVars /\ [WaitNext]_waitVars
           /\ [SettingsNext]_settingsVars
<1>1. CASE UNCHANGED servicesVars
  BY <1>1, Zenon DEF servicesVars
<1>2. CASE ServicesNext
  BY <1>2, Zenon DEF ServicesNext
<1> QED
  BY <1>1, <1>2

\* The eight components share no state: a behaviour of the instance is one of each component, which
\* at most one of them leaves its initial state in.
THEOREM ComponentsRun ==
    ServicesSpec => /\ AuthSpec /\ SigSpec /\ BridgeSpec /\ TraceSpec /\ LeasesSpec /\ CatalogSpec
                    /\ WaitSpec /\ SettingsSpec
<1>1. ServicesInit => /\ AuthInit /\ SigInit /\ BridgeInit /\ TraceInit /\ LeasesInit /\ CatalogInit
                      /\ WaitInit /\ SettingsInit
  BY Zenon DEF ServicesInit
<1>2. [ServicesNext]_servicesVars =>
          /\ [AuthNext]_authVars /\ [SigNext]_sigVars /\ [BridgeNext]_bridgeVars /\ [TraceNext]_traceVars
          /\ [LeasesNext]_leaseVars /\ [CatalogNext]_catalogVars /\ [WaitNext]_waitVars
          /\ [SettingsNext]_settingsVars
  BY StepOfOne
<1>3. ServicesSpec <=> ServicesInit /\ [][ServicesNext]_servicesVars
  BY DEF ServicesSpec, servicesVars
<1> QED
  BY <1>1, <1>2, <1>3, PTL DEF AuthSpec, SigSpec, BridgeSpec, TraceSpec, LeasesSpec, CatalogSpec, WaitSpec, SettingsSpec

\* Whatever the bounds and the sets of tasks, calls, handles, owners, polls and values: the variables
\* of the component at work have the types of the state it models.
THEOREM TypesHold == ServicesSpec => []TypesOK
<1>1. AuthTypeOK /\ SigTypeOK /\ BridgeTypeOK /\ TraceTypeOK /\ LeasesTypeOK /\ CatalogTypeOK /\ WaitTypeOK
          /\ SettingsTypeOK => TypesOK
  BY DEF TypesOK
<1> QED
  BY <1>1, ComponentsRun, SignInTyped, SignalingTyped, BridgeTypesHold, TraceTypesHold, LeasesTyped,
     CatalogTypesHold, WaitTyped, SettingsTyped, PTL

\* So is everything else that the run checks of the components: each of its invariants and its
\* action properties, as a theorem of the component it is about states it.
THEOREM ServicesSafe ==
    ServicesSpec => /\ []LogoutSticks /\ BusyHasCause
                    /\ [](UsableHasSession /\ ClosedMeansStopped /\ CandidatesOfCurrentOffer)
                    /\ EveryRowAccounted /\ [](TokensWithCurrentLease /\ FlightsAnswered)
                    /\ [](QueueTimeSpared /\ PlansAgree)
                    /\ StaleRefused /\ RowsOfTheirConfiguration /\ CreatesJustified
BY ComponentsRun, LogoutIsFinal, BusyIsCaused, UsableHasASession, ClosedIsStopped, CandidatesAreCurrent,
   RowsAccounted, TokensAreCurrent, EveryFlightAnswered, QueueIsNotCharged, PlansAsAsked, StaleIsRefused,
   RowsOfOwnConfiguration, CreatesAreJustified, PTL
=============================================================================
