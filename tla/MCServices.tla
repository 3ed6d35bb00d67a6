------------------------------ MODULE MCServices ------------------------------
(***************************************************************************)
(* The services on top of the mesh and the files they keep, each checked   *)
(* by itself, in one instance: a behaviour is one of the service that is   *)
(* chosen at its start, the others keep their initial states.              *)
(***************************************************************************)
EXTENDS Tunnel, Drop, Sfu, Dns, Pki, Egress, Secrets, Calls, Oidc, Camps

VARIABLE part

\* The services of one half, and of the other.
MediaVars == <<tunnelVars, dropVars, sfuVars, dnsVars, pkiVars>>
StoreVars == <<egressVars, secretVars, callVars, oidcVars, campsVars>>
ServiceVars == <<MediaVars, StoreVars, part>>

Parts == {"tunnel", "drop", "sfu", "dns", "pki", "egress", "secrets", "calls", "oidc", "camps"}
Of(p, step) == part = p /\ step

\* The services with several initial states have one of them while another runs.
ServicesInit ==
  /\ part \in Parts
  /\ TunnelInit /\ DropInit /\ SfuInit /\ DnsInit /\ PkiInit
  /\ EgressInit /\ SecretsInit /\ CallsInit /\ OidcInit /\ CampsInit
  /\ answer["zone"] = 1 /\ (part # "tunnel" => answer["sub"] = 1)
  /\ part # "pki" => called = [p \in CaPeers |-> p]
  /\ part # "egress" => original = 0
  /\ part # "secrets" => vaults = {}
  /\ part # "oidc" => appOf = [s \in SignIns |-> 1]
  /\ part # "camps" => flat = {1} /\ oldKey[1] = 1

ServicesNext ==
  /\ UNCHANGED part
  /\ \/ /\ UNCHANGED StoreVars
        /\ \/ Of("tunnel", TunnelNext) /\ UNCHANGED <<dropVars, sfuVars, dnsVars, pkiVars>>
           \/ Of("drop", DropNext) /\ UNCHANGED <<tunnelVars, sfuVars, dnsVars, pkiVars>>
           \/ Of("sfu", SfuNext) /\ UNCHANGED <<tunnelVars, dropVars, dnsVars, pkiVars>>
           \/ Of("dns", DnsNext) /\ UNCHANGED <<tunnelVars, dropVars, sfuVars, pkiVars>>
           \/ Of("pki", PkiNext) /\ UNCHANGED <<tunnelVars, dropVars, sfuVars, dnsVars>>
     \/ /\ UNCHANGED MediaVars
        /\ \/ Of("egress", EgressNext) /\ UNCHANGED <<secretVars, callVars, oidcVars, campsVars>>
           \/ Of("secrets", SecretsNext) /\ UNCHANGED <<egressVars, callVars, oidcVars, campsVars>>
           \/ Of("calls", CallsNext) /\ UNCHANGED <<egressVars, secretVars, oidcVars, campsVars>>
           \/ Of("oidc", OidcNext) /\ UNCHANGED <<egressVars, secretVars, callVars, campsVars>>
           \/ Of("camps", CampsNext) /\ UNCHANGED <<egressVars, secretVars, callVars, oidcVars>>

\* The fairness of each service, as its module states and explains it.
ServicesFairness ==
  /\ \A a \in Additions :
       /\ WF_tunnelVars(Of("tunnel", Number(a))) /\ WF_tunnelVars(Of("tunnel", Route(a)))
       /\ WF_tunnelVars(Of("tunnel", Insert(a))) /\ WF_tunnelVars(Of("tunnel", Pin(a)))
  /\ WF_tunnelVars(Of("tunnel", AddStore))
  /\ WF_tunnelVars(Of("tunnel", RemoveRoutes)) /\ WF_tunnelVars(Of("tunnel", RemovePin))
  /\ WF_tunnelVars(Of("tunnel", RemoveStore))
  /\ WF_tunnelVars(Of("tunnel", RefreshBegin)) /\ WF_tunnelVars(Of("tunnel", RefreshAsk))
  /\ WF_tunnelVars(Of("tunnel", RefreshRoute)) /\ WF_tunnelVars(Of("tunnel", RefreshPin))
  /\ WF_tunnelVars(Of("tunnel", EngineGone)) /\ WF_tunnelVars(Of("tunnel", ServiceStop))
  /\ WF_tunnelVars(Of("tunnel", ServiceStart)) /\ WF_tunnelVars(Of("tunnel", Restored))
  /\ WF_dropVars(Of("drop", PollAsk)) /\ WF_dropVars(Of("drop", PollStore))
  /\ WF_dropVars(Of("drop", GetInfo)) /\ WF_dropVars(Of("drop", GetBytes))
  /\ WF_dropVars(Of("drop", Refeed)) /\ WF_dropVars(Of("drop", RefeedAct))
  /\ WF_dropVars(Of("drop", DropStart)) /\ WF_dropVars(Of("drop", RestoreBegin))
  /\ WF_dropVars(Of("drop", Restore))
  /\ WF_sfuVars(Of("sfu", ConnFailed)) /\ WF_sfuVars(Of("sfu", Forward))
  /\ WF_sfuVars(Of("sfu", TrackEnds)) /\ WF_sfuVars(Of("sfu", Unforward))
  /\ WF_sfuVars(Of("sfu", TimerFires)) /\ WF_sfuVars(Of("sfu", FirstOffer))
  /\ WF_dnsVars(Of("dns", FetchDomains)) /\ WF_dnsVars(Of("dns", StoreDomains))
  /\ WF_dnsVars(Of("dns", MirrorDomains)) /\ WF_dnsVars(Of("dns", Dial))
  /\ WF_dnsVars(Of("dns", Stamp)) /\ WF_dnsVars(Of("dns", RemoveMirrored))
  /\ WF_dnsVars(Of("dns", SeedRead)) /\ WF_dnsVars(Of("dns", DnsStart))
  /\ WF_callVars(Of("calls", CreateEnd)) /\ WF_callVars(Of("calls", Clear))
  /\ WF_callVars(Of("calls", JoinEnd)) /\ WF_callVars(Of("calls", LeaveEnd))
  /\ WF_callVars(Of("calls", Stopped))
  /\ WF_callVars(Of("calls", AskCall)) /\ WF_callVars(Of("calls", StoreCalls))
  /\ WF_pkiVars(Of("pki", FetchCa)) /\ WF_pkiVars(Of("pki", Discover))

ServicesSpec == ServicesInit /\ [][ServicesNext]_ServiceVars /\ ServicesFairness

\* The services are in states of their types.
ServicesTypeOK ==
  /\ TunnelTypeOK /\ DropTypeOK /\ SfuTypeOK /\ DnsTypeOK /\ PkiTypeOK
  /\ EgressTypeOK /\ SecretsTypeOK /\ CallsTypeOK /\ OidcTypeOK /\ CampsTypeOK

\* What loops do by themselves stays within what the user has decided: no file
\* is fetched that was not asked for, no name comes back that was removed, no
\* CA is trusted that was not clicked.
OnlyWhatWasAskedFor == NeverUnasked /\ RemovedStaysAway /\ OnlyClickedTrusted

\* The loops of the services catch up with what has changed: routes with answers,
\* downloads with their sources, offers with tracks, names and health with what
\* is published, CAs and calls with what there is; and a call that all have left ends.
ServicesSettle ==
  /\ (part = "tunnel" => AnswersComeToBeRouted)
  /\ DownloadsFinish /\ ZombiesGo /\ AllNegotiated
  /\ LookupsFollow /\ HealthFollows /\ CurrentIsKnown
  /\ LastOneEndsIt /\ DiscoveryFollows
===============================================================================
