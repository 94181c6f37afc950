-------------------------- MODULE EdgeProvisioning --------------------------
(***************************************************************************)
(* configure:cloudflare: CloudflareProvisioner.provision and the two       *)
(* secrets the script stores.  Every request may fail, or take effect and  *)
(* lose its answer; both end the run, and the operator runs it again.  The *)
(* operator runs one at a time, so that what a GET has read is still so    *)
(* when the write follows.                                                 *)
(*                                                                         *)
(* The configuration of a tunnel routes the public name and answers 404 to *)
(* every other; visitors of the apex and of www are sent to the public     *)
(* name by the redirect rule, once it is there.                            *)
(***************************************************************************)
EXTENDS Integers, FiniteSets, Sequences

CONSTANTS
  Tunnels,        \* identifiers the provider draws
  EarlierZones,   \* what the zone may hold before the first run
  MaxEdgeFaults   \* bound on failing requests

VARIABLES
  zone,      \* tunnels of the name, those whose ingress routes the public name, DNS
             \* records, and how many redirect rules with the script's reference
  secrets,   \* CLOUDFLARE_TUNNEL_TOKEN and _ID in Doppler, by the tunnel they are of
  run,       \* the run's next step and the tunnel it found or made
  edgeFaults

edgeVars == <<zone, secrets, run, edgeFaults>>

Hosts == {"public", "apex", "www"}
Alias(t) == [type |-> "CNAME", content |-> t]
IsAlias(record) == record.type = "CNAME"
Unset == 0

\* what the provider may answer for a zone
IsZone(z) ==
  /\ z = [tunnels |-> z.tunnels, ingress |-> z.ingress, records |-> z.records,
          redirects |-> z.redirects]
  /\ {z.tunnels, z.ingress} \subseteq SUBSET Tunnels /\ IsFiniteSet(z.tunnels)
  /\ z.records = [host \in Hosts |-> z.records[host]]
  /\ z.redirects \in Nat

PublicServed(z) == \E t \in z.ingress : z.records["public"] = {Alias(t)}

LeadsToTunnel(z, host) == \E t \in Tunnels : Alias(t) \in z.records[host]

NamesRoute(z) ==
  /\ \A t \in Tunnels : Alias(t) \in z.records["public"] => t \in z.ingress
  /\ LeadsToTunnel(z, "apex") \/ LeadsToTunnel(z, "www") \/ z.redirects > 0 => PublicServed(z)

ASSUME EdgeAssumption ==
  /\ Tunnels \subseteq Nat \ {Unset}
  /\ \A z \in EarlierZones : IsZone(z) /\ NamesRoute(z)

EdgeInit ==
  /\ zone \in EarlierZones
  /\ secrets = [token |-> Unset, id |-> Unset]
  /\ run = [step |-> "Stopped", tunnel |-> Unset]
  /\ edgeFaults = 0

\* mutant: the public name is set before the tunnel has its ingress
StepsNamesFirst == <<"Tunnel", "public", "Ingress", "apex", "www", "Redirect", "Token", "Id", "Done">>

\* the order of provision() and of the script
Steps == <<"Tunnel", "Ingress", "public", "apex", "www", "Redirect", "Token", "Id", "Done">>

After(step) == Steps[1 + CHOOSE n \in 1 .. Len(Steps) - 1 : Steps[n] = step]

\* a request that leads to zone z and secrets s, answered, refused or its answer lost
EdgeRequest(z, s, step, tunnel) ==
  \/ /\ zone' = z /\ secrets' = s
     /\ run' = [step |-> step, tunnel |-> tunnel]
     /\ UNCHANGED edgeFaults
  \/ /\ edgeFaults < MaxEdgeFaults /\ edgeFaults' = edgeFaults + 1
     /\ \/ zone' = z /\ secrets' = s
        \/ UNCHANGED <<zone, secrets>>
     /\ run' = [step |-> "Stopped", tunnel |-> Unset]

\* an exception: what was found is ambiguous or of another kind
Refuse == run' = [step |-> "Refused", tunnel |-> Unset] /\ UNCHANGED <<zone, secrets, edgeFaults>>

StartRun ==
  /\ run.step = "Stopped"
  /\ run' = [step |-> Steps[1], tunnel |-> Unset]
  /\ UNCHANGED <<zone, secrets, edgeFaults>>

\* GET .. ?name=..&is_deleted=false
TunnelsFound == zone.tunnels

RequireTunnel ==
  /\ run.step = "Tunnel"
  /\ \/ Cardinality(TunnelsFound) > 1 /\ Refuse
     \/ \E t \in TunnelsFound :
          Cardinality(TunnelsFound) = 1 /\ EdgeRequest(zone, secrets, After("Tunnel"), t)
     \/ \E t \in Tunnels \ zone.tunnels :
          /\ TunnelsFound = {}
          /\ EdgeRequest([zone EXCEPT !.tunnels = @ \cup {t}], secrets, After("Tunnel"), t)

\* PUT of the whole configuration: the public name, and 404 for the rest
ConfigureTunnel ==
  /\ run.step = "Ingress"
  /\ EdgeRequest([zone EXCEPT !.ingress = @ \cup {run.tunnel}], secrets, After("Ingress"), run.tunnel)

SetAlias(host) == [zone EXCEPT !.records[host] = {Alias(run.tunnel)}]

\* upsertDnsRecord: PUT over the record that is there, or POST
UpsertPublic ==
  LET found == zone.records["public"]
  IN /\ run.step = "public"
     /\ IF Cardinality(found) > 1 \/ \E record \in found : ~IsAlias(record)
          THEN Refuse
          ELSE EdgeRequest(SetAlias("public"), secrets, After("public"), run.tunnel)

Ambiguous(found) ==
  LET aliases == {record \in found : IsAlias(record)}
  IN Cardinality(aliases) > 1 \/ (aliases # {} /\ found # aliases)

\* replaceDnsHostnameWithTunnelAlias: DELETE of each record of another kind, then PUT or POST
ReplaceAlias(host) ==
  LET found == zone.records[host]
      others == {record \in found : ~IsAlias(record)}
  IN /\ run.step = host
     /\ \/ Ambiguous(found) /\ Refuse
        \/ \E record \in others :
             /\ ~Ambiguous(found)
             /\ EdgeRequest([zone EXCEPT !.records[host] = @ \ {record}], secrets, host, run.tunnel)
        \/ /\ ~Ambiguous(found) /\ others = {}
           /\ EdgeRequest(SetAlias(host), secrets, After(host), run.tunnel)

\* PATCH of the owned rule, or POST of a rule, or POST of the ruleset that is missing
RulesetWith(owned) == IF owned = 0 THEN 1 ELSE owned

UpsertRedirect ==
  /\ run.step = "Redirect"
  /\ IF zone.redirects > 1
       THEN Refuse
       ELSE EdgeRequest([zone EXCEPT !.redirects = RulesetWith(@)], secrets, After("Redirect"), run.tunnel)

\* storeDopplerSecret, twice
StoreToken ==
  /\ run.step = "Token"
  /\ EdgeRequest(zone, [secrets EXCEPT !.token = run.tunnel], After("Token"), run.tunnel)

StoreId ==
  /\ run.step = "Id"
  /\ EdgeRequest(zone, [secrets EXCEPT !.id = run.tunnel], After("Id"), run.tunnel)

\* the command may be run on what it has configured
RunAgain ==
  /\ run.step = "Done"
  /\ run' = [step |-> "Stopped", tunnel |-> Unset]
  /\ UNCHANGED <<zone, secrets, edgeFaults>>

EdgeNext ==
  \/ StartRun \/ RequireTunnel \/ ConfigureTunnel \/ UpsertPublic
  \/ \E host \in {"apex", "www"} : ReplaceAlias(host)
  \/ UpsertRedirect \/ StoreToken \/ StoreId
  \/ RunAgain

EdgeSpec == EdgeInit /\ [][EdgeNext]_edgeVars

-----------------------------------------------------------------------------
(***************************************************************************)
(* However a run stops half-way: the public name never leads to a tunnel   *)
(* that does not route it; and neither do the apex and www lead to a       *)
(* tunnel, nor does the redirect rule send their visitors on, before the   *)
(* public name is served.  (Between the records of apex and www and the    *)
(* rule, lines 75 and 76, the tunnel answers 404 for these two.)           *)
(***************************************************************************)
NamedTunnelRoutes == NamesRoute(zone)

(***************************************************************************)
(* A run that reports success leaves the whole configuration: three names  *)
(* with one alias each to the one tunnel, its ingress, the rule, and the   *)
(* secrets of that tunnel.                                                 *)
(***************************************************************************)
DoneMeansConfigured ==
  run.step = "Done" =>
    \E t \in Tunnels :
      /\ zone.tunnels = {t} /\ t \in zone.ingress
      /\ \A host \in Hosts : zone.records[host] = {Alias(t)}
      /\ zone.redirects = 1
      /\ secrets = [token |-> t, id |-> t]

(***************************************************************************)
(* Through runs that stop anywhere and start again: no name is moved       *)
(* before the public one is served where it leads, and success means that  *)
(* all is in place.                                                        *)
(***************************************************************************)
EdgeSound == NamedTunnelRoutes /\ DoneMeansConfigured

=============================================================================
