----------------------------- MODULE SiteConfig -----------------------------
(***************************************************************************)
(* The data side of a hot reload, as pure operators: what a file of        *)
(* sites/ loads as (internal/config), and the tables that a list of loaded *)
(* sites is turned into: the Host index of config.Store, the runtimes of   *)
(* proxy.Router, the domains handed to certmagic and the metrics keys that *)
(* survive a prune.                                                        *)
(*                                                                         *)
(* A loaded list is a function from files to the site the file holds, or   *)
(* NoSite.  Files are numbers in the order os.ReadDir lists them; names    *)
(* (domains, aliases, Host headers) are opaque, with the two facts about   *)
(* strings that the code uses: strings.ToLower and byte order.             *)
(***************************************************************************)
EXTENDS Integers, FiniteSets

CONSTANTS
  Names,     \* domains, aliases and Host headers, their ports already cut
  Lower,     \* strings.ToLower, as a function on Names
  Rank,      \* the byte order of names: Domain < Domain in sort.Slice
  Files,     \* the site files, as numbers in directory order
  FileOf,    \* the file that SaveSite gives to a new site of a domain
  Sites,     \* the well-formed YAML documents, valid or not
  NoSite,    \* no site: the file is missing, unreadable or rejected
  NoFile     \* no file: a table has no entry

(***************************************************************************)
(* An upstream is told apart by what url.Parse and the hand-written check  *)
(* look at: is "://" in it, is there a host, and what the port is.         *)
(***************************************************************************)
Upstream == [scheme : BOOLEAN, host : BOOLEAN,
             port : {"none", "empty", "digits", "other"}]

RateLimit == [on : BOOLEAN, rps : Int, burst : Int]

\* The fields of config.Site that steer control.
Site == [domain : Names, aliases : SUBSET Names, enabled : BOOLEAN,
         auto : BOOLEAN, ups : SUBSET Upstream, limit : RateLimit]

ASSUME NamesAssumption ==
  /\ Lower \in [Names -> Names]
  /\ \A n \in Names : Lower[Lower[n]] = Lower[n]
  /\ Rank \in [Names -> Nat]
  /\ \A m, n \in Names : Rank[m] = Rank[n] => m = n

ASSUME FilesAssumption ==
  /\ Files \subseteq Nat /\ IsFiniteSet(Files)
  /\ FileOf \in [Names -> Files]
  /\ NoFile \notin Files

\* The form and the toggle button can flip the enabled flag of any site.
ASSUME SitesAssumption ==
  /\ Sites \subseteq Site
  /\ NoSite \notin Sites
  /\ \A s \in Sites, b \in BOOLEAN : [s EXCEPT !.enabled = b] \in Sites

-----------------------------------------------------------------------------
(* Loading one file. *)

\* validUpstream: host:port by hand, or whatever url.Parse takes with a host.
ValidUpstream(u) ==
  IF u.scheme
  THEN u.port # "other" /\ (u.host \/ u.port # "none")
  ELSE u.host /\ u.port \in {"digits", "other"}

\* parseUpstream: url.Parse rejects a port that is not a number.
ParsesUpstream(u) == u.port # "other"

\* Site.Validate. A blank domain is not a name, so it is not a document here.
Validate(s) ==
  /\ s.ups # {}
  /\ \A u \in s.ups : ValidUpstream(u)
  /\ s.limit.on => s.limit.rps > 0 /\ s.limit.burst >= 0

\* Mutant of LoadSiteFile: a parse error is not an error.
LoadSiteFileLax(content) ==
  IF content \in Sites /\ ~Validate(content) THEN NoSite ELSE content

\* loadSiteFile on a file's content: the site, or NoSite and an error.
LoadSiteFile(content) ==
  IF content \in Sites /\ Validate(content) THEN content ELSE NoSite

-----------------------------------------------------------------------------
(* From a loaded list to the tables. *)

AllDomains(s) == {s.domain} \cup s.aliases

Active(sites) == {f \in Files : sites[f] # NoSite /\ sites[f].enabled}

\* sort.Slice by Domain over a list built in directory order.
Before(sites, f, g) ==
  \/ Rank[sites[f].domain] < Rank[sites[g].domain]
  \/ sites[f].domain = sites[g].domain /\ f < g

\* The loops that fill a map overwrite: the last claimant of a key stays.
LastOf(sites, F) ==
  IF F = {} THEN NoFile
  ELSE CHOOSE f \in F : \A g \in F \ {f} : Before(sites, g, f)

\* The byDomain map of Store.Replace.
ByDomain(sites) ==
  [n \in Names |->
     LastOf(sites, {f \in Active(sites) :
                      \E d \in AllDomains(sites[f]) : Lower[d] = n})]

\* Store.Lookup on a Host header.
Lookup(byDomain, host) == byDomain[Lower[host]]

\* NewPool succeeds.
Pooled(sites) ==
  {f \in Active(sites) : \A u \in sites[f].ups : ParsesUpstream(u)}

\* The runtimes map of Router.Reload: written under the domain and each alias.
Runtimes(sites) ==
  [n \in Names |->
     LastOf(sites, {f \in Pooled(sites) : n \in AllDomains(sites[f])})]

\* NewLimiter is called and does not return nil.
Limited(s) == s.limit.on /\ s.limit.rps > 0

\* Mutant of CertDomains: the aliases get no certificate.
CertDomainsOnly(sites) ==
  {sites[f].domain : f \in {g \in Active(sites) : sites[g].auto}}

\* acme.DomainsFromSites.
CertDomains(sites) ==
  UNION {AllDomains(sites[f]) : f \in {g \in Active(sites) : sites[g].auto}}

\* The keep set of OnReload.
Keep(sites) == UNION {AllDomains(sites[f]) : f \in Active(sites)}

\* No two enabled sites claim a common name, whatever its case.
Disjoint(sites) ==
  \A f, g \in Active(sites) : f # g =>
    \A d \in AllDomains(sites[f]), e \in AllDomains(sites[g]) :
      Lower[d] # Lower[e]
=============================================================================
