-------------------------- MODULE SiteConfigProofs --------------------------
(***************************************************************************)
(* Facts about the operators of SiteConfig, for every set of names, files  *)
(* and sites.                                                              *)
(***************************************************************************)
EXTENDS SiteConfig, FiniteSetTheorems, TLAPS

\* A loaded list: what LoadSites leaves, file by file.
Loaded == [Files -> Sites \cup {NoSite}]

\* The loaded sites among F.
Holds(sites, F) == F \subseteq Files /\ \A f \in F : sites[f] \in Sites

IsLast(sites, F, f) == f \in F /\ \A g \in F \ {f} : Before(sites, g, f)

\* The order of sort.Slice over a list in directory order is strict and total.
LEMMA BeforeIsTotalOrder ==
  ASSUME NEW sites \in Loaded, NEW F, Holds(sites, F)
  PROVE  /\ \A f, g, h \in F : Before(sites, f, g) /\ Before(sites, g, h)
                                 => Before(sites, f, h)
         /\ \A f, g \in F : f # g => Before(sites, f, g) \/ Before(sites, g, f)
<1>1. \A f \in F : sites[f].domain \in Names /\ f \in Nat
  BY FilesAssumption, SitesAssumption DEF Holds, Site
<1>2. \A f \in F : Rank[sites[f].domain] \in Nat
  BY <1>1, NamesAssumption
<1>3. \A f, g \in F : Rank[sites[f].domain] = Rank[sites[g].domain]
                        => sites[f].domain = sites[g].domain
  BY <1>1, NamesAssumption
<1>4. \A f, g, h \in F : Before(sites, f, g) /\ Before(sites, g, h)
                           => Before(sites, f, h)
  BY <1>1, <1>2 DEF Before
<1>5. \A f, g \in F : f # g => Before(sites, f, g) \/ Before(sites, g, f)
  BY <1>1, <1>2, <1>3 DEF Before
<1> QED BY <1>4, <1>5

\* Every set of loaded sites that is not empty has a last one.  A smallest set
\* without one would lose an element and so have one.
LEMMA LastExists ==
  ASSUME NEW sites \in Loaded, NEW F, Holds(sites, F), F # {}
  PROVE  \E f \in F : IsLast(sites, F, f)
<1> DEFINE Bad == {G \in SUBSET F : G # {} /\ \A f \in G : ~IsLast(sites, G, f)}
<1>1. IsFiniteSet(F)
  BY FilesAssumption, FS_Subset DEF Holds
<1>2. IsWellFoundedOn(StrictSubsetOrdering(F), SUBSET F)
  BY <1>1, FS_FiniteSubsetsOfFinite, FS_StrictSubsetOrderingWellFounded
<1>3. ASSUME Bad # {} PROVE FALSE
  <2>1. Bad \subseteq SUBSET F
    OBVIOUS
  <2>2. PICK G \in Bad : \A H \in Bad : ~ (<<H, G>> \in StrictSubsetOrdering(F))
    <3> HIDE DEF Bad
    <3> QED BY <1>2, <1>3, <2>1, WFMin
  <2>3. PICK x \in G : TRUE
    OBVIOUS
  <2>4. <<G \ {x}, G>> \in StrictSubsetOrdering(F)
    BY <2>3 DEF StrictSubsetOrdering
  <2>5. G \ {x} \notin Bad
    BY <2>2, <2>4
  <2>6. Holds(sites, G)
    BY DEF Holds
  <2>7. CASE G \ {x} = {}
    BY <2>3, <2>7 DEF IsLast
  <2>8. CASE G \ {x} # {}
    <3>1. PICK y \in G \ {x} : IsLast(sites, G \ {x}, y)
      BY <2>5, <2>8
    <3>2. IsLast(sites, G, x) \/ IsLast(sites, G, y)
      BY <2>3, <2>6, <3>1, BeforeIsTotalOrder DEF IsLast
    <3> QED BY <2>3, <3>1, <3>2
  <2> QED BY <2>7, <2>8
<1> QED
  <2>1. F \notin Bad
    BY <1>3
  <2> QED BY <2>1

\* The loops that fill a map leave the last claimant, and leave one.
THEOREM LastOfIsLast ==
  ASSUME NEW sites \in Loaded, NEW F, Holds(sites, F)
  PROVE  /\ F = {} => LastOf(sites, F) = NoFile
         /\ F # {} => IsLast(sites, F, LastOf(sites, F))
<1>1. CASE F = {}
  BY <1>1 DEF LastOf
<1>2. CASE F # {}
  <2>1. \E f \in F : \A g \in F \ {f} : Before(sites, g, f)
    BY <1>2, LastExists DEF IsLast
  <2> QED BY <1>2, <2>1 DEF LastOf, IsLast
<1> QED BY <1>1, <1>2

LEMMA ActiveHolds ==
  ASSUME NEW sites \in Loaded, NEW F, F \subseteq Active(sites)
  PROVE  Holds(sites, F)
BY SitesAssumption DEF Active, Holds, Loaded

\* Both tables map every name to a file or to none.
LEMMA TablesType ==
  ASSUME NEW sites \in Loaded
  PROVE  /\ ByDomain(sites) \in [Names -> Files \cup {NoFile}]
         /\ Runtimes(sites) \in [Names -> Files \cup {NoFile}]
<1>1. ASSUME NEW F, F \subseteq Active(sites)
      PROVE  LastOf(sites, F) \in Files \cup {NoFile}
  BY <1>1, LastOfIsLast, ActiveHolds DEF IsLast, Holds
<1>2. Pooled(sites) \subseteq Active(sites)
  BY DEF Pooled
<1> QED BY <1>1, <1>2 DEF ByDomain, Runtimes

\* An enabled site of the list that a name belongs to gives the name an entry.
LEMMA ClaimedIsRouted ==
  ASSUME NEW sites \in Loaded, NEW f \in Active(sites),
         NEW d \in AllDomains(sites[f])
  PROVE  /\ ByDomain(sites)[Lower[d]] # NoFile
         /\ f \in Pooled(sites) => Runtimes(sites)[d] # NoFile
<1>1. sites[f] \in Site /\ f \in Files
  BY SitesAssumption DEF Active, Loaded
<1>2. d \in Names /\ Lower[d] \in Names
  BY <1>1, NamesAssumption DEF AllDomains, Site
<1>3. ASSUME NEW F, F \subseteq Active(sites), F # {}
      PROVE  LastOf(sites, F) # NoFile
  BY <1>3, LastOfIsLast, ActiveHolds, FilesAssumption DEF IsLast, Holds
<1>4. ByDomain(sites)[Lower[d]] # NoFile
  BY <1>2, <1>3 DEF ByDomain
<1>5. f \in Pooled(sites) => Runtimes(sites)[d] # NoFile
  BY <1>2, <1>3 DEF Runtimes, Pooled
<1> QED BY <1>4, <1>5

\* What a load leaves of a file is a site that passed Validate, or nothing.
LEMMA LoadSiteFileType ==
  ASSUME NEW content
  PROVE  /\ LoadSiteFile(content) \in Sites \cup {NoSite}
         /\ LoadSiteFile(content) # NoSite => Validate(LoadSiteFile(content))
BY SitesAssumption DEF LoadSiteFile

\* Flipping the enabled flag leaves a valid site valid.
LEMMA FlipKeepsValid ==
  ASSUME NEW s \in Sites, NEW b \in BOOLEAN
  PROVE  /\ [s EXCEPT !.enabled = b] \in Sites
         /\ [s EXCEPT !.enabled = b] # NoSite
         /\ Validate(s) => Validate([s EXCEPT !.enabled = b])
BY SitesAssumption DEF Validate, Site

\* An entry of a table is an enabled site of the list that claims the name.
LEMMA EntryIsClaimant ==
  ASSUME NEW sites \in Loaded, NEW n \in Names
  PROVE  /\ Runtimes(sites)[n] # NoFile =>
              /\ Runtimes(sites)[n] \in Active(sites)
              /\ n \in AllDomains(sites[Runtimes(sites)[n]])
         /\ ByDomain(sites)[n] # NoFile =>
              /\ ByDomain(sites)[n] \in Active(sites)
              /\ \E d \in AllDomains(sites[ByDomain(sites)[n]]) : Lower[d] = n
<1>1. ASSUME NEW F, F \subseteq Active(sites), LastOf(sites, F) # NoFile
      PROVE  LastOf(sites, F) \in F
  BY <1>1, LastOfIsLast, ActiveHolds DEF IsLast
<1>2. Pooled(sites) \subseteq Active(sites)
  BY DEF Pooled
<1>3. ASSUME Runtimes(sites)[n] # NoFile
      PROVE  /\ Runtimes(sites)[n] \in Active(sites)
             /\ n \in AllDomains(sites[Runtimes(sites)[n]])
  <2> DEFINE F == {f \in Pooled(sites) : n \in AllDomains(sites[f])}
  <2>1. Runtimes(sites)[n] = LastOf(sites, F)
    BY DEF Runtimes
  <2>2. F \subseteq Active(sites)
    BY <1>2
  <2> QED BY <1>1, <1>3, <2>1, <2>2
<1>4. ASSUME ByDomain(sites)[n] # NoFile
      PROVE  /\ ByDomain(sites)[n] \in Active(sites)
             /\ \E d \in AllDomains(sites[ByDomain(sites)[n]]) : Lower[d] = n
  <2> DEFINE F == {f \in Active(sites) : \E d \in AllDomains(sites[f]) : Lower[d] = n}
  <2>1. ByDomain(sites)[n] = LastOf(sites, F)
    BY DEF ByDomain
  <2> QED BY <1>1, <1>4, <2>1
<1> QED BY <1>3, <1>4
=============================================================================
