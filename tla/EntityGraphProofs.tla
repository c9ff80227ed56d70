-------------------------- MODULE EntityGraphProofs --------------------------
(***************************************************************************)
(* For any number of entities, aliases, artifacts, cards and importers:    *)
(* the graph keeps its types, nothing resolves to or hangs on an entity    *)
(* that was merged away, merges never form a cycle, a removed alias stays  *)
(* removed and an owned alias stays with its owner; no hint is lost,       *)
(* certainty rests on an address, decisions stand, an approval links       *)
(* everything that waited, and a card stays with its person.               *)
(***************************************************************************)
EXTENDS EntityGraph, WellFoundedInduction, TLAPS

\* Only a row that was written is ever merged away: a freshly minted id is live.
MergedExist == \A e \in Entities : mergedInto[e] # Null => Exists(e)

GraphInv == TypeOK /\ MergedExist /\ NothingOnMerged

Owners == [Aliases -> Entities \cup {Null}]
Links == [Artifacts -> [Entities -> {"none", "inferred", "certain"}]]

-----------------------------------------------------------------------------
\* Claiming gives an alias to e or leaves it with its owner.
LEMMA ClaimFacts ==
  ASSUME TypeOK, NEW e \in Entities \cup {Null}, NEW S
  PROVE  /\ Claim(e, S) \in Owners
         /\ \A al \in Aliases :
              \/ Claim(e, S)[al] = owner[al]
              \/ /\ Claim(e, S)[al] = e
                 /\ owner[al] = Null
                 /\ al \notin tombs[e]
BY DEF TypeOK, Owners, Claim

\* Retroactive linking adds a link only where the entity owns a queued alias.
LEMMA LinkedFacts ==
  ASSUME TypeOK, NEW own, NEW E
  PROVE  /\ Linked(own, E) \in Links
         /\ \A a \in Artifacts, e \in Entities :
              \/ Linked(own, E)[a][e] = link[a][e]
              \/ /\ e \in E
                 /\ \E al \in Aliases : own[al] = e
BY DEF TypeOK, Links, Linked, Evidence

LEMMA HintLinksFacts ==
  ASSUME TypeOK, NEW a \in Artifacts, NEW hints \in HintLists
  PROVE  /\ HintLinks(a, hints) \in Links
         /\ \A b \in Artifacts, e \in Entities :
              \/ HintLinks(a, hints)[b][e] = link[b][e]
              \/ \E al \in Aliases : owner[al] = e
<1> DEFINE hl == [e \in Entities |->
                    IF link[a][e] # "none" \/ Matches(hints, e) = {} THEN link[a][e]
                    ELSE Strength(FirstMatch(hints, e))]
<1>1. hl \in [Entities -> {"none", "inferred", "certain"}]
  BY DEF TypeOK, Strength
<1>2. HintLinks(a, hints) = [link EXCEPT ![a] = hl]
  BY DEF HintLinks
<1>3. \A e \in Entities : Matches(hints, e) # {} => \E al \in Aliases : owner[al] = e
  <2>1. hints \in Seq(Hints)
    BY PayloadAssumption
  <2>2. \A i \in DOMAIN hints : hints[i] \in Hints
    BY <2>1
  <2>. QED
    BY <2>2 DEF Matches, Hints
<1>. QED
  BY <1>1, <1>2, <1>3 DEF TypeOK, Links

LEMMA RaiseType ==
  ASSUME TypeOK, NEW P, Raise(P)
  PROVE  status' \in [Proposals -> {"none", "pending", "approved", "rejected"}]
BY DEF TypeOK, Raise

LEMMA MintType ==
  ASSUME TypeOK, NEW e \in Entities, NEW d \in DisplayNames, NEW H \in SUBSET Addresses,
         Mint(e, d, H)
  PROVE  /\ canonical' \in [Entities -> DisplayNames \cup {Null}]
         /\ attrs' \in [Entities -> SUBSET Addresses]
         /\ mergedInto' \in [Entities -> Entities \cup {Null}]
BY DEF TypeOK, Mint

LEMMA MergedLinksFacts ==
  ASSUME TypeOK, NEW keep \in Entities, NEW absorb \in Entities, keep # absorb
  PROVE  /\ MergedLinks(keep, absorb) \in Links
         /\ \A a \in Artifacts : MergedLinks(keep, absorb)[a][absorb] = "none"
         /\ \A a \in Artifacts, e \in Entities \ {keep, absorb} :
              MergedLinks(keep, absorb)[a][e] = link[a][e]
BY DEF TypeOK, Links, MergedLinks

\* A busy importer holds a card and its content.
LEMMA BusyImporter ==
  ASSUME TypeOK, NEW i \in Importers, importing[i].busy
  PROVE  /\ importing[i].card \in Cards
         /\ importing[i].content \in CardContents
         /\ importing[i].content \in Contents
<1>1. importing[i] \in Imports
  BY DEF TypeOK, Idle
<1>. QED
  BY <1>1, PayloadAssumption DEF Imports

-----------------------------------------------------------------------------
\* Type correctness, one step per handler.
LEMMA TypeNext == TypeOK /\ [Next]_vars => TypeOK'
<1> SUFFICES ASSUME TypeOK, [Next]_vars PROVE TypeOK'
  OBVIOUS
<1> USE DEF entityVars, aliasVars, reviewVars, cardVars
<1>1. ASSUME NEW a \in Artifacts, NEW hints \in HintLists, ResolveEntityHints(a, hints)
      PROVE  TypeOK'
  <2>1. hints \in Seq(Hints) /\ \A i \in DOMAIN hints : hints[i] \in Hints
    BY PayloadAssumption
  <2>2. link' \in Links
    BY <1>1, HintLinksFacts DEF ResolveEntityHints
  <2>3. staged' \in [Artifacts -> SUBSET Aliases]
    <3>1. {h.alias : h \in Missed(hints)} \subseteq Aliases
      BY <2>1 DEF Missed, Matches, Hints
    <3>. QED
      BY <1>1, <3>1 DEF ResolveEntityHints, TypeOK
  <2>4. status' \in [Proposals -> {"none", "pending", "approved", "rejected"}]
    BY <1>1, RaiseType DEF ResolveEntityHints
  <2>5. heard' \subseteq Artifacts \X Aliases \X (Entities \cup {Null})
    BY <1>1, <2>1 DEF ResolveEntityHints, TypeOK, Hints
  <2>. QED
    BY <1>1, <2>2, <2>3, <2>4, <2>5 DEF ResolveEntityHints, TypeOK, Links
<1>2. ASSUME NEW p \in Suggestions, ProposeEntity(p) PROVE TypeOK'
  BY <1>2, RaiseType DEF ProposeEntity, TypeOK
<1>3. ASSUME NEW p \in Proposals, ApproveExisting(p) PROVE TypeOK'
  <2>1. p[2] \in Aliases /\ owner[p[2]] \in Entities
    BY <1>3 DEF ApproveExisting, Proposals, TypeOK
  <2>2. link' \in Links
    BY <1>3, LinkedFacts DEF ApproveExisting, Approved
  <2>. QED
    BY <1>3, <2>1, <2>2 DEF ApproveExisting, Approved, TypeOK, Links
<1>4. ASSUME NEW p \in Proposals, NEW e \in Entities, ApproveNew(p, e) PROVE TypeOK'
  <2>1. p[1] \in DisplayNames /\ {} \in SUBSET Addresses
    BY DEF Proposals
  <2>2. owner' \in Owners /\ link' \in Links
    BY <1>4, ClaimFacts, LinkedFacts DEF ApproveNew, Approved
  <2>3. Mint(e, p[1], {})
    BY <1>4 DEF ApproveNew
  <2>. QED
    BY <1>4, <2>1, <2>2, <2>3, MintType DEF ApproveNew, Approved, TypeOK, Links, Owners
<1>5. ASSUME NEW p \in Proposals, RejectProposedEntity(p) PROVE TypeOK'
  BY <1>5 DEF RejectProposedEntity, TypeOK
<1>6. ASSUME NEW entry \in Export, InsertDirectoryEntry(entry[1], entry[2]) PROVE TypeOK'
  <2>1. entry[1] \in Addresses /\ entry[2] \in DisplayNames
    BY PayloadAssumption
  <2>. QED
    BY <1>6, <2>1 DEF InsertDirectoryEntry, TypeOK
<1>7. CASE BackfillDirectoryProposals
  BY <1>7, RaiseType DEF BackfillDirectoryProposals, TypeOK
<1>8. ASSUME NEW e \in Entities, NEW f \in Forms, CreateEntity(e, f.name, f.addresses)
      PROVE  TypeOK'
  <2>1. f.name \in DisplayNames /\ f.addresses \in SUBSET Addresses
    BY PayloadAssumption DEF Profiles
  <2>2. owner' \in Owners
    BY <1>8, ClaimFacts DEF CreateEntity
  <2>3. Mint(e, f.name, f.addresses)
    BY <1>8 DEF CreateEntity
  <2>. QED
    BY <1>8, <2>1, <2>2, <2>3, MintType DEF CreateEntity, TypeOK, Owners
<1>9. ASSUME NEW e \in Entities, NEW f \in Forms, UpdateEntityAttrs(e, f.name, f.addresses)
      PROVE  TypeOK'
  <2>1. f.name \in DisplayNames /\ f.addresses \in SUBSET Addresses
    BY PayloadAssumption DEF Profiles
  <2>2. owner' \in Owners
    BY <1>9, ClaimFacts DEF UpdateEntityAttrs, Owners
  <2>3. tombs' \in [Entities -> SUBSET Aliases]
    BY <1>9 DEF UpdateEntityAttrs, TypeOK, Aliases
  <2>. QED
    BY <1>9, <2>1, <2>2, <2>3 DEF UpdateEntityAttrs, TypeOK, Owners
<1>10. ASSUME NEW e \in Entities, NEW al \in Edits, AddAlias(e, al) \/ RemoveAlias(e, al)
       PROVE  TypeOK'
  <2>1. al \in Aliases
    BY PayloadAssumption
  <2>2. owner' \in Owners /\ tombs' \in [Entities -> SUBSET Aliases]
    <3>1. CASE AddAlias(e, al)
      BY <3>1, <2>1 DEF AddAlias, TypeOK, Owners
    <3>2. CASE RemoveAlias(e, al)
      <4>1. tombs' = tombs \/ tombs' = [tombs EXCEPT ![e] = @ \cup {al}]
        BY <3>2 DEF RemoveAlias
      <4>. QED
        BY <3>2, <2>1, <4>1 DEF RemoveAlias, TypeOK, Owners
    <3>. QED
      BY <1>10, <3>1, <3>2
  <2>3. UNCHANGED <<entityVars, link, staged, reviewVars, directory, cardVars,
                    importing, sweep, heard>>
    BY <1>10 DEF AddAlias, RemoveAlias
  <2>. QED
    BY <2>2, <2>3 DEF TypeOK, Owners
<1>11. ASSUME NEW keep \in Entities, NEW absorb \in Entities, MergeEntities(keep, absorb)
       PROVE  TypeOK'
  BY <1>11, MergedLinksFacts DEF MergeEntities, TypeOK, Links
<1>12. CASE BackfillRead
  BY <1>12 DEF BackfillRead, TypeOK
<1>13. CASE BackfillEntityLinks
  BY <1>13, LinkedFacts DEF BackfillEntityLinks, TypeOK, Links
<1>14. ASSUME NEW i \in Importers, NEW c \in Cards, NEW content \in CardContents,
              ImportRead(i, c, content)
       PROVE  TypeOK'
  BY <1>14 DEF ImportRead, TypeOK, Imports
<1>15. ASSUME NEW i \in Importers, ImportFails(i) PROVE TypeOK'
  BY <1>15 DEF ImportFails, TypeOK
<1>16. ASSUME NEW i \in Importers, ImportChanged(i) PROVE TypeOK'
  <2>1. importing[i].card \in Cards /\ importing[i].content \in CardContents
    BY <1>16, BusyImporter DEF ImportChanged
  <2>2. self[importing[i].card] \in Entities \cup {Null}
    BY <2>1 DEF TypeOK
  <2>3. owner' \in Owners /\ link' \in Links
    BY <1>16, <2>2, ClaimFacts, LinkedFacts DEF ImportChanged, Imported
  <2>. QED
    BY <1>16, <2>1, <2>3 DEF ImportChanged, Imported, TypeOK, Owners, Links
<1>17. ASSUME NEW i \in Importers, NEW e \in Entities, ImportExisting(i, e) \/ ImportNew(i, e)
       PROVE  TypeOK'
  <2>1. /\ importing[i].card \in Cards
        /\ importing[i].content \in CardContents
        /\ importing[i].content \in Contents
    BY <1>17, BusyImporter DEF ImportExisting, ImportNew
  <2>2. Imported(i, e) /\ StoreCard(i, e)
    BY <1>17 DEF ImportExisting, ImportNew
  <2>3. owner' \in Owners /\ link' \in Links
    BY <2>2, ClaimFacts, LinkedFacts DEF Imported
  <2>4. /\ canonical' \in [Entities -> DisplayNames \cup {Null}]
        /\ attrs' \in [Entities -> SUBSET Addresses]
        /\ mergedInto' \in [Entities -> Entities \cup {Null}]
    <3>1. CASE ImportExisting(i, e)
      BY <3>1 DEF ImportExisting, TypeOK
    <3>2. CASE ImportNew(i, e)
      <4>1. /\ importing[i].content.name \in DisplayNames
            /\ importing[i].content.emails \cup importing[i].content.phones \in SUBSET Addresses
        BY <2>1 DEF Contents
      <4>. QED
        BY <3>2, <4>1, MintType DEF ImportNew
    <3>. QED
      BY <1>17, <3>1, <3>2
  <2>5. card' \in [Cards -> CardContents \cup {Null}] /\ self' \in [Cards -> Entities \cup {Null}]
    BY <2>1, <2>2 DEF StoreCard, TypeOK
  <2>. QED
    BY <2>2, <2>3, <2>4, <2>5 DEF Imported, TypeOK, Owners, Links
<1>18. CASE UNCHANGED vars
  BY <1>18 DEF vars, TypeOK
<1>. QED
  BY <1>1, <1>2, <1>3, <1>4, <1>5, <1>6, <1>7, <1>8, <1>9, <1>10, <1>11, <1>12,
     <1>13, <1>14, <1>15, <1>16, <1>17, <1>18 DEF Next

\* The graph keeps its types for every number of entities, aliases, artifacts,
\* cards and importers.
THEOREM TypeCorrect == Spec => []TypeOK
<1>1. Init => TypeOK
  BY DEF Init, TypeOK, Idle
<1>. QED
  BY <1>1, TypeNext, PTL DEF Spec

-----------------------------------------------------------------------------
\* A step after which every live entity is still live, and which gives aliases,
\* links and contact cards to live entities only, keeps merged ones bare.
LEMMA LiveStep ==
  ASSUME TypeOK, NothingOnMerged,
         \A e \in Entities : Live(e) => Live(e)',
         \A al \in Aliases : owner'[al] \in {owner[al], Null} \/ Live(owner[al])',
         \A a \in Artifacts, e \in Entities : link'[a][e] = link[a][e] \/ Live(e)',
         \A c \in Cards : self'[c] = self[c] \/ Live(self[c])'
  PROVE  NothingOnMerged'
<1>1. \A al \in Aliases : owner'[al] # Null => Live(owner[al])'
  BY DEF TypeOK, NothingOnMerged
<1>2. \A a \in Artifacts, e \in Entities : link'[a][e] # "none" => Live(e)'
  BY DEF TypeOK, NothingOnMerged
<1>3. \A c \in Cards : self'[c] # Null => Live(self[c])'
  BY DEF TypeOK, NothingOnMerged
<1>. QED
  BY <1>1, <1>2, <1>3 DEF NothingOnMerged

\* Minting or renaming leaves live entities live and makes the new one live.
LEMMA MintLive ==
  ASSUME TypeOK, MergedExist, NEW e \in Entities, NEW d \in DisplayNames, NEW H,
         Mint(e, d, H)
  PROVE  /\ \A f \in Entities : Live(f) => Live(f)'
         /\ Live(e)'
         /\ MergedExist'
BY NullAssumption DEF TypeOK, MergedExist, Mint, Live, Exists

\* What a claim by e and the linking of e do to a graph in which e ends up live.
LEMMA ClaimLive ==
  ASSUME TypeOK, NEW e \in Entities, Live(e)', NEW S, owner' = Claim(e, S)
  PROVE  \A al \in Aliases : owner'[al] \in {owner[al], Null} \/ Live(owner[al])'
<1>1. \A al \in Aliases : owner'[al] = owner[al] \/ owner'[al] = e
  BY ClaimFacts
<1>. QED
  BY <1>1

LEMMA LinkedLive ==
  ASSUME TypeOK, NEW e \in Entities, Live(e)', NEW own, link' = Linked(own, {e})
  PROVE  \A a \in Artifacts, f \in Entities : link'[a][f] = link[a][f] \/ Live(f)'
<1>1. \A a \in Artifacts, f \in Entities : link'[a][f] = link[a][f] \/ f = e
  BY LinkedFacts
<1>. QED
  BY <1>1
\* A step that leaves the entities alone leaves live what was live.
LEMMA SameEntities ==
  ASSUME MergedExist, UNCHANGED entityVars
  PROVE  /\ MergedExist'
         /\ \A e \in Entities : Live(e) => Live(e)'
BY DEF MergedExist, entityVars, Live, Exists

LEMMA HintsLive ==
  ASSUME GraphInv, NEW a \in Artifacts, NEW hints \in HintLists, ResolveEntityHints(a, hints)
  PROVE  MergedExist' /\ NothingOnMerged'
<1>1. UNCHANGED entityVars /\ UNCHANGED <<owner, self>> /\ link' = HintLinks(a, hints)
  BY DEF ResolveEntityHints, aliasVars, cardVars
<1>2. \A b \in Artifacts, e \in Entities : link'[b][e] = link[b][e] \/ Live(e)
  BY <1>1, HintLinksFacts, NullAssumption DEF GraphInv, NothingOnMerged
<1>. QED
  BY <1>1, <1>2, SameEntities, LiveStep DEF GraphInv

\* Approving hands aliases and links to the owner of the alias or a new entity.
LEMMA ApproveLive ==
  ASSUME GraphInv, NEW p \in Proposals,
         ApproveExisting(p) \/ \E e \in Entities : ApproveNew(p, e)
  PROVE  MergedExist' /\ NothingOnMerged'
<1>1. p[1] \in DisplayNames /\ p[2] \in Aliases
  BY DEF Proposals
<1>2. CASE ApproveExisting(p)
  <2>1. owner[p[2]] \in Entities /\ Live(owner[p[2]])
    BY <1>1, <1>2 DEF ApproveExisting, GraphInv, TypeOK, NothingOnMerged
  <2>2. UNCHANGED entityVars /\ UNCHANGED <<owner, self>> /\ link' = Linked(owner', {owner[p[2]]})
    BY <1>2 DEF ApproveExisting, Approved, cardVars
  <2>3. MergedExist' /\ \A e \in Entities : Live(e) => Live(e)'
    BY <2>2, SameEntities DEF GraphInv
  <2>4. \A a \in Artifacts, f \in Entities : link'[a][f] = link[a][f] \/ Live(f)'
    BY <2>1, <2>2, <2>3, LinkedFacts DEF GraphInv
  <2>. QED
    BY <2>2, <2>3, <2>4, LiveStep DEF GraphInv
<1>3. ASSUME NEW e \in Entities, ApproveNew(p, e) PROVE MergedExist' /\ NothingOnMerged'
  <2>1. /\ Mint(e, p[1], {})
        /\ owner' = Claim(e, NameKeys[p[1]] \cup {p[2]})
        /\ link' = Linked(owner', {e})
        /\ UNCHANGED self
    BY <1>3 DEF ApproveNew, Approved, cardVars
  <2>2. MergedExist' /\ Live(e)' /\ \A f \in Entities : Live(f) => Live(f)'
    BY <1>1, <2>1, MintLive DEF GraphInv
  <2>. QED
    BY <2>1, <2>2, ClaimLive, LinkedLive, LiveStep DEF GraphInv
<1>. QED
  BY <1>2, <1>3

\* Creating and editing contacts hands aliases to live entities.
LEMMA FormLive ==
  ASSUME GraphInv, NEW e \in Entities, NEW f \in Forms,
         CreateEntity(e, f.name, f.addresses) \/ UpdateEntityAttrs(e, f.name, f.addresses)
  PROVE  MergedExist' /\ NothingOnMerged'
<1>1. f.name \in DisplayNames /\ f.addresses \in SUBSET Addresses
  BY PayloadAssumption DEF Profiles
<1>2. UNCHANGED <<link, self>>
  BY DEF CreateEntity, UpdateEntityAttrs, cardVars
<1>3. CASE CreateEntity(e, f.name, f.addresses)
  <2>1. Mint(e, f.name, f.addresses) /\ owner' = Claim(e, NameKeys[f.name] \cup f.addresses)
    BY <1>3 DEF CreateEntity
  <2>2. MergedExist' /\ Live(e)' /\ \A g \in Entities : Live(g) => Live(g)'
    BY <1>1, <2>1, MintLive DEF GraphInv
  <2>. QED
    BY <1>2, <2>1, <2>2, ClaimLive, LiveStep DEF GraphInv
<1>4. CASE UpdateEntityAttrs(e, f.name, f.addresses)
  <2>1. /\ Live(e)
        /\ canonical' = [canonical EXCEPT ![e] = f.name]
        /\ UNCHANGED mergedInto
    BY <1>4 DEF UpdateEntityAttrs
  <2>2. MergedExist' /\ \A g \in Entities : Live(g) => Live(g)'
    BY <1>1, <2>1, NullAssumption DEF GraphInv, TypeOK, MergedExist, Live, Exists
  <2>3. \A x \in Aliases : owner'[x] \in {owner[x], Null, e}
    <3> DEFINE added == f.addresses \ attrs[e]
               removed == attrs[e] \ f.addresses
               renamed == IF f.name = canonical[e] THEN {} ELSE NameKeys[f.name]
    <3>1. owner' = [x \in Aliases |-> IF x \in removed /\ owner[x] = e THEN Null
                                      ELSE Claim(e, renamed \cup added)[x]]
      BY <1>4 DEF UpdateEntityAttrs
    <3>2. \A x \in Aliases : Claim(e, renamed \cup added)[x] \in {owner[x], e}
      BY ClaimFacts DEF GraphInv
    <3>. QED
      BY <3>1, <3>2
  <2>. QED
    BY <1>2, <2>1, <2>2, <2>3, LiveStep DEF GraphInv
<1>. QED
  BY <1>3, <1>4

LEMMA AliasLive ==
  ASSUME GraphInv, NEW e \in Entities, NEW al \in Edits, AddAlias(e, al) \/ RemoveAlias(e, al)
  PROVE  MergedExist' /\ NothingOnMerged'
<1>1. UNCHANGED entityVars /\ UNCHANGED <<link, self>>
  BY DEF AddAlias, RemoveAlias, cardVars
<1>2. MergedExist' /\ \A g \in Entities : Live(g) => Live(g)'
  BY <1>1, SameEntities DEF GraphInv
<1>3. CASE AddAlias(e, al)
  <2>1. Live(e) /\ \A x \in Aliases : owner'[x] = owner[x] \/ owner'[x] = e
    BY <1>3 DEF AddAlias, GraphInv, TypeOK
  <2>. QED
    BY <1>1, <1>2, <2>1, LiveStep DEF GraphInv
<1>4. CASE RemoveAlias(e, al)
  <2>1. \A x \in Aliases : owner'[x] \in {owner[x], Null}
    BY <1>4 DEF RemoveAlias, GraphInv, TypeOK
  <2>. QED
    BY <1>1, <1>2, <2>1, LiveStep DEF GraphInv
<1>. QED
  BY <1>3, <1>4

\* A merge strips the absorbed entity before it is marked.
LEMMA MergeLive ==
  ASSUME GraphInv, NEW keep \in Entities, NEW absorb \in Entities,
         MergeEntities(keep, absorb)
  PROVE  MergedExist' /\ NothingOnMerged'
<1>1. /\ keep # absorb /\ Live(keep) /\ Live(absorb)
      /\ owner' = [al \in Aliases |-> IF owner[al] = absorb THEN keep ELSE owner[al]]
      /\ link' = MergedLinks(keep, absorb)
      /\ self' = [c \in Cards |-> IF self[c] = absorb THEN keep ELSE self[c]]
      /\ mergedInto' = [mergedInto EXCEPT ![absorb] = keep]
      /\ UNCHANGED canonical
  BY DEF MergeEntities
<1>2. \A e \in Entities \ {absorb} : Live(e) => Live(e)'
  BY <1>1 DEF Live, Exists, GraphInv, TypeOK
<1>3. \A al \in Aliases : owner'[al] # Null => Live(owner[al])'
  <2> SUFFICES ASSUME NEW al \in Aliases, owner'[al] # Null PROVE Live(owner[al])'
    OBVIOUS
  <2>1. owner'[al] \in Entities \ {absorb} /\ Live(owner'[al])
    BY <1>1 DEF GraphInv, TypeOK, NothingOnMerged
  <2>. QED
    BY <2>1, <1>2
<1>4. \A a \in Artifacts, e \in Entities : link'[a][e] # "none" => Live(e)'
  <2> SUFFICES ASSUME NEW a \in Artifacts, NEW e \in Entities, link'[a][e] # "none"
               PROVE  Live(e)'
    OBVIOUS
  <2>1. e # absorb /\ Live(e)
    BY <1>1, MergedLinksFacts DEF GraphInv, NothingOnMerged
  <2>. QED
    BY <2>1, <1>2
<1>5. \A c \in Cards : self'[c] # Null => Live(self[c])'
  <2> SUFFICES ASSUME NEW c \in Cards, self'[c] # Null PROVE Live(self[c])'
    OBVIOUS
  <2>1. self'[c] \in Entities \ {absorb} /\ Live(self'[c])
    BY <1>1 DEF GraphInv, TypeOK, NothingOnMerged
  <2>. QED
    BY <2>1, <1>2
<1>6. MergedExist'
  BY <1>1 DEF MergedExist, Live, Exists, GraphInv, TypeOK
<1>. QED
  BY <1>3, <1>4, <1>5, <1>6 DEF NothingOnMerged

\* A sweep may hold an entity that was merged after it was read: it owns no
\* alias any more, so the backfill links nothing to it.
LEMMA BackfillLive ==
  ASSUME GraphInv, BackfillEntityLinks
  PROVE  MergedExist' /\ NothingOnMerged'
<1>1. UNCHANGED entityVars /\ UNCHANGED <<owner, self>> /\ link' = Linked(owner, sweep)
  BY DEF BackfillEntityLinks, aliasVars, cardVars
<1>2. \A a \in Artifacts, e \in Entities : link'[a][e] = link[a][e] \/ Live(e)
  BY <1>1, LinkedFacts, NullAssumption DEF GraphInv, NothingOnMerged
<1>. QED
  BY <1>1, <1>2, SameEntities, LiveStep DEF GraphInv
\* Whatever a card was imported into - the owner of one of its aliases, a new
\* entity, or the entity the stored card is filed under - is live.
LEMMA ImportLive ==
  ASSUME GraphInv, NEW i \in Importers,
         ImportChanged(i) \/ \E e \in Entities : ImportExisting(i, e) \/ ImportNew(i, e)
  PROVE  MergedExist' /\ NothingOnMerged'
<1>1. /\ importing[i].card \in Cards
      /\ importing[i].content \in Contents
  BY BusyImporter DEF ImportChanged, ImportExisting, ImportNew, GraphInv
<1>2. CASE ImportChanged(i)
  <2>0. PICK e \in Entities \cup {Null} : e = self[importing[i].card]
    BY <1>1 DEF GraphInv, TypeOK
  <2>1. /\ UNCHANGED entityVars
        /\ owner' = Claim(e, CardAliases(importing[i].content))
        /\ link' = Linked(owner', {e})
        /\ UNCHANGED self
    BY <1>2, <2>0 DEF ImportChanged, Imported
  <2>2. MergedExist' /\ \A f \in Entities : Live(f) => Live(f)'
    BY <2>1, SameEntities DEF GraphInv
  <2>3. e # Null => Live(e)'
    BY <1>1, <2>0, <2>2 DEF GraphInv, NothingOnMerged
  <2>4. \A al \in Aliases : owner'[al] = owner[al] \/ owner'[al] = e
    BY <2>1, ClaimFacts DEF GraphInv
  <2>5. \A a \in Artifacts, f \in Entities : link'[a][f] = link[a][f] \/ f = e
    BY <2>1, LinkedFacts DEF GraphInv
  <2>. QED
    BY <2>1, <2>2, <2>3, <2>4, <2>5, LiveStep, NullAssumption DEF GraphInv
<1>3. ASSUME NEW e \in Entities, ImportExisting(i, e) \/ ImportNew(i, e)
      PROVE  MergedExist' /\ NothingOnMerged'
  <2>1. Imported(i, e) /\ StoreCard(i, e)
    BY <1>3 DEF ImportExisting, ImportNew
  <2>2. MergedExist' /\ Live(e)' /\ \A f \in Entities : Live(f) => Live(f)'
    <3>1. CASE ImportExisting(i, e)
      <4>1. \E al \in Aliases : owner[al] = e
        BY <3>1, <1>1, NameAssumption, NullAssumption DEF ImportExisting, Resolves, Contents, Aliases
      <4>2. Live(e)
        BY <4>1, NullAssumption DEF GraphInv, NothingOnMerged
      <4>3. UNCHANGED entityVars
        BY <3>1 DEF ImportExisting
      <4>. QED
        BY <4>2, <4>3, SameEntities DEF GraphInv
    <3>2. CASE ImportNew(i, e)
      <4>1. importing[i].content.name \in DisplayNames
        BY <1>1 DEF Contents
      <4>. QED
        BY <3>2, <4>1, MintLive DEF ImportNew, GraphInv
    <3>. QED
      BY <1>3, <3>1, <3>2
  <2>3. \A al \in Aliases : owner'[al] \in {owner[al], Null} \/ Live(owner[al])'
    BY <2>1, <2>2, ClaimLive DEF Imported, GraphInv
  <2>4. \A a \in Artifacts, f \in Entities : link'[a][f] = link[a][f] \/ Live(f)'
    BY <2>1, <2>2, LinkedLive DEF Imported, GraphInv
  <2>5. \A c \in Cards : self'[c] = self[c] \/ self'[c] = e
    BY <2>1 DEF StoreCard, cardVars, GraphInv, TypeOK
  <2>. QED
    BY <2>2, <2>3, <2>4, <2>5, LiveStep DEF GraphInv
<1>. QED
  BY <1>2, <1>3

\* The other steps touch neither the entities nor what hangs on them.
LEMMA QuietLive ==
  ASSUME GraphInv, UNCHANGED <<entityVars, owner, link, self>>
  PROVE  MergedExist' /\ NothingOnMerged'
BY SameEntities, LiveStep DEF GraphInv

LEMMA GraphInvNext == GraphInv /\ [Next]_vars => GraphInv'
<1> SUFFICES ASSUME GraphInv, [Next]_vars PROVE GraphInv'
  OBVIOUS
<1>1. TypeOK'
  BY TypeNext DEF GraphInv
<1>2. MergedExist' /\ NothingOnMerged'
  <2>1. CASE UNCHANGED vars
    BY <2>1, QuietLive DEF vars, entityVars
  <2>2. ASSUME NEW p, \/ ProposeEntity(p) \/ RejectProposedEntity(p)
                      \/ InsertDirectoryEntry(p[1], p[2])
                      \/ BackfillDirectoryProposals \/ BackfillRead
        PROVE  UNCHANGED <<entityVars, owner, link, self>>
    BY <2>2 DEF ProposeEntity, RejectProposedEntity, InsertDirectoryEntry,
                BackfillDirectoryProposals, BackfillRead, aliasVars, cardVars
  <2>3. ASSUME NEW i \in Importers,
               ImportFails(i) \/ \E c \in Cards, content \in CardContents : ImportRead(i, c, content)
        PROVE  UNCHANGED <<entityVars, owner, link, self>>
    BY <2>3 DEF ImportFails, ImportRead, aliasVars, cardVars
  <2>4. CASE \E a \in Artifacts, hints \in HintLists : ResolveEntityHints(a, hints)
    BY <2>4, HintsLive
  <2>5. ASSUME NEW p \in Proposals, ApproveExisting(p) \/ \E e \in Entities : ApproveNew(p, e)
        PROVE  MergedExist' /\ NothingOnMerged'
    BY <2>5, ApproveLive
  <2>6. ASSUME NEW e \in Entities, NEW f \in Forms,
               CreateEntity(e, f.name, f.addresses) \/ UpdateEntityAttrs(e, f.name, f.addresses)
        PROVE  MergedExist' /\ NothingOnMerged'
    BY <2>6, FormLive
  <2>7. ASSUME NEW e \in Entities, NEW al \in Edits, AddAlias(e, al) \/ RemoveAlias(e, al)
        PROVE  MergedExist' /\ NothingOnMerged'
    BY <2>7, AliasLive
  <2>8. ASSUME NEW keep \in Entities, NEW absorb \in Entities, MergeEntities(keep, absorb)
        PROVE  MergedExist' /\ NothingOnMerged'
    BY <2>8, MergeLive
  <2>9. CASE BackfillEntityLinks
    BY <2>9, BackfillLive
  <2>10. ASSUME NEW i \in Importers,
                ImportChanged(i) \/ \E e \in Entities : ImportExisting(i, e) \/ ImportNew(i, e)
         PROVE  MergedExist' /\ NothingOnMerged'
    BY <2>10, ImportLive
  <2>. QED
    BY <2>1, <2>2, <2>3, <2>4, <2>5, <2>6, <2>7, <2>8, <2>9, <2>10, QuietLive DEF Next
<1>. QED
  BY <1>1, <1>2 DEF GraphInv

LEMMA GraphInvariant == Spec => []GraphInv
<1>1. Init => GraphInv
  BY DEF Init, GraphInv, TypeOK, MergedExist, NothingOnMerged, Idle
<1>. QED
  BY <1>1, GraphInvNext, PTL DEF Spec

\* No alias, artifact or contact card ever hangs on a merged entity, although
\* lookups never follow merged_into (src/src/db.js:716-721).
THEOREM MergedStayBare == Spec => []NothingOnMerged
BY GraphInvariant, PTL DEF GraphInv

-----------------------------------------------------------------------------
\* Only a merge writes merged_into.
LEMMA MergesOnly ==
  ASSUME [Next]_vars,
         ~ \E keep, absorb \in Entities : MergeEntities(keep, absorb)
  PROVE  UNCHANGED mergedInto
BY DEF Next, vars, entityVars, ResolveEntityHints, ProposeEntity, ApproveExisting,
       ApproveNew, Mint, RejectProposedEntity, InsertDirectoryEntry,
       BackfillDirectoryProposals, CreateEntity, UpdateEntityAttrs, AddAlias,
       RemoveAlias, BackfillRead, BackfillEntityLinks, ImportRead, ImportFails,
       ImportChanged, ImportExisting, ImportNew

\* Chains of merges end: mergeEntities only ever points a live entity at a live
\* one (src/src/db.js:1170-1176).
THEOREM MergesAcyclic == Spec => []NoMergeCycle
<1>1. Init => NoMergeCycle
  BY NullAssumption DEF Init, NoMergeCycle
<1>2. TypeOK /\ NoMergeCycle /\ [Next]_vars => NoMergeCycle'
  <2> SUFFICES ASSUME TypeOK, NoMergeCycle, [Next]_vars,
                      NEW S \in SUBSET Entities, S # {}
               PROVE  \E e \in S : mergedInto'[e] \notin S
    BY DEF NoMergeCycle
  <2>1. PICK e \in S : mergedInto[e] \notin S
    BY DEF NoMergeCycle
  <2>2. ASSUME NEW keep \in Entities, NEW absorb \in Entities, MergeEntities(keep, absorb)
        PROVE  \E f \in S : mergedInto'[f] \notin S
    <3>1. /\ keep # absorb /\ mergedInto[keep] = Null
          /\ mergedInto' = [mergedInto EXCEPT ![absorb] = keep]
      BY <2>2 DEF MergeEntities, Live
    <3>2. CASE keep \in S
      BY <3>1, <3>2, NullAssumption DEF TypeOK
    <3>3. CASE keep \notin S
      BY <2>1, <3>1, <3>3 DEF TypeOK
    <3>. QED
      BY <3>2, <3>3
  <2>. QED
    BY <2>1, <2>2, MergesOnly
<1>. QED
  BY <1>1, <1>2, TypeCorrect, PTL DEF Spec

-----------------------------------------------------------------------------
\* All that a step can do to an alias: leave it, free it, hand it to an entity
\* in a merge of its owner, or give it to an entity that may have it.
AliasStep(al) ==
  \/ owner'[al] \in {owner[al], Null}
  \/ /\ owner[al] \in Entities
     /\ Live(owner[al])
     /\ mergedInto'[owner[al]] = owner'[al]
  \/ /\ owner[al] = Null
     /\ \A e \in Entities : owner'[al] = e => al \notin tombs[e] \/ al \notin tombs'[e]

LEMMA ClaimStep ==
  ASSUME TypeOK, NEW e \in Entities \cup {Null}, NEW S, owner' = Claim(e, S)
  PROVE  \A al \in Aliases : AliasStep(al)
BY ClaimFacts DEF AliasStep

LEMMA EveryAliasStep ==
  ASSUME TypeOK, [Next]_vars
  PROVE  \A al \in Aliases : AliasStep(al)
<1> USE DEF aliasVars
<1>1. CASE owner' = owner
  BY <1>1 DEF AliasStep
<1>2. ASSUME NEW p \in Proposals, NEW e \in Entities, ApproveNew(p, e)
      PROVE  \A al \in Aliases : AliasStep(al)
  BY <1>2, ClaimStep DEF ApproveNew
<1>3. ASSUME NEW e \in Entities, NEW f \in Forms, CreateEntity(e, f.name, f.addresses)
      PROVE  \A al \in Aliases : AliasStep(al)
  BY <1>3, ClaimStep DEF CreateEntity
<1>4. ASSUME NEW e \in Entities, NEW f \in Forms, UpdateEntityAttrs(e, f.name, f.addresses)
      PROVE  \A al \in Aliases : AliasStep(al)
  <2> DEFINE added == f.addresses \ attrs[e]
             removed == attrs[e] \ f.addresses
             renamed == IF f.name = canonical[e] THEN {} ELSE NameKeys[f.name]
  <2>0. PICK S : S = renamed \cup added
    OBVIOUS
  <2>1. owner' = [al \in Aliases |->
                    IF al \in removed /\ owner[al] = e THEN Null ELSE Claim(e, S)[al]]
    BY <1>4, <2>0 DEF UpdateEntityAttrs
  <2>2. \A al \in Aliases :
          \/ Claim(e, S)[al] = owner[al]
          \/ Claim(e, S)[al] = e /\ owner[al] = Null /\ al \notin tombs[e]
    BY ClaimFacts
  <2>. QED
    BY <2>1, <2>2 DEF AliasStep
<1>5. ASSUME NEW e \in Entities, NEW al \in Edits, AddAlias(e, al)
      PROVE  \A x \in Aliases : AliasStep(x)
  <2>1. /\ tombs' = [tombs EXCEPT ![e] = @ \ {al}]
        /\ owner' = owner \/ (owner[al] = Null /\ owner' = [owner EXCEPT ![al] = e])
    BY <1>5 DEF AddAlias
  <2>2. al \notin tombs'[e] /\ \A x \in Aliases \ {al} : owner'[x] = owner[x]
    BY <2>1 DEF TypeOK
  <2>3. al \in Aliases /\ (owner'[al] = owner[al] \/ (owner[al] = Null /\ owner'[al] = e))
    BY <2>1, PayloadAssumption DEF TypeOK
  <2>. QED
    BY <2>2, <2>3 DEF AliasStep
<1>6. ASSUME NEW e \in Entities, NEW al \in Edits, RemoveAlias(e, al)
      PROVE  \A x \in Aliases : AliasStep(x)
  BY <1>6 DEF RemoveAlias, AliasStep, TypeOK
<1>7. ASSUME NEW keep \in Entities, NEW absorb \in Entities, MergeEntities(keep, absorb)
      PROVE  \A al \in Aliases : AliasStep(al)
  <2>1. /\ Live(absorb)
        /\ owner' = [al \in Aliases |-> IF owner[al] = absorb THEN keep ELSE owner[al]]
        /\ mergedInto' = [mergedInto EXCEPT ![absorb] = keep]
    BY <1>7 DEF MergeEntities
  <2>2. mergedInto'[absorb] = keep
    BY <2>1 DEF TypeOK
  <2>. QED
    BY <2>1, <2>2 DEF AliasStep
<1>8. ASSUME NEW i \in Importers, ImportChanged(i)
      PROVE  \A al \in Aliases : AliasStep(al)
  <2>1. self[importing[i].card] \in Entities \cup {Null}
    BY <1>8, BusyImporter DEF ImportChanged, TypeOK
  <2>. QED
    BY <1>8, <2>1, ClaimStep DEF ImportChanged, Imported
<1>9. ASSUME NEW i \in Importers, NEW e \in Entities, ImportExisting(i, e) \/ ImportNew(i, e)
      PROVE  \A al \in Aliases : AliasStep(al)
  BY <1>9, ClaimStep DEF ImportExisting, ImportNew, Imported
<1>. QED
  BY <1>1, <1>2, <1>3, <1>4, <1>5, <1>6, <1>7, <1>8, <1>9
     DEF Next, vars, ResolveEntityHints, ProposeEntity, ApproveExisting,
         RejectProposedEntity, InsertDirectoryEntry, BackfillDirectoryProposals,
         BackfillRead, BackfillEntityLinks, ImportRead, ImportFails

\* First writer wins: an alias leaves its owner only by being removed or with
\* the owner in a merge (INSERT OR IGNORE, src/src/db.js:391).
THEOREM AliasesNotStolen == Spec => NoAliasTheft
<1>1. TypeOK /\ [Next]_vars =>
        \A al \in Aliases :
          owner'[al] \notin {owner[al], Null} /\ owner[al] # Null
            => Live(owner[al]) /\ mergedInto'[owner[al]] = owner'[al]
  BY EveryAliasStep DEF AliasStep
<1>. QED
  BY <1>1, TypeCorrect, PTL DEF Spec, NoAliasTheft

\* What was removed from an entity comes back to it only by an explicit re-add
\* or with an entity merged into it (src/src/db.js:1418-1425, 1632-1634).
THEOREM RemovedStayRemoved == Spec => TombstonesHonored
<1>1. TypeOK /\ [Next]_vars =>
        \A e \in Entities : \A al \in tombs[e] :
          (owner[al] # e /\ owner'[al] = e)
            => \/ al \notin tombs'[e]
               \/ owner[al] # Null /\ mergedInto'[owner[al]] = e
  <2> SUFFICES ASSUME TypeOK, [Next]_vars, NEW e \in Entities, NEW al \in tombs[e],
                      owner[al] # e, owner'[al] = e
               PROVE  \/ al \notin tombs'[e]
                      \/ owner[al] # Null /\ mergedInto'[owner[al]] = e
    OBVIOUS
  <2>1. al \in Aliases
    BY DEF TypeOK
  <2>. QED
    BY <2>1, EveryAliasStep, NullAssumption DEF AliasStep
<1>. QED
  BY <1>1, TypeCorrect, PTL DEF Spec, TombstonesHonored

-----------------------------------------------------------------------------
\* What a step may do to a decision of the reviewer: raise what was never
\* raised, and decide what is pending, or reject it once more.
LEMMA ReviewStep ==
  ASSUME TypeOK, [Next]_vars, NEW q \in Proposals
  PROVE  status[q] \in {"approved", "rejected"} => status'[q] = status[q] /\ resolved'[q] = resolved[q]
<1> USE DEF reviewVars
<1> SUFFICES ASSUME status[q] \in {"approved", "rejected"}
             PROVE  status'[q] = status[q] /\ resolved'[q] = resolved[q]
  OBVIOUS
<1>1. ASSUME NEW P, Raise(P) PROVE status'[q] = status[q]
  BY <1>1 DEF Raise
<1>2. ASSUME NEW p \in Proposals, NEW e, Approved(p, e), status[p] = "pending"
      PROVE  status'[q] = status[q] /\ resolved'[q] = resolved[q]
  BY <1>2 DEF Approved, TypeOK
<1>3. ASSUME NEW p \in Proposals, RejectProposedEntity(p)
      PROVE  status'[q] = status[q] /\ resolved'[q] = resolved[q]
  BY <1>3 DEF RejectProposedEntity, TypeOK
<1>4. CASE UNCHANGED reviewVars
  BY <1>4
<1>5. CASE \E P : Raise(P) /\ UNCHANGED resolved
  BY <1>1, <1>5
<1>. QED
  BY <1>2, <1>3, <1>4, <1>5
     DEF Next, vars, ResolveEntityHints, ProposeEntity, ApproveExisting, ApproveNew,
         BackfillDirectoryProposals, InsertDirectoryEntry, CreateEntity, UpdateEntityAttrs,
         AddAlias, RemoveAlias, MergeEntities, BackfillRead, BackfillEntityLinks,
         ImportRead, ImportFails, Imported, ImportExisting, ImportNew, ImportChanged

\* Approved stays approved and rejected stays rejected: rejecting refuses an
\* approved proposal, approving anything that is not pending (src/src/db.js:1561-1567).
THEOREM DecisionsStand == Spec => DecisionsFinal
<1> DEFINE Stand == \A p \in Proposals : status[p] \in {"approved", "rejected"}
                      => status'[p] = status[p] /\ resolved'[p] = resolved[p]
<1>1. TypeOK /\ [Next]_vars => [Stand]_vars
  BY ReviewStep
<1>. QED
  BY <1>1, TypeCorrect, PTL DEF Spec, DecisionsFinal

-----------------------------------------------------------------------------
\* Nothing was ever removed from an entity that is still to be minted, so its
\* first aliases meet no tombstone.
FreshBare == \A e \in Entities : ~Exists(e) => tombs[e] = {}

LEMMA FreshBareNext == GraphInv /\ FreshBare /\ [Next]_vars => FreshBare'
<1> SUFFICES ASSUME GraphInv, FreshBare, [Next]_vars PROVE FreshBare'
  OBVIOUS
<1> USE DEF entityVars, aliasVars
<1>1. CASE UNCHANGED <<canonical, tombs>>
  BY <1>1 DEF FreshBare, Exists
<1>2. ASSUME NEW e \in Entities, NEW d \in DisplayNames, NEW H, Mint(e, d, H), UNCHANGED tombs
      PROVE  FreshBare'
  <2>1. \A f \in Entities : Exists(f) => Exists(f)'
    BY <1>2, NullAssumption DEF Mint, Exists, GraphInv, TypeOK
  <2>. QED
    BY <1>2, <2>1 DEF FreshBare
<1>3. ASSUME NEW p \in Proposals, NEW e \in Entities, ApproveNew(p, e) PROVE FreshBare'
  BY <1>2, <1>3 DEF ApproveNew, Approved, Proposals
<1>4. ASSUME NEW e \in Entities, NEW f \in Forms, CreateEntity(e, f.name, f.addresses)
      PROVE  FreshBare'
  BY <1>2, <1>4, PayloadAssumption DEF CreateEntity, Profiles
<1>5. ASSUME NEW e \in Entities, NEW f \in Forms, UpdateEntityAttrs(e, f.name, f.addresses)
      PROVE  FreshBare'
  <2>1. Exists(e) /\ f.name \in DisplayNames
    BY <1>5, PayloadAssumption DEF UpdateEntityAttrs, Live, Profiles
  <2>2. canonical' = [canonical EXCEPT ![e] = f.name] /\ \A x \in Entities \ {e} : tombs'[x] = tombs[x]
    BY <1>5 DEF UpdateEntityAttrs, GraphInv, TypeOK
  <2>. QED
    BY <2>1, <2>2, NullAssumption DEF FreshBare, Exists, GraphInv, TypeOK
<1>6. ASSUME NEW e \in Entities, NEW al \in Edits, AddAlias(e, al) \/ RemoveAlias(e, al)
      PROVE  FreshBare'
  <2>1. UNCHANGED canonical
    BY <1>6 DEF AddAlias, RemoveAlias
  <2>2. tombs' = tombs \/ (Exists(e) /\ \A x \in Entities \ {e} : tombs'[x] = tombs[x])
    BY <1>6 DEF AddAlias, RemoveAlias, Live, GraphInv, TypeOK
  <2>. QED
    BY <2>1, <2>2 DEF FreshBare, Exists
<1>7. ASSUME NEW i \in Importers, NEW e \in Entities, ImportNew(i, e) PROVE FreshBare'
  <2>1. importing[i].content.name \in DisplayNames
    BY <1>7, BusyImporter DEF ImportNew, Contents, GraphInv
  <2>. QED
    BY <1>2, <1>7, <2>1 DEF ImportNew, Imported
<1>. QED
  BY <1>1, <1>3, <1>4, <1>5, <1>6, <1>7
     DEF Next, vars, ResolveEntityHints, ProposeEntity, ApproveExisting, Approved,
         RejectProposedEntity, InsertDirectoryEntry, BackfillDirectoryProposals,
         MergeEntities, BackfillRead, BackfillEntityLinks, ImportRead, ImportFails,
         Imported, ImportExisting, ImportChanged

\* Approving links whoever ends up with the alias to all that was queued under it.
LEMMA ApprovalStep ==
  ASSUME GraphInv, FreshBare, [Next]_vars, NEW p \in Proposals,
         status[p] # "approved", status'[p] = "approved",
         NEW a \in Artifacts, p[2] \in staged[a]
  PROVE  link'[a][resolved'[p]] # "none"
<1> USE DEF reviewVars
<1>1. p[1] \in DisplayNames /\ p[2] \in Aliases
  BY DEF Proposals
<1>2. ASSUME NEW P, Raise(P) PROVE FALSE
  BY <1>2 DEF Raise
<1>3. ASSUME NEW e \in Entities, Approved(p, e), owner'[p[2]] = e
      PROVE  link'[a][resolved'[p]] # "none"
  <2>1. resolved'[p] = e /\ link' = Linked(owner', {e})
    BY <1>3 DEF Approved, GraphInv, TypeOK
  <2>2. p[2] \in Evidence(a, owner', e)
    BY <1>3 DEF Evidence
  <2>3. link'[a][e] = IF link[a][e] # "none" THEN link[a][e]
                      ELSE IF Evidence(a, owner', e) \cap Addresses # {} THEN "certain" ELSE "inferred"
    BY <2>1, <2>2 DEF Linked
  <2>. QED
    BY <2>1, <2>3
<1>4. ASSUME ApproveExisting(p) PROVE link'[a][resolved'[p]] # "none"
  <2>1. owner[p[2]] \in Entities /\ Approved(p, owner[p[2]]) /\ owner' = owner
    BY <1>1, <1>4 DEF ApproveExisting, GraphInv, TypeOK
  <2>. QED
    BY <1>3, <2>1
<1>5. ASSUME NEW e \in Entities, ApproveNew(p, e) PROVE link'[a][resolved'[p]] # "none"
  <2>1. /\ ~Exists(e) /\ owner[p[2]] = Null
        /\ owner' = Claim(e, NameKeys[p[1]] \cup {p[2]}) /\ Approved(p, e)
    BY <1>5 DEF ApproveNew, Mint
  <2>2. owner'[p[2]] = e
    BY <1>1, <2>1 DEF FreshBare, Claim
  <2>. QED
    BY <1>3, <2>1, <2>2
<1>6. ASSUME NEW q \in Proposals, q # p, ApproveExisting(q) \/ \E e \in Entities : ApproveNew(q, e)
      PROVE  FALSE
  BY <1>6 DEF ApproveExisting, ApproveNew, Approved, GraphInv, TypeOK
<1>7. ASSUME NEW q \in Proposals, RejectProposedEntity(q) PROVE FALSE
  BY <1>7 DEF RejectProposedEntity, GraphInv, TypeOK
<1>. QED
  BY <1>2, <1>4, <1>5, <1>6, <1>7
     DEF Next, vars, ResolveEntityHints, ProposeEntity, BackfillDirectoryProposals,
         InsertDirectoryEntry, CreateEntity, UpdateEntityAttrs, AddAlias, RemoveAlias,
         MergeEntities, BackfillRead, BackfillEntityLinks, ImportRead, ImportFails,
         Imported, ImportExisting, ImportNew, ImportChanged

\* An approval leaves no artifact behind that was queued under the proposal's
\* alias (src/src/db.js:1524-1528), whether it finds the entity or mints it.
THEOREM ApprovalsLink == Spec => ApprovalLinksQueue
<1>1. Init => FreshBare
  BY DEF Init, FreshBare
<1>2. GraphInv /\ FreshBare /\ [Next]_vars =>
        \A p \in Proposals : (status[p] # "approved" /\ status'[p] = "approved")
          => \A a \in Artifacts : p[2] \in staged[a] => link'[a][resolved'[p]] # "none"
  BY ApprovalStep
<1>. QED
  BY <1>1, <1>2, FreshBareNext, GraphInvariant, PTL DEF Spec, ApprovalLinksQueue

-----------------------------------------------------------------------------
\* Only a card that is stored is filed under an entity: the import that finds
\* the card stored leaves its self link alone.
FiledAreStored == \A c \in Cards : self[c] # Null => card[c] # Null

\* All that a step does to the cards: leave them, re-point their self links in
\* a merge, file one that was not stored, or store another content.
LEMMA CardStep ==
  ASSUME GraphInv, [Next]_vars
  PROVE  \/ UNCHANGED cardVars
         \/ \E keep, absorb \in Entities :
              /\ MergeEntities(keep, absorb)
              /\ UNCHANGED card
         \/ \E c \in Cards :
              /\ card' = [card EXCEPT ![c] = card'[c]] /\ card'[c] # Null
              /\ self' = self \/ (card[c] = Null /\ \E e \in Entities : self' = [self EXCEPT ![c] = e])
<1>1. ASSUME NEW i \in Importers, ImportChanged(i)
      PROVE  \E c \in Cards :
               card' = [card EXCEPT ![c] = card'[c]] /\ card'[c] # Null /\ self' = self
  <2>1. PICK c \in Cards, s \in CardContents : c = importing[i].card /\ s = importing[i].content
    BY <1>1, BusyImporter DEF ImportChanged, GraphInv
  <2>2. card' = [card EXCEPT ![c] = s] /\ self' = self
    BY <1>1, <2>1 DEF ImportChanged
  <2>3. card'[c] = s /\ s # Null
    BY <2>1, <2>2, NullAssumption, PayloadAssumption DEF GraphInv, TypeOK
  <2>. QED
    BY <2>2, <2>3
<1>2. ASSUME NEW i \in Importers, NEW e \in Entities, ImportExisting(i, e) \/ ImportNew(i, e)
      PROVE  \/ UNCHANGED cardVars
             \/ \E c \in Cards :
                  /\ card' = [card EXCEPT ![c] = card'[c]] /\ card'[c] # Null
                  /\ card[c] = Null /\ self' = [self EXCEPT ![c] = e]
  <2>1. PICK c \in Cards, s \in CardContents : c = importing[i].card /\ s = importing[i].content
    BY <1>2, BusyImporter DEF ImportExisting, ImportNew, GraphInv
  <2>2. \/ UNCHANGED cardVars
        \/ card[c] = Null /\ card' = [card EXCEPT ![c] = s] /\ self' = [self EXCEPT ![c] = e]
    BY <1>2, <2>1 DEF ImportExisting, ImportNew, StoreCard
  <2>3. s # Null
    BY <2>1, NullAssumption, PayloadAssumption
  <2>. QED
    BY <2>2, <2>3 DEF GraphInv, TypeOK
<1>3. ASSUME NEW keep \in Entities, NEW absorb \in Entities, MergeEntities(keep, absorb)
      PROVE  UNCHANGED card
  BY <1>3 DEF MergeEntities
<1>4. ASSUME ~ \E i \in Importers :
               ImportChanged(i) \/ \E e \in Entities : ImportExisting(i, e) \/ ImportNew(i, e),
             ~ \E keep, absorb \in Entities : MergeEntities(keep, absorb)
      PROVE  UNCHANGED cardVars
  BY <1>4
     DEF Next, vars, cardVars, ResolveEntityHints, ProposeEntity, ApproveExisting, ApproveNew,
         Approved, RejectProposedEntity, InsertDirectoryEntry, BackfillDirectoryProposals,
         CreateEntity, UpdateEntityAttrs, AddAlias, RemoveAlias, BackfillRead,
         BackfillEntityLinks, ImportRead, ImportFails
<1>5. CASE \E i \in Importers : ImportChanged(i)
  BY <1>1, <1>5
<1>6. CASE \E i \in Importers, e \in Entities : ImportExisting(i, e) \/ ImportNew(i, e)
  BY <1>2, <1>6
<1>7. CASE \E keep, absorb \in Entities : MergeEntities(keep, absorb)
  BY <1>3, <1>7
<1>. QED
  BY <1>4, <1>5, <1>6, <1>7

LEMMA FiledNext == GraphInv /\ FiledAreStored /\ [Next]_vars => FiledAreStored'
<1> SUFFICES ASSUME GraphInv, FiledAreStored, [Next]_vars PROVE FiledAreStored'
  OBVIOUS
<1>1. CASE UNCHANGED cardVars
  BY <1>1 DEF FiledAreStored, cardVars
<1>2. ASSUME NEW keep \in Entities, NEW absorb \in Entities,
             MergeEntities(keep, absorb), UNCHANGED card
      PROVE  FiledAreStored'
  <2>1. \A c \in Cards : self'[c] # Null => self[c] # Null
    BY <1>2, NullAssumption DEF MergeEntities
  <2>. QED
    BY <1>2, <2>1 DEF FiledAreStored
<1>3. ASSUME NEW c \in Cards, card' = [card EXCEPT ![c] = card'[c]], card'[c] # Null,
             self' = self \/ \E e \in Entities : self' = [self EXCEPT ![c] = e]
      PROVE  FiledAreStored'
  BY <1>3 DEF FiledAreStored, GraphInv, TypeOK
<1>. QED
  BY <1>1, <1>2, <1>3, CardStep

LEMMA SelfStep ==
  ASSUME GraphInv, FiledAreStored, [Next]_vars, NEW c \in Cards, self[c] # Null
  PROVE  \/ self'[c] = self[c]
         \/ mergedInto[self[c]] = Null /\ mergedInto'[self[c]] = self'[c]
<1>1. CASE UNCHANGED cardVars
  BY <1>1 DEF cardVars
<1>2. ASSUME NEW keep \in Entities, NEW absorb \in Entities, MergeEntities(keep, absorb)
      PROVE  \/ self'[c] = self[c]
             \/ mergedInto[self[c]] = Null /\ mergedInto'[self[c]] = self'[c]
  BY <1>2 DEF MergeEntities, Live, GraphInv, TypeOK
<1>3. ASSUME NEW d \in Cards,
             self' = self \/ (card[d] = Null /\ \E e \in Entities : self' = [self EXCEPT ![d] = e])
      PROVE  self'[c] = self[c]
  BY <1>3 DEF FiledAreStored, GraphInv, TypeOK
<1>. QED
  BY <1>1, <1>2, <1>3, CardStep

\* The person a stored card is filed under changes only by a merge, however
\* many imports of the card race at the embedding (storeArtifactTxn leaves a stored
\* card alone, src/src/contacts.js:400).
THEOREM SelfLinkFollowsMerges == Spec => SelfLinkStays
<1> DEFINE Stays == \A c \in Cards : self[c] # Null =>
                      \/ self'[c] = self[c]
                      \/ mergedInto[self[c]] = Null /\ mergedInto'[self[c]] = self'[c]
<1>1. Init => FiledAreStored
  BY DEF Init, FiledAreStored
<1>2. GraphInv /\ FiledAreStored /\ [Next]_vars => [Stays]_vars
  BY SelfStep
<1>. QED
  BY <1>1, <1>2, FiledNext, GraphInvariant, PTL DEF Spec, SelfLinkStays

-----------------------------------------------------------------------------
\* Only a payload of hints queues anything or is heard.
LEMMA HintsOnly ==
  ASSUME [Next]_vars,
         ~ \E a \in Artifacts, hints \in HintLists : ResolveEntityHints(a, hints)
  PROVE  UNCHANGED <<staged, heard>>
BY DEF Next, vars, ProposeEntity, ApproveExisting, ApproveNew, Approved,
       RejectProposedEntity, InsertDirectoryEntry, BackfillDirectoryProposals,
       CreateEntity, UpdateEntityAttrs, AddAlias, RemoveAlias, MergeEntities,
       BackfillRead, BackfillEntityLinks, ImportRead, ImportFails, Imported,
       ImportChanged, ImportExisting, ImportNew

\* All that the other steps do to links: retroactive linking, and a merge.
LEMMA LinkStep ==
  ASSUME [Next]_vars,
         ~ \E a \in Artifacts, hints \in HintLists : ResolveEntityHints(a, hints)
  PROVE  \/ UNCHANGED link
         \/ \E own, E : link' = Linked(own, E)
         \/ \E keep, absorb \in Entities : MergeEntities(keep, absorb)
<1>1. ASSUME NEW i \in Importers, ImportChanged(i) PROVE \E own, E : link' = Linked(own, E)
  BY <1>1 DEF ImportChanged, Imported
<1>2. ASSUME NEW i \in Importers, NEW e, ImportExisting(i, e) \/ ImportNew(i, e)
      PROVE  \E own, E : link' = Linked(own, E)
  BY <1>2 DEF ImportExisting, ImportNew, Imported
<1>3. ASSUME NEW p, NEW e, Approved(p, e) PROVE \E own, E : link' = Linked(own, E)
  BY <1>3 DEF Approved
<1>4. ASSUME BackfillEntityLinks PROVE \E own, E : link' = Linked(own, E)
  BY <1>4 DEF BackfillEntityLinks
<1>. QED
  BY <1>1, <1>2, <1>3, <1>4
     DEF Next, vars, ProposeEntity, ApproveExisting, ApproveNew, RejectProposedEntity,
         InsertDirectoryEntry, BackfillDirectoryProposals, CreateEntity, UpdateEntityAttrs,
         AddAlias, RemoveAlias, BackfillRead, ImportRead, ImportFails

-----------------------------------------------------------------------------
LEMMA LeastExists ==
  ASSUME NEW S \in SUBSET Nat, S # {}
  PROVE  \E e \in S : \A f \in S : e =< f
<1> DEFINE R == OpToRel(<, Nat)
<1>0. IsWellFoundedOn(R, Nat)
  BY NatLessThanWellFounded
<1>1. ASSUME NEW e \in Nat, NEW f \in Nat, ~(<<f, e>> \in R) PROVE e =< f
  BY <1>1 DEF OpToRel
<1> HIDE DEF R
<1>2. PICK e \in S : \A f \in S : ~(<<f, e>> \in R)
  BY <1>0, WFMin, Zenon
<1>3. ASSUME NEW f \in S PROVE e =< f
  BY <1>1, <1>2
<1>. QED
  BY <1>3

\* What is queued was heard: certainty that comes out of the queue goes back to
\* a hint of that artifact.
QueuedWasHeard ==
  \A a \in Artifacts : \A al \in staged[a] : \E t \in heard : t[1] = a /\ t[2] = al

EvidenceInv == QueuedWasHeard /\ CertainHasAddress

LEMMA HintsKeepEvidence ==
  ASSUME GraphInv, EvidenceInv, NEW a \in Artifacts, NEW hints \in HintLists,
         ResolveEntityHints(a, hints)
  PROVE  EvidenceInv'
<1>1. \A i \in DOMAIN hints : hints[i] \in Hints
  BY PayloadAssumption
<1>2. /\ link' = HintLinks(a, hints)
      /\ staged' = [staged EXCEPT ![a] = @ \cup {h.alias : h \in Missed(hints)}]
      /\ heard' = heard \cup {<<a, hints[i].alias, owner[hints[i].alias]>> : i \in DOMAIN hints}
  BY DEF ResolveEntityHints
<1>3. ASSUME NEW i \in DOMAIN hints PROVE \E t \in heard' : t[1] = a /\ t[2] = hints[i].alias
  <2>1. PICK al, o : al = hints[i].alias /\ o = owner[al]
    OBVIOUS
  <2>2. <<a, al, o>> \in heard'
    BY <1>2, <2>1
  <2>3. <<a, al, o>>[1] = a /\ <<a, al, o>>[2] = al
    OBVIOUS
  <2>. QED
    BY <2>1, <2>2, <2>3
<1>4. heard \subseteq heard'
  <2>1. PICK N : N = {<<a, hints[i].alias, owner[hints[i].alias]>> : i \in DOMAIN hints}
    OBVIOUS
  <2>. QED
    BY <1>2, <2>1
<1>5. QueuedWasHeard'
  <2> SUFFICES ASSUME NEW b \in Artifacts, NEW al \in staged'[b]
               PROVE  \E t \in heard' : t[1] = b /\ t[2] = al
    BY DEF QueuedWasHeard
  <2>1. CASE al \in staged[b]
    BY <1>4, <2>1 DEF EvidenceInv, QueuedWasHeard
  <2>2. CASE b = a /\ al \in {h.alias : h \in Missed(hints)}
    BY <1>3, <2>2 DEF Missed, Matches
  <2>3. PICK Q : Q = {h.alias : h \in Missed(hints)}
    OBVIOUS
  <2>4. staged' = [staged EXCEPT ![a] = @ \cup Q]
    BY <1>2, <2>3
  <2>5. al \in staged[b] \/ (b = a /\ al \in Q)
    BY <2>4 DEF GraphInv, TypeOK
  <2>. QED
    BY <2>1, <2>2, <2>3, <2>5
<1>6. CertainHasAddress'
  <2> SUFFICES ASSUME NEW b \in Artifacts, NEW e \in Entities, link'[b][e] = "certain"
               PROVE  \E t \in heard' : t[1] = b /\ t[2] \in Addresses
    BY DEF CertainHasAddress
  <2>1. CASE link'[b][e] = link[b][e]
    BY <1>4, <2>1 DEF EvidenceInv, CertainHasAddress
  <2>2. CASE link'[b][e] # link[b][e]
    <3>1. b = a /\ Matches(hints, e) # {} /\ Strength(FirstMatch(hints, e)) = "certain"
      BY <1>2, <2>2 DEF HintLinks, GraphInv, TypeOK
    <3>2. Matches(hints, e) \in SUBSET Nat
      BY PayloadAssumption DEF Matches
    <3>3. PICK i \in Matches(hints, e) : \A j \in Matches(hints, e) : i =< j
      BY <3>1, <3>2, LeastExists
    <3>4. PICK j \in Matches(hints, e) : FirstMatch(hints, e) = hints[j].alias
      BY <3>3 DEF FirstMatch
    <3>5. hints[j].alias \in Addresses /\ j \in DOMAIN hints
      BY <3>1, <3>4 DEF Strength, Matches
    <3>. QED
      BY <1>3, <3>1, <3>5
  <2>. QED
    BY <2>1, <2>2
<1>. QED
  BY <1>5, <1>6 DEF EvidenceInv

LEMMA EvidenceNext == GraphInv /\ EvidenceInv /\ [Next]_vars => EvidenceInv'
<1> SUFFICES ASSUME GraphInv, EvidenceInv, [Next]_vars PROVE EvidenceInv'
  OBVIOUS
<1>1. CASE \E a \in Artifacts, hints \in HintLists : ResolveEntityHints(a, hints)
  BY <1>1, HintsKeepEvidence
<1>2. CASE ~ \E a \in Artifacts, hints \in HintLists : ResolveEntityHints(a, hints)
  <2>1. UNCHANGED <<staged, heard>>
    BY <1>2, HintsOnly
  <2>2. ASSUME NEW a \in Artifacts, NEW e \in Entities, link'[a][e] = "certain"
        PROVE  \E t \in heard : t[1] = a /\ t[2] \in Addresses
    <3>1. CASE UNCHANGED link
      BY <2>2, <3>1 DEF EvidenceInv, CertainHasAddress
    <3>2. ASSUME NEW own, NEW E, link' = Linked(own, E)
          PROVE  \E t \in heard : t[1] = a /\ t[2] \in Addresses
      <4>1. link[a][e] = "certain" \/ Evidence(a, own, e) \cap Addresses # {}
        BY <2>2, <3>2 DEF Linked
      <4>2. Evidence(a, own, e) \subseteq staged[a]
        BY DEF Evidence
      <4>. QED
        BY <4>1, <4>2 DEF EvidenceInv, CertainHasAddress, QueuedWasHeard
    <3>3. ASSUME NEW keep \in Entities, NEW absorb \in Entities, MergeEntities(keep, absorb)
          PROVE  \E t \in heard : t[1] = a /\ t[2] \in Addresses
      <4>1. link[a][e] = "certain" \/ link[a][absorb] = "certain"
        BY <2>2, <3>3 DEF MergeEntities, MergedLinks, GraphInv, TypeOK
      <4>. QED
        BY <4>1 DEF EvidenceInv, CertainHasAddress
    <3>. QED
      BY <1>2, <3>1, <3>2, <3>3, LinkStep
  <2>. QED
    BY <2>1, <2>2 DEF EvidenceInv, CertainHasAddress, QueuedWasHeard
<1>. QED
  BY <1>1, <1>2

\* Confidence 1.0 means an email or a phone in the artifact itself, never a name: neither
\* the queue, nor an approval, nor a merge turns a name into certainty
\* (hintConfidence, src/src/db.js:753-759, at ingest and in resolveStagedArtifactHints).
THEOREM CertaintyHasEvidence == Spec => []CertainHasAddress
<1>1. Init => EvidenceInv
  BY DEF Init, EvidenceInv, QueuedWasHeard, CertainHasAddress
<1>. QED
  BY <1>1, EvidenceNext, GraphInvariant, PTL DEF Spec, EvidenceInv

-----------------------------------------------------------------------------
\* Minting a profile with claimed addresses keeps every listed address resolved.
LEMMA MintListed ==
  ASSUME TypeOK, ListedAddressResolves,
         NEW e \in Entities, NEW d, NEW H \in SUBSET Addresses, NEW S,
         H \subseteq S, Mint(e, d, H), owner' = Claim(e, S), UNCHANGED tombs
  PROVE  ListedAddressResolves'
<1> SUFFICES ASSUME NEW x \in Entities, NEW al \in attrs'[x], owner'[al] = Null
             PROVE  \E f \in Entities : al \in tombs[f]
  BY DEF ListedAddressResolves
<1>1. al \in attrs[x] \/ (al \in H)
  BY DEF Mint, TypeOK
<1>2. al \in Aliases
  BY <1>1 DEF TypeOK, Aliases
<1>3. owner[al] = Null /\ (al \in S => al \in tombs[e] \/ e = Null)
  BY <1>2, NullAssumption DEF Claim
<1>. QED
  BY <1>1, <1>3, NullAssumption DEF ListedAddressResolves

\* Aliases that are only gained keep the profiles listed as they were.
LEMMA GainListed ==
  ASSUME TypeOK, ListedAddressResolves, UNCHANGED attrs, UNCHANGED tombs,
         \A al \in Aliases : owner[al] # Null => owner'[al] # Null
  PROVE  ListedAddressResolves'
BY DEF ListedAddressResolves, TypeOK, Aliases

LEMMA EditListed ==
  ASSUME GraphInv, ListedAddressResolves, NEW e \in Entities, NEW f \in Forms,
         UpdateEntityAttrs(e, f.name, f.addresses)
  PROVE  ListedAddressResolves'
<1>0. PICK H \in SUBSET Addresses : H = f.addresses
  BY PayloadAssumption DEF Profiles
<1>1. PICK S : S = (IF f.name = canonical[e] THEN {} ELSE NameKeys[f.name]) \cup (H \ attrs[e])
  OBVIOUS
<1>2. /\ owner' = [al \in Aliases |->
                     IF al \in attrs[e] \ H /\ owner[al] = e THEN Null ELSE Claim(e, S)[al]]
      /\ tombs' = [tombs EXCEPT ![e] = @ \cup (attrs[e] \ H)]
      /\ attrs' = [attrs EXCEPT ![e] = H]
  BY <1>0, <1>1 DEF UpdateEntityAttrs
<1> SUFFICES ASSUME NEW x \in Entities, NEW al \in attrs'[x], owner'[al] = Null
             PROVE  \E g \in Entities : al \in tombs'[g]
  BY DEF ListedAddressResolves
<1>3. al \in Aliases /\ (al \in attrs[x] \/ (x = e /\ al \in H \ attrs[e]))
  BY <1>0, <1>2 DEF GraphInv, TypeOK, Aliases
<1>4. \A g \in Entities : tombs[g] \subseteq tombs'[g]
  BY <1>2 DEF GraphInv, TypeOK
<1>5. tombs'[e] = tombs[e] \cup (attrs[e] \ H)
  BY <1>2 DEF GraphInv, TypeOK
<1>6. CASE al \in attrs[e] \ H
  BY <1>5, <1>6
<1>7. CASE al \notin attrs[e] \ H
  <2>1. Claim(e, S)[al] = Null
    BY <1>2, <1>3, <1>7
  <2>2. owner[al] = Null /\ (al \in S => al \in tombs[e])
    BY <1>3, <2>1, NullAssumption DEF Claim
  <2>3. al \in attrs[x] \/ al \in tombs[e]
    BY <1>1, <1>3, <2>2
  <2>. QED
    BY <1>4, <2>2, <2>3 DEF ListedAddressResolves
<1>. QED
  BY <1>6, <1>7

LEMMA AliasListed ==
  ASSUME GraphInv, ListedAddressResolves, NEW e \in Entities, NEW al \in Edits,
         AddAlias(e, al) \/ RemoveAlias(e, al)
  PROVE  ListedAddressResolves'
<1>0. UNCHANGED attrs /\ al \in Aliases
  BY PayloadAssumption DEF AddAlias, RemoveAlias, entityVars
<1> SUFFICES ASSUME NEW x \in Entities, NEW y \in attrs[x], owner'[y] = Null
             PROVE  \E g \in Entities : y \in tombs'[g]
  BY <1>0 DEF ListedAddressResolves
<1>1. y \in Aliases
  BY DEF GraphInv, TypeOK, Aliases
<1>2. CASE AddAlias(e, al)
  <2>1. /\ owner' = IF owner[al] = Null THEN [owner EXCEPT ![al] = e] ELSE owner
        /\ tombs' = [tombs EXCEPT ![e] = @ \ {al}]
    BY <1>2 DEF AddAlias
  <2>2. y # al /\ owner[y] = Null
    BY <1>0, <1>1, <2>1, NullAssumption DEF GraphInv, TypeOK
  <2>. QED
    BY <2>1, <2>2 DEF ListedAddressResolves, GraphInv, TypeOK
<1>3. CASE RemoveAlias(e, al)
  <2>1. Exists(e)
    BY <1>0, <1>3, NullAssumption DEF RemoveAlias, GraphInv, NothingOnMerged, Live
  <2>2. owner' = [owner EXCEPT ![al] = Null] /\ tombs' = [tombs EXCEPT ![e] = @ \cup {al}]
    BY <1>3, <2>1 DEF RemoveAlias
  <2>3. y = al \/ owner[y] = Null
    BY <1>0, <1>1, <2>2 DEF GraphInv, TypeOK
  <2>. QED
    BY <2>2, <2>3 DEF ListedAddressResolves, GraphInv, TypeOK
<1>. QED
  BY <1>2, <1>3

LEMMA ListedNext == GraphInv /\ ListedAddressResolves /\ [Next]_vars => ListedAddressResolves'
<1> SUFFICES ASSUME GraphInv, ListedAddressResolves, [Next]_vars
             PROVE  ListedAddressResolves'
  OBVIOUS
<1> USE DEF entityVars, aliasVars
<1>1. CASE UNCHANGED <<attrs, owner, tombs>>
  BY <1>1 DEF ListedAddressResolves
<1>2. ASSUME NEW p \in Proposals, NEW e \in Entities, ApproveNew(p, e)
      PROVE  ListedAddressResolves'
  <2>1. /\ Mint(e, p[1], {}) /\ owner' = Claim(e, NameKeys[p[1]] \cup {p[2]})
        /\ UNCHANGED tombs
    BY <1>2 DEF ApproveNew, Approved
  <2>. QED
    BY <2>1, MintListed DEF GraphInv
<1>3. ASSUME NEW e \in Entities, NEW f \in Forms, CreateEntity(e, f.name, f.addresses)
      PROVE  ListedAddressResolves'
  <2>1. f.addresses \in SUBSET Addresses
    BY PayloadAssumption DEF Profiles
  <2>2. /\ Mint(e, f.name, f.addresses)
        /\ owner' = Claim(e, NameKeys[f.name] \cup f.addresses) /\ UNCHANGED tombs
    BY <1>3 DEF CreateEntity
  <2>. QED
    BY <2>1, <2>2, MintListed DEF GraphInv
<1>4. ASSUME NEW e \in Entities, NEW f \in Forms, UpdateEntityAttrs(e, f.name, f.addresses)
      PROVE  ListedAddressResolves'
  BY <1>4, EditListed
<1>5. ASSUME NEW e \in Entities, NEW al \in Edits, AddAlias(e, al) \/ RemoveAlias(e, al)
      PROVE  ListedAddressResolves'
  BY <1>5, AliasListed
<1>6. ASSUME NEW keep \in Entities, NEW absorb \in Entities, MergeEntities(keep, absorb)
      PROVE  ListedAddressResolves'
  <2>1. /\ owner' = [al \in Aliases |-> IF owner[al] = absorb THEN keep ELSE owner[al]]
        /\ UNCHANGED <<attrs, tombs>>
    BY <1>6 DEF MergeEntities
  <2>2. \A al \in Aliases : owner[al] # Null => owner'[al] # Null
    BY <2>1, NullAssumption
  <2>. QED
    BY <2>1, <2>2, GainListed DEF GraphInv
<1>7. ASSUME NEW i \in Importers, NEW e \in Entities, ImportNew(i, e)
      PROVE  ListedAddressResolves'
  <2>1. PICK s \in Contents : s = importing[i].content
    BY <1>7, BusyImporter DEF ImportNew, GraphInv
  <2>2. /\ Mint(e, s.name, s.emails \cup s.phones)
        /\ owner' = Claim(e, CardAliases(s)) /\ UNCHANGED tombs
    BY <1>7, <2>1 DEF ImportNew, Imported
  <2>3. s.emails \cup s.phones \in SUBSET Addresses /\ s.emails \cup s.phones \subseteq CardAliases(s)
    BY <2>1 DEF Contents, CardAliases
  <2>. QED
    BY <2>2, <2>3, MintListed DEF GraphInv
<1>8. ASSUME NEW e \in Entities \cup {Null}, NEW S, owner' = Claim(e, S), UNCHANGED <<attrs, tombs>>
      PROVE  ListedAddressResolves'
  <2>1. \A al \in Aliases : owner[al] # Null => owner'[al] # Null
    BY <1>8 DEF Claim
  <2>. QED
    BY <1>8, <2>1, GainListed DEF GraphInv
<1>9. ASSUME NEW i \in Importers, ImportChanged(i) \/ \E e \in Entities : ImportExisting(i, e)
      PROVE  ListedAddressResolves'
  <2>1. CASE ImportChanged(i)
    <3>1. self[importing[i].card] \in Entities \cup {Null}
      BY <2>1, BusyImporter DEF ImportChanged, GraphInv, TypeOK
    <3>. QED
      BY <2>1, <3>1, <1>8 DEF ImportChanged, Imported
  <2>2. ASSUME NEW e \in Entities, ImportExisting(i, e) PROVE ListedAddressResolves'
    BY <2>2, <1>8 DEF ImportExisting, Imported
  <2>. QED
    BY <1>9, <2>1, <2>2
<1>10. CASE Next
  <2>1. \/ UNCHANGED <<attrs, owner, tombs>>
        \/ \E p \in Proposals, e \in Entities : ApproveNew(p, e)
        \/ \E e \in Entities, f \in Forms :
             CreateEntity(e, f.name, f.addresses) \/ UpdateEntityAttrs(e, f.name, f.addresses)
        \/ \E e \in Entities, al \in Edits : AddAlias(e, al) \/ RemoveAlias(e, al)
        \/ \E keep, absorb \in Entities : MergeEntities(keep, absorb)
        \/ \E i \in Importers :
             ImportChanged(i) \/ \E e \in Entities : ImportExisting(i, e) \/ ImportNew(i, e)
    BY <1>10
       DEF Next, ResolveEntityHints, ProposeEntity, ApproveExisting, Approved,
           RejectProposedEntity, InsertDirectoryEntry, BackfillDirectoryProposals,
           BackfillRead, BackfillEntityLinks, ImportRead, ImportFails
  <2>. QED
    BY <2>1, <1>1, <1>2, <1>3, <1>4, <1>5, <1>6, <1>7, <1>9
<1>. QED
  BY <1>1, <1>10 DEF vars

\* An address on a profile that resolves to nobody is one that was taken away on
\* purpose: imports, approvals, edits and merges never drop one (src/src/db.js:1490-1494, 1586-1600).
THEOREM ListedStayResolved == Spec => []ListedAddressResolves
<1>1. Init => ListedAddressResolves
  BY DEF Init, ListedAddressResolves
<1>. QED
  BY <1>1, ListedNext, GraphInvariant, PTL DEF Spec

-----------------------------------------------------------------------------
\* The links of entities that stay live never go, and a merge hands those of
\* the absorbed one to the survivor.
LinksKept(E) == \A a \in Artifacts, e \in E : link[a][e] # "none" => link'[a][e] # "none"

LEMMA LinkedKept ==
  ASSUME TypeOK, NEW own, NEW E, link' = Linked(own, E)
  PROVE  LinksKept(Entities)
<1> SUFFICES ASSUME NEW a \in Artifacts, NEW e \in Entities, link[a][e] # "none"
             PROVE  link'[a][e] # "none"
  BY DEF LinksKept
<1>. QED
  BY DEF Linked

\* A hint that was honored stays honored when no entity is merged and no link goes.
LEMMA HonoredStill ==
  ASSUME TypeOK, HintsHonored, UNCHANGED mergedInto, LinksKept(Entities),
         \A e \in Entities : Live(e) => Live(e)',
         \A a \in Artifacts : staged[a] \subseteq staged'[a],
         NEW t \in heard
  PROVE  IF t[3] = Null THEN t[2] \in staged'[t[1]]
         ELSE \E f \in Entities : Survivor(t[3], f)' /\ link'[t[1]][f] # "none"
<1>1. t[1] \in Artifacts
  BY DEF TypeOK
<1>2. CASE t[3] = Null
  BY <1>1, <1>2 DEF HintsHonored
<1>3. CASE t[3] # Null
  <2>1. PICK f \in Entities : Survivor(t[3], f) /\ link[t[1]][f] # "none"
    BY <1>3 DEF HintsHonored
  <2>2. Survivor(t[3], f)'
    BY <2>1 DEF Survivor
  <2>3. link'[t[1]][f] # "none"
    BY <1>1, <2>1 DEF LinksKept
  <2>. QED
    BY <1>3, <2>2, <2>3
<1>. QED
  BY <1>2, <1>3

\* After a merge the survivor of whoever ended at the absorbed entity is the one
\* that was kept, and it has the link.
LEMMA HonoredMerge ==
  ASSUME GraphInv, HintsHonored, NEW keep \in Entities, NEW absorb \in Entities,
         MergeEntities(keep, absorb)
  PROVE  HintsHonored'
<1>1. /\ keep # absorb /\ Live(keep) /\ Live(absorb)
      /\ link' = MergedLinks(keep, absorb)
      /\ mergedInto' = [mergedInto EXCEPT ![absorb] = keep]
      /\ UNCHANGED <<canonical, staged, heard>>
  BY DEF MergeEntities
<1>2. \A e \in Entities \ {absorb} : Live(e) => Live(e)'
  BY <1>1 DEF Live, Exists, GraphInv, TypeOK
<1>3. ASSUME NEW S \in SUBSET Entities, \A x \in S : mergedInto'[x] \in S \cup {Null}
      PROVE  /\ \A x \in S : mergedInto[x] \in S \cup {Null}
             /\ absorb \in S => keep \in S
  <2>1. mergedInto[absorb] = Null /\ mergedInto'[absorb] = keep
        /\ \A x \in Entities \ {absorb} : mergedInto'[x] = mergedInto[x]
    BY <1>1 DEF Live, GraphInv, TypeOK
  <2>. QED
    BY <1>3, <2>1, NullAssumption
<1>4. \A a \in Artifacts :
        /\ \A e \in Entities \ {absorb} : link[a][e] # "none" => link'[a][e] # "none"
        /\ link[a][absorb] # "none" => link'[a][keep] # "none"
  BY <1>1 DEF MergedLinks, GraphInv, TypeOK
<1> SUFFICES ASSUME NEW t \in heard, t[3] # Null
             PROVE  \E f \in Entities : Survivor(t[3], f)' /\ link'[t[1]][f] # "none"
  BY <1>1 DEF HintsHonored
<1>5. t[1] \in Artifacts /\ t[3] \in Entities
  BY DEF GraphInv, TypeOK
<1>6. PICK f \in Entities : Survivor(t[3], f) /\ link[t[1]][f] # "none"
  BY DEF HintsHonored
<1>7. CASE f # absorb
  <2>1. Survivor(t[3], f)'
    BY <1>2, <1>3, <1>6, <1>7 DEF Survivor
  <2>. QED
    BY <1>4, <1>5, <1>6, <1>7, <2>1
<1>8. CASE f = absorb
  <2>1. Survivor(t[3], keep)'
    BY <1>1, <1>2, <1>3, <1>6, <1>8 DEF Survivor
  <2>. QED
    BY <1>4, <1>5, <1>6, <1>8, <2>1
<1>. QED
  BY <1>7, <1>8

\* A new payload: what it matches is linked at once, what it misses is queued.
LEMMA HonoredHints ==
  ASSUME GraphInv, HintsHonored, NEW a \in Artifacts, NEW hints \in HintLists,
         ResolveEntityHints(a, hints)
  PROVE  HintsHonored'
<1>0. \A i \in DOMAIN hints : hints[i] \in Hints
  BY PayloadAssumption
<1>1. /\ link' = HintLinks(a, hints)
      /\ staged' = [staged EXCEPT ![a] = @ \cup {h.alias : h \in Missed(hints)}]
      /\ heard' = heard \cup {<<a, hints[i].alias, owner[hints[i].alias]>> : i \in DOMAIN hints}
      /\ UNCHANGED <<canonical, mergedInto>>
  BY DEF ResolveEntityHints, entityVars
<1>2. \A e \in Entities : Live(e) => Live(e)'
  BY <1>1 DEF Live, Exists
<1>3. PICK Q : Q = {h.alias : h \in Missed(hints)}
  OBVIOUS
<1>4. staged'[a] = staged[a] \cup Q /\ \A b \in Artifacts : staged[b] \subseteq staged'[b]
  BY <1>1, <1>3 DEF GraphInv, TypeOK
<1>5. LinksKept(Entities)
  <2> SUFFICES ASSUME NEW b \in Artifacts, NEW e \in Entities, link[b][e] # "none"
               PROVE  link'[b][e] # "none"
    BY DEF LinksKept
  <2>. QED
    BY <1>1 DEF HintLinks, GraphInv, TypeOK
<1>6. ASSUME NEW i \in DOMAIN hints, NEW o, o = owner[hints[i].alias]
      PROVE  IF o = Null THEN hints[i].alias \in staged'[a]
             ELSE \E f \in Entities : Survivor(o, f)' /\ link'[a][f] # "none"
  <2>1. hints[i].alias \in Aliases
    BY <1>0 DEF Hints
  <2>2. CASE o = Null
    <3>1. i \in Matches(hints, Null)
      BY <1>6, <2>2 DEF Matches
    <3>2. hints[i] \in Missed(hints)
      BY <3>1 DEF Missed
    <3>. QED
      BY <1>3, <1>4, <2>2, <3>2
  <2>3. CASE o # Null
    <3>1. o \in Entities /\ Live(o)
      BY <1>6, <2>1, <2>3 DEF GraphInv, TypeOK, NothingOnMerged
    <3>2. Survivor(o, o)'
      BY <1>2, <3>1 DEF Survivor
    <3>3. i \in Matches(hints, o)
      BY <1>6 DEF Matches
    <3>4. link'[a][o] = IF link[a][o] # "none" THEN link[a][o] ELSE Strength(FirstMatch(hints, o))
      BY <1>1, <3>1, <3>3 DEF HintLinks, GraphInv, TypeOK
    <3>. QED
      BY <2>3, <3>1, <3>2, <3>4 DEF Strength
  <2>. QED
    BY <2>2, <2>3
<1> SUFFICES ASSUME NEW t \in heard'
             PROVE  IF t[3] = Null THEN t[2] \in staged'[t[1]]
                    ELSE \E f \in Entities : Survivor(t[3], f)' /\ link'[t[1]][f] # "none"
  BY DEF HintsHonored
<1>7. CASE t \in heard
  BY <1>1, <1>2, <1>4, <1>5, <1>7, HonoredStill DEF GraphInv
<1>8. ASSUME NEW i \in DOMAIN hints, t = <<a, hints[i].alias, owner[hints[i].alias]>>
      PROVE  IF t[3] = Null THEN t[2] \in staged'[t[1]]
             ELSE \E f \in Entities : Survivor(t[3], f)' /\ link'[t[1]][f] # "none"
  <2>1. PICK al, o : al = hints[i].alias /\ o = owner[al]
    OBVIOUS
  <2>2. t[1] = a /\ t[2] = al /\ t[3] = o
    BY <1>8, <2>1
  <2>. QED
    BY <1>6, <2>1, <2>2
<1>. QED
  BY <1>1, <1>7, <1>8

\* A row of entities is never deleted and never loses its name.
LEMMA ExistStill ==
  ASSUME TypeOK, [Next]_vars
  PROVE  \A e \in Entities : Exists(e) => Exists(e)'
<1> USE DEF entityVars
<1>1. CASE UNCHANGED canonical
  BY <1>1 DEF Exists
<1>2. ASSUME NEW e \in Entities, NEW d, ~Exists(e) \/ d # Null,
             canonical' = [canonical EXCEPT ![e] = d]
      PROVE  \A x \in Entities : Exists(x) => Exists(x)'
  BY <1>2 DEF Exists, TypeOK
<1>3. ASSUME NEW e \in Entities, NEW d, NEW H, Mint(e, d, H)
      PROVE  \A x \in Entities : Exists(x) => Exists(x)'
  BY <1>2, <1>3 DEF Mint
<1>4. ASSUME NEW e \in Entities, NEW f \in Forms, UpdateEntityAttrs(e, f.name, f.addresses)
      PROVE  \A x \in Entities : Exists(x) => Exists(x)'
  <2>1. f.name # Null
    BY PayloadAssumption, NullAssumption DEF Profiles
  <2>. QED
    BY <1>2, <1>4, <2>1 DEF UpdateEntityAttrs
<1>5. CASE Next
  <2>1. \/ UNCHANGED canonical
        \/ \E e \in Entities : \E d, H : Mint(e, d, H)
        \/ \E e \in Entities, f \in Forms : UpdateEntityAttrs(e, f.name, f.addresses)
    <3>1. ASSUME NEW p \in Proposals, NEW e \in Entities, ApproveNew(p, e)
          PROVE  \E d, H : Mint(e, d, H)
      BY <3>1 DEF ApproveNew
    <3>2. ASSUME NEW e \in Entities, NEW f \in Forms, CreateEntity(e, f.name, f.addresses)
          PROVE  \E d, H : Mint(e, d, H)
      BY <3>2 DEF CreateEntity
    <3>3. ASSUME NEW i \in Importers, NEW e \in Entities, ImportNew(i, e)
          PROVE  \E d, H : Mint(e, d, H)
      BY <3>3 DEF ImportNew
    <3>. QED
      BY <1>5, <3>1, <3>2, <3>3
         DEF Next, ResolveEntityHints, ProposeEntity, ApproveExisting, RejectProposedEntity,
             InsertDirectoryEntry, BackfillDirectoryProposals, AddAlias, RemoveAlias,
             MergeEntities, BackfillRead, BackfillEntityLinks, ImportRead, ImportFails,
             ImportExisting, ImportChanged
  <2>. QED
    BY <2>1, <1>1, <1>3, <1>4
<1>. QED
  BY <1>1, <1>5 DEF vars

LEMMA HonoredNext == GraphInv /\ HintsHonored /\ [Next]_vars => HintsHonored'
<1> SUFFICES ASSUME GraphInv, HintsHonored, [Next]_vars PROVE HintsHonored'
  OBVIOUS
<1>1. CASE \E a \in Artifacts, hints \in HintLists : ResolveEntityHints(a, hints)
  BY <1>1, HonoredHints
<1>2. CASE \E keep, absorb \in Entities : MergeEntities(keep, absorb)
  BY <1>2, HonoredMerge
<1>3. CASE /\ ~ \E a \in Artifacts, hints \in HintLists : ResolveEntityHints(a, hints)
           /\ ~ \E keep, absorb \in Entities : MergeEntities(keep, absorb)
  <2>1. UNCHANGED <<staged, heard>> /\ UNCHANGED mergedInto
    BY <1>3, HintsOnly, MergesOnly
  <2>2. LinksKept(Entities)
    <3>1. CASE UNCHANGED link
      BY <3>1 DEF LinksKept
    <3>2. CASE \E own, E : link' = Linked(own, E)
      BY <3>2, LinkedKept DEF GraphInv
    <3>. QED
      BY <1>3, <3>1, <3>2, LinkStep
  <2>3. \A e \in Entities : Exists(e) => Exists(e)'
    BY ExistStill DEF GraphInv
  <2>4. \A e \in Entities : Live(e) => Live(e)'
    BY <2>1, <2>3 DEF Live
  <2>. QED
    BY <2>1, <2>2, <2>4, HonoredStill DEF HintsHonored, GraphInv
<1>. QED
  BY <1>1, <1>2, <1>3

\* No hint is lost: one that found its entity is a link of whoever that entity is by now,
\* after any merges, and one that found nobody is queued (resolveEntityHints and
\* mergeEntities, src/src/db.js:771-814, 1164-1197).
THEOREM HintsNeverLost == Spec => []HintsHonored
<1>1. Init => HintsHonored
  BY DEF Init, HintsHonored
<1>. QED
  BY <1>1, HonoredNext, GraphInvariant, PTL DEF Spec
-----------------------------------------------------------------------------
\* What a step may do to a link that is there.
GaveWay(a, e) ==
  \/ link'[a][e] = link[a][e]
  \/ \E keep \in Entities :
       /\ mergedInto[e] = Null /\ mergedInto'[e] = keep
       /\ link'[a][e] = "none"
       /\ link'[a][keep] = IF link[a][keep] = "none" THEN link[a][e] ELSE link[a][keep]

LEMMA LinksFirstWins ==
  ASSUME TypeOK, [Next]_vars, NEW a \in Artifacts, NEW e \in Entities, link[a][e] # "none"
  PROVE  GaveWay(a, e)
<1>1. ASSUME NEW b \in Artifacts, NEW hints \in HintLists, ResolveEntityHints(b, hints)
      PROVE  link'[a][e] = link[a][e]
  BY <1>1 DEF ResolveEntityHints, HintLinks, TypeOK
<1>2. ASSUME NEW own, NEW E, link' = Linked(own, E) PROVE link'[a][e] = link[a][e]
  BY <1>2 DEF Linked
<1>3. ASSUME NEW keep \in Entities, NEW absorb \in Entities, MergeEntities(keep, absorb)
      PROVE  GaveWay(a, e)
  <2>1. /\ keep # absorb /\ mergedInto[absorb] = Null
        /\ link' = MergedLinks(keep, absorb) /\ mergedInto'[absorb] = keep
    BY <1>3 DEF MergeEntities, Live, TypeOK
  <2>2. link'[a] = [link[a] EXCEPT ![keep] = IF @ = "none" THEN link[a][absorb] ELSE @,
                                   ![absorb] = "none"]
    BY <2>1 DEF MergedLinks
  <2>3. link[a] \in [Entities -> {"none", "inferred", "certain"}]
    BY DEF TypeOK
  <2>4. CASE e = absorb
    BY <2>1, <2>2, <2>3, <2>4 DEF GaveWay
  <2>5. CASE e # absorb
    BY <2>2, <2>3, <2>5 DEF GaveWay
  <2>. QED
    BY <2>4, <2>5
<1>. QED
  BY <1>1, <1>2, <1>3, LinkStep DEF GaveWay

\* The exact extent of what CertainStaysCertain disagrees with: no later evidence, sweep,
\* approval or import changes the confidence of a link, and it is lost only by a merge into an
\* entity with a link of its own (INSERT OR IGNORE, src/src/db.js:344; mergeEntities).
THEOREM LinksGiveWayInMerges == Spec => LinkGivesWayOnlyInMerge
<1>1. TypeOK /\ [Next]_vars
        => \A a \in Artifacts, e \in Entities :
             link[a][e] # "none"
               => \/ link'[a][e] = link[a][e]
                  \/ \E keep \in Entities :
                       /\ mergedInto[e] = Null /\ mergedInto'[e] = keep
                       /\ link'[a][e] = "none"
                       /\ link'[a][keep] = IF link[a][keep] = "none" THEN link[a][e]
                                          ELSE link[a][keep]
  BY LinksFirstWins DEF GaveWay
<1>. QED
  BY <1>1, TypeCorrect, PTL DEF Spec, LinkGivesWayOnlyInMerge
-----------------------------------------------------------------------------
\* An entity that is live and was found by a hint of the artifact is linked to it.
LEMMA KnownIsLinked ==
  ASSUME GraphInv, HintsHonored, NEW t \in heard, t[3] # Null, mergedInto[t[3]] = Null
  PROVE  link[t[1]][t[3]] # "none"
<1>1. t[3] \in Entities
  BY DEF GraphInv, TypeOK
<1>2. PICK f \in Entities : Survivor(t[3], f) /\ link[t[1]][f] # "none"
  BY DEF HintsHonored
<1>3. f \in {t[3]}
  BY <1>1, <1>2 DEF Survivor
<1>. QED
  BY <1>2, <1>3

\* A payload of a that names e in front of an address of e.
NamesFirst(a, hints, e, al) ==
  \E i, j \in DOMAIN hints :
    /\ i < j /\ hints[i].alias \in Names /\ hints[j].alias = al
    /\ owner[hints[i].alias] = e /\ owner[al] = e

LEMMA FirstNamed ==
  ASSUME GraphInv, NEW a \in Artifacts, NEW hints \in HintLists, NEW e \in Entities,
         NEW j \in DOMAIN hints, owner[hints[j].alias] = e, hints[j].alias \in Addresses,
         link[a][e] = "none", HintLinks(a, hints)[a][e] = "inferred"
  PROVE  NamesFirst(a, hints, e, hints[j].alias)
<1>1. Matches(hints, e) \in SUBSET Nat /\ j \in Matches(hints, e)
  BY PayloadAssumption DEF Matches
<1>2. Strength(FirstMatch(hints, e)) = "inferred"
  BY <1>1 DEF HintLinks, GraphInv, TypeOK
<1>3. PICK i0 \in Matches(hints, e) : \A k \in Matches(hints, e) : i0 =< k
  BY <1>1, LeastExists
<1>4. PICK i \in Matches(hints, e) : /\ \A k \in Matches(hints, e) : i =< k
                                    /\ FirstMatch(hints, e) = hints[i].alias
  BY <1>3 DEF FirstMatch
<1>5. hints[i].alias \notin Addresses
  BY <1>2, <1>4 DEF Strength
<1>6. i =< j /\ i # j /\ i \in Nat /\ j \in Nat
  BY <1>1, <1>4, <1>5
<1>7. hints[i] \in Hints /\ i \in DOMAIN hints /\ owner[hints[i].alias] = e
  BY <1>4, PayloadAssumption DEF Matches
<1>. QED
  BY <1>5, <1>6, <1>7 DEF NamesFirst, Hints, Aliases

\* The exact extent of what NameNeverShadowsAddress disagrees with: a name shadows an address
\* that was heard for the artifact only within one payload, which has the name in front
\* (resolveEntityHints, src/src/db.js:777-788). Across payloads, and whatever is imported,
\* approved, swept or merged in between, an address heard first has its link already.
ShadowsInOnePayload ==
  [][\A a \in Artifacts, e \in Entities, al \in Addresses :
       /\ link[a][e] = "none" /\ link'[a][e] = "inferred"
       /\ <<a, al, e>> \in heard' /\ mergedInto'[e] = Null
       => \E hints \in HintLists : ResolveEntityHints(a, hints) /\ NamesFirst(a, hints, e, al)
    ]_vars

LEMMA ShadowStep ==
  ASSUME GraphInv, HintsHonored, [Next]_vars,
         NEW a \in Artifacts, NEW e \in Entities, NEW al \in Addresses,
         link[a][e] = "none", link'[a][e] = "inferred",
         <<a, al, e>> \in heard', mergedInto'[e] = Null
  PROVE  \E hints \in HintLists : ResolveEntityHints(a, hints) /\ NamesFirst(a, hints, e, al)
<1>1. mergedInto[e] = Null
  <2>1. CASE \E keep, absorb \in Entities : MergeEntities(keep, absorb)
    BY <2>1 DEF MergeEntities, Live, GraphInv, TypeOK
  <2>. QED
    BY <2>1, MergesOnly
<1>2. <<a, al, e>> \notin heard
  <2> SUFFICES ASSUME <<a, al, e>> \in heard PROVE FALSE
    OBVIOUS
  <2>1. PICK t \in heard : t = <<a, al, e>>
    OBVIOUS
  <2>2. t[1] = a /\ t[3] = e
    BY <2>1
  <2>. QED
    BY <1>1, <2>2, KnownIsLinked, NullAssumption
<1>3. PICK b \in Artifacts, hints \in HintLists : ResolveEntityHints(b, hints)
  BY <1>2, HintsOnly
<1>4. /\ link' = HintLinks(b, hints)
      /\ heard' = heard \cup {<<b, hints[i].alias, owner[hints[i].alias]>> : i \in DOMAIN hints}
  BY <1>3 DEF ResolveEntityHints
<1>5. PICK j \in DOMAIN hints : <<a, al, e>> = <<b, hints[j].alias, owner[hints[j].alias]>>
  BY <1>2, <1>4
<1>6. a = b /\ hints[j].alias = al /\ owner[hints[j].alias] = e
  BY <1>5
<1>7. HintLinks(a, hints)[a][e] = "inferred"
  BY <1>4, <1>6
<1>. QED
  BY <1>3, <1>6, <1>7, FirstNamed

\* Ingest-time and retroactive linking diverge in that one way only.
THEOREM ShadowsStayInOnePayload == Spec => ShadowsInOnePayload
<1>1. GraphInv /\ HintsHonored /\ [Next]_vars
        => \A a \in Artifacts, e \in Entities, al \in Addresses :
             /\ link[a][e] = "none" /\ link'[a][e] = "inferred"
             /\ <<a, al, e>> \in heard' /\ mergedInto'[e] = Null
             => \E hints \in HintLists : ResolveEntityHints(a, hints) /\ NamesFirst(a, hints, e, al)
  BY ShadowStep
<1>. QED
  BY <1>1, GraphInvariant, HintsNeverLost, PTL DEF Spec, ShadowsInOnePayload
=============================================================================
