----------------------------- MODULE EntityGraph -----------------------------
(***************************************************************************)
(* The identity graph of people and organisations: entities, the aliases   *)
(* that resolve to them, the tombstones of removed aliases, the links of   *)
(* artifacts to entities, the hints that are still unresolved, the review  *)
(* queue of proposed entities and the contact directory                    *)
(* (src/src/db.js), with the vCard import that feeds them                  *)
(* (src/src/contacts.js).                                                  *)
(*                                                                         *)
(* A synchronous better-sqlite3 transaction is one step. What a caller     *)
(* reads before an await or outside its transaction and uses afterwards is *)
(* kept in importing and sweep, so that other steps can come in between.   *)
(* Links have one role here; places and events are not modelled.           *)
(***************************************************************************)
EXTENDS Naturals, Sequences

CONSTANTS
  Entities,      \* entity ids
  Artifacts,     \* artifacts that carry hints
  Cards,         \* vCard UIDs
  Importers,     \* concurrent calls of importContacts
  Names,         \* aliases of type name and handle: evidence of at most 0.9
  Addresses,     \* aliases of type email and phone: deterministic evidence
  DisplayNames,  \* names as they are written: canonical_name, suggested_name
  FullKey,       \* normalizeName of a display name
  NameKeys,      \* nameVariants of a display name
  HintLists,     \* entity_hints payloads the connectors send
  CardContents,  \* what a vCard can say
  Suggestions,   \* proposals an agent stages with propose_entity
  Export,        \* address and name pairs of the user's contacts export
  Forms,         \* name and addresses of a contact as the user enters them
  Edits,         \* aliases the user adds to or removes from a contact
  Null           \* SQL NULL, or no row

Aliases == Names \cup Addresses
Proposals == DisplayNames \X Aliases   \* UNIQUE(suggested_name, alias, alias_type)

\* A hint: the alias once normalised, the alias as it was written, and whether
\* the connector asked for an entity to be proposed (suggested_kind).
Hints == [alias : Aliases, raw : DisplayNames, suggest : BOOLEAN]
Contents == [name : DisplayNames, emails : SUBSET Addresses, phones : SUBSET Addresses]
Profiles == [name : DisplayNames, addresses : SUBSET Addresses]

ASSUME AliasAssumption == Names \cap Addresses = {}
ASSUME NullAssumption ==
  Null \notin Entities /\ Null \notin DisplayNames /\ Null \notin Contents
ASSUME NameAssumption ==
  /\ FullKey \in [DisplayNames -> Names]
  /\ NameKeys \in [DisplayNames -> SUBSET Names]
  /\ \A d \in DisplayNames : FullKey[d] \in NameKeys[d]
ASSUME PayloadAssumption ==
  /\ HintLists \subseteq Seq(Hints)
  /\ CardContents \subseteq Contents
  /\ Suggestions \subseteq Proposals
  /\ Export \subseteq Addresses \X DisplayNames
  /\ Forms \subseteq Profiles
  /\ Edits \subseteq Aliases

VARIABLES
  canonical,   \* canonical[e]: canonical_name of entity e, Null if there is no row e
  attrs,       \* attrs[e]: the emails and phones in attrs_json
  mergedInto,  \* mergedInto[e]: merged_into, Null while e is live
  owner,       \* owner[al]: the entity alias al resolves to; (alias, type) is UNIQUE
  tombs,       \* tombs[e]: aliases deliberately removed from e
  link,        \* link[a][e]: "certain" is confidence 1.0, "inferred" at most 0.9
  staged,      \* staged[a]: hints of a that missed (unresolved_aliases)
  status,      \* status[p]: the row of proposal p in proposed_entities
  resolved,    \* resolved[p]: resolved_entity_id
  directory,   \* directory[al]: contact_directory's name of an address
  card,        \* card[c]: the content of c's contact artifact, Null if not stored
  self,        \* self[c]: the entity c's contact artifact is self-linked to
  importing,   \* importing[i]: the card importer i embeds, with what it read before
  sweep,       \* live entity ids the link backfill has read and not yet handled
  heard        \* history: every hint with the entity it resolved to, or Null

entityVars == <<canonical, attrs, mergedInto>>
aliasVars == <<owner, tombs>>
reviewVars == <<status, resolved>>
cardVars == <<card, self>>
vars == <<canonical, attrs, mergedInto, owner, tombs, link, staged, status,
          resolved, directory, card, self, importing, sweep, heard>>

Idle == [busy |-> FALSE]
Imports == [busy : {TRUE}, card : Cards, content : CardContents, known : BOOLEAN]

-----------------------------------------------------------------------------
\* Definitions named Bad... are faults the code could have had in the definition
\* that follows them; the properties below must tell them from the real one.
Exists(e) == canonical[e] # Null
BadLive(e) == Exists(e)   \* getEntity where getLiveEntity is meant
Live(e) == Exists(e) /\ mergedInto[e] = Null

\* hintConfidence: an email or a phone is deterministic, a name never is.
BadStrengthUncapped(al) == IF al \in Addresses THEN "certain" ELSE "as supplied"
BadStrengthTrusting(al) == "certain"
Strength(al) == IF al \in Addresses THEN "certain" ELSE "inferred"

\* insertAliasUnlessTombstoned for each of S: INSERT OR IGNORE, so the first
\* owner keeps an alias, and what was removed from e does not come back.
BadClaimForgetful(e, S) ==   \* without the tombstone lookup
  [al \in Aliases |-> IF al \in S /\ owner[al] = Null THEN e ELSE owner[al]]
BadClaimReplace(e, S) ==     \* INSERT OR REPLACE
  [al \in Aliases |-> IF al \in S \ tombs[e] THEN e ELSE owner[al]]
Claim(e, S) ==
  [al \in Aliases |->
     IF al \in S /\ al \notin tombs[e] /\ owner[al] = Null THEN e ELSE owner[al]]

\* resolveStagedArtifactHints for each of E, under the aliases own: addresses
\* are tried before names, and a link that is there stays as it is.
Evidence(a, own, e) == {al \in staged[a] : own[al] = e}
BadLinked(own, E) ==   \* INSERT OR REPLACE: the evidence found now decides
  [a \in Artifacts |-> [e \in Entities |->
     IF e \notin E \/ Evidence(a, own, e) = {} THEN link[a][e]
     ELSE IF Evidence(a, own, e) \cap Addresses # {} THEN "certain" ELSE "inferred"]]
Linked(own, E) ==
  [a \in Artifacts |-> [e \in Entities |->
     IF e \notin E \/ link[a][e] # "none" \/ Evidence(a, own, e) = {} THEN link[a][e]
     ELSE IF Evidence(a, own, e) \cap Addresses # {} THEN "certain" ELSE "inferred"]]

\* proposeEntity: INSERT OR IGNORE on the UNIQUE key.
Raise(P) ==
  status' = [p \in Proposals |->
               IF p \in P /\ status[p] = "none" THEN "pending" ELSE status[p]]

\* A new row in entities.
Mint(e, d, H) ==
  /\ ~Exists(e)
  /\ canonical' = [canonical EXCEPT ![e] = d]
  /\ attrs' = [attrs EXCEPT ![e] = H]
  /\ UNCHANGED mergedInto

\* assertNoAliasConflict: only an email or a phone can conflict.
Free(e, S) == \A al \in S \cap Addresses : owner[al] \in {Null, e}

-----------------------------------------------------------------------------
Init ==
  /\ canonical = [e \in Entities |-> Null]
  /\ attrs = [e \in Entities |-> {}]
  /\ mergedInto = [e \in Entities |-> Null]
  /\ owner = [al \in Aliases |-> Null]
  /\ tombs = [e \in Entities |-> {}]
  /\ link = [a \in Artifacts |-> [e \in Entities |-> "none"]]
  /\ staged = [a \in Artifacts |-> {}]
  /\ status = [p \in Proposals |-> "none"]
  /\ resolved = [p \in Proposals |-> Null]
  /\ directory = [al \in Addresses |-> Null]
  /\ card = [c \in Cards |-> Null]
  /\ self = [c \in Cards |-> Null]
  /\ importing = [i \in Importers |-> Idle]
  /\ sweep = {}
  /\ heard = {}

(***************************************************************************)
(* Connector hints, inside the ingest transaction of artifact a.           *)
(***************************************************************************)
Matches(hints, e) == {i \in DOMAIN hints : owner[hints[i].alias] = e}
Missed(hints) == {hints[i] : i \in Matches(hints, Null)}

\* Hints are tried in payload order and OR IGNORE keeps the first link.
FirstMatch(hints, e) ==
  hints[CHOOSE i \in Matches(hints, e) : \A j \in Matches(hints, e) : i =< j].alias

HintLinks(a, hints) ==
  [link EXCEPT ![a] =
     [e \in Entities |->
        IF link[a][e] # "none" \/ Matches(hints, e) = {} THEN link[a][e]
        ELSE Strength(FirstMatch(hints, e))]]

\* A missed hint is proposed under its own spelling if the connector asks for
\* it, else under the name the directory knows for the address.
Raised(hints) ==
  {<<h.raw, h.alias>> : h \in {g \in Missed(hints) : g.suggest}}
  \cup {<<directory[h.alias], h.alias>> :
          h \in {g \in Missed(hints) : /\ ~g.suggest
                                       /\ g.alias \in Addresses
                                       /\ directory[g.alias] # Null}}

ResolveEntityHints(a, hints) ==
  /\ link' = HintLinks(a, hints)
  /\ staged' = [staged EXCEPT ![a] = @ \cup {h.alias : h \in Missed(hints)}]
  /\ Raise(Raised(hints))
  /\ heard' = heard \cup {<<a, hints[i].alias, owner[hints[i].alias]>> : i \in DOMAIN hints}
  /\ UNCHANGED <<entityVars, aliasVars, resolved, directory, cardVars, importing, sweep>>

(***************************************************************************)
(* The review queue and the contact directory.                             *)
(***************************************************************************)
\* propose_entity: an agent stages a proposal itself.
ProposeEntity(p) ==
  /\ Raise({p})
  /\ UNCHANGED <<entityVars, aliasVars, link, staged, resolved, directory,
                 cardVars, importing, sweep, heard>>

\* approveProposedEntity: an entity that has the alias by now is reused, else
\* one is created with the alias; either way the queued artifacts are linked.
BadApproved(p, e) ==   \* links before the aliases are written
  /\ status' = [status EXCEPT ![p] = "approved"]
  /\ resolved' = [resolved EXCEPT ![p] = e]
  /\ link' = Linked(owner, {e})
  /\ UNCHANGED <<tombs, staged, directory, cardVars, importing, sweep, heard>>
Approved(p, e) ==
  /\ status' = [status EXCEPT ![p] = "approved"]
  /\ resolved' = [resolved EXCEPT ![p] = e]
  /\ link' = Linked(owner', {e})
  /\ UNCHANGED <<tombs, staged, directory, cardVars, importing, sweep, heard>>

ApproveExisting(p) ==
  /\ status[p] = "pending"
  /\ owner[p[2]] # Null
  /\ UNCHANGED <<entityVars, owner>>
  /\ Approved(p, owner[p[2]])

ApproveNew(p, e) ==
  /\ status[p] = "pending"
  /\ owner[p[2]] = Null
  /\ Mint(e, p[1], {})
  /\ owner' = Claim(e, NameKeys[p[1]] \cup {p[2]})
  /\ Approved(p, e)

BadRejectProposedEntity(p) ==   \* without the guard on an approved proposal
  /\ status[p] # "none"
  /\ status' = [status EXCEPT ![p] = "rejected"]
  /\ UNCHANGED <<entityVars, aliasVars, link, staged, resolved, directory,
                 cardVars, importing, sweep, heard>>
RejectProposedEntity(p) ==
  /\ status[p] \in {"pending", "rejected"}
  /\ status' = [status EXCEPT ![p] = "rejected"]
  /\ UNCHANGED <<entityVars, aliasVars, link, staged, resolved, directory,
                 cardVars, importing, sweep, heard>>

\* insertDirectoryEntry: the first name loaded for an address stays.
InsertDirectoryEntry(al, d) ==
  /\ directory[al] = Null
  /\ directory' = [directory EXCEPT ![al] = d]
  /\ UNCHANGED <<entityVars, aliasVars, link, staged, reviewVars, cardVars,
                 importing, sweep, heard>>

\* backfillDirectoryProposals: every queued address the directory knows and
\* nobody has become the owner of since.
BackfillDirectoryProposals ==
  /\ Raise({<<directory[al], al>> :
              al \in {x \in Addresses : /\ \E a \in Artifacts : x \in staged[a]
                                        /\ directory[x] # Null
                                        /\ owner[x] = Null}})
  /\ UNCHANGED <<entityVars, aliasVars, link, staged, resolved, directory,
                 cardVars, importing, sweep, heard>>

(***************************************************************************)
(* Editing contacts.                                                       *)
(***************************************************************************)
BadCreateEntity(e, d, H) ==   \* seeds the name aliases only
  /\ \A al \in H : owner[al] = Null
  /\ Mint(e, d, H)
  /\ owner' = Claim(e, NameKeys[d])
  /\ UNCHANGED <<tombs, link, staged, reviewVars, directory, cardVars,
                 importing, sweep, heard>>
CreateEntity(e, d, H) ==
  /\ \A al \in H : owner[al] = Null
  /\ Mint(e, d, H)
  /\ owner' = Claim(e, NameKeys[d] \cup H)
  /\ UNCHANGED <<tombs, link, staged, reviewVars, directory, cardVars,
                 importing, sweep, heard>>

\* updateEntityAttrs: a rename adds name aliases, added addresses are claimed,
\* removed ones are deleted and tombstoned.
UpdateEntityAttrs(e, d, H) ==
  LET added == H \ attrs[e]
      removed == attrs[e] \ H
      renamed == IF d = canonical[e] THEN {} ELSE NameKeys[d]
  IN  /\ Live(e)
      /\ Free(e, added)
      /\ owner' = [al \in Aliases |->
                     IF al \in removed /\ owner[al] = e THEN Null
                     ELSE Claim(e, renamed \cup added)[al]]
      /\ tombs' = [tombs EXCEPT ![e] = @ \cup removed]
      /\ canonical' = [canonical EXCEPT ![e] = d]
      /\ attrs' = [attrs EXCEPT ![e] = H]
      /\ UNCHANGED <<mergedInto, link, staged, reviewVars, directory, cardVars,
                     importing, sweep, heard>>

\* addAlias: the user's own word overrides a tombstone.
AddAlias(e, al) ==
  /\ Live(e)
  /\ Free(e, {al})
  /\ tombs' = [tombs EXCEPT ![e] = @ \ {al}]
  /\ owner' = IF owner[al] = Null THEN [owner EXCEPT ![al] = e] ELSE owner
  /\ UNCHANGED <<entityVars, link, staged, reviewVars, directory, cardVars,
                 importing, sweep, heard>>

RemoveAlias(e, al) ==
  /\ owner[al] = e
  /\ owner' = [owner EXCEPT ![al] = Null]
  /\ tombs' = IF Exists(e) THEN [tombs EXCEPT ![e] = @ \cup {al}] ELSE tombs
  /\ UNCHANGED <<entityVars, link, staged, reviewVars, directory, cardVars,
                 importing, sweep, heard>>

\* The links of the absorbed entity move; where the survivor already has one
\* for the artifact, the absorbed entity's row is deleted.
BadMergedLinksOrphan(keep, absorb) ==   \* UPDATE OR IGNORE, duplicates stay behind
  [a \in Artifacts |->
     [link[a] EXCEPT ![keep] = IF @ = "none" THEN link[a][absorb] ELSE @,
                     ![absorb] = IF link[a][keep] = "none" THEN "none" ELSE @]]
BadMergedLinksDropped(keep, absorb) ==  \* deletes without re-pointing
  [a \in Artifacts |-> [link[a] EXCEPT ![absorb] = "none"]]
MergedLinks(keep, absorb) ==
  [a \in Artifacts |->
     [link[a] EXCEPT ![keep] = IF @ = "none" THEN link[a][absorb] ELSE @,
                     ![absorb] = "none"]]

MergeEntities(keep, absorb) ==
  /\ keep # absorb
  /\ Live(keep) /\ Live(absorb)
  /\ owner' = [al \in Aliases |-> IF owner[al] = absorb THEN keep ELSE owner[al]]
  /\ link' = MergedLinks(keep, absorb)
  /\ self' = [c \in Cards |-> IF self[c] = absorb THEN keep ELSE self[c]]
  /\ mergedInto' = [mergedInto EXCEPT ![absorb] = keep]
  /\ UNCHANGED <<canonical, attrs, tombs, staged, reviewVars, directory, card,
                 importing, sweep, heard>>

(***************************************************************************)
(* Scripts: the link backfill reads its entities outside its transaction,  *)
(* the vCard import reads the stored card before it awaits the embedding.  *)
(***************************************************************************)
BackfillRead ==
  /\ sweep' = {e \in Entities : Live(e)}
  /\ UNCHANGED <<entityVars, aliasVars, link, staged, reviewVars, directory,
                 cardVars, importing, heard>>

BackfillEntityLinks ==
  /\ sweep # {}
  /\ link' = Linked(owner, sweep)
  /\ sweep' = {}
  /\ UNCHANGED <<entityVars, aliasVars, staged, reviewVars, directory,
                 cardVars, importing, heard>>

\* An unchanged card is skipped before anything is embedded.
ImportRead(i, c, content) ==
  /\ importing[i] = Idle
  /\ card[c] # content
  /\ importing' = [importing EXCEPT ![i] =
       [busy |-> TRUE, card |-> c, content |-> content, known |-> card[c] # Null]]
  /\ UNCHANGED <<entityVars, aliasVars, link, staged, reviewVars, directory,
                 cardVars, sweep, heard>>

\* The embedding fails and the import with it.
ImportFails(i) ==
  /\ importing[i].busy
  /\ importing' = [importing EXCEPT ![i] = Idle]
  /\ UNCHANGED <<entityVars, aliasVars, link, staged, reviewVars, directory,
                 cardVars, sweep, heard>>

CardAliases(content) == NameKeys[content.name] \cup content.emails \cup content.phones

\* resolveExistingEntity: an owner of one of the emails, else of the full name.
Resolves(content) ==
  LET byEmail == {owner[al] : al \in content.emails} \ {Null}
  IN  IF byEmail # {} THEN byEmail ELSE {owner[FullKey[content.name]]} \ {Null}

\* What every import does for the entity it settled on.
Imported(i, e) ==
  /\ owner' = Claim(e, CardAliases(importing[i].content))
  /\ link' = Linked(owner', {e})
  /\ importing' = [importing EXCEPT ![i] = Idle]
  /\ UNCHANGED <<tombs, staged, reviewVars, directory, sweep, heard>>

\* storeArtifactTxn: a card another import stored meanwhile is left alone.
BadStoreCard(i, e) ==   \* the later import replaces the row and its self link
  LET c == importing[i].card
  IN  /\ card' = [card EXCEPT ![c] = importing[i].content]
      /\ self' = [self EXCEPT ![c] = e]
StoreCard(i, e) ==
  LET c == importing[i].card
  IN  IF card[c] = Null
      THEN /\ card' = [card EXCEPT ![c] = importing[i].content]
           /\ self' = [self EXCEPT ![c] = e]
      ELSE UNCHANGED cardVars

\* importOneTxn
ImportExisting(i, e) ==
  /\ importing[i].busy /\ ~importing[i].known
  /\ e \in Resolves(importing[i].content)
  /\ UNCHANGED entityVars
  /\ Imported(i, e)
  /\ StoreCard(i, e)

ImportNew(i, e) ==
  /\ importing[i].busy /\ ~importing[i].known
  /\ Resolves(importing[i].content) = {}
  /\ Mint(e, importing[i].content.name,
          importing[i].content.emails \cup importing[i].content.phones)
  /\ Imported(i, e)
  /\ StoreCard(i, e)

\* updateOneTxn: the aliases and the artifact are refreshed, the profile is not.
ImportChanged(i) ==
  /\ importing[i].busy /\ importing[i].known
  /\ Imported(i, self[importing[i].card])
  /\ card' = [card EXCEPT ![importing[i].card] = importing[i].content]
  /\ UNCHANGED <<entityVars, self>>

-----------------------------------------------------------------------------
Next ==
  \/ \E a \in Artifacts, hints \in HintLists : ResolveEntityHints(a, hints)
  \/ \E p \in Proposals :
       \/ ApproveExisting(p) \/ RejectProposedEntity(p)
       \/ \E e \in Entities : ApproveNew(p, e)
  \/ \E p \in Suggestions : ProposeEntity(p)
  \/ \E entry \in Export : InsertDirectoryEntry(entry[1], entry[2])
  \/ BackfillDirectoryProposals
  \/ \E e \in Entities, f \in Forms :
       CreateEntity(e, f.name, f.addresses) \/ UpdateEntityAttrs(e, f.name, f.addresses)
  \/ \E e \in Entities, al \in Edits : AddAlias(e, al) \/ RemoveAlias(e, al)
  \/ \E keep, absorb \in Entities : MergeEntities(keep, absorb)
  \/ BackfillRead \/ BackfillEntityLinks
  \/ \E i \in Importers :
       \/ \E c \in Cards, content \in CardContents : ImportRead(i, c, content)
       \/ ImportFails(i) \/ ImportChanged(i)
       \/ \E e \in Entities : ImportExisting(i, e) \/ ImportNew(i, e)

Spec == Init /\ [][Next]_vars

-----------------------------------------------------------------------------
TypeOK ==
  /\ canonical \in [Entities -> DisplayNames \cup {Null}]
  /\ attrs \in [Entities -> SUBSET Addresses]
  /\ mergedInto \in [Entities -> Entities \cup {Null}]
  /\ owner \in [Aliases -> Entities \cup {Null}]
  /\ tombs \in [Entities -> SUBSET Aliases]
  /\ link \in [Artifacts -> [Entities -> {"none", "inferred", "certain"}]]
  /\ staged \in [Artifacts -> SUBSET Aliases]
  /\ status \in [Proposals -> {"none", "pending", "approved", "rejected"}]
  /\ resolved \in [Proposals -> Entities \cup {Null}]
  /\ directory \in [Addresses -> DisplayNames \cup {Null}]
  /\ card \in [Cards -> CardContents \cup {Null}]
  /\ self \in [Cards -> Entities \cup {Null}]
  /\ importing \in [Importers -> Imports \cup {Idle}]
  /\ sweep \subseteq Entities
  /\ heard \subseteq Artifacts \X Aliases \X (Entities \cup {Null})

\* mergeEntities re-points every alias, link and self link, so nothing ever
\* resolves to, or hangs on, an entity that was merged away (db.js:716-721).
\* A sweep that was read before a merge must not bring one back.
NothingOnMerged ==
  /\ \A al \in Aliases : owner[al] # Null => Live(owner[al])
  /\ \A a \in Artifacts, e \in Entities : link[a][e] # "none" => Live(e)
  /\ \A c \in Cards : self[c] # Null => Live(self[c])

\* Following merged_into always ends at an entity that is not merged away: no
\* set of entities is merged only into itself.
NoMergeCycle ==
  \A S \in SUBSET Entities : S # {} => \E e \in S : mergedInto[e] \notin S

\* f is where the merges of e end: every set that has e and is closed under
\* merging has f.
Survivor(e, f) ==
  /\ Live(f)
  /\ \A S \in SUBSET Entities :
       (e \in S /\ \A x \in S : mergedInto[x] \in S \cup {Null}) => f \in S

\* No hint is ever lost. One that matched is a link to whoever the matched
\* entity is by now, after any merges; one that missed is still queued.
HintsHonored ==
  \A t \in heard :
    IF t[3] = Null THEN t[2] \in staged[t[1]]
    ELSE \E f \in Entities : Survivor(t[3], f) /\ link[t[1]][f] # "none"

\* A link of confidence 1.0 goes back to an email or phone that a connector
\* sent for the very artifact, through any staging, approval and merge.
CertainHasAddress ==
  \A a \in Artifacts, e \in Entities :
    link[a][e] = "certain" => \E t \in heard : t[1] = a /\ t[2] \in Addresses

\* An address that a profile lists resolves to someone, unless it was
\* deliberately taken away from someone.
ListedAddressResolves ==
  \A e \in Entities : \A al \in attrs[e] :
    owner[al] = Null => \E f \in Entities : al \in tombs[f]

\* db.js:64-70: what was removed from an entity comes back to it only by an
\* explicit re-add, which clears the tombstone, or with a merged entity.
TombstonesHonored ==
  [][\A e \in Entities : \A al \in tombs[e] :
       (owner[al] # e /\ owner'[al] = e)
         => \/ al \notin tombs'[e]
            \/ owner[al] # Null /\ mergedInto'[owner[al]] = e
    ]_vars

\* First writer wins: no import, approval or edit takes an alias from its
\* owner. It is given up by a removal or follows its owner into a merge.
NoAliasTheft ==
  [][\A al \in Aliases :
       owner'[al] \notin {owner[al], Null} /\ owner[al] # Null
         => Live(owner[al]) /\ mergedInto'[owner[al]] = owner'[al]
    ]_vars

\* db.js:1524-1528: approving links every artifact queued under the proposal's
\* alias, whether the entity is new or was found to exist.
ApprovalLinksQueue ==
  [][\A p \in Proposals :
       (status[p] # "approved" /\ status'[p] = "approved")
         => \A a \in Artifacts : p[2] \in staged[a] => link'[a][resolved'[p]] # "none"
    ]_vars

\* A decision of the reviewer stands (db.js:1561-1567).
DecisionsFinal ==
  [][\A p \in Proposals :
       status[p] \in {"approved", "rejected"}
         => status'[p] = status[p] /\ resolved'[p] = resolved[p]
    ]_vars

\* Two imports of one card may race at the embedding, and the aliases one of
\* them wrote may be edited before the other commits: the contact stays the
\* person it was first filed under, through merges only.
SelfLinkStays ==
  [][\A c \in Cards :
       self[c] # Null =>
         \/ self'[c] = self[c]
         \/ mergedInto[self[c]] = Null /\ mergedInto'[self[c]] = self'[c]
    ]_vars

\* A link that is there stays as it is, whatever evidence comes later and whichever of
\* the linking paths finds it, and a merge hands it on. It gives way only where the
\* survivor has a link of its own for the artifact, and to that link as it stands.
LinkGivesWayOnlyInMerge ==
  [][\A a \in Artifacts, e \in Entities :
       link[a][e] # "none"
         => \/ link'[a][e] = link[a][e]
            \/ \E keep \in Entities :
                 /\ mergedInto[e] = Null /\ mergedInto'[e] = keep
                 /\ link'[a][e] = "none"
                 /\ link'[a][keep] = IF link[a][keep] = "none" THEN link[a][e] ELSE link[a][keep]
    ]_vars

-----------------------------------------------------------------------------
\* db.js:1107-1112: the row a merge deletes is an exact duplicate of one the
\* survivor has, so nothing is lost. A certain link stays a certain link.
CertainStaysCertain ==
  [][\A a \in Artifacts, e \in Entities :
       link[a][e] = "certain"
         => \E f \in {e, mergedInto'[e]} \ {Null} : link'[a][f] = "certain"
    ]_vars

\* db.js:835-836: ingest-time and retroactive linking cannot diverge. The
\* retroactive one never lets a name shadow an address of the same artifact
\* and entity (db.js:821-824).
NameNeverShadowsAddress ==
  [][\A a \in Artifacts, e \in Entities :
       (link[a][e] = "none" /\ link'[a][e] = "inferred")
         => ~ \E al \in Addresses : <<a, al, e>> \in heard' /\ mergedInto'[e] = Null
    ]_vars

\* db.js:106, server.js:613: a rejected proposal is never re-raised on
\* re-ingest, so a rejected sender stays out of the queue. The alias is
\* normalised so that two casings do not stage twice (server.js:190-193); the
\* name in the UNIQUE key is not.
RejectedStaysOut ==
  [][\A a \in Artifacts, hints \in HintLists : ResolveEntityHints(a, hints) =>
       \A al \in Aliases :
         (\E d \in DisplayNames : status[<<d, al>>] = "rejected")
           => \A d \in DisplayNames :
                status'[<<d, al>>] = "pending" => status[<<d, al>>] = "pending"
    ]_vars
=============================================================================
