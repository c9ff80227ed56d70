---------------------------- MODULE RelationGraph ----------------------------
(***************************************************************************)
(* The edges between entities: entity_relations of src/src/db.js, with the *)
(* vCard import (src/src/contacts.js) that draws them or stages a hint for *)
(* a relative who is not a contact yet, the two routes that draw one by    *)
(* hand (src/src/server.js), merges, and the backfill                      *)
(* (src/scripts/backfill-relations.js).                                    *)
(*                                                                         *)
(* One name stands for the spellings of a person that resolve alike. Every *)
(* operation is one synchronous transaction, so one step, but an import:   *)
(* it looks the card up, awaits the embedding of its text and then opens   *)
(* its transaction, while another import may store the card it looked for. *)
(***************************************************************************)
EXTENDS Naturals

CONSTANTS
  MaxNode,     \* bound: entity ids, in the order in which they are made
  Labels,      \* names as they are written
  VCards,      \* the vCards
  Tells,       \* Tells[c]: the versions of card c, by name and what it tells of others
  CardImports, \* concurrent calls of importContacts
  RelTypes,    \* relation types a card tells of, besides worksAt
  HandDrawn,   \* the triples somebody draws by hand
  MaxByHand    \* bound: operations by hand

Nodes == 1..MaxNode
Nobody == 0
Types == RelTypes \cup {"worksAt"}
Versions == [name : Labels, rels : SUBSET (Labels \X Types)]
Edges == Nodes \X Nodes \X Types
NotSaid == [name |-> "none", rels |-> {}]
Waiting == [card : VCards, version : Versions, known : BOOLEAN]
NoImport == [card |-> "none", version |-> NotSaid, known |-> FALSE]

ASSUME RelationAssumption ==
  /\ "none" \notin Labels /\ "none" \notin VCards
  /\ MaxNode \in Nat /\ Tells \in [VCards -> SUBSET Versions] /\ HandDrawn \subseteq Edges
  /\ MaxByHand \in Nat

VARIABLES
  made,       \* the number of entities
  called,     \* called[e]: the display name of person e, none for an employer made on the way
  absorbed,   \* absorbed[e]: merged_into, Nobody while e is live
  goesTo,     \* goesTo[n]: the entity name n resolves to
  barred,     \* tombstones: pairs of an entity and a name removed from it
  edge,       \* entity_relations
  hinted,     \* staged relation hints: card, name and type
  ofCard,     \* ofCard[c]: the entity the artifact of c is self-linked to
  said,       \* said[c]: what the stored version of c tells
  imports,    \* imports[i]: the card that import i embeds, and whether it knew one to update
  ever,       \* history: card, name and type of everything imported so far
  cut,        \* history: edges removed by hand
  handled,    \* history: names given or removed by hand, given to an employer made on the
              \* way, or to the person of a card that another import had stored meanwhile
  revived,    \* history: entities that got an edge by id or a name when they were merged already
  byHand      \* bound counter: operations by hand

relVars == <<made, called, absorbed, goesTo, barred, edge, hinted, ofCard, said, imports, ever, cut, handled,
             revived, byHand>>

IsLive(e) == e \in 1..made /\ absorbed[e] = Nobody

RelInit ==
  /\ made = 0 /\ absorbed = [e \in Nodes |-> Nobody] /\ goesTo = [n \in Labels |-> Nobody]
  /\ called = [e \in Nodes |-> "none"]
  /\ barred = {} /\ edge = {} /\ hinted = {} /\ cut = {} /\ handled = {} /\ ever = {} /\ revived = {}
  /\ byHand = 0
  /\ ofCard = [c \in VCards |-> Nobody] /\ said = [c \in VCards |-> NotSaid]
  /\ imports = [i \in CardImports |-> NoImport]

-----------------------------------------------------------------------------
\* Definitions named Bad... are faults the code could have had in the definition that
\* follows; they serve to show that a property notices.

\* resolveRelationHints for the names of e, under the self links self: who told of one
\* of them gets the edge, but nobody an edge to himself.
BadResolved(e, names, hints, self) == {}   \* nobody looks for staged hints
Resolved(e, names, hints, self) ==
  {<<self[h[1]], e, h[3]>> : h \in {g \in hints : g[2] \in names /\ self[g[1]] \notin {e, Nobody}}}

NamesOf(e, res) == {n \in Labels : res[n] = e}

\* linkRelations for entity e of card c, the employer last: a name that leads to another
\* is an edge, an employer whom nobody has the name of is made, and any other relative is
\* staged, also one who has the name of e alone.
Employers(res, version) ==
  {n \in Labels : <<n, "worksAt">> \in version.rels /\ res[n] = Nobody}
EdgesTold(e, res, version) ==
  {<<e, res[r[1]], r[2]>> : r \in {q \in version.rels : res[q[1]] \notin {e, Nobody}}}
HintsTold(c, e, res, version) ==
  {<<c, r[1], r[2]>> : r \in {q \in version.rels : q[2] # "worksAt" /\ res[q[1]] \in {e, Nobody}}}

\* Aliases, artifact and relations of card c, refreshed for entity e; `mint` makes e first.
Refresh(c, version, e, mint) ==
  LET own == IF goesTo[version.name] = Nobody /\ <<e, version.name>> \notin barred
             THEN [goesTo EXCEPT ![version.name] = e] ELSE goesTo
      jobs == Employers(own, version)
      n == IF mint THEN made + 1 ELSE made
      res == [m \in Labels |-> IF m \in jobs THEN n + 1 ELSE own[m]]
      self == [ofCard EXCEPT ![c] = e]
      hints == hinted \cup HintsTold(c, e, own, version)
  IN  /\ \A k, m \in jobs : k = m
      /\ made' = IF jobs = {} THEN n ELSE n + 1
      /\ made' <= MaxNode
      /\ called' = IF mint THEN [called EXCEPT ![e] = version.name] ELSE called
      /\ goesTo' = res
      /\ ofCard' = self
      /\ hinted' = hints
      /\ edge' = edge \cup EdgesTold(e, own, version) \cup {<<e, n + 1, "worksAt">> : m \in jobs}
                 \cup Resolved(e, NamesOf(e, res), hints, self)
      /\ said' = [said EXCEPT ![c] = version]
      /\ ever' = ever \cup {<<c, r[1], r[2]>> : r \in version.rels}
      /\ handled' = handled \cup jobs
      /\ UNCHANGED <<absorbed, barred, cut, revived, byHand>>

\* importContacts up to its await: an unchanged card is skipped.
ImportLooks(i, c, version) ==
  /\ imports[i] = NoImport /\ said[c] # version
  /\ imports' = [imports EXCEPT ![i] =
                   [card |-> c, version |-> version, known |-> said[c] # NotSaid]]
  /\ UNCHANGED <<made, called, absorbed, goesTo, barred, edge, hinted, ofCard, said, ever, cut, handled,
                 revived, byHand>>

\* The embedding fails, and with it the import.
ImportFails(i) ==
  /\ imports[i] # NoImport
  /\ imports' = [imports EXCEPT ![i] = NoImport]
  /\ UNCHANGED <<made, called, absorbed, goesTo, barred, edge, hinted, ofCard, said, ever, cut, handled,
                 revived, byHand>>

\* importOneTxn for a card that was stored meanwhile: its person is found by name or made,
\* with the name, but neither relations nor staged hints are looked at.
StoredMeanwhile(version) ==
  /\ \/ goesTo[version.name] # Nobody /\ UNCHANGED <<made, called, goesTo, handled>>
     \/ /\ goesTo[version.name] = Nobody /\ made < MaxNode
        /\ made' = made + 1
        /\ called' = [called EXCEPT ![made + 1] = version.name]
        /\ goesTo' = [goesTo EXCEPT ![version.name] = made + 1]
        /\ handled' = handled \cup {version.name}
  /\ UNCHANGED <<absorbed, barred, edge, hinted, ofCard, said, ever, cut, revived, byHand>>

\* The transaction: updateOneTxn for a card that was there, importOneTxn for one that was not.
ImportCard(i) ==
  LET c == imports[i].card
      version == imports[i].version
      of == goesTo[version.name]
  IN  /\ imports[i] # NoImport
      /\ imports' = [imports EXCEPT ![i] = NoImport]
      /\ \/ imports[i].known /\ Refresh(c, version, ofCard[c], FALSE)
         \/ /\ ~imports[i].known
            /\ \/ said[c] = NotSaid /\ of = Nobody /\ Refresh(c, version, made + 1, TRUE)
               \/ said[c] = NotSaid /\ of # Nobody /\ Refresh(c, version, of, FALSE)
               \/ said[c] # NotSaid /\ StoredMeanwhile(version)

ByHand == byHand < MaxByHand /\ byHand' = byHand + 1

\* createEntity, and approveProposedEntity where the name resolves to nobody.
CreateByHand(n) ==
  /\ ByHand
  /\ made < MaxNode /\ goesTo[n] = Nobody
  /\ made' = made + 1
  /\ called' = [called EXCEPT ![made + 1] = n]
  /\ goesTo' = [goesTo EXCEPT ![n] = made + 1]
  /\ handled' = handled \cup {n}
  /\ UNCHANGED <<absorbed, barred, edge, hinted, ofCard, said, imports, ever, cut, revived>>

\* removeAlias
RemoveName(n) ==
  /\ ByHand
  /\ goesTo[n] # Nobody
  /\ goesTo' = [goesTo EXCEPT ![n] = Nobody]
  /\ barred' = barred \cup {<<goesTo[n], n>>}
  /\ handled' = handled \cup {n}
  /\ UNCHANGED <<made, called, absorbed, edge, hinted, ofCard, said, imports, ever, cut, revived>>

\* addRelationship and POST /entities/:id/relations: an id is only looked up.
DrawEdge(x) ==
  /\ ByHand
  /\ {x[1], x[2]} \subseteq 1..made /\ x[1] # x[2]
  /\ edge' = edge \cup {x}
  /\ revived' = revived \cup {e \in {x[1], x[2]} : absorbed[e] # Nobody}
  /\ UNCHANGED <<made, called, absorbed, goesTo, barred, hinted, ofCard, said, imports, ever, cut, handled>>

RemoveRelation(x) ==
  /\ ByHand
  /\ x \in edge
  /\ edge' = edge \ {x} /\ cut' = cut \cup {x}
  /\ UNCHANGED <<made, called, absorbed, goesTo, barred, hinted, ofCard, said, imports, ever, handled, revived>>

\* mergeEntities: edges between the two go, the others are re-pointed at the survivor.
BadRepointed(X, keep, gone) ==   \* the incoming side is forgotten
  {<<IF x[1] = gone THEN keep ELSE x[1], x[2], x[3]>> :
     x \in {y \in X : {y[1], y[2]} # {keep, gone}}}
Repointed(X, keep, gone) ==
  LET to(e) == IF e = gone THEN keep ELSE e
  IN  {<<to(x[1]), to(x[2]), x[3]>> : x \in {y \in X : {y[1], y[2]} # {keep, gone}}}

Merge(keep, gone) ==
  /\ ByHand
  /\ keep # gone /\ IsLive(keep) /\ IsLive(gone)
  /\ absorbed' = [absorbed EXCEPT ![gone] = keep]
  /\ edge' = Repointed(edge, keep, gone)
  /\ cut' = Repointed(cut, keep, gone)
  /\ goesTo' = [n \in Labels |-> IF goesTo[n] = gone THEN keep ELSE goesTo[n]]
  /\ ofCard' = [c \in VCards |-> IF ofCard[c] = gone THEN keep ELSE ofCard[c]]
  /\ UNCHANGED <<made, called, barred, hinted, said, imports, ever, handled, revived>>

\* backfillRelations: every person, merged or not, gets the name he is displayed by if
\* nobody has it, tombstone or not; then the staged hints are looked up for each.
BackfillRelations ==
  LET of(n) == {e \in 1..made : called[e] = n}
      free == {n \in Labels : goesTo[n] = Nobody /\ of(n) # {}}
      first(n) == CHOOSE e \in of(n) : \A f \in of(n) : e <= f
      res == [n \in Labels |-> IF n \in free THEN first(n) ELSE goesTo[n]]
      persons == {e \in 1..made : called[e] # "none"}
  IN  /\ goesTo' = res
      /\ edge' = edge \cup UNION {Resolved(e, NamesOf(e, res), hinted, ofCard) : e \in persons}
      /\ revived' = revived \cup {first(n) : n \in {m \in free : absorbed[first(m)] # Nobody}}
      /\ UNCHANGED <<made, called, absorbed, barred, hinted, ofCard, said, imports, ever, cut, handled, byHand>>

RelNext ==
  \/ \E i \in CardImports :
       \/ \E c \in VCards : \E v \in Tells[c] : ImportLooks(i, c, v)
       \/ ImportCard(i) \/ ImportFails(i)
  \/ \E n \in Labels : CreateByHand(n) \/ RemoveName(n)
  \/ \E x \in HandDrawn : DrawEdge(x) \/ RemoveRelation(x)
  \/ \E keep, gone \in Nodes : Merge(keep, gone)
  \/ BackfillRelations
RelSpec == RelInit /\ [][RelNext]_relVars

-----------------------------------------------------------------------------
RelTypeOK ==
  /\ made \in 0..MaxNode /\ byHand \in 0..MaxByHand
  /\ absorbed \in [Nodes -> 0..MaxNode] /\ goesTo \in [Labels -> 0..MaxNode]
  /\ ofCard \in [VCards -> 0..MaxNode]
  /\ barred \subseteq Nodes \X Labels /\ hinted \subseteq VCards \X Labels \X Types
  /\ edge \subseteq Edges /\ revived \subseteq Nodes
  /\ imports \in [CardImports -> Waiting \cup {NoImport}]

\* What a stored card tells of another contact is an edge once both are known, whichever
\* card came first, whatever was merged since, whichever card was imported again and however
\* two imports overlap: the names are those given by an import that stored its card. A name
\* given or taken away by hand, to an employer made on the way, or by an import that came
\* too late looks no hint up (linkRelations, resolveRelationHints, mergeEntities).
ToldIsLinked ==
  \A told \in ever :
    LET from == ofCard[told[1]]
        to == goesTo[told[2]]
    IN  to \notin {Nobody, from} /\ told[2] \notin handled /\ <<from, to, told[3]>> \notin cut
          => <<from, to, told[3]>> \in edge

\* No chain of merges, imports and removals leaves an edge from an entity to itself, or
\* one that ends at a merged entity; those can only come from an id that names a merged
\* entity, or from the backfill giving one its name back.
EdgesJoinTheLiving ==
  \A x \in edge : x[1] # x[2] /\ \A e \in {x[1], x[2]} : absorbed[e] = Nobody \/ e \in revived
=============================================================================
