------------------------- MODULE RelationGraphProofs -------------------------
(***************************************************************************)
(* For any cards, names, merges and operations by hand: no edge joins an   *)
(* entity to itself or ends at a merged one, but for ids and names that    *)
(* were given to a merged entity; and what a card tells of another contact *)
(* is an edge once both are known.                                         *)
(***************************************************************************)
EXTENDS RelationGraph, WellFoundedInduction, TLAPS

\* The entities an edge or a name may end at: unmerged ones, and those given an edge or a
\* name all the same.
Usable == {e \in Nodes : absorbed[e] = Nobody \/ e \in revived}
Joins(X, G) == X \subseteq Edges /\ \A x \in X : x[1] # x[2] /\ x[1] \in G /\ x[2] \in G

GraphTyped ==
  /\ made \in 0..MaxNode /\ byHand \in 0..MaxByHand
  /\ absorbed \in [Nodes -> 0..MaxNode] /\ revived \subseteq Nodes
  /\ goesTo \in [Labels -> 0..MaxNode] /\ ofCard \in [VCards -> 0..MaxNode]
  /\ barred \subseteq Nodes \X Labels /\ hinted \subseteq VCards \X Labels \X Types
  /\ said \in [VCards -> Versions \cup {NotSaid}]
  /\ called \in [Nodes -> Labels \cup {"none"}]
  /\ imports \in [CardImports -> Waiting \cup {NoImport}]

\* A card that was imported has its person, and one that an import knew was imported; names
\* and cards lead to usable entities, and nobody is merged before he is made. EdgesJoinTheLiving alone is not inductive: an
\* import draws edges to whatever the names and the cards' own links lead to.
Leads ==
  /\ \A n \in Labels : goesTo[n] # Nobody => goesTo[n] \in Usable /\ goesTo[n] <= made
  /\ \A c \in VCards : ofCard[c] # Nobody => ofCard[c] \in Usable /\ ofCard[c] <= made
  /\ \A c \in VCards : said[c] # NotSaid => ofCard[c] # Nobody
  /\ \A i \in CardImports : imports[i].known => said[imports[i].card] # NotSaid
  /\ \A e \in Nodes : e > made => absorbed[e] = Nobody

RelInv == GraphTyped /\ Leads /\ Joins(edge, Usable)

LEMMA NodesTyped == MaxNode \in Nat /\ Nodes = 1..MaxNode /\ Nobody = 0 /\ Nobody \notin Nodes
BY RelationAssumption DEF Nodes, Nobody

LEMMA RelInvTyped == RelInv => RelTypeOK
BY DEF RelInv, GraphTyped, Joins, RelTypeOK

LEMMA InvLiving == RelInv => EdgesJoinTheLiving
<1> SUFFICES ASSUME RelInv, NEW x \in edge
             PROVE  x[1] # x[2] /\ \A e \in {x[1], x[2]} : absorbed[e] = Nobody \/ e \in revived
  BY DEF EdgesJoinTheLiving
<1>1. x[1] # x[2] /\ x[1] \in Usable /\ x[2] \in Usable
  BY DEF RelInv, Joins
<1>2. ASSUME NEW e \in {x[1], x[2]} PROVE absorbed[e] = Nobody \/ e \in revived
  BY <1>1 DEF Usable
<1>. QED
  BY <1>1, <1>2

LEMMA JoinsUnion ==
  ASSUME NEW X, NEW Y, NEW G, Joins(X, G), Joins(Y, G)
  PROVE  Joins(X \cup Y, G)
BY DEF Joins

LEMMA JoinsMore ==
  ASSUME NEW X, NEW G, NEW H, Joins(X, G), G \subseteq H
  PROVE  Joins(X, H)
BY DEF Joins

LEMMA JoinsFewer ==
  ASSUME NEW X, NEW Y, NEW G, Joins(X, G), Y \subseteq X
  PROVE  Joins(Y, G)
BY DEF Joins

\* The edges that staged hints turn into join the cards' persons with the one that was named.
LEMMA ResolvedJoins ==
  ASSUME NEW e, NEW names, NEW hints \in SUBSET (VCards \X Labels \X Types), NEW self, NEW G \in SUBSET Nodes,
         e \in G, \A c \in VCards : self[c] # Nobody => self[c] \in G
  PROVE  Joins(Resolved(e, names, hints, self), G)
<1> SUFFICES ASSUME NEW x \in Resolved(e, names, hints, self)
             PROVE  x \in Edges /\ x[1] # x[2] /\ x[1] \in G /\ x[2] \in G
  BY DEF Joins
<1>1. PICK h \in hints : x = <<self[h[1]], e, h[3]>> /\ self[h[1]] \notin {e, Nobody}
  BY DEF Resolved
<1>2. h[1] \in VCards /\ h[3] \in Types
  OBVIOUS
<1>3. self[h[1]] \in G
  BY <1>1, <1>2
<1>. QED
  BY <1>1, <1>2, <1>3 DEF Edges

\* So do the edges a card tells of.
LEMMA ToldJoins ==
  ASSUME NEW e, NEW res, NEW version \in Versions, NEW G \in SUBSET Nodes,
         e \in G, \A n \in Labels : res[n] # Nobody => res[n] \in G
  PROVE  Joins(EdgesTold(e, res, version), G)
<1> SUFFICES ASSUME NEW x \in EdgesTold(e, res, version)
             PROVE  x \in Edges /\ x[1] # x[2] /\ x[1] \in G /\ x[2] \in G
  BY DEF Joins
<1>1. PICK r \in version.rels : x = <<e, res[r[1]], r[2]>> /\ res[r[1]] \notin {e, Nobody}
  BY DEF EdgesTold
<1>2. r[1] \in Labels /\ r[2] \in Types
  BY DEF Versions
<1>3. res[r[1]] \in G
  BY <1>1, <1>2
<1>. QED
  BY <1>1, <1>2, <1>3 DEF Edges

LEMMA RelStarts == RelInit => RelInv
<1> SUFFICES ASSUME RelInit PROVE RelInv
  OBVIOUS
<1>1. GraphTyped
  BY NodesTyped, RelationAssumption DEF RelInit, GraphTyped
<1>2. Leads
  BY DEF RelInit, Leads, NoImport
<1>3. Joins(edge, Usable)
  BY DEF RelInit, Joins
<1>. QED
  BY <1>1, <1>2, <1>3 DEF RelInv
-----------------------------------------------------------------------------
(* Imports. *)

LEMMA HintsToldTyped ==
  ASSUME NEW c \in VCards, NEW e, NEW res, NEW version \in Versions
  PROVE  HintsTold(c, e, res, version) \subseteq VCards \X Labels \X Types
BY DEF HintsTold, Versions

LEMMA NotSaidIsNone == \A v \in Versions : v # NotSaid
BY RelationAssumption DEF Versions, NotSaid

LEMMA Waits ==
  ASSUME GraphTyped, NEW i \in CardImports, imports[i] # NoImport
  PROVE  /\ imports[i].card \in VCards /\ imports[i].version \in Versions
         /\ imports[i].version.name \in Labels /\ imports[i].known \in BOOLEAN
BY DEF GraphTyped, Waiting, Versions

\* An import that ends leaves what the others knew, as no card is ever taken back.
LEMMA KnownStay ==
  ASSUME GraphTyped, Leads, NEW i \in CardImports, imports' = [imports EXCEPT ![i] = NoImport],
         \A c \in VCards : said[c] # NotSaid => said'[c] # NotSaid
  PROVE  \A j \in CardImports : imports'[j].known => said'[imports'[j].card] # NotSaid
<1> SUFFICES ASSUME NEW j \in CardImports, imports'[j].known
             PROVE  said'[imports'[j].card] # NotSaid
  OBVIOUS
<1>1. j # i /\ imports'[j] = imports[j]
  BY DEF GraphTyped, NoImport
<1>2. imports[j].card \in VCards
  BY <1>1, Waits DEF NoImport
<1>. QED
  BY <1>1, <1>2 DEF Leads

LEMMA RefreshKeeps ==
  ASSUME RelInv, NEW c \in VCards, NEW version \in Versions, NEW e, NEW mint \in BOOLEAN,
         Refresh(c, version, e, mint),
         \/ mint /\ e = made + 1
         \/ ~mint /\ e \in Usable /\ e <= made,
         NEW i \in CardImports, imports' = [imports EXCEPT ![i] = NoImport]
  PROVE  RelInv'
<1> DEFINE own == IF goesTo[version.name] = Nobody /\ <<e, version.name>> \notin barred
                  THEN [goesTo EXCEPT ![version.name] = e] ELSE goesTo
           jobs == Employers(own, version)
           n == IF mint THEN made + 1 ELSE made
           res == [m \in Labels |-> IF m \in jobs THEN n + 1 ELSE own[m]]
           self == [ofCard EXCEPT ![c] = e]
           hints == hinted \cup HintsTold(c, e, own, version)
<1>1. /\ made' = (IF jobs = {} THEN n ELSE n + 1) /\ made' <= MaxNode
      /\ called' = IF mint THEN [called EXCEPT ![e] = version.name] ELSE called
      /\ goesTo' = res /\ ofCard' = self /\ hinted' = hints
      /\ edge' = edge \cup EdgesTold(e, own, version) \cup {<<e, n + 1, "worksAt">> : m \in jobs}
                 \cup Resolved(e, NamesOf(e, res), hints, self)
      /\ said' = [said EXCEPT ![c] = version]
      /\ UNCHANGED <<absorbed, barred, revived, byHand>>
  BY DEF Refresh
<1>2. GraphTyped /\ Leads /\ Joins(edge, Usable) /\ version.name \in Labels
  BY DEF RelInv, Versions
<1> HIDE DEF jobs
<1>3. /\ made \in Nat /\ n \in Nat /\ made <= n /\ n <= made' /\ made' \in 0..MaxNode
      /\ jobs # {} => n + 1 = made'
      /\ mint => n = made + 1
  <2>1. made \in Nat /\ n \in Nat /\ made <= n /\ (mint => n = made + 1)
    BY <1>2, NodesTyped DEF GraphTyped
  <2> HIDE DEF n
  <2>2. made' \in {n, n + 1} /\ (jobs # {} => n + 1 = made') /\ made' <= MaxNode
    BY <1>1
  <2>. QED
    BY <2>1, <2>2, NodesTyped
<1> HIDE DEF n
<1>4. e \in Nodes /\ e \in Usable /\ e <= n /\ e # Nobody
  <2>1. CASE mint /\ e = made + 1
    <3>1. e \in Nodes /\ e > made /\ e <= n
      BY <1>1, <1>3, <2>1, NodesTyped
    <3>. QED
      BY <1>2, <3>1, NodesTyped DEF Leads, Usable
  <2>2. CASE ~mint /\ e \in Usable /\ e <= made
    BY <1>3, <2>2, NodesTyped DEF Usable
  <2>. QED
    BY <2>1, <2>2
<1>5. own \in [Labels -> 0..MaxNode] /\ \A m \in Labels : own[m] # Nobody => own[m] \in Usable /\ own[m] <= n
  <2>1. /\ goesTo \in [Labels -> 0..MaxNode]
        /\ \A m \in Labels : goesTo[m] # Nobody => goesTo[m] \in Usable /\ goesTo[m] <= n
    BY <1>2, <1>3, NodesTyped DEF GraphTyped, Leads
  <2>2. e \in 0..MaxNode
    BY <1>4, NodesTyped
  <2>. QED
    BY <1>2, <1>4, <2>1, <2>2
<1> HIDE DEF own
<1>6. jobs # {} => n + 1 \in Usable /\ n + 1 \in 0..MaxNode
  <2>1. jobs # {} => n + 1 \in Nodes /\ n + 1 > made
    BY <1>1, <1>3, NodesTyped
  <2>. QED
    BY <1>2, <2>1, NodesTyped DEF Leads, Usable
<1>7. res \in [Labels -> 0..MaxNode] /\ \A m \in Labels : res[m] # Nobody => res[m] \in Usable /\ res[m] <= made'
  <2>1. \A m \in Labels : m \in jobs => jobs # {} /\ res[m] = made'
    BY <1>3
  <2>2. \A m \in Labels : m \notin jobs => res[m] = own[m]
    OBVIOUS
  <2>3. \A m \in Labels : own[m] \in 0..MaxNode /\ (own[m] <= n => own[m] <= made')
    BY <1>3, <1>5
  <2>4. \A m \in Labels : res[m] \in 0..MaxNode
    BY <1>3, <1>5, <1>6, <2>1, <2>2
  <2>5. \A m \in Labels : res[m] # Nobody => res[m] \in Usable
    BY <1>3, <1>5, <1>6, <2>1, <2>2
  <2>6. \A m \in Labels : res[m] # Nobody => res[m] <= made'
    BY <1>3, <1>5, <2>1, <2>2, <2>3
  <2>. QED
    BY <2>4, <2>5, <2>6
<1> HIDE DEF res
<1>8. self \in [VCards -> 0..MaxNode] /\ \A k \in VCards : self[k] # Nobody => self[k] \in Usable /\ self[k] <= made'
  <2>1. /\ ofCard \in [VCards -> 0..MaxNode]
        /\ \A k \in VCards : ofCard[k] # Nobody => ofCard[k] \in Usable /\ ofCard[k] <= made'
    BY <1>2, <1>3, NodesTyped DEF GraphTyped, Leads
  <2>2. e \in 0..MaxNode /\ e <= made'
    BY <1>3, <1>4, NodesTyped
  <2>. QED
    BY <1>4, <2>1, <2>2
<1>9. self[c] # Nobody /\ \A k \in VCards \ {c} : self[k] = ofCard[k]
  BY <1>2, <1>4 DEF GraphTyped
<1> HIDE DEF self
<1>10. hints \in SUBSET (VCards \X Labels \X Types)
  BY <1>2, HintsToldTyped DEF GraphTyped
<1> HIDE DEF hints
<1>11. Joins(edge', Usable)
  <2>0. Usable \in SUBSET Nodes
    BY DEF Usable
  <2>1. Joins(EdgesTold(e, own, version), Usable)
    BY <1>4, <1>5, <2>0, ToldJoins
  <2>3. Joins({<<e, n + 1, "worksAt">> : m \in jobs}, Usable)
    <3>1. jobs # {} => n + 1 \in Usable /\ e # n + 1
      BY <1>3, <1>4, <1>6, NodesTyped
    <3>. QED
      BY <1>4, <3>1 DEF Joins, Edges, Types, Usable
  <2>2. Joins(Resolved(e, NamesOf(e, res), hints, self), Usable)
    BY <1>4, <1>8, <1>10, <2>0, ResolvedJoins
  <2>. QED
    BY <1>1, <1>2, <2>1, <2>2, <2>3, JoinsUnion
<1>12. GraphTyped'
  <2>1. called' \in [Nodes -> Labels \cup {"none"}]
    BY <1>1, <1>2, <1>4 DEF GraphTyped
  <2>2. said' \in [VCards -> Versions \cup {NotSaid}] /\ imports' \in [CardImports -> Waiting \cup {NoImport}]
    BY <1>1, <1>2 DEF GraphTyped
  <2>. QED
    BY <1>1, <1>2, <1>3, <1>7, <1>8, <1>10, <2>1, <2>2 DEF GraphTyped
<1>13. Usable' = Usable
  BY <1>1 DEF Usable
<1>14. Leads'
  <2>1. \A k \in VCards : said'[k] # NotSaid => ofCard'[k] # Nobody
    BY <1>1, <1>2, <1>9 DEF GraphTyped, Leads
  <2>2. \A k \in Nodes : k > made' => absorbed'[k] = Nobody
    BY <1>1, <1>2, <1>3, NodesTyped DEF Leads
  <2>3. \A k \in VCards : said[k] # NotSaid => said'[k] # NotSaid
    BY <1>1, <1>2, NotSaidIsNone DEF GraphTyped
  <2>4. \A j \in CardImports : imports'[j].known => said'[imports'[j].card] # NotSaid
    BY <1>2, <2>3, KnownStay
  <2>. QED
    BY <1>1, <1>7, <1>8, <1>13, <2>1, <2>2, <2>4 DEF Leads
<1>. QED
  BY <1>11, <1>12, <1>13, <1>14 DEF RelInv, Joins

LEMMA ImportLooksKeeps ==
  ASSUME RelInv, NEW i \in CardImports, NEW c \in VCards, NEW version \in Tells[c],
         ImportLooks(i, c, version)
  PROVE  RelInv'
<1>0. GraphTyped /\ Leads /\ Joins(edge, Usable)
  BY DEF RelInv
<1>1. /\ imports' = [imports EXCEPT ![i] =
                       [card |-> c, version |-> version, known |-> said[c] # NotSaid]]
      /\ UNCHANGED <<made, called, absorbed, goesTo, barred, edge, hinted, ofCard, said, revived, byHand>>
  BY DEF ImportLooks
<1>2. version \in Versions
  BY RelationAssumption
<1>3. imports' \in [CardImports -> Waiting \cup {NoImport}]
  BY <1>0, <1>1, <1>2 DEF GraphTyped, Waiting
<1>4. \A j \in CardImports : imports'[j].known => said[imports'[j].card] # NotSaid
  BY <1>0, <1>1 DEF GraphTyped, Leads
<1>. QED
  BY <1>0, <1>1, <1>3, <1>4 DEF RelInv, GraphTyped, Leads, Joins, Usable

LEMMA ImportFailsKeeps ==
  ASSUME RelInv, NEW i \in CardImports, ImportFails(i)
  PROVE  RelInv'
<1>0. GraphTyped /\ Leads /\ Joins(edge, Usable)
  BY DEF RelInv
<1>1. /\ imports' = [imports EXCEPT ![i] = NoImport]
      /\ UNCHANGED <<made, called, absorbed, goesTo, barred, edge, hinted, ofCard, said, revived, byHand>>
  BY DEF ImportFails
<1>2. imports' \in [CardImports -> Waiting \cup {NoImport}]
  BY <1>0, <1>1 DEF GraphTyped
<1>3. \A j \in CardImports : imports'[j].known => said'[imports'[j].card] # NotSaid
  BY <1>0, <1>1, KnownStay
<1>. QED
  BY <1>0, <1>1, <1>2, <1>3 DEF RelInv, GraphTyped, Leads, Joins, Usable

\* A card that came too late gives nobody an edge, and a person that is made a name at most.
LEMMA StoredMeanwhileKeeps ==
  ASSUME RelInv, NEW i \in CardImports, imports' = [imports EXCEPT ![i] = NoImport],
         NEW version \in Versions, StoredMeanwhile(version)
  PROVE  RelInv'
<1>0. GraphTyped /\ Leads /\ Joins(edge, Usable) /\ version.name \in Labels
  BY DEF RelInv, Versions
<1>1. UNCHANGED <<absorbed, barred, edge, hinted, ofCard, said, revived, byHand>>
  BY DEF StoredMeanwhile
<1>2. imports' \in [CardImports -> Waiting \cup {NoImport}]
  BY <1>0 DEF GraphTyped
<1>3. \A j \in CardImports : imports'[j].known => said'[imports'[j].card] # NotSaid
  BY <1>0, <1>1, KnownStay
<1>4. CASE UNCHANGED <<made, called, goesTo>>
  BY <1>0, <1>1, <1>2, <1>3, <1>4 DEF RelInv, GraphTyped, Leads, Joins, Usable
<1>5. CASE /\ made < MaxNode /\ made' = made + 1
           /\ called' = [called EXCEPT ![made + 1] = version.name]
           /\ goesTo' = [goesTo EXCEPT ![version.name] = made + 1]
  <2>1. made \in Nat /\ made + 1 \in Nodes /\ made' \in 0..MaxNode
    BY <1>0, <1>5, NodesTyped DEF GraphTyped
  <2>2. Usable' = Usable /\ made + 1 \in Usable
    BY <1>0, <1>1, <2>1, NodesTyped DEF Leads, Usable
  <2>3. GraphTyped'
    <3>1. called' \in [Nodes -> Labels \cup {"none"}] /\ goesTo' \in [Labels -> 0..MaxNode]
      BY <1>0, <1>5, <2>1, NodesTyped DEF GraphTyped
    <3>. QED
      BY <1>0, <1>1, <1>2, <2>1, <3>1 DEF GraphTyped
  <2>4. Leads'
    <3>1. \A n \in Labels : goesTo'[n] # Nobody => goesTo'[n] \in Usable /\ goesTo'[n] <= made'
      BY <1>0, <1>5, <2>1, <2>2, NodesTyped DEF GraphTyped, Leads
    <3>2. \A c \in VCards : ofCard[c] # Nobody => ofCard[c] \in Usable /\ ofCard[c] <= made'
      BY <1>0, <1>5, <2>1, NodesTyped DEF GraphTyped, Leads
    <3>3. \A e \in Nodes : e > made' => absorbed[e] = Nobody
      BY <1>0, <1>5, <2>1, NodesTyped DEF Leads
    <3>. QED
      BY <1>0, <1>1, <1>3, <2>2, <3>1, <3>2, <3>3 DEF Leads
  <2>. QED
    BY <1>0, <1>1, <2>2, <2>3, <2>4 DEF RelInv, Joins
<1>. QED
  BY <1>4, <1>5 DEF StoredMeanwhile

LEMMA ImportCardKeeps ==
  ASSUME RelInv, NEW i \in CardImports, ImportCard(i)
  PROVE  RelInv'
<1>0. GraphTyped /\ Leads
  BY DEF RelInv
<1> DEFINE c == imports[i].card
           version == imports[i].version
<1>1. /\ c \in VCards /\ version \in Versions /\ version.name \in Labels
      /\ imports' = [imports EXCEPT ![i] = NoImport]
  BY <1>0, Waits DEF ImportCard
<1>2. CASE Refresh(c, version, made + 1, TRUE)
  BY <1>1, <1>2, RefreshKeeps
<1>3. CASE goesTo[version.name] # Nobody /\ Refresh(c, version, goesTo[version.name], FALSE)
  <2>1. goesTo[version.name] \in Usable /\ goesTo[version.name] <= made
    BY <1>0, <1>1, <1>3 DEF Leads
  <2>. QED
    BY <1>1, <1>3, <2>1, RefreshKeeps
<1>4. CASE imports[i].known /\ Refresh(c, version, ofCard[c], FALSE)
  <2>1. ofCard[c] \in Usable /\ ofCard[c] <= made
    BY <1>0, <1>1, <1>4 DEF Leads
  <2>. QED
    BY <1>1, <1>4, <2>1, RefreshKeeps
<1>5. CASE StoredMeanwhile(version)
  BY <1>1, <1>5, StoredMeanwhileKeeps
<1>. QED
  BY <1>2, <1>3, <1>4, <1>5 DEF ImportCard

-----------------------------------------------------------------------------
(* Operations by hand. *)

LEMMA ByHandTyped ==
  ASSUME GraphTyped, ByHand
  PROVE  byHand' \in 0..MaxByHand
BY RelationAssumption DEF ByHand, GraphTyped

LEMMA CreateByHandKeeps ==
  ASSUME RelInv, NEW name \in Labels, CreateByHand(name)
  PROVE  RelInv'
<1>0. GraphTyped /\ Leads /\ Joins(edge, Usable)
  BY DEF RelInv
<1>1. /\ made' = made + 1 /\ made + 1 \in Nodes /\ made \in Nat
      /\ goesTo' = [goesTo EXCEPT ![name] = made + 1]
      /\ UNCHANGED <<absorbed, barred, edge, hinted, ofCard, said, imports, revived>>
  BY <1>0, NodesTyped DEF CreateByHand, GraphTyped
<1>2. absorbed[made + 1] = Nobody
  BY <1>0, <1>1, NodesTyped DEF Leads
<1>3. GraphTyped'
  <2>1. called' \in [Nodes -> Labels \cup {"none"}] /\ byHand' \in 0..MaxByHand
    BY <1>0, ByHandTyped DEF CreateByHand, GraphTyped
  <2>2. made' \in 0..MaxNode /\ goesTo' \in [Labels -> 0..MaxNode]
    BY <1>0, <1>1, NodesTyped DEF GraphTyped
  <2>. QED
    BY <1>0, <1>1, <2>1, <2>2 DEF GraphTyped
<1>4. Usable' = Usable /\ made + 1 \in Usable
  BY <1>1, <1>2 DEF Usable
<1>5. Leads'
  <2>1. \A n \in Labels : goesTo'[n] # Nobody => goesTo'[n] \in Usable /\ goesTo'[n] <= made'
    BY <1>0, <1>1, <1>4, NodesTyped DEF GraphTyped, Leads
  <2>2. \A c \in VCards : ofCard[c] # Nobody => ofCard[c] \in Usable /\ ofCard[c] <= made'
    BY <1>0, <1>1, NodesTyped DEF GraphTyped, Leads
  <2>3. \A e \in Nodes : e > made' => absorbed[e] = Nobody
    BY <1>0, <1>1, NodesTyped DEF Leads
  <2>. QED
    BY <1>0, <1>1, <1>4, <2>1, <2>2, <2>3 DEF Leads
<1>. QED
  BY <1>0, <1>1, <1>3, <1>4, <1>5 DEF RelInv, Joins

LEMMA RemoveNameKeeps ==
  ASSUME RelInv, NEW name \in Labels, RemoveName(name)
  PROVE  RelInv'
<1>0. GraphTyped /\ Leads /\ Joins(edge, Usable)
  BY DEF RelInv
<1>1. /\ goesTo[name] \in Nodes /\ goesTo' = [goesTo EXCEPT ![name] = Nobody]
      /\ barred' = barred \cup {<<goesTo[name], name>>}
      /\ UNCHANGED <<made, called, absorbed, edge, hinted, ofCard, said, imports, revived>>
  BY <1>0, NodesTyped DEF RemoveName, GraphTyped
<1>2. GraphTyped'
  <2>1. byHand' \in 0..MaxByHand
    BY <1>0, ByHandTyped DEF RemoveName
  <2>. QED
    BY <1>0, <1>1, <2>1, NodesTyped DEF GraphTyped
<1>3. Usable' = Usable
  BY <1>1 DEF Usable
<1>4. Leads'
  BY <1>0, <1>1, <1>3, NodesTyped DEF GraphTyped, Leads
<1>. QED
  BY <1>0, <1>1, <1>2, <1>3, <1>4 DEF RelInv, Joins

\* An edge that an id draws to a merged entity is what `revived` is there for.
LEMMA DrawEdgeKeeps ==
  ASSUME RelInv, NEW x \in HandDrawn, DrawEdge(x)
  PROVE  RelInv'
<1>0. GraphTyped /\ Leads /\ Joins(edge, Usable)
  BY DEF RelInv
<1>1. /\ x \in Edges /\ x[1] # x[2] /\ x[1] \in Nodes /\ x[2] \in Nodes
      /\ edge' = edge \cup {x} /\ revived' = revived \cup {e \in {x[1], x[2]} : absorbed[e] # Nobody}
      /\ UNCHANGED <<made, called, absorbed, goesTo, barred, hinted, ofCard, said, imports>>
  BY RelationAssumption DEF DrawEdge, Edges
<1>2. GraphTyped'
  <2>1. byHand' \in 0..MaxByHand
    BY <1>0, ByHandTyped DEF DrawEdge
  <2>. QED
    BY <1>0, <1>1, <2>1 DEF GraphTyped
<1>3. Usable \subseteq Usable' /\ x[1] \in Usable' /\ x[2] \in Usable'
  BY <1>1 DEF Usable
<1>4. Leads'
  BY <1>0, <1>1, <1>3 DEF Leads
<1>5. Joins(edge, Usable)'
  BY <1>0, <1>1, <1>3 DEF Joins
<1>. QED
  BY <1>2, <1>4, <1>5 DEF RelInv

LEMMA RemoveRelationKeeps ==
  ASSUME RelInv, NEW x, RemoveRelation(x)
  PROVE  RelInv'
<1>1. /\ edge' = edge \ {x}
      /\ UNCHANGED <<made, called, absorbed, goesTo, barred, hinted, ofCard, said, imports, revived>>
  BY DEF RemoveRelation
<1>2. byHand' \in 0..MaxByHand
  BY ByHandTyped DEF RelInv, RemoveRelation
<1>. QED
  BY <1>1, <1>2 DEF RelInv, GraphTyped, Leads, Joins, Usable

\* A merge leaves nothing at the one that is gone: names, cards and edges all move.
LEMMA MergeKeeps ==
  ASSUME RelInv, NEW keep \in Nodes, NEW gone \in Nodes, Merge(keep, gone)
  PROVE  RelInv'
<1>0. GraphTyped /\ Leads /\ Joins(edge, Usable)
  BY DEF RelInv
<1>1. /\ keep # gone /\ keep \in 1..made /\ gone \in 1..made /\ absorbed[keep] = Nobody
      /\ absorbed' = [absorbed EXCEPT ![gone] = keep]
      /\ edge' = Repointed(edge, keep, gone)
      /\ goesTo' = [n \in Labels |-> IF goesTo[n] = gone THEN keep ELSE goesTo[n]]
      /\ ofCard' = [c \in VCards |-> IF ofCard[c] = gone THEN keep ELSE ofCard[c]]
      /\ UNCHANGED <<made, called, barred, hinted, said, imports, revived>>
  BY DEF Merge, IsLive
<1>2. keep \in 0..MaxNode /\ keep <= made /\ gone <= made /\ made \in Nat /\ keep # Nobody
  BY <1>0, <1>1, NodesTyped DEF GraphTyped
<1>3. GraphTyped'
  <2>1. byHand' \in 0..MaxByHand
    BY <1>0, ByHandTyped DEF Merge
  <2>2. absorbed' \in [Nodes -> 0..MaxNode] /\ goesTo' \in [Labels -> 0..MaxNode] /\ ofCard' \in [VCards -> 0..MaxNode]
    BY <1>0, <1>1, <1>2 DEF GraphTyped
  <2>. QED
    BY <1>0, <1>1, <2>1, <2>2 DEF GraphTyped
<1>4. \A e \in Usable : e # gone => e \in Usable'
  BY <1>0, <1>1 DEF GraphTyped, Usable
<1>5. keep \in Usable'
  BY <1>0, <1>1 DEF GraphTyped, Usable
<1>6. Leads'
  <2>1. \A n \in Labels : goesTo'[n] # Nobody => goesTo'[n] \in Usable' /\ goesTo'[n] <= made'
    BY <1>0, <1>1, <1>2, <1>4, <1>5 DEF Leads
  <2>2. \A c \in VCards : ofCard'[c] # Nobody => ofCard'[c] \in Usable' /\ ofCard'[c] <= made'
    BY <1>0, <1>1, <1>2, <1>4, <1>5 DEF Leads
  <2>3. \A c \in VCards : said'[c] # NotSaid => ofCard'[c] # Nobody
    BY <1>0, <1>1, <1>2 DEF Leads
  <2>4. \A e \in Nodes : e > made' => absorbed'[e] = Nobody
    BY <1>0, <1>1, <1>2, NodesTyped DEF GraphTyped, Leads
  <2>. QED
    BY <1>0, <1>1, <2>1, <2>2, <2>3, <2>4 DEF Leads
<1>7. Joins(edge, Usable)'
  <2> SUFFICES ASSUME NEW x \in Repointed(edge, keep, gone)
               PROVE  x \in Edges /\ x[1] # x[2] /\ x[1] \in Usable' /\ x[2] \in Usable'
    BY <1>1 DEF Joins
  <2> DEFINE to(e) == IF e = gone THEN keep ELSE e
  <2>1. PICK y \in edge : {y[1], y[2]} # {keep, gone} /\ x = <<to(y[1]), to(y[2]), y[3]>>
    BY DEF Repointed
  <2>2. y \in Edges /\ y[1] # y[2] /\ y[1] \in Usable /\ y[2] \in Usable
    BY <1>0 DEF Joins
  <2>3. to(y[1]) \in Usable' /\ to(y[2]) \in Usable' /\ to(y[1]) \in Nodes /\ to(y[2]) \in Nodes
    BY <1>4, <1>5, <2>2 DEF Edges
  <2>4. to(y[1]) # to(y[2])
    BY <1>1, <2>1, <2>2
  <2>. QED
    BY <2>1, <2>2, <2>3, <2>4 DEF Edges
<1>. QED
  BY <1>3, <1>6, <1>7 DEF RelInv
-----------------------------------------------------------------------------
(* The backfill. *)

LEMMA LeastExists ==
  ASSUME NEW S \in SUBSET Nat, S # {}
  PROVE  \E e \in S : \A f \in S : e <= f
<1> DEFINE R == OpToRel(<, Nat)
<1>0. IsWellFoundedOn(R, Nat)
  BY NatLessThanWellFounded
<1>1. ASSUME NEW e \in Nat, NEW f \in Nat, ~(<<f, e>> \in R) PROVE e <= f
  BY <1>1 DEF OpToRel
<1> HIDE DEF R
<1>2. PICK e \in S : \A f \in S : ~(<<f, e>> \in R)
  BY <1>0, WFMin, Zenon
<1>3. ASSUME NEW f \in S PROVE e <= f
  BY <1>1, <1>2
<1>. QED
  BY <1>3

\* A name that is given back to a merged person makes him one of the `revived`.
LEMMA BackfillKeeps ==
  ASSUME RelInv, BackfillRelations
  PROVE  RelInv'
<1> DEFINE of(n) == {e \in 1..made : called[e] = n}
           free == {n \in Labels : goesTo[n] = Nobody /\ of(n) # {}}
           first(n) == CHOOSE e \in of(n) : \A f \in of(n) : e <= f
           res == [n \in Labels |-> IF n \in free THEN first(n) ELSE goesTo[n]]
           persons == {e \in 1..made : called[e] # "none"}
           drawn(e) == Resolved(e, NamesOf(e, res), hinted, ofCard)
<1>0. GraphTyped /\ Leads /\ Joins(edge, Usable)
  BY DEF RelInv
<1>1. /\ goesTo' = res /\ edge' = edge \cup UNION {drawn(e) : e \in persons}
      /\ revived' = revived \cup {first(n) : n \in {m \in free : absorbed[first(m)] # Nobody}}
      /\ UNCHANGED <<made, called, absorbed, barred, hinted, ofCard, said, imports, byHand>>
  BY DEF BackfillRelations
<1>2. ASSUME NEW n \in free PROVE first(n) \in Nodes /\ first(n) <= made /\ called[first(n)] = n
  <2>1. of(n) \in SUBSET Nat /\ of(n) # {}
    BY <1>0, NodesTyped DEF GraphTyped
  <2>2. first(n) \in of(n)
    BY <2>1, LeastExists
  <2>. QED
    BY <1>0, <2>2, NodesTyped DEF GraphTyped
<1>3. free \subseteq Labels
  OBVIOUS
<1> HIDE DEF first, free
<1>4. Usable \subseteq Usable' /\ \A n \in free : first(n) \in Usable'
  BY <1>1, <1>2 DEF Usable
<1>5. ASSUME NEW n \in Labels
      PROVE  res[n] \in 0..MaxNode /\ (res[n] # Nobody => res[n] \in Usable' /\ res[n] <= made)
  <2>1. CASE n \in free
    BY <1>2, <1>4, <2>1, NodesTyped
  <2>2. CASE n \notin free
    BY <1>0, <1>4, <2>2 DEF GraphTyped, Leads
  <2>. QED
    BY <2>1, <2>2
<1>6. res \in [Labels -> 0..MaxNode]
  BY <1>5
<1> HIDE DEF res
<1>7. GraphTyped'
  <2>1. revived' \subseteq Nodes
    BY <1>0, <1>1, <1>2 DEF GraphTyped
  <2>. QED
    BY <1>0, <1>1, <1>6, <2>1 DEF GraphTyped
<1>8. Leads'
  BY <1>0, <1>1, <1>4, <1>5 DEF Leads
<1>9. ASSUME NEW e \in persons, NEW x \in drawn(e)
      PROVE  x \in Edges /\ x[1] # x[2] /\ x[1] \in Usable' /\ x[2] \in Usable'
  <2>1. PICK h \in hinted : h[2] \in NamesOf(e, res) /\ x = <<ofCard[h[1]], e, h[3]>>
                            /\ ofCard[h[1]] \notin {e, Nobody}
    BY <1>9 DEF Resolved
  <2>2. h[1] \in VCards /\ h[2] \in Labels /\ h[3] \in Types
    BY <1>0 DEF GraphTyped
  <2>3. e \in Usable'
    <3>1. res[h[2]] = e /\ e # Nobody
      BY <2>1, NodesTyped DEF NamesOf, Nobody
    <3>. QED
      BY <1>5, <2>2, <3>1
  <2>4. ofCard[h[1]] \in Usable'
    BY <1>0, <1>4, <2>1, <2>2 DEF Leads
  <2>. QED
    BY <2>1, <2>2, <2>3, <2>4 DEF Edges, Usable
<1> HIDE DEF drawn, persons
<1>10. Joins(edge, Usable)'
  BY <1>0, <1>1, <1>4, <1>9 DEF Joins
<1>. QED
  BY <1>7, <1>8, <1>10 DEF RelInv

LEMMA RelSteps == RelInv /\ [RelNext]_relVars => RelInv'
<1>1. ASSUME RelInv, UNCHANGED relVars PROVE RelInv'
  BY <1>1 DEF relVars, RelInv, GraphTyped, Leads, Joins, Usable
<1>. QED
  BY <1>1, ImportLooksKeeps, ImportFailsKeeps, ImportCardKeeps, CreateByHandKeeps, RemoveNameKeeps, DrawEdgeKeeps, RemoveRelationKeeps,
     MergeKeeps, BackfillKeeps DEF RelNext

-----------------------------------------------------------------------------
\* The types of the relations' state.
THEOREM RelationTypesHold == RelSpec => []RelTypeOK
<1>1. RelInv => RelTypeOK
  BY RelInvTyped
<1>. QED
  BY <1>1, RelStarts, RelSteps, PTL DEF RelSpec

\* In a graph of any size, whatever is imported, merged, named and removed in whatever
\* order: an edge joins two different entities, and neither is merged, but where an id or
\* the backfill gave a merged one an edge or a name (linkRelations, resolveRelationHints,
\* mergeEntities, backfillRelations).
THEOREM EdgesStayAmongTheLiving == RelSpec => []EdgesJoinTheLiving
<1>1. RelInv => EdgesJoinTheLiving
  BY InvLiving
<1>. QED
  BY <1>1, RelStarts, RelSteps, PTL DEF RelSpec

-----------------------------------------------------------------------------
(* What the cards told. *)

\* A name that led nowhere when a card told of it is staged until it does.
ToldInv ==
  /\ ever \subseteq VCards \X Labels \X Types
  /\ \A t \in ever : said[t[1]] # NotSaid
  /\ \A t \in ever : goesTo[t[2]] = Nobody /\ t[2] \notin handled => t \in hinted
  /\ ToldIsLinked

LEMMA RefreshTells ==
  ASSUME RelInv, ToldInv, NEW c \in VCards, NEW version \in Versions, NEW e, NEW mint \in BOOLEAN,
         Refresh(c, version, e, mint), e # Nobody,
         said[c] = NotSaid \/ e = ofCard[c]
  PROVE  ToldInv'
<1> DEFINE own == IF goesTo[version.name] = Nobody /\ <<e, version.name>> \notin barred
                  THEN [goesTo EXCEPT ![version.name] = e] ELSE goesTo
           jobs == Employers(own, version)
           n == IF mint THEN made + 1 ELSE made
           res == [m \in Labels |-> IF m \in jobs THEN n + 1 ELSE own[m]]
           self == [ofCard EXCEPT ![c] = e]
           hints == hinted \cup HintsTold(c, e, own, version)
<1>1. /\ goesTo' = res /\ ofCard' = self /\ hinted' = hints
      /\ edge' = edge \cup EdgesTold(e, own, version) \cup {<<e, n + 1, "worksAt">> : m \in jobs}
                 \cup Resolved(e, NamesOf(e, res), hints, self)
      /\ said' = [said EXCEPT ![c] = version]
      /\ ever' = ever \cup {<<c, r[1], r[2]>> : r \in version.rels}
      /\ handled' = handled \cup jobs
      /\ UNCHANGED cut
  BY DEF Refresh
<1>2. /\ goesTo \in [Labels -> 0..MaxNode] /\ ofCard \in [VCards -> 0..MaxNode]
      /\ said \in [VCards -> Versions \cup {NotSaid}] /\ version.name \in Labels
      /\ version.rels \subseteq Labels \X Types
  BY DEF RelInv, GraphTyped, Versions
<1>3. \A m \in Labels : own[m] = goesTo[m] \/ (goesTo[m] = Nobody /\ own[m] = e)
  BY <1>2
<1> HIDE DEF own, jobs, n
<1>4. \A m \in Labels : m \notin jobs => res[m] = own[m]
  OBVIOUS
<1>5. ever' \subseteq VCards \X Labels \X Types
  BY <1>1, <1>2 DEF ToldInv
<1>6. self[c] = e /\ \A t \in ever : t[1] \in VCards /\ self[t[1]] = ofCard[t[1]]
  BY <1>2 DEF ToldInv
<1>7. \A t \in ever' : said'[t[1]] # NotSaid
  BY <1>1, <1>2, NotSaidIsNone DEF ToldInv
<1> HIDE DEF res, self, hints
<1>8. ASSUME NEW t \in ever', t[2] \notin handled'
      PROVE  /\ res[t[2]] = Nobody => t \in hints
             /\ res[t[2]] \notin {Nobody, self[t[1]]} /\ <<self[t[1]], res[t[2]], t[3]>> \notin cut
                  => <<self[t[1]], res[t[2]], t[3]>> \in edge'
  <2>1. t[2] \in Labels /\ t[2] \notin jobs /\ t[2] \notin handled /\ t = <<t[1], t[2], t[3]>>
    BY <1>1, <1>5, <1>8
  <2>2. res[t[2]] = goesTo[t[2]] \/ (goesTo[t[2]] = Nobody /\ res[t[2]] = e)
    BY <1>3, <1>4, <2>1
  <2>3. CASE t \in ever
    <3>1. CASE res[t[2]] = goesTo[t[2]]
      BY <1>1, <1>6, <2>1, <2>3, <3>1 DEF ToldInv, ToldIsLinked, hints
    <3>2. CASE goesTo[t[2]] = Nobody /\ res[t[2]] = e
      <4>1. t \in hints /\ t[2] \in NamesOf(e, res)
        BY <2>1, <2>3, <3>2 DEF ToldInv, hints, NamesOf
      <4>2. self[t[1]] \notin {e, Nobody} =>
              <<self[t[1]], e, t[3]>> \in Resolved(e, NamesOf(e, res), hints, self)
        BY <4>1 DEF Resolved
      <4>3. self[t[1]] # Nobody
        BY <1>6, <2>3 DEF RelInv, Leads, ToldInv
      <4>. QED
        BY <1>1, <3>2, <4>1, <4>2, <4>3
    <3>. QED
      BY <2>2, <3>1, <3>2
  <2>4. CASE t \notin ever
    <3>1. PICK r \in version.rels : t = <<c, r[1], r[2]>>
      BY <1>1, <1>8, <2>4
    <3>2. t[1] = c /\ t[2] = r[1] /\ t[3] = r[2]
      BY <3>1
    <3>5. res[r[1]] = own[r[1]] /\ (own[r[1]] = Nobody => r[2] # "worksAt")
      <4>1. <<r[1], r[2]>> \in version.rels
        BY <1>2
      <4>2. own[r[1]] = Nobody /\ r[2] = "worksAt" => r[1] \in jobs
        BY <2>1, <3>2, <4>1 DEF jobs, Employers
      <4>. QED
        BY <1>4, <2>1, <3>2, <4>2
    <3>3. res[r[1]] = Nobody => t \in HintsTold(c, e, own, version)
      BY <3>1, <3>5 DEF HintsTold
    <3>4. res[r[1]] \notin {e, Nobody} => <<e, res[r[1]], r[2]>> \in EdgesTold(e, own, version)
      BY <3>5 DEF EdgesTold
    <3>. QED
      BY <1>1, <1>6, <3>2, <3>3, <3>4 DEF hints
  <2>. QED
    BY <2>3, <2>4
<1>. QED
  BY <1>1, <1>5, <1>7, <1>8 DEF ToldInv, ToldIsLinked

LEMMA StoredMeanwhileTells ==
  ASSUME RelInv, ToldInv, NEW version \in Versions, StoredMeanwhile(version)
  PROVE  ToldInv'
<1>1. UNCHANGED <<edge, hinted, ofCard, said, ever, cut>> /\ version.name \in Labels
  BY DEF StoredMeanwhile, Versions
<1>2. \/ UNCHANGED <<goesTo, handled>>
      \/ handled' = handled \cup {version.name} /\ \A m \in Labels \ {version.name} : goesTo'[m] = goesTo[m]
  BY DEF StoredMeanwhile, RelInv, GraphTyped
<1>3. \A t \in ever : t[2] \in Labels
  BY DEF ToldInv
<1>. QED
  BY <1>1, <1>2, <1>3 DEF ToldInv, ToldIsLinked

LEMMA ImportTells ==
  ASSUME RelInv, ToldInv, NEW i \in CardImports, ImportCard(i)
  PROVE  ToldInv'
<1> DEFINE c == imports[i].card
           version == imports[i].version
<1>1. c \in VCards /\ version \in Versions /\ version.name \in Labels
  BY Waits DEF ImportCard, RelInv
<1>2. CASE said[c] = NotSaid /\ Refresh(c, version, made + 1, TRUE)
  <2>1. made + 1 # Nobody
    BY NodesTyped DEF RelInv, GraphTyped
  <2>. QED
    BY <1>1, <1>2, <2>1, RefreshTells
<1>3. CASE said[c] = NotSaid /\ goesTo[version.name] # Nobody
           /\ Refresh(c, version, goesTo[version.name], FALSE)
  BY <1>1, <1>3, RefreshTells
<1>4. CASE imports[i].known /\ Refresh(c, version, ofCard[c], FALSE)
  <2>1. ofCard[c] # Nobody
    BY <1>1, <1>4 DEF RelInv, Leads
  <2>. QED
    BY <1>1, <1>4, <2>1, RefreshTells
<1>5. CASE StoredMeanwhile(version)
  BY <1>1, <1>5, StoredMeanwhileTells
<1>. QED
  BY <1>2, <1>3, <1>4, <1>5 DEF ImportCard

\* A name given or taken away by hand is one of the `handled`, an edge removed one of the
\* `cut`.
LEMMA ByHandTells ==
  ASSUME RelInv, ToldInv,
         \/ \E n \in Labels : CreateByHand(n) \/ RemoveName(n)
         \/ \E x \in HandDrawn : DrawEdge(x) \/ RemoveRelation(x)
  PROVE  ToldInv'
<1>1. ASSUME NEW n \in Labels, CreateByHand(n) \/ RemoveName(n) PROVE ToldInv'
  <2>1. /\ handled' = handled \cup {n} /\ \A m \in Labels \ {n} : goesTo'[m] = goesTo[m]
        /\ UNCHANGED <<edge, hinted, ofCard, said, ever, cut>>
    BY <1>1 DEF CreateByHand, RemoveName, RelInv, GraphTyped
  <2>2. \A t \in ever : t[2] \in Labels
    BY DEF ToldInv
  <2>. QED
    BY <2>1, <2>2 DEF ToldInv, ToldIsLinked
<1>2. ASSUME NEW x, DrawEdge(x) PROVE ToldInv'
  BY <1>2 DEF DrawEdge, ToldInv, ToldIsLinked
<1>3. ASSUME NEW x, RemoveRelation(x) PROVE ToldInv'
  BY <1>3 DEF RemoveRelation, ToldInv, ToldIsLinked
<1>. QED
  BY <1>1, <1>2, <1>3

LEMMA RepointedHas ==
  ASSUME NEW keep, NEW gone, NEW X, NEW a, NEW b, NEW k, {a, b} # {keep, gone}, <<a, b, k>> \in X
  PROVE  <<IF a = gone THEN keep ELSE a, IF b = gone THEN keep ELSE b, k>> \in Repointed(X, keep, gone)
BY DEF Repointed

LEMMA RepointedFrom ==
  ASSUME NEW keep, NEW gone, NEW X, NEW a, NEW b, NEW k, {a, b} # {keep, gone},
         <<IF a = gone THEN keep ELSE a, IF b = gone THEN keep ELSE b, k>> \notin Repointed(X, keep, gone)
  PROVE  <<a, b, k>> \notin X
BY RepointedHas

\* Two who are merged need no edge between them, and every other edge moves along.
LEMMA MergeTells ==
  ASSUME RelInv, ToldInv, NEW keep \in Nodes, NEW gone \in Nodes, Merge(keep, gone)
  PROVE  ToldInv'
<1>1. /\ edge' = Repointed(edge, keep, gone) /\ cut' = Repointed(cut, keep, gone)
      /\ goesTo' = [n \in Labels |-> IF goesTo[n] = gone THEN keep ELSE goesTo[n]]
      /\ ofCard' = [c \in VCards |-> IF ofCard[c] = gone THEN keep ELSE ofCard[c]]
      /\ UNCHANGED <<hinted, said, ever, handled>>
  BY DEF Merge
<1>2. keep # Nobody /\ gone # Nobody
  BY NodesTyped
<1>3. ASSUME NEW t \in ever
      PROVE  /\ t[1] \in VCards /\ t[2] \in Labels
             /\ goesTo'[t[2]] = IF goesTo[t[2]] = gone THEN keep ELSE goesTo[t[2]]
             /\ ofCard'[t[1]] = IF ofCard[t[1]] = gone THEN keep ELSE ofCard[t[1]]
  BY <1>1 DEF ToldInv
<1>4. ToldIsLinked'
  <2> SUFFICES ASSUME NEW t \in ever, goesTo'[t[2]] \notin {Nobody, ofCard'[t[1]]}, t[2] \notin handled,
                      <<ofCard'[t[1]], goesTo'[t[2]], t[3]>> \notin cut'
               PROVE  <<ofCard'[t[1]], goesTo'[t[2]], t[3]>> \in edge'
    BY <1>1 DEF ToldIsLinked
  <2>1. PICK a, b, k : a = ofCard[t[1]] /\ b = goesTo[t[2]] /\ k = t[3]
    OBVIOUS
  <2>2. ofCard'[t[1]] = (IF a = gone THEN keep ELSE a) /\ goesTo'[t[2]] = (IF b = gone THEN keep ELSE b)
    BY <1>3, <2>1
  <2>3. b \notin {Nobody, a} /\ {a, b} # {keep, gone}
    BY <1>2, <2>2
  <2>4. <<a, b, k>> \notin cut
    BY <1>1, <2>1, <2>2, <2>3, RepointedFrom
  <2>5. <<a, b, k>> \in edge
    BY <2>1, <2>3, <2>4 DEF ToldInv, ToldIsLinked
  <2>. QED
    BY <1>1, <2>1, <2>2, <2>3, <2>5, RepointedHas
<1>. QED
  BY <1>1, <1>2, <1>3, <1>4 DEF ToldInv

LEMMA BackfillTells ==
  ASSUME RelInv, ToldInv, BackfillRelations
  PROVE  ToldInv'
<1> DEFINE of(n) == {e \in 1..made : called[e] = n}
           free == {n \in Labels : goesTo[n] = Nobody /\ of(n) # {}}
           first(n) == CHOOSE e \in of(n) : \A f \in of(n) : e <= f
           res == [n \in Labels |-> IF n \in free THEN first(n) ELSE goesTo[n]]
           persons == {e \in 1..made : called[e] # "none"}
           drawn(e) == Resolved(e, NamesOf(e, res), hinted, ofCard)
<1>1. /\ goesTo' = res /\ edge' = edge \cup UNION {drawn(e) : e \in persons}
      /\ UNCHANGED <<hinted, ofCard, said, ever, cut, handled>>
  BY DEF BackfillRelations
<1>2. ASSUME NEW n \in free PROVE first(n) \in persons /\ goesTo[n] = Nobody
  <2>1. of(n) \in SUBSET Nat /\ of(n) # {}
    BY NodesTyped DEF RelInv, GraphTyped
  <2>2. first(n) \in of(n)
    BY <2>1, LeastExists
  <2>. QED
    BY <2>2, RelationAssumption
<1> HIDE DEF first, free
<1>3. ASSUME NEW t \in ever
      PROVE  /\ t[1] \in VCards /\ t[2] \in Labels
             /\ \/ res[t[2]] = goesTo[t[2]]
                \/ res[t[2]] \in persons /\ goesTo[t[2]] = Nobody
  BY <1>2 DEF ToldInv
<1> HIDE DEF res
<1>4. ASSUME NEW t \in ever, goesTo[t[2]] = Nobody, t[2] \notin handled, res[t[2]] \in persons,
             res[t[2]] # ofCard[t[1]]
      PROVE  <<ofCard[t[1]], res[t[2]], t[3]>> \in edge'
  <2>1. t \in hinted /\ ofCard[t[1]] # Nobody
    BY <1>3, <1>4 DEF ToldInv, RelInv, Leads
  <2>2. t[2] \in NamesOf(res[t[2]], res)
    BY <1>3 DEF NamesOf
  <2>3. <<ofCard[t[1]], res[t[2]], t[3]>> \in drawn(res[t[2]])
    BY <1>4, <2>1, <2>2 DEF Resolved
  <2> HIDE DEF drawn
  <2>. QED
    BY <1>1, <1>4, <2>3
<1> HIDE DEF drawn, persons
<1>5. ToldIsLinked'
  BY <1>1, <1>3, <1>4 DEF ToldInv, ToldIsLinked
<1>6. Nobody \notin persons
  BY NodesTyped DEF persons, Nobody
<1>. QED
  BY <1>1, <1>3, <1>5, <1>6 DEF ToldInv

LEMMA ToldStarts == RelInit => ToldInv
BY DEF RelInit, ToldInv, ToldIsLinked

LEMMA ToldSteps == RelInv /\ ToldInv /\ [RelNext]_relVars => ToldInv'
<1>1. ASSUME ToldInv, UNCHANGED relVars PROVE ToldInv'
  BY <1>1 DEF relVars, ToldInv, ToldIsLinked
<1>2. ASSUME ToldInv, NEW i, (\E c \in VCards : \E v \in Tells[c] : ImportLooks(i, c, v)) \/ ImportFails(i)
      PROVE  ToldInv'
  BY <1>2 DEF ImportLooks, ImportFails, ToldInv, ToldIsLinked
<1>. QED
  BY <1>1, <1>2, ImportTells, ByHandTells, MergeTells, BackfillTells DEF RelNext

\* For any cards and names, in whatever order they are imported, told again and merged, and
\* however imports overlap: what a stored card tells of another contact is an edge once both
\* are known (linkRelations,
\* resolveRelationHints, mergeEntities, backfillRelations).
THEOREM TheToldAreLinked == RelSpec => []ToldIsLinked
<1> DEFINE Inv == RelInv /\ ToldInv
<1>1. RelInit => Inv
  BY RelStarts, ToldStarts
<1>2. Inv /\ [RelNext]_relVars => Inv'
  BY RelSteps, ToldSteps
<1>3. Inv => ToldIsLinked
  BY DEF ToldInv
<1> HIDE DEF Inv
<1>. QED
  BY <1>1, <1>2, <1>3, PTL DEF RelSpec
=============================================================================
