----------------------------- MODULE SearchProofs -----------------------------
(***************************************************************************)
(* What a question about the archive gets to see: for every set of         *)
(* artifacts and any overlapping calls, search answers its own question    *)
(* and ranks as its arms do, and what the timeline folds away is told by   *)
(* the digest in its place.                                                *)
(***************************************************************************)
EXTENDS SearchSession, Consolidation, FiniteSetTheorems, WellFoundedInduction, NaturalsInduction, TLAPS

-----------------------------------------------------------------------------
\* SearchSession.

Answers == UNION {[1..n -> Stored] : n \in 0..Limit}
Calls ==
  [pc : {"idle", "planning", "embedding", "done", "ranked"}, ask : Asks \cup {Unplanned},
   cand : SUBSET Stored, embedded : BOOLEAN, answer : Answers]

\* Artifact a passes every filter of the caller.
Admitted(ask, a) == \A k \in FilterKinds : ask.wish[k] = "filter" => a \in Match["caller"][k]

\* What a call has in hand at each stage.
Sound(m) ==
  /\ m.pc \in {"idle", "planning"} => m.cand = {} /\ m.answer = << >>
  /\ \A a \in m.cand : Admitted(m.ask, a)
  /\ m.pc = "embedding" => m.cand # {}
  /\ m.pc = "ranked" => m.cand # {} /\ m.answer \in Fused(m.cand, m.embedded)
  /\ m.pc = "done" => \/ m.cand = {} /\ m.answer = << >> /\ Asked(m.ask) = {}
                      \/ m.cand # {} /\ m.answer \in Latest(m.cand)

SearchInv ==
  /\ table \subseteq Stored /\ search \in [Searches -> Calls]
  /\ \A s \in Searches : Sound(search[s])

-----------------------------------------------------------------------------
\* Any naturals have a least one: what stands here for a proof by induction.
LEMMA LeastOfNaturals ==
  ASSUME NEW S \in SUBSET Nat, S # {}
  PROVE  \E e \in S : \A f \in S : e <= f
<1> DEFINE R == OpToRel(<, Nat)
<1>1. IsWellFoundedOn(R, Nat)
  BY NatLessThanWellFounded
<1>2. ASSUME NEW e \in Nat, NEW f \in Nat, ~(<<f, e>> \in R) PROVE e <= f
  BY <1>2 DEF OpToRel
<1> HIDE DEF R
<1>3. PICK e \in S : \A f \in S : ~(<<f, e>> \in R)
  BY <1>1, WFMin, Zenon
<1>. QED
  BY <1>2, <1>3

LEMMA StoredFinite ==
  ASSUME NEW T \in SUBSET Stored
  PROVE  IsFiniteSet(T) /\ Cardinality(T) \in Nat
BY SearchAssumption, FS_Subset, FS_CardinalityType

\* A place in an order belongs to one artifact.
LEMMA OrderTyped ==
  ASSUME NEW order \in {Recency, Nearest, Worded}
  PROVE  /\ DOMAIN order \subseteq Stored
         /\ \A a \in DOMAIN order : order[a] \in Nat
         /\ \A a, b \in DOMAIN order : order[a] = order[b] => a = b
BY SearchAssumption DEF Stored

\* The ranking of a set is a ranking of its elements, and not empty if the set is not.
LEMMA LatestFacts ==
  ASSUME NEW T \in SUBSET Stored, NEW s \in Latest(T)
  PROVE  /\ s \in Answers /\ \A i \in DOMAIN s : s[i] \in T
         /\ T # {} => 1 \in DOMAIN s
<1>1. s \in [1..Least(Limit, Cardinality(T)) -> T]
  BY DEF Latest, Best
<1>2. Cardinality(T) \in Nat /\ (T # {} => Cardinality(T) # 0)
  BY StoredFinite, FS_EmptySet
<1>3. /\ Least(Limit, Cardinality(T)) \in 0..Limit
      /\ T # {} => Least(Limit, Cardinality(T)) >= 1
  BY <1>2, SearchAssumption DEF Least
<1>. QED
  BY <1>1, <1>3 DEF Answers

LEMMA ArmsWithin ==
  ASSUME NEW T, NEW e
  PROVE  BothArms(T, e) \subseteq T
BY DEF BothArms, Arm

LEMMA FusedFacts ==
  ASSUME NEW T \in SUBSET Stored, NEW e, NEW s \in Fused(T, e)
  PROVE  /\ s \in Answers /\ \A i \in DOMAIN s : s[i] \in BothArms(T, e)
         /\ BothArms(T, e) # {} => 1 \in DOMAIN s
         /\ DOMAIN s \subseteq Nat
<1> DEFINE S == BothArms(T, e)
<1>1. S \in SUBSET Stored
  BY ArmsWithin
<1>2. s \in [1..Least(Limit, Cardinality(S)) -> S]
  BY DEF Fused, Best
<1>3. Cardinality(S) \in Nat /\ (S # {} => Cardinality(S) # 0)
  BY <1>1, StoredFinite, FS_EmptySet
<1>4. /\ Least(Limit, Cardinality(S)) \in 0..Limit
      /\ S # {} => Least(Limit, Cardinality(S)) >= 1
  BY <1>3, SearchAssumption DEF Least
<1>. QED
  BY <1>1, <1>2, <1>4 DEF Answers

-----------------------------------------------------------------------------
\* The ranks of an arm follow its order.
LEMMA RankOrder ==
  ASSUME NEW order \in {Recency, Nearest, Worded}, NEW T \in SUBSET Stored,
         NEW a \in T \cap DOMAIN order
  PROVE  /\ Rank(a, T, order) \in Nat \ {0}
         /\ \A b \in T \cap DOMAIN order : order[a] < order[b] => Rank(a, T, order) < Rank(b, T, order)
<1> DEFINE Upto(x) == {b \in T \cap DOMAIN order : order[b] <= order[x]}
<1>1. \A x : IsFiniteSet(Upto(x)) /\ Cardinality(Upto(x)) \in Nat
  BY StoredFinite
<1>2. order[a] \in Nat /\ a \in Upto(a)
  BY OrderTyped
<1>3. Cardinality(Upto(a)) # 0
  BY <1>1, <1>2, FS_EmptySet
<1>4. ASSUME NEW b \in T \cap DOMAIN order, order[a] < order[b]
      PROVE  Cardinality(Upto(a)) < Cardinality(Upto(b))
  <2>1. \A x \in T \cap DOMAIN order : order[x] \in Nat
    BY OrderTyped
  <2>2. Upto(a) \subseteq Upto(b) /\ b \in Upto(b) /\ b \notin Upto(a)
    BY <2>1, <1>4
  <2>3. Cardinality(Upto(a)) <= Cardinality(Upto(b)) /\ Cardinality(Upto(a)) # Cardinality(Upto(b))
    BY <1>1, <2>2, FS_Subset
  <2>. HIDE DEF Upto
  <2>. QED
    BY <1>1, <2>3
<1>. QED
  BY <1>1, <1>3, <1>4 DEF Rank

Fractions == Nat \X (Nat \ {0})

\* What the provers need of products, which are no linear arithmetic.
LEMMA ProductsGrow ==
  ASSUME NEW m \in Nat, NEW n \in Nat, NEW k \in Nat
  PROVE  /\ m >= n => m * k >= n * k
         /\ m > n /\ k > 0 => m * k > n * k
         /\ m * k \in Nat
OBVIOUS

\* A greater and a no smaller fraction have the greater sum.
LEMMA SumsGrow ==
  ASSUME NEW x \in Fractions, NEW y \in Fractions, NEW u \in Fractions, NEW v \in Fractions,
         Exceeds(x, u), ~Exceeds(v, y)
  PROVE  Exceeds(Plus(x, y), Plus(u, v)) /\ Exceeds(Plus(y, x), Plus(v, u))
<1>a. PICK a \in Nat, b \in Nat \ {0} : x = <<a, b>>
  BY DEF Fractions
<1>c. PICK c \in Nat, d \in Nat \ {0} : y = <<c, d>>
  BY DEF Fractions
<1>e. PICK e \in Nat, f \in Nat \ {0} : u = <<e, f>>
  BY DEF Fractions
<1>g. PICK g \in Nat, h \in Nat \ {0} : v = <<g, h>>
  BY DEF Fractions
<1>1. x = <<a, b>> /\ y = <<c, d>> /\ u = <<e, f>> /\ v = <<g, h>>
  BY <1>a, <1>c, <1>e, <1>g
<1>2. a * f > e * b /\ c * h >= g * d
  BY <1>1 DEF Exceeds
<1>3. a * f \in Nat /\ e * b \in Nat /\ c * h \in Nat /\ g * d \in Nat /\ d * h \in Nat /\ b * f \in Nat
  BY <1>1, ProductsGrow
<1>4. d * h > 0
  BY <1>1
<1>5. (a * f) * (d * h) > (e * b) * (d * h)
  BY <1>2, <1>3, <1>4, ProductsGrow
<1>6. (c * h) * (b * f) >= (g * d) * (b * f)
  BY <1>2, <1>3, ProductsGrow
<1>7. /\ (a * d + c * b) * (f * h) = (a * f) * (d * h) + (c * h) * (b * f)
      /\ (e * h + g * f) * (b * d) = (e * b) * (d * h) + (g * d) * (b * f)
      /\ (c * b + a * d) * (h * f) = (a * f) * (d * h) + (c * h) * (b * f)
      /\ (g * f + e * h) * (d * b) = (e * b) * (d * h) + (g * d) * (b * f)
  BY <1>1
<1>8. (a * d + c * b) * (f * h) > (e * h + g * f) * (b * d)
  BY <1>3, <1>5, <1>6, <1>7, ProductsGrow
<1>9. (c * b + a * d) * (h * f) > (g * f + e * h) * (d * b)
  BY <1>3, <1>5, <1>6, <1>7, ProductsGrow
<1>. QED
  BY <1>1, <1>8, <1>9 DEF Exceeds, Plus

LEMMA PartTyped ==
  ASSUME NEW order \in {Recency, Nearest, Worded}, NEW T \in SUBSET Stored, NEW a
  PROVE  Part(a, T, order) \in Fractions
<1>1. CASE a \in Arm(T, order)
  <2>1. Rank(a, T, order) \in Nat \ {0}
    BY <1>1, RankOrder DEF Arm
  <2>. QED
    BY <1>1, <2>1, SearchAssumption DEF Part, Fractions
<1>2. CASE a \notin Arm(T, order)
  BY <1>2 DEF Part, Fractions
<1>. QED
  BY <1>1, <1>2

\* Who is ahead in an order has the greater part of the score by that arm, unless the
\* arm found neither.
LEMMA AheadScoresMore ==
  ASSUME NEW order \in {Recency, Nearest, Worded}, NEW T \in SUBSET Stored,
         NEW a \in T, NEW b \in T, Ahead(a, b, order)
  PROVE  /\ b \in Arm(T, order) =>
              a \in Arm(T, order) /\ Exceeds(Part(a, T, order), Part(b, T, order))
         /\ ~Exceeds(Part(b, T, order), Part(a, T, order))
<1>1. a \in DOMAIN order
  BY DEF Ahead
<1>2. CASE b \in Arm(T, order)
  <2>1. b \in T \cap DOMAIN order /\ Rank(b, T, order) <= Depth
    BY <1>2 DEF Arm
  <2>2. Rank(a, T, order) < Rank(b, T, order)
    BY <1>1, <2>1, RankOrder DEF Ahead
  <2>3. Rank(a, T, order) \in Nat \ {0} /\ Rank(b, T, order) \in Nat \ {0}
    BY <1>1, <2>1, RankOrder
  <2>4. Depth \in Nat /\ RrfK \in Nat
    BY SearchAssumption
  <2>5. a \in Arm(T, order)
    BY <1>1, <2>1, <2>2, <2>3, <2>4 DEF Arm
  <2>6. Part(a, T, order) = <<1, RrfK + Rank(a, T, order)>> /\ Part(b, T, order) = <<1, RrfK + Rank(b, T, order)>>
    BY <1>2, <2>5 DEF Part
  <2>. QED
    BY <2>2, <2>3, <2>4, <2>5, <2>6 DEF Exceeds
<1>3. CASE b \notin Arm(T, order)
  <2>1. Part(b, T, order) = <<0, 1>>
    BY <1>3 DEF Part
  <2>2. PICK m \in Nat, n \in Nat \ {0} : Part(a, T, order) = <<m, n>>
    BY PartTyped DEF Fractions
  <2>. QED
    BY <1>3, <2>1, <2>2 DEF Exceeds
<1>. QED
  BY <1>2, <1>3

\* Ahead by both arms, ahead of what either of them found: a greater score.
LEMMA AheadOutranks ==
  ASSUME NEW T \in SUBSET Stored, NEW a \in T, NEW b \in BothArms(T, TRUE),
         Ahead(a, b, Nearest), Ahead(a, b, Worded)
  PROVE  a \in BothArms(T, TRUE) /\ Outranks(a, b, T, TRUE)
<1>1. b \in T /\ (b \in Arm(T, Nearest) \/ b \in Arm(T, Worded))
  BY ArmsWithin DEF BothArms
<1> DEFINE x == Part(a, T, Nearest)
           u == Part(b, T, Nearest)
           y == Part(a, T, Worded)
           v == Part(b, T, Worded)
<1>2. x \in Fractions /\ y \in Fractions /\ u \in Fractions /\ v \in Fractions
  BY PartTyped
<1>3. /\ b \in Arm(T, Nearest) => a \in Arm(T, Nearest) /\ Exceeds(x, u)
      /\ ~Exceeds(u, x)
      /\ b \in Arm(T, Worded) => a \in Arm(T, Worded) /\ Exceeds(y, v)
      /\ ~Exceeds(v, y)
  BY <1>1, AheadScoresMore
<1>4. Score(a, T, TRUE) = Plus(x, y) /\ Score(b, T, TRUE) = Plus(u, v)
  BY DEF Score, ByMeaning
<1>. HIDE DEF x, y, u, v
<1>5. Exceeds(Plus(x, y), Plus(u, v))
  <2>1. CASE b \in Arm(T, Nearest)
    BY <2>1, <1>2, <1>3, SumsGrow
  <2>2. CASE b \in Arm(T, Worded)
    BY <2>2, <1>2, <1>3, SumsGrow
  <2>. QED
    BY <2>1, <2>2, <1>1
<1>. QED
  BY <1>1, <1>3, <1>4, <1>5 DEF BothArms, Outranks

\* With an embedding the arm by meaning finds something among any candidates.
LEMMA NearestFound ==
  ASSUME NEW T \in SUBSET Stored, T # {}
  PROVE  BothArms(T, TRUE) # {}
<1>1. T \subseteq DOMAIN Nearest /\ \A a \in T : Nearest[a] \in Nat
  BY SearchAssumption, OrderTyped
<1> DEFINE places == {Nearest[a] : a \in T}
<1>2. places \in SUBSET Nat /\ places # {}
  BY <1>1
<1>3. PICK e \in places : \A f \in places : e <= f
  BY <1>2, LeastOfNaturals
<1>4. PICK a \in T : Nearest[a] = e
  BY <1>3
<1>5. {b \in T \cap DOMAIN Nearest : Nearest[b] <= Nearest[a]} = {a}
  <2>1. ASSUME NEW b \in T, Nearest[b] <= Nearest[a] PROVE b = a
    <3>1. Nearest[a] <= Nearest[b]
      BY <1>3, <1>4
    <3>2. Nearest[a] = Nearest[b]
      BY <1>1, <2>1, <3>1
    <3>. QED
      BY <1>1, <3>2, OrderTyped
  <2>2. Nearest[a] \in Nat
    BY <1>1
  <2>. QED
    BY <1>1, <2>1, <2>2
<1>6. Rank(a, T, Nearest) = 1
  BY <1>5, FS_Singleton DEF Rank
<1>7. a \in Arm(T, Nearest)
  BY <1>1, <1>6, SearchAssumption DEF Arm
<1>. QED
  BY <1>7 DEF BothArms

-----------------------------------------------------------------------------
\* Candidates pass the caller's filters, and there are some if the caller's own filters
\* let anything through.
LEMMA CandidatesAdmitted ==
  ASSUME NEW ask, NEW plan
  PROVE  /\ Candidates(ask, plan) \subseteq Stored
         /\ \A a \in Candidates(ask, plan) : Admitted(ask, a)
         /\ Candidates(ask, plan) = {} => Asked(ask) = {}
<1>1. \A a \in Planned(ask, plan) : Admitted(ask, a)
  BY DEF Planned, Passing, Admitted
<1>2. \A a \in Asked(ask) : Admitted(ask, a)
  BY DEF Asked, Passing, Admitted
<1>. QED
  BY <1>1, <1>2 DEF Candidates, Planned, Asked

LEMMA SearchStarts == SearchInit => SearchInv
<1>1. Call \in Calls /\ Sound(Call)
  <2>1. << >> \in [1..0 -> Stored]
    OBVIOUS
  <2>2. << >> \in Answers
    BY <2>1, SearchAssumption DEF Answers
  <2>. QED
    BY <2>2 DEF Call, Calls, Sound
<1>. QED
  BY <1>1 DEF SearchInit, SearchInv

\* A step of call s that leaves it sound.
LEMMA CallMovesKeeps ==
  ASSUME SearchInv, NEW s \in Searches, NEW m \in Calls, Sound(m),
         search' = [search EXCEPT ![s] = m], table' \subseteq Stored
  PROVE  SearchInv'
BY DEF SearchInv, Sound, Admitted

LEMMA BeginKeeps == ASSUME SearchInv, NEW s \in Searches, NEW ask \in Asks, Begin(s, ask) PROVE SearchInv'
<1> DEFINE m == [search[s] EXCEPT !.pc = "planning", !.ask = ask]
<1>1. search[s] \in Calls /\ Sound(search[s]) /\ search[s].pc = "idle"
  BY DEF SearchInv, Begin
<1>2. m \in Calls /\ m.pc = "planning" /\ m.cand = search[s].cand /\ m.answer = search[s].answer
  BY <1>1 DEF Calls
<1>3. Sound(m)
  BY <1>1, <1>2 DEF Sound
<1>4. search' = [search EXCEPT ![s] = m] /\ table' = table
  BY DEF Begin
<1>. HIDE DEF m
<1>. QED
  BY <1>2, <1>3, <1>4, CallMovesKeeps DEF SearchInv

LEMMA HearPlanKeeps == ASSUME SearchInv, NEW s \in Searches, NEW plan, HearPlan(s, plan) PROVE SearchInv'
<1> DEFINE ask == search[s].ask
           c == Candidates(ask, plan)
<1>1. search[s] \in Calls /\ Sound(search[s]) /\ search[s].pc = "planning"
  BY DEF SearchInv, HearPlan
<1>2. /\ c \in SUBSET Stored /\ (\A a \in c : Admitted(ask, a)) /\ (c = {} => Asked(ask) = {})
  BY CandidatesAdmitted
<1>3. search[s].cand = {} /\ search[s].answer = << >>
  BY <1>1 DEF Sound
<1>4. CASE c = {} /\ search' = [search EXCEPT ![s].pc = "done"] /\ UNCHANGED table
  <2> DEFINE m == [search[s] EXCEPT !.pc = "done"]
  <2>1. m \in Calls /\ m.pc = "done" /\ m.cand = {} /\ m.answer = << >> /\ m.ask = ask
    BY <1>1, <1>3 DEF Calls
  <2>2. Sound(m)
    BY <1>2, <1>4, <2>1 DEF Sound
  <2>3. search' = [search EXCEPT ![s] = m] /\ table' \subseteq Stored
    BY <1>4 DEF SearchInv
  <2>. HIDE DEF m
  <2>. QED
    BY <2>1, <2>2, <2>3, CallMovesKeeps
<1>5. CASE c # {} /\ table' = c /\ \E answer \in Latest(table') :
             search' = [search EXCEPT ![s].pc = "done", ![s].cand = c, ![s].embedded = TRUE,
                                      ![s].answer = answer]
  <2>1. PICK answer \in Latest(c) :
             search' = [search EXCEPT ![s].pc = "done", ![s].cand = c, ![s].embedded = TRUE,
                                      ![s].answer = answer]
    BY <1>5
  <2> DEFINE m == [search[s] EXCEPT !.pc = "done", !.cand = c, !.embedded = TRUE, !.answer = answer]
  <2>2. answer \in Answers
    BY <1>2, LatestFacts
  <2>3. m \in Calls /\ m.pc = "done" /\ m.cand = c /\ m.answer = answer /\ m.ask = ask
    BY <1>1, <1>2, <2>2 DEF Calls
  <2>4. Sound(m)
    BY <1>2, <1>5, <2>1, <2>3 DEF Sound
  <2>5. search' = [search EXCEPT ![s] = m] /\ table' \subseteq Stored
    BY <1>2, <1>5, <2>1
  <2>. HIDE DEF m, c, ask
  <2>. QED
    BY <2>3, <2>4, <2>5, CallMovesKeeps
<1>6. CASE /\ c # {} /\ table' = Filled("planned", c)
           /\ search' = [search EXCEPT ![s].pc = "embedding", ![s].cand = c]
  <2> DEFINE m == [search[s] EXCEPT !.pc = "embedding", !.cand = c]
  <2>1. m \in Calls /\ m.pc = "embedding" /\ m.cand = c /\ m.ask = ask
    BY <1>1, <1>2 DEF Calls
  <2>2. Sound(m)
    BY <1>2, <1>6, <2>1 DEF Sound
  <2>3. search' = [search EXCEPT ![s] = m] /\ table' \subseteq Stored
    BY <1>6 DEF SearchInv, Filled, FillStep
  <2>. HIDE DEF m, c, ask
  <2>. QED
    BY <2>1, <2>2, <2>3, CallMovesKeeps
<1>. QED
  BY <1>4, <1>5, <1>6 DEF HearPlan

LEMMA HearEmbeddingKeeps == ASSUME SearchInv, NEW s \in Searches, HearEmbedding(s) PROVE SearchInv'
<1>1. search[s] \in Calls /\ Sound(search[s]) /\ search[s].pc = "embedding"
  BY DEF SearchInv, HearEmbedding
<1> DEFINE c == search[s].cand
<1>2. c \in SUBSET Stored /\ c # {} /\ \A a \in c : Admitted(search[s].ask, a)
  BY <1>1 DEF Calls, Sound
<1>3. table' = c
  BY DEF HearEmbedding, Filled, FillStep
<1>4. PICK ok \in BOOLEAN : \E answer \in Fused(table', ok) :
        search' = [search EXCEPT ![s].pc = "ranked", ![s].embedded = ok, ![s].answer = answer]
  BY DEF HearEmbedding
<1>5. PICK answer \in Fused(c, ok) :
        search' = [search EXCEPT ![s].pc = "ranked", ![s].embedded = ok, ![s].answer = answer]
  BY <1>3, <1>4
<1>6. answer \in Answers
  BY <1>2, FusedFacts
<1> DEFINE m == [search[s] EXCEPT !.pc = "ranked", !.embedded = ok, !.answer = answer]
<1>7. /\ m \in Calls /\ m.pc = "ranked" /\ m.cand = c /\ m.embedded = ok /\ m.answer = answer
      /\ m.ask = search[s].ask
  BY <1>1, <1>6 DEF Calls
<1>8. Sound(m)
  BY <1>2, <1>5, <1>7 DEF Sound
<1>9. search' = [search EXCEPT ![s] = m] /\ table' \subseteq Stored
  BY <1>2, <1>3, <1>5
<1>. HIDE DEF m
<1>. QED
  BY <1>7, <1>8, <1>9, CallMovesKeeps

LEMMA ReturnKeeps == ASSUME SearchInv, NEW s \in Searches, Return(s) PROVE SearchInv'
<1>1. Call \in Calls /\ Sound(Call)
  <2>1. << >> \in [1..0 -> Stored]
    OBVIOUS
  <2>2. << >> \in Answers
    BY <2>1, SearchAssumption DEF Answers
  <2>. QED
    BY <2>2 DEF Call, Calls, Sound
<1>. QED
  BY <1>1, CallMovesKeeps DEF Return, SearchInv

LEMMA SearchSteps == SearchInv /\ [SearchNext]_searchVars => SearchInv'
<1>1. SearchInv /\ UNCHANGED searchVars => SearchInv'
  BY DEF SearchInv, searchVars
<1>. QED
  BY <1>1, BeginKeeps, HearPlanKeeps, HearEmbeddingKeeps, ReturnKeeps DEF SearchNext

LEMMA SearchInvTyped == SearchInv => SearchTypeOK
BY DEF SearchInv, Calls, Answers, SearchTypeOK

LEMMA ResultsFacts ==
  ASSUME SearchInv, NEW s \in Searches, Answered(s)
  PROVE  /\ Results(s) \subseteq search[s].cand
         /\ Results(s) = {} => \/ Asked(search[s].ask) = {}
                               \/ search[s].pc = "ranked" /\ ~search[s].embedded
<1> DEFINE m == search[s]
<1>1. m \in Calls /\ Sound(m) /\ m.cand \in SUBSET Stored
  BY DEF SearchInv, Calls
<1>2. CASE m.pc = "done" /\ m.cand = {} /\ m.answer = << >> /\ Asked(m.ask) = {}
  BY <1>2 DEF Results
<1>3. CASE m.pc = "done" /\ m.cand # {} /\ m.answer \in Latest(m.cand)
  <2>1. (\A i \in DOMAIN m.answer : m.answer[i] \in m.cand) /\ 1 \in DOMAIN m.answer
    BY <1>1, <1>3, LatestFacts
  <2>. QED
    BY <2>1 DEF Results
<1>4. CASE m.pc = "ranked" /\ m.cand # {} /\ m.answer \in Fused(m.cand, m.embedded)
  <2>1. \A i \in DOMAIN m.answer : m.answer[i] \in m.cand
    BY <1>1, <1>4, FusedFacts, ArmsWithin
  <2>2. m.embedded => 1 \in DOMAIN m.answer
    <3> SUFFICES ASSUME m.embedded PROVE 1 \in DOMAIN m.answer
      OBVIOUS
    <3>1. m.embedded = TRUE
      BY <1>1 DEF Calls
    <3>2. BothArms(m.cand, m.embedded) # {}
      BY <1>1, <1>4, <3>1, NearestFound
    <3>. QED
      BY <1>1, <1>4, <3>2, FusedFacts
  <2>. QED
    BY <1>4, <2>1, <2>2 DEF Results
<1>. QED
  BY <1>1, <1>2, <1>3, <1>4 DEF Answered, Sound

LEMMA AnswersAreOwn == SearchInv => AnswersOwnQuestion
BY ResultsFacts DEF SearchInv, Sound, Admitted, AnswersOwnQuestion

LEMMA EmptyFollows == SearchInv => EmptyIsHonest
BY ResultsFacts DEF EmptyIsHonest

LEMMA FusionInOrder == SearchInv => FusionKeepsOrder
<1> SUFFICES ASSUME SearchInv, NEW s \in Searches, search[s].pc = "ranked", search[s].embedded,
                    NEW i \in DOMAIN search[s].answer, NEW a \in search[s].cand,
                    Ahead(a, search[s].answer[i], Nearest), Ahead(a, search[s].answer[i], Worded)
             PROVE  \E j \in 1..(i - 1) : search[s].answer[j] = a
  BY DEF FusionKeepsOrder
<1>1. search[s] \in Calls /\ search[s].answer \in Fused(search[s].cand, TRUE)
  <2>1. search[s] \in Calls /\ Sound(search[s])
    BY DEF SearchInv
  <2>2. search[s].embedded = TRUE
    BY <2>1 DEF Calls
  <2>. QED
    BY <2>1, <2>2 DEF Sound
<1>2. search[s].cand \in SUBSET Stored
  BY <1>1 DEF Calls
<1>3. search[s].answer[i] \in BothArms(search[s].cand, TRUE)
  BY <1>1, <1>2, FusedFacts
<1>4. a \in BothArms(search[s].cand, TRUE) /\ Outranks(a, search[s].answer[i], search[s].cand, TRUE)
  BY <1>2, <1>3, AheadOutranks
<1> DEFINE T == search[s].cand
           r == search[s].answer
<1>5. r \in Fused(T, TRUE) /\ i \in DOMAIN r /\ a \in BothArms(T, TRUE) /\ Outranks(a, r[i], T, TRUE)
  BY <1>1, <1>4
<1>. HIDE DEF T
<1>6. {x \in BothArms(T, TRUE) : Outranks(x, r[i], T, TRUE)} = {r[j] : j \in 1..(i - 1)}
  BY <1>5 DEF Fused, Best
<1>. QED
  BY <1>5, <1>6

-----------------------------------------------------------------------------

\* For any stored artifacts, filters, plans, limits and any number of overlapping
\* searches: an answer holds only candidates of its own search, and those pass every
\* filter of its caller (hybridSearch, fillCandidates).
THEOREM AnswersStayOwn == SearchSpec => []AnswersOwnQuestion
BY SearchStarts, SearchSteps, AnswersAreOwn, PTL DEF SearchSpec

\* A search comes back empty only by its caller's own filters, or without an embedding:
\* the nearest of any candidates is found by the arm by meaning, however short that is.
THEOREM EmptyStaysHonest == SearchSpec => []EmptyIsHonest
BY SearchStarts, SearchSteps, EmptyFollows, PTL DEF SearchSpec

\* For any RRF_K, limit and depth of the arms: what is ahead of a result by meaning and
\* by words is a result as well, and in front of it (rrf).
THEOREM FusionStaysInOrder == SearchSpec => []FusionKeepsOrder
BY SearchStarts, SearchSteps, FusionInOrder, PTL DEF SearchSpec

\* Everything a search keeps is of its type.
THEOREM SearchTypesHold == SearchSpec => []SearchTypeOK
BY SearchStarts, SearchSteps, SearchInvTyped, PTL DEF SearchSpec

-----------------------------------------------------------------------------
\* The conditions on an answer leave no choice and are never out of reach: rrf and sort
\* are functions.

\* s ranks k elements of S: in front of each are those that R puts there.
Ranks(s, k, S, R) ==
  /\ s \in [1..k -> S]
  /\ \A i \in 1..k, b \in S : <<b, s[i]>> \in R <=> \E j \in 1..(i - 1) : s[j] = b

\* A strict and total order leaves no choice.
LEMMA OnlyRanking ==
  ASSUME NEW S, NEW R, NEW k \in Nat, NEW s, Ranks(s, k, S, R), NEW t, Ranks(t, k, S, R),
         \A a \in S : <<a, a>> \notin R,
         \A a, b \in S : a # b => <<a, b>> \in R \/ <<b, a>> \in R
  PROVE  s = t
<1> USE DEF Ranks
<1> DEFINE Differ == {i \in 1..k : s[i] # t[i]}
<1>1. ASSUME Differ # {} PROVE FALSE
  <2>0. Differ \in SUBSET Nat
    OBVIOUS
  <2>1. PICK i \in Differ : \A j \in Differ : i <= j
    <3>. HIDE DEF Differ
    <3>. QED
      BY <1>1, <2>0, LeastOfNaturals
  <2>2. i \in 1..k /\ s[i] \in S /\ t[i] \in S /\ s[i] # t[i]
    BY <2>1
  <2>3. \A j \in 1..(i - 1) : s[j] = t[j]
    BY <2>1, <2>2
  <2>5. \A b \in S : <<b, s[i]>> \in R <=> <<b, t[i]>> \in R
    BY <2>2, <2>3
  <2>6. CASE <<s[i], t[i]>> \in R
    BY <2>2, <2>5, <2>6
  <2>7. CASE <<t[i], s[i]>> \in R
    BY <2>2, <2>5, <2>7
  <2>. QED
    BY <2>2, <2>6, <2>7
<1>. QED
  BY <1>1

\* Of any elements of a finite ordered set one is beaten by none of them: the one that
\* fewest of the set beat.
LEMMA BestOne ==
  ASSUME NEW S, IsFiniteSet(S), NEW R, NEW rest \in SUBSET S, rest # {},
         \A a \in S : <<a, a>> \notin R,
         \A a, b, c \in S : <<a, b>> \in R /\ <<b, c>> \in R => <<a, c>> \in R
  PROVE  \E a \in rest : \A b \in rest : <<b, a>> \notin R
<1> DEFINE Beaters(a) == {b \in S : <<b, a>> \in R}
           counts == {Cardinality(Beaters(a)) : a \in rest}
<1>1. ASSUME NEW a PROVE IsFiniteSet(Beaters(a)) /\ Cardinality(Beaters(a)) \in Nat
  <2>1. Beaters(a) \in SUBSET S
    OBVIOUS
  <2>. HIDE DEF Beaters
  <2>. QED
    BY <2>1, FS_Subset, FS_CardinalityType
<1>2. counts \in SUBSET Nat /\ counts # {}
  <2>. HIDE DEF Beaters
  <2>. QED
    BY <1>1
<1>3. PICK least \in counts : \A m \in counts : least <= m
  <2>. HIDE DEF counts
  <2>. QED
    BY <1>2, LeastOfNaturals
<1>4. PICK a \in rest : Cardinality(Beaters(a)) = least
  BY <1>3
<1>5. ASSUME NEW b \in rest, <<b, a>> \in R PROVE FALSE
  <2>1. Beaters(b) \subseteq Beaters(a) /\ b \in Beaters(a) /\ b \notin Beaters(b)
    BY <1>5
  <2>. HIDE DEF Beaters
  <2>2. Cardinality(Beaters(a)) <= Cardinality(Beaters(b))
    BY <1>3, <1>4
  <2>3. Cardinality(Beaters(b)) <= Cardinality(Beaters(a))
    BY <1>1, <2>1, FS_Subset
  <2>4. Cardinality(Beaters(b)) = Cardinality(Beaters(a))
    BY <1>1, <2>2, <2>3
  <2>. QED
    BY <1>1, <2>1, <2>4, FS_Subset
<1>. QED
  BY <1>5

\* With k - 1 of more elements ranked there is one to come next.
LEMMA RankingGrows ==
  ASSUME NEW S, IsFiniteSet(S), NEW R, NEW k \in 1..Cardinality(S), NEW s, Ranks(s, k - 1, S, R),
         \A a \in S : <<a, a>> \notin R,
         \A a, b \in S : a # b => <<a, b>> \in R \/ <<b, a>> \in R,
         \A a, b, c \in S : <<a, b>> \in R /\ <<b, c>> \in R => <<a, c>> \in R
  PROVE  \E t : Ranks(t, k, S, R)
<1> DEFINE rest == {b \in S : \A j \in 1..(k - 1) : s[j] # b}
<1>1. Cardinality(S) \in Nat /\ k \in Nat \ {0}
  BY FS_CardinalityType
<1>2. s \in [1..(k - 1) -> S]
  BY DEF Ranks
<1>3. \A i \in 1..(k - 1), b \in S : <<b, s[i]>> \in R <=> \E j \in 1..(i - 1) : s[j] = b
  BY DEF Ranks
<1>4. ASSUME rest = {} PROVE FALSE
  <2> DEFINE f == [b \in S |-> CHOOSE j \in 1..(k - 1) : s[j] = b]
  <2>1. \A b \in S : f[b] \in 1..(k - 1) /\ s[f[b]] = b
    BY <1>4
  <2>2. f \in [S -> 1..(k - 1)]
    BY <2>1
  <2>3. IsFiniteSet(1..(k - 1)) /\ Cardinality(1..(k - 1)) = k - 1
    BY <1>1, FS_Interval
  <2>. HIDE DEF f
  <2>4. PICK x, y \in S : x # y /\ f[x] = f[y]
    BY <1>1, <2>2, <2>3, FS_PigeonHole
  <2>. QED
    BY <2>1, <2>4
<1>5. PICK a \in rest : \A b \in rest : <<b, a>> \notin R
  <2>1. rest \in SUBSET S /\ rest # {}
    BY <1>4
  <2>. HIDE DEF rest
  <2>. QED
    BY <2>1, BestOne
<1> DEFINE t == [i \in 1..k |-> IF i = k THEN a ELSE s[i]]
<1>6. t \in [1..k -> S]
  BY <1>1, <1>2, <1>5
<1>7. t[k] = a /\ \A i \in 1..(k - 1) : t[i] = s[i] /\ s[i] \in S
  BY <1>1, <1>2
<1>8. \A i \in 1..(k - 1) : i \in 1..k /\ 1..(i - 1) \subseteq 1..(k - 1)
  BY <1>1
<1>. HIDE DEF t
<1>9. ASSUME NEW i \in 1..k, NEW b \in S
      PROVE  <<b, t[i]>> \in R <=> \E j \in 1..(i - 1) : t[j] = b
  <2>1. CASE i # k
    <3>1. i \in 1..(k - 1)
      BY <1>1, <2>1
    <3>. QED
      BY <3>1, <1>3, <1>7, <1>8
  <2>2. CASE i = k /\ <<b, a>> \in R
    <3>1. b \notin rest
      BY <1>5, <2>2
    <3>. QED
      BY <2>2, <3>1, <1>7
  <2>3. CASE i = k /\ <<b, a>> \notin R
    <3>1. ASSUME NEW j \in 1..(k - 1), s[j] = b PROVE FALSE
      <4>1. a \in S /\ a # b
        BY <3>1, <1>5
      <4>2. <<a, s[j]>> \in R
        BY <2>3, <3>1, <4>1
      <4>3. PICK i0 \in 1..(j - 1) : s[i0] = a
        BY <1>3, <4>1, <4>2
      <4>. QED
        BY <1>5, <1>8, <4>3
    <3>. QED
      BY <2>3, <3>1, <1>7
  <2>. QED
    BY <2>1, <2>2, <2>3
<1>. QED
  BY <1>6, <1>9 DEF Ranks

\* A finite set has a ranking of every length.
LEMMA RankingExists ==
  ASSUME NEW S, IsFiniteSet(S), NEW R,
         \A a \in S : <<a, a>> \notin R,
         \A a, b \in S : a # b => <<a, b>> \in R \/ <<b, a>> \in R,
         \A a, b, c \in S : <<a, b>> \in R /\ <<b, c>> \in R => <<a, c>> \in R,
         NEW n \in 0..Cardinality(S)
  PROVE  \E s : Ranks(s, n, S, R)
<1> DEFINE Without == {k \in 0..Cardinality(S) : ~\E s : Ranks(s, k, S, R)}
<1>1. Cardinality(S) \in Nat
  BY FS_CardinalityType
<1>2. ASSUME Without # {} PROVE FALSE
  <2>1. Without \in SUBSET Nat
    OBVIOUS
  <2>2. PICK k \in Without : \A m \in Without : k <= m
    <3>. HIDE DEF Without
    <3>. QED
      BY <1>2, <2>1, LeastOfNaturals
  <2>3. CASE k = 0
    <3>1. << >> \in [1..0 -> S]
      OBVIOUS
    <3>2. Ranks(<< >>, 0, S, R)
      BY <3>1 DEF Ranks
    <3>. QED
      BY <2>2, <2>3, <3>2
  <2>4. CASE k # 0
    <3>1. k \in 1..Cardinality(S) /\ k - 1 \in 0..Cardinality(S) /\ ~(k <= k - 1)
      BY <1>1, <2>2, <2>4
    <3>2. PICK s : Ranks(s, k - 1, S, R)
      BY <2>2, <3>1
    <3>3. \E t : Ranks(t, k, S, R)
      BY <3>1, <3>2, RankingGrows
    <3>. QED
      BY <2>2, <3>3
  <2>. QED
    BY <2>3, <2>4
<1>. QED
  BY <1>2

\* Fractions are ordered by Exceeds.
LEMMA ExceedsOrder ==
  ASSUME NEW x \in Fractions, NEW y \in Fractions, NEW z \in Fractions,
         ~Exceeds(y, x), ~Exceeds(z, y)
  PROVE  /\ ~Exceeds(z, x)
         /\ Exceeds(x, y) \/ Exceeds(y, z) => Exceeds(x, z)
<1>1. PICK a \in Nat, b \in Nat \ {0} : x = <<a, b>>
  BY DEF Fractions
<1>2. PICK c \in Nat, d \in Nat \ {0} : y = <<c, d>>
  BY DEF Fractions
<1>3. PICK e \in Nat, f \in Nat \ {0} : z = <<e, f>>
  BY DEF Fractions
<1>4. /\ a * d \in Nat /\ c * b \in Nat /\ c * f \in Nat /\ e * d \in Nat /\ a * f \in Nat /\ e * b \in Nat
      /\ d > 0 /\ f > 0 /\ b > 0
  BY <1>1, <1>2, <1>3, ProductsGrow
<1>5. a * d >= c * b /\ c * f >= e * d
  BY <1>1, <1>2, <1>3, <1>4 DEF Exceeds
<1>6. /\ (a * d) * f \in Nat /\ (c * b) * f \in Nat /\ (c * f) * b \in Nat /\ (e * d) * b \in Nat
      /\ (a * f) * d \in Nat /\ (e * b) * d \in Nat
  BY <1>4, ProductsGrow
<1>7. /\ (a * d) * f >= (c * b) * f /\ (c * f) * b >= (e * d) * b
      /\ a * d > c * b => (a * d) * f > (c * b) * f
      /\ c * f > e * d => (c * f) * b > (e * d) * b
  BY <1>4, <1>5, ProductsGrow
<1>8. /\ (a * d) * f = (a * f) * d /\ (c * b) * f = (c * f) * b
      /\ (e * d) * b = (e * b) * d
  BY <1>1, <1>2, <1>3
<1>9. /\ (a * f) * d >= (e * b) * d
      /\ a * d > c * b \/ c * f > e * d => (a * f) * d > (e * b) * d
  BY <1>6, <1>7, <1>8
<1>10. /\ e * b > a * f => (e * b) * d > (a * f) * d
       /\ e * b >= a * f => (e * b) * d >= (a * f) * d
  BY <1>4, ProductsGrow
<1>11. /\ ~(e * b > a * f)
       /\ a * d > c * b \/ c * f > e * d => a * f > e * b
  BY <1>4, <1>6, <1>9, <1>10
<1>. QED
  BY <1>1, <1>2, <1>3, <1>11 DEF Exceeds

\* A score is a fraction with a denominator above zero.
LEMMA ScoreTyped ==
  ASSUME NEW T \in SUBSET Stored, NEW a, NEW e \in BOOLEAN
  PROVE  Score(a, T, e) \in Fractions
<1>1. Part(a, T, Nearest) \in Fractions /\ Part(a, T, Worded) \in Fractions
  BY PartTyped
<1>2. ByMeaning(a, T, e) \in Fractions
  BY <1>1 DEF ByMeaning, Fractions
<1>3. PICK m \in Nat, n \in Nat \ {0} : ByMeaning(a, T, e) = <<m, n>>
  BY <1>2 DEF Fractions
<1>4. PICK p \in Nat, q \in Nat \ {0} : Part(a, T, Worded) = <<p, q>>
  BY <1>1 DEF Fractions
<1>5. m * q \in Nat /\ p * n \in Nat /\ n * q \in Nat /\ n * q > 0 * q
  BY <1>3, <1>4, ProductsGrow
<1>6. Score(a, T, e) = <<m * q + p * n, n * q>>
  BY <1>3, <1>4 DEF Score, Plus
<1>. QED
  BY <1>5, <1>6 DEF Fractions

\* Of two results of an arm's union exactly one outranks the other.
LEMMA OutranksTotal ==
  ASSUME NEW T \in SUBSET Stored, NEW e \in BOOLEAN, NEW a \in BothArms(T, e), NEW b \in BothArms(T, e)
  PROVE  /\ a # b => Outranks(a, b, T, e) \/ Outranks(b, a, T, e)
         /\ ~Outranks(a, a, T, e)
<1> DEFINE found == IF e THEN Arm(T, Nearest) ELSE {}
<1>1. /\ a \in found \/ a \in Arm(T, Worded)
      /\ b \in found \/ b \in Arm(T, Worded)
  BY DEF BothArms
<1>2. /\ \A x \in Arm(T, Nearest) : x \in DOMAIN Nearest /\ Nearest[x] \in Nat
      /\ \A x \in Arm(T, Worded) : x \in DOMAIN Worded /\ Worded[x] \in Nat
      /\ \A x, y \in Arm(T, Nearest) : Nearest[x] = Nearest[y] => x = y
      /\ \A x, y \in Arm(T, Worded) : Worded[x] = Worded[y] => x = y
  BY OrderTyped DEF Arm
<1>3. MetBefore(a, b, T, e) <=> IF a \in found THEN b \in found => Nearest[a] < Nearest[b]
                                ELSE b \notin found /\ Worded[a] < Worded[b]
  BY DEF MetBefore
<1>4. MetBefore(b, a, T, e) <=> IF b \in found THEN a \in found => Nearest[b] < Nearest[a]
                                ELSE a \notin found /\ Worded[b] < Worded[a]
  BY DEF MetBefore
<1>5. MetBefore(a, a, T, e) <=> IF a \in found THEN Nearest[a] < Nearest[a] ELSE Worded[a] < Worded[a]
  BY DEF MetBefore
<1>6. found \subseteq Arm(T, Nearest)
  OBVIOUS
<1>. HIDE DEF found
<1>7. a # b => MetBefore(a, b, T, e) \/ MetBefore(b, a, T, e)
  BY <1>1, <1>2, <1>3, <1>4, <1>6
<1>8. ~MetBefore(a, a, T, e)
  BY <1>1, <1>2, <1>5, <1>6
<1>9. ~Exceeds(Score(a, T, e), Score(a, T, e))
  <2>1. PICK m \in Nat, n \in Nat \ {0} : Score(a, T, e) = <<m, n>>
    BY ScoreTyped DEF Fractions
  <2>2. m * n \in Nat
    BY <2>1, ProductsGrow
  <2>. QED
    BY <2>1, <2>2 DEF Exceeds
<1>. QED
  BY <1>7, <1>8, <1>9 DEF Outranks

\* To outrank is transitive, ties of the score included.
LEMMA OutranksTransitive ==
  ASSUME NEW T \in SUBSET Stored, NEW e \in BOOLEAN, NEW a \in BothArms(T, e), NEW b \in BothArms(T, e),
         NEW c \in BothArms(T, e), Outranks(a, b, T, e), Outranks(b, c, T, e)
  PROVE  Outranks(a, c, T, e)
<1> DEFINE x == Score(a, T, e)
           y == Score(b, T, e)
           z == Score(c, T, e)
<1>1. x \in Fractions /\ y \in Fractions /\ z \in Fractions
  BY ScoreTyped
<1>2. /\ Exceeds(x, y) \/ (~Exceeds(y, x) /\ MetBefore(a, b, T, e))
      /\ Exceeds(y, z) \/ (~Exceeds(z, y) /\ MetBefore(b, c, T, e))
  BY DEF Outranks
<1>. HIDE DEF x, y, z
<1>3. \A u, v \in Fractions : Exceeds(u, v) => ~Exceeds(v, u)
  <2> SUFFICES ASSUME NEW u \in Fractions, NEW v \in Fractions, Exceeds(u, v) PROVE ~Exceeds(v, u)
    OBVIOUS
  <2>1. PICK m \in Nat, n \in Nat \ {0} : u = <<m, n>>
    BY DEF Fractions
  <2>2. PICK p \in Nat, q \in Nat \ {0} : v = <<p, q>>
    BY DEF Fractions
  <2>3. m * q \in Nat /\ p * n \in Nat
    BY <2>1, <2>2, ProductsGrow
  <2>. QED
    BY <2>1, <2>2, <2>3 DEF Exceeds
<1>4. ~Exceeds(y, x) /\ ~Exceeds(z, y)
  BY <1>1, <1>2, <1>3
<1>5. ~Exceeds(z, x) /\ (Exceeds(x, y) \/ Exceeds(y, z) => Exceeds(x, z))
  BY <1>1, <1>4, ExceedsOrder
<1>6. MetBefore(a, b, T, e) /\ MetBefore(b, c, T, e) => MetBefore(a, c, T, e)
  <2> DEFINE found == IF e THEN Arm(T, Nearest) ELSE {}
             Met(p, q) == IF p \in found THEN q \in found => Nearest[p] < Nearest[q]
                          ELSE q \notin found /\ Worded[p] < Worded[q]
  <2>1. MetBefore(a, b, T, e) = Met(a, b) /\ MetBefore(b, c, T, e) = Met(b, c)
        /\ MetBefore(a, c, T, e) = Met(a, c)
    BY DEF MetBefore
  <2>2. \A p \in {a, b, c} : p \in found \/ p \in Arm(T, Worded)
    BY DEF BothArms
  <2>3. \A p \in {a, b, c} : /\ p \in found => Nearest[p] \in Nat
                             /\ p \notin found => Worded[p] \in Nat
    BY <2>2, OrderTyped DEF Arm
  <2>4. Met(a, b) /\ Met(b, c) => Met(a, c)
    <3>. HIDE DEF found
    <3>. QED
      BY <2>3
  <2>. QED
    BY <2>1, <2>4
<1>. QED
  BY <1>2, <1>5, <1>6 DEF Outranks, x, z

\* The order of an answer by time, and of one by fusion, as relations.
LaterThan(T) == {p \in T \X T : Recency[p[1]] < Recency[p[2]]}
RanksOver(T, e) == {p \in BothArms(T, e) \X BothArms(T, e) : Outranks(p[1], p[2], T, e)}

\* The answers by time, and by fusion, are the rankings by these relations.
LEMMA LatestRanks ==
  ASSUME NEW T \in SUBSET Stored
  PROVE  \A s : s \in Latest(T) <=> Ranks(s, Least(Limit, Cardinality(T)), T, LaterThan(T))
<1> DEFINE k == Least(Limit, Cardinality(T))
<1>1. \A s : s \in Latest(T) <=>
        /\ s \in [1..k -> T]
        /\ \A i \in DOMAIN s : {b \in T : Recency[b] < Recency[s[i]]} = {s[j] : j \in 1..(i - 1)}
  BY DEF Latest, Best
<1>k. k \in Nat
  BY StoredFinite, SearchAssumption DEF Least
<1>. HIDE DEF k
<1>2. ASSUME NEW s, s \in [1..k -> T]
      PROVE  /\ (\A i \in DOMAIN s : {b \in T : Recency[b] < Recency[s[i]]} = {s[j] : j \in 1..(i - 1)})
             <=> \A i \in 1..k, b \in T : <<b, s[i]>> \in LaterThan(T) <=> \E j \in 1..(i - 1) : s[j] = b
  <2>1. \A i \in 1..k, b \in T : <<b, s[i]>> \in LaterThan(T) <=> Recency[b] < Recency[s[i]]
    BY <1>2 DEF LaterThan
  <2>2. ASSUME NEW i \in 1..k, NEW j \in 1..(i - 1) PROVE s[j] \in T
    BY <1>2, <1>k
  <2>3. ASSUME NEW i \in 1..k
        PROVE  ({b \in T : Recency[b] < Recency[s[i]]} = {s[j] : j \in 1..(i - 1)})
               <=> \A b \in T : Recency[b] < Recency[s[i]] <=> \E j \in 1..(i - 1) : s[j] = b
    BY <2>2
  <2>. QED
    BY <1>2, <2>1, <2>3
<1>. QED
  BY <1>1, <1>2 DEF Ranks, k

LEMMA FusedRanks ==
  ASSUME NEW T \in SUBSET Stored, NEW e
  PROVE  \A s : s \in Fused(T, e) <=>
           Ranks(s, Least(Limit, Cardinality(BothArms(T, e))), BothArms(T, e), RanksOver(T, e))
<1> DEFINE S == BothArms(T, e)
           k == Least(Limit, Cardinality(S))
<1>1. \A s : s \in Fused(T, e) <=>
        /\ s \in [1..k -> S]
        /\ \A i \in DOMAIN s : {b \in S : Outranks(b, s[i], T, e)} = {s[j] : j \in 1..(i - 1)}
  BY DEF Fused, Best
<1>k. k \in Nat
  BY ArmsWithin, StoredFinite, SearchAssumption DEF Least
<1>. HIDE DEF k
<1>2. ASSUME NEW s, s \in [1..k -> S]
      PROVE  (\A i \in DOMAIN s : {b \in S : Outranks(b, s[i], T, e)} = {s[j] : j \in 1..(i - 1)})
             <=> \A i \in 1..k, b \in S : <<b, s[i]>> \in RanksOver(T, e) <=> \E j \in 1..(i - 1) : s[j] = b
  <2>1. \A i \in 1..k, b \in S : <<b, s[i]>> \in RanksOver(T, e) <=> Outranks(b, s[i], T, e)
    BY <1>2 DEF RanksOver
  <2>2. ASSUME NEW i \in 1..k, NEW j \in 1..(i - 1) PROVE s[j] \in S
    BY <1>2, <1>k
  <2>. HIDE DEF S
  <2>3. ASSUME NEW i \in 1..k
        PROVE  ({b \in S : Outranks(b, s[i], T, e)} = {s[j] : j \in 1..(i - 1)})
               <=> \A b \in S : Outranks(b, s[i], T, e) <=> \E j \in 1..(i - 1) : s[j] = b
    BY <2>2
  <2>. QED
    BY <1>2, <2>1, <2>3
<1>. QED
  BY <1>1, <1>2 DEF Ranks, k

\* A strict total order of a finite set gives exactly one ranking of a length.
LEMMA OneRanking ==
  ASSUME NEW S, IsFiniteSet(S), NEW R, NEW A, NEW n \in 0..Cardinality(S),
         \A s : s \in A <=> Ranks(s, n, S, R),
         \A a \in S : <<a, a>> \notin R,
         \A a, b \in S : a # b => <<a, b>> \in R \/ <<b, a>> \in R,
         \A a, b, c \in S : <<a, b>> \in R /\ <<b, c>> \in R => <<a, c>> \in R
  PROVE  \E s : A = {s}
<1>1. PICK s : Ranks(s, n, S, R)
  BY RankingExists
<1>2. n \in Nat
  BY FS_CardinalityType
<1>3. ASSUME NEW t \in A PROVE t = s
  BY <1>1, <1>2, OnlyRanking
<1>. QED
  BY <1>1, <1>3

\* For any candidates there is exactly one answer by time, and exactly one by fusion, with
\* or without an embedding: saying what is in front of what says as much as the sorting
\* in the code does, and every search that is answered gets an answer (rrf, and the
\* ORDER BY of the recent and the arm queries).
THEOREM AnswersDetermined ==
  ASSUME NEW T \in SUBSET Stored
  PROVE  /\ \E s : Latest(T) = {s}
         /\ \A e \in BOOLEAN : \E s : Fused(T, e) = {s}
<1>1. \E s : Latest(T) = {s}
  <2> DEFINE n == Least(Limit, Cardinality(T))
             R == LaterThan(T)
  <2>1. IsFiniteSet(T) /\ n \in 0..Cardinality(T)
    BY StoredFinite, SearchAssumption DEF Least
  <2>2. /\ \A a \in T : Recency[a] \in Nat
        /\ \A a, b \in T : Recency[a] = Recency[b] => a = b
    BY OrderTyped DEF Stored
  <2>3. \A a, b \in T : <<a, b>> \in R <=> Recency[a] < Recency[b]
    BY DEF LaterThan
  <2>4. \A s : s \in Latest(T) <=> Ranks(s, n, T, R)
    BY LatestRanks
  <2>. HIDE DEF n, R
  <2>5. /\ \A a \in T : <<a, a>> \notin R
        /\ \A a, b \in T : a # b => <<a, b>> \in R \/ <<b, a>> \in R
        /\ \A a, b, c \in T : <<a, b>> \in R /\ <<b, c>> \in R => <<a, c>> \in R
    BY <2>2, <2>3
  <2>. QED
    BY <2>1, <2>4, <2>5, OneRanking
<1>2. ASSUME NEW e \in BOOLEAN PROVE \E s : Fused(T, e) = {s}
  <2> DEFINE S == BothArms(T, e)
             n == Least(Limit, Cardinality(S))
             R == RanksOver(T, e)
  <2>1. IsFiniteSet(S) /\ n \in 0..Cardinality(S)
    BY ArmsWithin, StoredFinite, SearchAssumption DEF Least
  <2>2. \A a, b \in S : <<a, b>> \in R <=> Outranks(a, b, T, e)
    BY DEF RanksOver
  <2>3. \A s : s \in Fused(T, e) <=> Ranks(s, n, S, R)
    BY FusedRanks
  <2>4. /\ \A a \in S : ~Outranks(a, a, T, e)
        /\ \A a, b \in S : a # b => Outranks(a, b, T, e) \/ Outranks(b, a, T, e)
        /\ \A a, b, c \in S : Outranks(a, b, T, e) /\ Outranks(b, c, T, e) => Outranks(a, c, T, e)
    BY OutranksTotal, OutranksTransitive
  <2>. HIDE DEF n, R, S
  <2>5. /\ \A a \in S : <<a, a>> \notin R
        /\ \A a, b \in S : a # b => <<a, b>> \in R \/ <<b, a>> \in R
        /\ \A a, b, c \in S : <<a, b>> \in R /\ <<b, c>> \in R => <<a, c>> \in R
    BY <2>2, <2>4
  <2>. QED
    BY <2>1, <2>3, <2>5, OneRanking
<1>. QED
  BY <1>1, <1>2

-----------------------------------------------------------------------------
\* Consolidation.

Rows == DayArtifacts \X (1..MaxText)
BatchTypes ==
  [pc : {"off", "next", "asking", "embedding"}, left : SUBSET CalendarDays,
   read : SUBSET Rows, missed : SUBSET DayArtifacts]

DigestTyped ==
  /\ line \in [DayArtifacts -> 0..MaxText]
  /\ digest \in [CalendarDays -> [of : SUBSET Rows, hash : SUBSET Rows]]
  /\ late \in [CalendarDays -> SUBSET DayArtifacts]
  /\ batch \in [Consolidators -> BatchTypes]

\* The rows of d a prompt would hold today are in X, but for those in `but`.
Covers(X, d, but) ==
  \A r \in OfDay(d) \ but : <<r, line[r]>> \in DayInput(d) => <<r, line[r]>> \in X

\* A digest covers its day and was made of what its hash names; so will the one a process
\* is about to store. FoldedIsTold alone is not inductive: it says nothing of the rows in
\* the hands of a process, nor that a day taken for up to date is.
DigestInv ==
  /\ DigestTyped
  /\ \A d \in CalendarDays :
       /\ digest[d].of = digest[d].hash
       /\ digest[d] # Undigested => Covers(digest[d].of, d, late[d])
  /\ \A p \in Consolidators : batch[p].pc \in {"asking", "embedding"} =>
       /\ batch[p].read # {}
       /\ Covers(batch[p].read, Earliest(batch[p].left), batch[p].missed)

LEMMA DigestInvTyped == DigestInv => DigestTypeOK
BY DEF DigestInv, DigestTyped, BatchTypes, Rows, DigestTypeOK

LEMMA DaysTyped ==
  /\ DayArtifacts \subseteq Nat /\ MaxText \in Nat \ {0}
  /\ \A r \in DayArtifacts : DayOf[r] \in 1..MaxDay /\ DayOf[r] \in CalendarDays
BY ConsolidationAssumption DEF CalendarDays

LEMMA InvTold == DigestInv => FoldedIsTold
<1> SUFFICES ASSUME DigestInv, NEW r \in DayArtifacts, line[r] > 0, r \notin TimelineRows(1, MaxDay),
                    digest[DayOf[r]] # Undigested \/ TimelineDay[r] = DayOf[r],
                    r \notin late[DayOf[r]], <<r, line[r]>> \in DayInput(DayOf[r])
             PROVE  <<r, line[r]>> \in digest[DayOf[r]].of
  BY DEF FoldedIsTold
<1>1. r \in OfDay(DayOf[r])
  BY DEF OfDay
<1>2. digest[DayOf[r]] # Undigested
  BY DaysTyped DEF TimelineRows
<1>. QED
  BY <1>1, <1>2, DaysTyped DEF DigestInv, Covers

-----------------------------------------------------------------------------
(* The rows of a prompt. *)

LEMMA InputTyped ==
  ASSUME DigestTyped, NEW d
  PROVE  DayInput(d) \subseteq Rows
<1>1. \A r \in OfDay(d) : r \in DayArtifacts /\ line[r] \in 1..MaxText
  BY DaysTyped DEF OfDay, DigestTyped
<1>2. ASSUME NEW x \in DayInput(d) PROVE \E r \in OfDay(d) : x = <<r, line[r]>>
  BY DEF DayInput
<1>. QED
  BY <1>1, <1>2 DEF Rows

LEMMA FewerBefore ==
  ASSUME NEW q \in Nat, NEW T \in SUBSET Nat, NEW S \in SUBSET T
  PROVE  Cardinality({s \in S : s < q}) <= Cardinality({s \in T : s < q})
         /\ Cardinality({s \in S : s < q}) \in Nat /\ Cardinality({s \in T : s < q}) \in Nat
<1>1. IsFiniteSet({s \in T : s < q})
  <2>1. \A s \in T : s \in Nat
    OBVIOUS
  <2>2. \A s \in T : s < q => s \in 0..q
    BY <2>1
  <2>3. {s \in T : s < q} \in SUBSET (0..q)
    BY <2>2
  <2>4. IsFiniteSet(0..q)
    BY FS_Interval
  <2>. QED
    BY <2>3, <2>4, FS_Subset
<1>2. {s \in S : s < q} \in SUBSET {s \in T : s < q}
  OBVIOUS
<1>. QED
  BY <1>1, <1>2, FS_Subset, FS_CardinalityType

\* An artifact that comes, or changes, brings no other row into a prompt.
LEMMA NoOtherRowComes ==
  ASSUME DigestTyped, NEW r \in DayArtifacts, ArtifactComes(r),
         NEW d, NEW s \in OfDay(d)', s # r, <<s, line'[s]>> \in DayInput(d)'
  PROVE  s \in OfDay(d) /\ line'[s] = line[s] /\ <<s, line[s]>> \in DayInput(d)
<1> DEFINE rows == OfDay(d) \cap Eligible
           rowsNow == OfDay(d)' \cap Eligible
<1>1. /\ \A q \in DayArtifacts : q # r => line'[q] = line[q]
      /\ line'[r] = line[r] + 1 /\ line[r] \in Nat
  BY DaysTyped DEF ArtifactComes, DigestTyped
<1>2. rows \in SUBSET rowsNow /\ rowsNow \in SUBSET Nat
  BY <1>1, DaysTyped DEF OfDay, ArtifactComes
<1>3. s \in OfDay(d) /\ line'[s] = line[s]
  BY <1>1 DEF OfDay, ArtifactComes
<1>4. s \in rowsNow /\ Cardinality({q \in rowsNow : q < s}) < DigestCap
  BY DEF DayInput
<1>5. Cardinality({q \in rows : q < s}) < DigestCap
  <2>1. s \in Nat /\ DigestCap \in Nat
    BY <1>2, <1>4, ConsolidationAssumption
  <2> HIDE DEF rows, rowsNow
  <2>2. Cardinality({q \in rows : q < s}) <= Cardinality({q \in rowsNow : q < s})
        /\ Cardinality({q \in rows : q < s}) \in Nat /\ Cardinality({q \in rowsNow : q < s}) \in Nat
    BY <1>2, <2>1, FewerBefore
  <2>. QED
    BY <1>4, <2>1, <2>2
<1>. QED
  BY <1>3, <1>4, <1>5 DEF DayInput

LEMMA CoverLasts ==
  ASSUME DigestTyped, NEW r \in DayArtifacts, ArtifactComes(r), NEW d, NEW X, NEW but, NEW butNow,
         Covers(X, d, but), but \subseteq butNow, r \in butNow \/ DayOf[r] # d
  PROVE  Covers(X, d, butNow)'
<1> SUFFICES ASSUME NEW s \in OfDay(d)' \ butNow, <<s, line'[s]>> \in DayInput(d)'
             PROVE  <<s, line'[s]>> \in X
  BY DEF Covers
<1>1. s # r
  BY DEF OfDay
<1>. QED
  BY <1>1, NoOtherRowComes DEF Covers
-----------------------------------------------------------------------------
Holding == {"asking", "embedding"}
BatchCovers(p) ==
  batch[p].pc \in Holding =>
    batch[p].read # {} /\ Covers(batch[p].read, Earliest(batch[p].left), batch[p].missed)
DayCovered(d) ==
  /\ digest[d].of = digest[d].hash
  /\ digest[d] # Undigested => Covers(digest[d].of, d, late[d])

LEMMA InvParts ==
  DigestInv <=> /\ DigestTyped
                /\ \A d \in CalendarDays : DayCovered(d)
                /\ \A p \in Consolidators : BatchCovers(p)
BY DEF DigestInv, DayCovered, BatchCovers, Holding

LEMMA InvPartsNow ==
  ASSUME DigestTyped', \A d \in CalendarDays : DayCovered(d)', \A p \in Consolidators : BatchCovers(p)'
  PROVE  DigestInv'
BY DEF DigestInv, DayCovered, BatchCovers, Holding

LEMMA DigestStarts == DigestInit => DigestInv
<1> SUFFICES ASSUME DigestInit PROVE DigestInv
  OBVIOUS
<1>1. DigestTyped
  BY DaysTyped DEF DigestInit, DigestTyped, Undigested, Resting, BatchTypes
<1>2. \A d \in CalendarDays : digest[d].of = digest[d].hash /\ digest[d] = Undigested
  BY DEF DigestInit, Undigested
<1>3. \A p \in Consolidators : batch[p].pc = "off"
  BY DEF DigestInit, Resting
<1>. QED
  BY <1>1, <1>2, <1>3 DEF DigestInv

LEMMA DayDoneValue ==
  ASSUME DigestTyped, NEW p \in Consolidators
  PROVE  DayDone(p) \in BatchTypes /\ DayDone(p).pc \notin Holding
<1>1. batch[p].left \ {Earliest(batch[p].left)} \in SUBSET CalendarDays
  BY DEF DigestTyped, BatchTypes
<1>. QED
  BY <1>1 DEF DayDone, Resting, BatchTypes, Holding

\* The step of one process leaves the rows in the hands of the others alone.
LEMMA OthersCover ==
  ASSUME DigestInv, line' = line, NEW p \in Consolidators, NEW q \in Consolidators, batch'[q] = batch[q]
  PROVE  BatchCovers(q)'
<1>1. BatchCovers(q)
  BY InvParts
<1>. QED
  BY <1>1 DEF BatchCovers, Covers, DayInput, OfDay

LEMMA DaysStayCovered ==
  ASSUME DigestInv, line' = line, NEW d \in CalendarDays, digest'[d] = digest[d], late'[d] = late[d]
  PROVE  DayCovered(d)'
<1>1. DayCovered(d)
  BY InvParts
<1>. QED
  BY <1>1 DEF DayCovered, Covers, DayInput, OfDay

LEMMA ArtifactComesKeeps ==
  ASSUME DigestInv, NEW r \in DayArtifacts, ArtifactComes(r)
  PROVE  DigestInv'
<1>0. /\ DigestTyped /\ \A d \in CalendarDays : DayCovered(d)
      /\ \A p \in Consolidators : BatchCovers(p)
  BY InvParts
<1>1. line' \in [DayArtifacts -> 0..MaxText] /\ late' \in [CalendarDays -> SUBSET DayArtifacts]
      /\ digest' = digest
  BY <1>0, DaysTyped DEF ArtifactComes, DigestTyped
<1>2. ASSUME NEW p \in Consolidators
      PROVE  /\ batch'[p] \in BatchTypes
             /\ batch'[p].pc = batch[p].pc /\ batch'[p].read = batch[p].read /\ batch'[p].left = batch[p].left
             /\ batch[p].missed \subseteq batch'[p].missed
             /\ batch[p].read # {} => r \in batch'[p].missed \/ DayOf[r] # Earliest(batch[p].left)
  <2>1. batch[p] \in BatchTypes /\ batch[p].missed \cup {r} \in SUBSET DayArtifacts
    BY <1>0 DEF DigestTyped, BatchTypes
  <2>2. batch'[p] = IF batch[p].read # {} /\ Earliest(batch[p].left) = DayOf[r]
                    THEN [batch[p] EXCEPT !.missed = @ \cup {r}] ELSE batch[p]
    BY DEF ArtifactComes
  <2>. QED
    BY <2>1, <2>2 DEF BatchTypes
<1>3. DigestTyped'
  <2>1. batch' \in [Consolidators -> BatchTypes]
    <3>1. batch' = [p \in Consolidators |-> batch'[p]]
      BY DEF ArtifactComes
    <3>. QED
      BY <1>2, <3>1
  <2>. QED
    BY <1>0, <1>1, <2>1 DEF DigestTyped
<1>4. ASSUME NEW d \in CalendarDays PROVE DayCovered(d)'
  <2>1. DayCovered(d)
    BY <1>0
  <2>2. PICK X, but, butNow : X = digest[d].of /\ but = late[d] /\ butNow = late'[d]
    OBVIOUS
  <2>3. digest[d] # Undigested => but \subseteq butNow /\ (r \in butNow \/ DayOf[r] # d)
    BY <1>0, <2>2, DaysTyped DEF ArtifactComes, DigestTyped
  <2>4. digest[d] # Undigested => Covers(X, d, butNow)'
    BY <1>0, <2>1, <2>2, <2>3, CoverLasts DEF DayCovered
  <2>. QED
    BY <1>1, <2>1, <2>2, <2>4 DEF DayCovered, Covers
<1>5. ASSUME NEW p \in Consolidators PROVE BatchCovers(p)'
  <2>1. BatchCovers(p)
    BY <1>0
  <2>2. PICK X, d, but, butNow :
          X = batch[p].read /\ d = Earliest(batch[p].left) /\ but = batch[p].missed /\ butNow = batch'[p].missed
    OBVIOUS
  <2>3. batch[p].pc \in Holding => Covers(X, d, butNow)'
    BY <1>0, <1>2, <2>1, <2>2, CoverLasts DEF BatchCovers
  <2>4. d = Earliest(batch'[p].left) /\ X = batch'[p].read /\ batch'[p].pc = batch[p].pc
    BY <1>2, <2>2
  <2>. QED
    BY <2>1, <2>2, <2>3, <2>4 DEF BatchCovers, Covers
<1>. QED
  BY <1>3, <1>4, <1>5, InvPartsNow
LEMMA StartRunKeeps ==
  ASSUME DigestInv, NEW p \in Consolidators, NEW from \in CalendarDays, NEW to \in CalendarDays,
         StartRun(p, from, to)
  PROVE  DigestInv'
<1>0. batch \in [Consolidators -> BatchTypes] /\ from..to \in SUBSET CalendarDays
  BY ConsolidationAssumption DEF DigestInv, DigestTyped, CalendarDays
<1>1. /\ batch' \in [Consolidators -> BatchTypes] /\ batch'[p].pc = "next"
      /\ \A q \in Consolidators \ {p} : batch'[q] = batch[q]
  BY <1>0 DEF StartRun, BatchTypes
<1>2. UNCHANGED <<line, digest, late>>
  BY DEF StartRun
<1>3. DigestTyped'
  BY <1>1, <1>2 DEF DigestInv, DigestTyped
<1>4. \A d \in CalendarDays : DayCovered(d)'
  BY <1>2, DaysStayCovered
<1>5. BatchCovers(p)'
  BY <1>1 DEF BatchCovers, Holding
<1>6. \A q \in Consolidators \ {p} : BatchCovers(q)'
  BY <1>1, <1>2, OthersCover
<1>. QED
  BY <1>3, <1>4, <1>5, <1>6, InvPartsNow

\* A day taken for up to date is: its digest was made of the rows its hash names, and they
\* are those of the day's prompt.
LEMMA ReadDayKeeps ==
  ASSUME DigestInv, NEW p \in Consolidators, ReadDay(p)
  PROVE  DigestInv'
<1> DEFINE d0 == Earliest(batch[p].left)
<1>0. DigestTyped /\ batch \in [Consolidators -> BatchTypes] /\ late \in [CalendarDays -> SUBSET DayArtifacts]
  BY DEF DigestInv, DigestTyped
<1>1. UNCHANGED <<line, digest>>
  BY DEF ReadDay
<1>2. late' = IF UpToDate(d0) THEN [late EXCEPT ![d0] = {}] ELSE late
  BY DEF ReadDay
<1>3. \/ batch' = [batch EXCEPT ![p] = DayDone(p)]
      \/ DayInput(d0) # {} /\ batch' = [batch EXCEPT ![p] = [@ EXCEPT !.pc = "asking", !.read = DayInput(d0)]]
  BY DEF ReadDay
<1> HIDE DEF d0
<1>4. /\ batch' \in [Consolidators -> BatchTypes]
      /\ \A q \in Consolidators \ {p} : batch'[q] = batch[q]
      /\ \/ batch'[p].pc \notin Holding
         \/ DayInput(d0) # {} /\ batch'[p].read = DayInput(d0) /\ batch'[p].left = batch[p].left
  <2>1. DayDone(p) \in BatchTypes /\ DayDone(p).pc \notin Holding
    BY <1>0, DayDoneValue
  <2>2. [batch[p] EXCEPT !.pc = "asking", !.read = DayInput(d0)] \in BatchTypes
    BY <1>0, InputTyped DEF BatchTypes
  <2>. QED
    BY <1>0, <1>3, <2>1, <2>2 DEF BatchTypes
<1>5. DigestTyped'
  <2>1. late' \in [CalendarDays -> SUBSET DayArtifacts]
    BY <1>0, <1>2
  <2>. QED
    BY <1>0, <1>1, <1>4, <2>1 DEF DigestTyped
<1>6. ASSUME NEW d \in CalendarDays PROVE DayCovered(d)'
  <2>1. CASE late'[d] = late[d]
    BY <1>1, <2>1, DaysStayCovered
  <2>2. CASE d = d0 /\ UpToDate(d0)
    <3>1. digest[d].of = digest[d].hash /\ digest[d].hash = DayInput(d)
      BY <2>2 DEF UpToDate, DigestInv
    <3>2. Covers(digest[d].of, d, late[d])'
      BY <1>1, <3>1 DEF Covers, DayInput, OfDay
    <3>. QED
      BY <1>1, <3>1, <3>2 DEF DayCovered
  <2>. QED
    BY <1>0, <1>2, <2>1, <2>2
<1>7. BatchCovers(p)'
  <2>1. CASE batch'[p].pc \notin Holding
    BY <2>1 DEF BatchCovers
  <2>2. CASE DayInput(d0) # {} /\ batch'[p].read = DayInput(d0) /\ batch'[p].left = batch[p].left
    <3>1. Earliest(batch'[p].left) = d0
      BY <2>2 DEF d0
    <3>2. PICK d : d = d0
      OBVIOUS
    <3>3. DayInput(d)' = DayInput(d) /\ batch'[p].read = DayInput(d) /\ batch'[p].read # {}
      BY <1>1, <2>2, <3>2 DEF DayInput, OfDay
    <3>. QED
      BY <3>1, <3>2, <3>3 DEF BatchCovers, Covers
  <2>. QED
    BY <1>4, <2>1, <2>2
<1>8. \A q \in Consolidators \ {p} : BatchCovers(q)'
  BY <1>1, <1>4, OthersCover
<1>. QED
  BY <1>5, <1>6, <1>7, <1>8, InvPartsNow

LEMMA HearDigestKeeps ==
  ASSUME DigestInv, NEW p \in Consolidators, HearDigest(p)
  PROVE  DigestInv'
<1>0. batch \in [Consolidators -> BatchTypes] /\ batch[p].pc = "asking"
  BY DEF DigestInv, DigestTyped, HearDigest
<1>1. /\ batch' \in [Consolidators -> BatchTypes]
      /\ batch'[p].read = batch[p].read /\ batch'[p].left = batch[p].left /\ batch'[p].missed = batch[p].missed
      /\ \A q \in Consolidators \ {p} : batch'[q] = batch[q]
  BY <1>0 DEF HearDigest, BatchTypes
<1>2. UNCHANGED <<line, digest, late>>
  BY DEF HearDigest
<1>3. DigestTyped'
  BY <1>1, <1>2 DEF DigestInv, DigestTyped
<1>4. \A d \in CalendarDays : DayCovered(d)'
  BY <1>2, DaysStayCovered
<1>5. BatchCovers(p)'
  <2>1. batch[p].read # {} /\ Covers(batch[p].read, Earliest(batch[p].left), batch[p].missed)
    BY <1>0 DEF DigestInv
  <2>2. Covers(batch[p].read, Earliest(batch[p].left), batch[p].missed)'
    BY <1>1, <1>2, <2>1 DEF Covers, DayInput, OfDay
  <2>. QED
    BY <1>1, <2>1, <2>2 DEF BatchCovers
<1>6. \A q \in Consolidators \ {p} : BatchCovers(q)'
  BY <1>1, <1>2, OthersCover
<1>. QED
  BY <1>3, <1>4, <1>5, <1>6, InvPartsNow

\* The digest takes over what its process read and what that missed.
LEMMA StoreDigestKeeps ==
  ASSUME DigestInv, NEW p \in Consolidators, StoreDigest(p)
  PROVE  DigestInv'
<1> DEFINE d0 == Earliest(batch[p].left)
<1>0. DigestTyped /\ batch \in [Consolidators -> BatchTypes] /\ batch[p].pc \in Holding
      /\ late \in [CalendarDays -> SUBSET DayArtifacts]
      /\ digest \in [CalendarDays -> [of : SUBSET Rows, hash : SUBSET Rows]]
  BY DEF DigestInv, DigestTyped, StoreDigest, Holding
<1>1. /\ digest' = [digest EXCEPT ![d0] = [of |-> batch[p].read, hash |-> batch[p].read]]
      /\ late' = [late EXCEPT ![d0] = batch[p].missed]
      /\ batch' = [batch EXCEPT ![p] = DayDone(p)] /\ line' = line
  BY DEF StoreDigest, Hashed
<1>2. Covers(batch[p].read, d0, batch[p].missed)
  BY <1>0 DEF DigestInv, Holding
<1> HIDE DEF d0
<1>3. /\ batch' \in [Consolidators -> BatchTypes] /\ batch'[p].pc \notin Holding
      /\ \A q \in Consolidators \ {p} : batch'[q] = batch[q]
  BY <1>0, <1>1, DayDoneValue
<1>4. DigestTyped'
  <2>1. batch[p].read \in SUBSET Rows /\ batch[p].missed \in SUBSET DayArtifacts
    BY <1>0 DEF BatchTypes
  <2>2. [of |-> batch[p].read, hash |-> batch[p].read] \in [of : SUBSET Rows, hash : SUBSET Rows]
    BY <2>1
  <2>3. digest' \in [CalendarDays -> [of : SUBSET Rows, hash : SUBSET Rows]]
        /\ late' \in [CalendarDays -> SUBSET DayArtifacts]
    BY <1>0, <1>1, <2>1, <2>2
  <2>. QED
    BY <1>0, <1>1, <1>3, <2>3 DEF DigestTyped
<1>5. ASSUME NEW d \in CalendarDays PROVE DayCovered(d)'
  <2>1. CASE d # d0
    BY <1>0, <1>1, <2>1, DaysStayCovered
  <2>2. CASE d = d0
    <3>1. digest'[d].of = batch[p].read /\ digest'[d].hash = batch[p].read /\ late'[d] = batch[p].missed
      BY <1>0, <1>1, <2>2
    <3>2. Covers(batch[p].read, d, batch[p].missed)
      BY <1>2, <2>2
    <3>3. Covers(digest[d].of, d, late[d])'
      BY <1>1, <3>1, <3>2 DEF Covers, DayInput, OfDay
    <3>. QED
      BY <3>1, <3>3 DEF DayCovered
  <2>. QED
    BY <2>1, <2>2
<1>6. BatchCovers(p)'
  BY <1>3 DEF BatchCovers
<1>7. \A q \in Consolidators \ {p} : BatchCovers(q)'
  BY <1>1, <1>3, OthersCover
<1>. QED
  BY <1>4, <1>5, <1>6, <1>7, InvPartsNow

LEMMA RunFailsKeeps ==
  ASSUME DigestInv, NEW p \in Consolidators, RunFails(p)
  PROVE  DigestInv'
<1>0. batch \in [Consolidators -> BatchTypes] /\ Resting \in BatchTypes /\ Resting.pc \notin Holding
  BY DEF DigestInv, DigestTyped, Resting, BatchTypes, Holding
<1>1. /\ batch' \in [Consolidators -> BatchTypes] /\ batch'[p].pc \notin Holding
      /\ \A q \in Consolidators \ {p} : batch'[q] = batch[q]
  BY <1>0 DEF RunFails
<1>2. UNCHANGED <<line, digest, late>>
  BY DEF RunFails
<1>3. DigestTyped'
  BY <1>1, <1>2 DEF DigestInv, DigestTyped
<1>4. \A d \in CalendarDays : DayCovered(d)'
  BY <1>2, DaysStayCovered
<1>5. BatchCovers(p)'
  BY <1>1 DEF BatchCovers
<1>6. \A q \in Consolidators \ {p} : BatchCovers(q)'
  BY <1>1, <1>2, OthersCover
<1>. QED
  BY <1>3, <1>4, <1>5, <1>6, InvPartsNow

LEMMA DigestSteps == DigestInv /\ [DigestNext]_digestVars => DigestInv'
<1>1. ASSUME DigestInv, UNCHANGED digestVars PROVE DigestInv'
  <2>1. DigestTyped'
    BY <1>1 DEF digestVars, DigestInv, DigestTyped
  <2>2. \A d \in CalendarDays : DayCovered(d)'
    BY <1>1, DaysStayCovered DEF digestVars
  <2>3. \A p \in Consolidators : BatchCovers(p)'
    BY <1>1, OthersCover DEF digestVars
  <2>. QED
    BY <2>1, <2>2, <2>3, InvPartsNow
<1>. QED
  BY <1>1, ArtifactComesKeeps, StartRunKeeps, ReadDayKeeps, HearDigestKeeps, StoreDigestKeeps, RunFailsKeeps
     DEF DigestNext

-----------------------------------------------------------------------------
\* The types of the digests' state.
THEOREM DigestTypesHold == DigestSpec => []DigestTypeOK
<1>1. DigestInv => DigestTypeOK
  BY DigestInvTyped
<1>. QED
  BY <1>1, DigestStarts, DigestSteps, PTL DEF DigestSpec

\* However many runs overlap, fail and are repeated, and whatever the two calendars make of
\* the artifacts: a row that a month of the timeline leaves out is in the digest of its day, in
\* its wording of today, unless it came after the digest had read the day or exceeds the cap; the
\* digest is there, unless date() counts the row to another day (consolidateDay,
\* timelineDigestStmt).
THEOREM TheFoldedAreTold == DigestSpec => []FoldedIsTold
<1>1. DigestInv => FoldedIsTold
  BY InvTold
<1>. QED
  BY <1>1, DigestStarts, DigestSteps, PTL DEF DigestSpec
=============================================================================
