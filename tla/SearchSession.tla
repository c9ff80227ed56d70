---------------------------- MODULE SearchSession ----------------------------
(***************************************************************************)
(* hybridSearch (src/src/search.js). A search asks a language model for a  *)
(* plan, narrows the artifacts by the caller's filters and the plan's,     *)
(* asks for an embedding and ranks what is left, by meaning and by words.  *)
(* All searches of the process share one candidate table of the database   *)
(* connection, and each waits twice: for the plan and for the embedding.   *)
(*                                                                         *)
(* A step is what runs between two awaits. A filter the caller gives takes *)
(* the place of the plan's filter of that kind even when it filters        *)
(* nothing: a name that does not resolve only joins the text searched for. *)
(***************************************************************************)
EXTENDS Naturals, FiniteSets

CONSTANTS
  Searches,    \* concurrent calls of hybridSearch
  Recency,     \* Recency[a]: the place of artifact a among all, latest first
  Nearest,     \* Nearest[a]: its place by distance from the question
  Worded,      \* Worded[a]: its place among those that hold a word of the question
  Searchable,  \* those of a type with default_searchable
  Match,       \* Match[who][k]: what passes the filter of kind k that who may give
  Asks,        \* options of the caller
  Plans,       \* answers of the planner; a failed one is the plan without filters
  Limit,       \* results asked for
  Depth,       \* bound: rows an arm fetches (KNN_OVERFETCH * limit)
  RrfK         \* RRF_K

Stored == DOMAIN Recency
FilterKinds == {"type", "entity", "since", "until", "place", "geo", "near"}
Wishes == [FilterKinds -> {"absent", "inert", "filter"}]
Orders == {"absent", "relevance", "recent"}
Options == [wish : Wishes, sort : Orders]

ASSUME SearchAssumption ==
  /\ IsFiniteSet(Stored) /\ Searchable \subseteq Stored
  /\ DOMAIN Nearest = Stored /\ DOMAIN Worded \subseteq Stored
  /\ \A order \in {Recency, Nearest, Worded} : \A a, b \in DOMAIN order :
       order[a] \in Nat /\ (order[a] = order[b] => a = b)
  /\ Asks \subseteq Options /\ Plans \subseteq Options
  /\ \A a \in Asks : a.wish["place"] = "absent"
  /\ Match \in [{"caller", "plan"} -> [FilterKinds -> SUBSET Stored]]
  /\ Limit \in Nat \ {0} /\ Depth \in Nat \ {0} /\ RrfK \in Nat

VARIABLES
  search,   \* search[s]: the local variables of call s
  table     \* the rows of search_candidates

searchVars == <<search, table>>

NoFilter == [k \in FilterKinds |-> "absent"]
Unplanned == [wish |-> NoFilter, sort |-> "relevance"]   \* fallbackPlan
Call == [pc |-> "idle", ask |-> Unplanned, cand |-> {}, embedded |-> FALSE, answer |-> << >>]

SearchInit == table = {} /\ search = [s \in Searches |-> Call]

-----------------------------------------------------------------------------
\* The prefilter; without a type it keeps to the searchable ones.
Passing(who, w, k) ==
  IF w = "filter" THEN Match[who][k] ELSE IF k = "type" THEN Searchable ELSE Stored
Asked(ask) == {a \in Stored : \A k \in FilterKinds : a \in Passing("caller", ask.wish[k], k)}
Planned(ask, plan) ==
  {a \in Stored : \A k \in FilterKinds :
     IF ask.wish[k] # "absent" THEN a \in Passing("caller", ask.wish[k], k)
     ELSE a \in Passing("plan", plan.wish[k], k)}

\* Definitions named Bad... are faults the code could have had in the definition that
\* follows; they serve to show that a property notices.
BadCandidates(ask, plan) == Planned(ask, plan)   \* no second try
Candidates(ask, plan) ==
  IF Planned(ask, plan) # {} THEN Planned(ask, plan) ELSE Asked(ask)

\* With the plan's filters goes the plan's wish for the latest.
Order(ask, plan) ==
  IF ask.sort # "absent" THEN ask.sort
  ELSE IF Planned(ask, plan) = {} THEN "relevance" ELSE plan.sort

Least(m, n) == IF m < n THEN m ELSE n

\* The first n of S, best first: in front of each are just those that beat it.
Best(S, n, Beats(_, _)) ==
  {s \in [1..Least(n, Cardinality(S)) -> S] :
     \A i \in DOMAIN s : {b \in S : Beats(b, s[i])} = {s[j] : j \in 1..(i - 1)}}

\* An arm ranks the candidates in T that its order knows, down to Depth.
Rank(a, T, order) == Cardinality({b \in T \cap DOMAIN order : order[b] <= order[a]})
Arm(T, order) == {a \in T \cap DOMAIN order : Rank(a, T, order) <= Depth}
BothArms(T, embedded) == Arm(T, Worded) \cup (IF embedded THEN Arm(T, Nearest) ELSE {})

\* Reciprocal rank fusion; a score is a fraction <<numerator, denominator>>.
Part(a, T, order) == IF a \in Arm(T, order) THEN <<1, RrfK + Rank(a, T, order)>> ELSE <<0, 1>>
ByMeaning(a, T, embedded) == IF embedded THEN Part(a, T, Nearest) ELSE <<0, 1>>
Plus(x, y) == <<x[1] * y[2] + y[1] * x[2], x[2] * y[2]>>
Exceeds(x, y) == x[1] * y[2] > y[1] * x[2]
BadScore(a, T, embedded) ==   \* set, where it should be added to
  IF a \in Arm(T, Worded) THEN Part(a, T, Worded) ELSE ByMeaning(a, T, embedded)
Score(a, T, embedded) == Plus(ByMeaning(a, T, embedded), Part(a, T, Worded))

\* Of equal scores the one first met is first: those of the arm by meaning, in its
\* order, then those that only the words found.
MetBefore(a, b, T, embedded) ==
  LET found == IF embedded THEN Arm(T, Nearest) ELSE {}
  IN  IF a \in found THEN b \in found => Nearest[a] < Nearest[b]
                     ELSE b \notin found /\ Worded[a] < Worded[b]
Outranks(a, b, T, embedded) ==
  LET x == Score(a, T, embedded)
      y == Score(b, T, embedded)
  IN  Exceeds(x, y) \/ (~Exceeds(y, x) /\ MetBefore(a, b, T, embedded))

Latest(T) == Best(T, Limit, LAMBDA a, b : Recency[a] < Recency[b])
Fused(T, embedded) ==
  Best(BothArms(T, embedded), Limit, LAMBDA a, b : Outranks(a, b, T, embedded))

\* The step that fills the candidate table.
BadFillStep == "planned"   \* before the await
FillStep == "embedded"
Filled(step, c) == IF step = FillStep THEN c ELSE table

-----------------------------------------------------------------------------
Begin(s, ask) ==
  /\ search[s].pc = "idle"
  /\ search' = [search EXCEPT ![s].pc = "planning", ![s].ask = ask]
  /\ UNCHANGED table

\* The latest first needs no embedding: the table is filled and read at once.
HearPlan(s, plan) ==
  LET ask == search[s].ask
      c == Candidates(ask, plan)
  IN  /\ search[s].pc = "planning"
      /\ \/ /\ c = {}
            /\ search' = [search EXCEPT ![s].pc = "done"]
            /\ UNCHANGED table
         \/ /\ c # {} /\ Order(ask, plan) = "recent"
            /\ table' = c
            /\ \E answer \in Latest(table') :
                 search' = [search EXCEPT ![s].pc = "done", ![s].cand = c, ![s].embedded = TRUE,
                                          ![s].answer = answer]
         \/ /\ c # {} /\ Order(ask, plan) = "relevance"
            /\ table' = Filled("planned", c)
            /\ search' = [search EXCEPT ![s].pc = "embedding", ![s].cand = c]

\* Without an embedding only the words rank.
HearEmbedding(s) ==
  /\ search[s].pc = "embedding"
  /\ table' = Filled("embedded", search[s].cand)
  /\ \E ok \in BOOLEAN : \E answer \in Fused(table', ok) :
       search' = [search EXCEPT ![s].pc = "ranked", ![s].embedded = ok, ![s].answer = answer]

Answered(s) == search[s].pc \in {"done", "ranked"}
Return(s) ==
  /\ Answered(s)
  /\ search' = [search EXCEPT ![s] = Call]
  /\ UNCHANGED table

SearchNext ==
  \E s \in Searches :
    \/ \E ask \in Asks : Begin(s, ask)
    \/ \E plan \in Plans \cup {Unplanned} : HearPlan(s, plan)
    \/ HearEmbedding(s) \/ Return(s)
SearchSpec == SearchInit /\ [][SearchNext]_searchVars

-----------------------------------------------------------------------------
SearchTypeOK ==
  /\ table \subseteq Stored
  /\ \A s \in Searches :
       /\ search[s].pc \in {"idle", "planning", "embedding", "done", "ranked"}
       /\ search[s].ask \in Asks \cup {Unplanned}
       /\ search[s].cand \subseteq Stored /\ search[s].embedded \in BOOLEAN
       /\ \E n \in 0..Limit : search[s].answer \in [1..n -> Stored]

Results(s) == {search[s].answer[i] : i \in DOMAIN search[s].answer}

\* However the awaits of concurrent searches fall, an answer holds only candidates of
\* its own search, and those pass every filter of its caller, whatever the planner
\* made up and whichever filters were dropped (hybridSearch: fillCandidates next to its
\* reads, `caller` in the retry).
AnswersOwnQuestion ==
  \A s \in Searches : Answered(s) =>
    /\ Results(s) \subseteq search[s].cand
    /\ \A a \in Results(s), k \in FilterKinds :
         search[s].ask.wish[k] = "filter" => a \in Match["caller"][k]

\* A search comes back empty only when the caller's own filters let nothing through, or
\* the embedding gateway was down: a filter that only the planner thought of never
\* hides what the caller asked for.
EmptyIsHonest ==
  \A s \in Searches :
    Answered(s) /\ Results(s) = {}
      => Asked(search[s].ask) = {} \/ (search[s].pc = "ranked" /\ ~search[s].embedded)

Ahead(a, b, order) ==
  /\ a \in DOMAIN order
  /\ b \in DOMAIN order => order[a] < order[b]

\* Fusion never turns both arms' opinion round: a candidate that is ahead of a result by
\* meaning and by words is a result too, and in front of it.
FusionKeepsOrder ==
  \A s \in Searches : search[s].pc = "ranked" /\ search[s].embedded =>
    \A i \in DOMAIN search[s].answer, a \in search[s].cand :
      LET b == search[s].answer[i] IN
      Ahead(a, b, Nearest) /\ Ahead(a, b, Worded) => \E j \in 1..(i - 1) : search[s].answer[j] = a
=============================================================================
