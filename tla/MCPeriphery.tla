------------------------------ MODULE MCPeriphery ------------------------------
\* The smallest instance of each part in which two of its actors meet and one of
\* them fails between any two steps.
EXTENDS Periphery

MCReaders == {"a", "b"}
MCSourceId == <<"s", "s", "t">>
MCHash == <<"x", "y", "x">>

\* Searches: filters that match nothing, that resolve to nothing, and that disagree.
MCSearches == {"s", "t"}
Wish(f) == [k \in FilterKinds |-> IF k \in DOMAIN f THEN f[k] ELSE "absent"]
Option(f, order) == [wish |-> Wish(f), sort |-> order]
MCAsks == {
  Option(<< >>, "absent"),
  Option([type |-> "filter"], "absent"),
  Option([entity |-> "inert", near |-> "filter"], "recent"),
  Option([since |-> "filter", geo |-> "inert"], "absent")}
MCPlans == {
  Option([type |-> "filter"], "relevance"),
  Option([place |-> "filter", entity |-> "filter"], "recent"),
  Option([near |-> "filter", geo |-> "filter", until |-> "filter"], "relevance"),
  Option(<< >>, "recent")}
MCMatch == [
  caller |-> [type |-> {4, 5}, entity |-> {1, 2, 5}, since |-> {1, 2, 3, 4}, until |-> {2, 3, 4, 5},
              place |-> {}, geo |-> {1, 2, 4}, near |-> {2, 3}],
  plan |-> [type |-> {5}, entity |-> {1, 3}, since |-> {1, 2}, until |-> {3, 4, 5},
            place |-> {3, 4}, geo |-> {2, 3}, near |-> {1, 2, 4}]]
MCRecency == <<5, 4, 3, 2, 1>>
MCNearest == <<1, 3, 4, 2, 5>>
MCWorded == [a \in {1, 2, 3, 5} |-> <<4, 1, 2, 9, 3>>[a]]

\* Two cards that tell of each other, one as of husband and employer. Its second version
\* tells nothing and bears the name of the other card.
MCTells == [
  a |-> {[name |-> "ann", rels |-> {<<"ben", "spouse">>, <<"ben", "worksAt">>}],
         [name |-> "ben", rels |-> {}]},
  b |-> {[name |-> "ben", rels |-> {<<"ann", "spouse">>}]}]
MCVCards == DOMAIN MCTells
MCHandDrawn == {<<1, 2, "spouse">>, <<2, 3, "spouse">>}

MCConsolidators == {"nightly", "by hand"}
\* The days of occurred_at as text and as SQLite's date(): the second artifact is from the
\* evening of a day that in UTC is over.
MCDayOf == <<1, 1, 2>>
MCTimelineDay == <<1, 2, 2>>

\* One session, with a call and a notification stream open on it, and its end.
MCKind == [init |-> "initialize", call |-> "call", listen |-> "listen", delete |-> "delete"]
MCRequests == DOMAIN MCKind
MCOf == [r \in MCRequests |-> "init"]
=============================================================================
