----------------------------- MODULE SearchPages -----------------------------
(***************************************************************************)
(* A client leafing through a search (SearchService): what one request     *)
(* answers for a page, and how the answers add up over a whole visit.      *)
(* Profiles are numbered by the column the query sorts them by, the best   *)
(* first; many may have the same value in it, and each request, a query of *)
(* its own, may get those in another order.  `matches' are the profiles    *)
(* that satisfy every filter.  The crew search filters city and dates in   *)
(* memory and, unless a skill or genre is asked for, after the database    *)
(* has cut the page out.  Profiles do not change during the visit.         *)
(***************************************************************************)
EXTENDS Naturals, FiniteSets

CONSTANTS
  MaxProfiles,   \* bound: profiles that satisfy the database's part of the query
  PageSizes      \* the limits a client asks for

ASSUME PagesAssumption == MaxProfiles \in Nat /\ PageSizes \subseteq Nat \ {0}

\* The directory of people is searched in one role or in all.
Search == {"crew", "vendors", "cast", "locations", "role", "people"}

VARIABLES
  query,    \* what is searched: fixed for a visit
  page,     \* the last page asked for
  times,    \* how often each profile was shown
  over      \* the last answer said that there is no further page
pagesVars == <<query, page, times, over>>

Profiles == 1 .. query.size

\* orderBy.  Profiles of query.tied sort equal to the one before them, and have their
\* positions in any order.
Ahead(i, j) == i < j /\ ~(i + 1 .. j \subseteq query.tied)
Positions   == {pos \in [1 .. MaxProfiles -> 1 .. MaxProfiles] :
                  \A i, j \in 1 .. MaxProfiles : pos[i] = pos[j] => i = j}
Sorted(pos) == /\ \A i, j \in Profiles : Ahead(i, j) => pos[i] < pos[j]
               /\ \A i \in DOMAIN pos \ Profiles : pos[i] = i

FirstOf(S, k, pos) == {i \in S : Cardinality({j \in S : pos[j] < pos[i]}) < k}
\* slice(skip, skip + k)
Slice(S, skip, k, pos) == FirstOf(S \ FirstOf(S, skip, pos), k, pos)

Skip(p) == (p - 1) * query.limit

\* searchCrew: `bySkill' says that a skill or genre is asked for, `dated' that both
\* dates are.
CrewFetched(p, pos) ==
  IF query.bySkill THEN Profiles
  ELSE Slice(Profiles, Skip(p), IF query.dated THEN query.limit * 3 ELSE query.limit + 1, pos)

\* Mutant of CrewPaged: cuts out one profile too few to see that there are more.
CrewPagedShort(p, pos) ==
  LET filtered == CrewFetched(p, pos) \cap query.matches IN
  IF query.bySkill THEN Slice(filtered, Skip(p), query.limit, pos) ELSE filtered

CrewPaged(p, pos) ==
  LET filtered == CrewFetched(p, pos) \cap query.matches IN
  IF query.bySkill THEN Slice(filtered, Skip(p), query.limit + 1, pos) ELSE filtered

CrewAnswer(p, pos) ==
  [items |-> FirstOf(CrewPaged(p, pos), query.limit, pos),
   more |-> Cardinality(CrewPaged(p, pos)) > query.limit]

\* Vendors and locations are filtered as a whole, the cast in the database; the number
\* of pages comes from the number of matches.
PageOf(S, p, pos) ==
  [items |-> Slice(S, Skip(p), query.limit, pos), more |-> p * query.limit < Cardinality(S)]

\* searchPeople takes three pages' worth from the profiles of each role at most; there
\* are two roles (bound).
Bucket(r)   == {i \in query.matches : (IF query.search = "role" THEN 0 ELSE i % 2) = r}
Merged(pos) == UNION {FirstOf(Bucket(r), query.limit * 3, pos) : r \in {0, 1}}

Answer(p, pos) ==
  CASE query.search = "crew"               -> CrewAnswer(p, pos)
    [] query.search \in {"role", "people"} -> PageOf(Merged(pos), p, pos)
    [] OTHER                               -> PageOf(query.matches, p, pos)

PagesInit ==
  /\ \E n \in 0 .. MaxProfiles :
       query \in [search : Search, size : {n}, tied : SUBSET (2 .. n), matches : SUBSET (1 .. n),
                  limit : PageSizes, bySkill : BOOLEAN, dated : BOOLEAN]
  /\ query.search # "crew" => ~query.bySkill /\ ~query.dated
  /\ page = 0
  /\ times = [i \in Profiles |-> 0]
  /\ over = FALSE

AskPage ==
  /\ ~over
  /\ page' = page + 1
  /\ \E pos \in Positions :
       LET answer == Answer(page + 1, pos) IN
       /\ Sorted(pos)
       /\ times' = [i \in Profiles |-> times[i] + (IF i \in answer.items THEN 1 ELSE 0)]
       /\ over' = ~answer.more
  /\ UNCHANGED query

PagesSpec == PagesInit /\ [][AskPage]_pagesVars

(***************************************************************************)
(* Properties.                                                             *)
(***************************************************************************)

\* The searches whose pages are cut out of the filtered list: not the crew search by
\* city or dates alone, whose pages are cut first, and not the directory beyond three
\* pages of one role.
PagedAfterFiltering ==
  /\ query.search = "crew" => query.bySkill \/ query.matches = Profiles
  /\ query.search \in {"role", "people"} =>
       \A r \in {0, 1} : Cardinality(Bucket(r)) <= query.limit * 3

\* How many matches sort before a profile and everything equal to it, and how many up to
\* the last of those.
Above(i) == Cardinality({j \in query.matches : Ahead(j, i)})
UpTo(i)  == Cardinality({j \in query.matches : ~Ahead(i, j)})
\* A page that some of the equals of a profile may be on, and one that all of them are on.
Reaches(i, p) == Above(i) < p * query.limit /\ Skip(p) < UpTo(i)
Holds(i, p)   == Skip(p) <= Above(i) /\ UpTo(i) <= p * query.limit

\* Leafing to the last page shows nothing but matches, and shows a match once if those
\* that sort equal to it are all on one page.  If they spread over several pages, it may
\* come on each of these or be missed, but comes on no other and not twice on one.
MatchOncePerTie ==
  PagedAfterFiltering =>
    \A i \in Profiles :
      /\ times[i] <= IF i \in query.matches THEN Cardinality({p \in 1 .. page : Reaches(i, p)})
                     ELSE 0
      /\ i \in query.matches => \A p \in 1 .. query.size :
           Holds(i, p) /\ (p <= page \/ over) => times[i] = 1
=============================================================================
