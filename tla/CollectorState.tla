---------------------------- MODULE CollectorState ----------------------------
(***************************************************************************)
(* What the collectors of the web platforms share: one page of one signed     *)
(* query is collected from the tab of the dedicated browser, by a command     *)
(* that may die, on a site that may ask for a login or a verification, lose   *)
(* the query, answer late, or show something a person asked for in the same   *)
(* tab.  platforms/discovery.py, _collect_web_platform.                       *)
(*                                                                          *)
(* A page is what its evidence says and what its list really is.  The site    *)
(* is assumed to be wrong in one source at a time: of the scope (city) of a   *)
(* list there are two independent sources, and one of them may be missing or  *)
(* left over from another list.                                             *)
(***************************************************************************)
EXTENDS Naturals

CONSTANTS
    Platforms,      \* the platforms an instance looks at
    Codes,          \* city codes
    CityCode,       \* that of the asked city
    MaxPage,        \* pages of a list
    MaxTrouble      \* bound: how often the site or a person disturbs a collection

ASSUME CollectorAssumption ==
    /\ Platforms \subseteq {"liepin", "zhilian", "51job"}
    /\ Codes \subseteq Nat \ {0} /\ CityCode \in Codes
    /\ MaxPage \in Nat \ {0} /\ MaxTrouble \in Nat

VARIABLES
    platform,
    bulk,       \* the driver is the CollectionReader of a bulk collection
    site,       \* the platform: the last pages of the asked list and of all others (0: no
                \* results), whether pages link the asked city, and whether a list grows and
                \* its cards name their city (a modern one) or has a numbered pager
    seed,       \* the code that the release ships for the asked city, or 0
    saved,      \* the code kept in metadata/<platform>_city_codes.json, or 0
    tab,        \* the tab of the dedicated browser
    pc,         \* where the collection is
    call,       \* what the collection has in hand
    out,        \* how the last collection ended
    troubles    \* disturbances so far

collectVars == <<platform, bulk, site, seed, saved, tab, pc, call, out, troubles>>

\* The places a search may be about: the asked city, another one, the whole country.
Cities == {"asked", "other", "none"}
Keywords == {"asked", "other", "none"}
Paths == {"plain", "route"}     \* a search by code, or by the readable route of a city

Url(path, code, key, page) == [path |-> path, code |-> code, key |-> key, page |-> page]
NoUrl == Url("plain", 0, "none", 0)
Urls == [path : Paths, code : Codes \cup {0}, key : Keywords, page : 0..MaxPage]

Sites == [last : 0..MaxPage, others : {0, 1}, links : BOOLEAN, modern : BOOLEAN]

\* What the scripts that read a page find on it.
Tabs == [at : {"list", "directory", "home", "cityhome", "login", "verify", "loading"}, url : Urls,
         city : Cities, more : Cities, code : Codes \cup {0}, box : Keywords,
         place : Cities, key : Keywords, shown : 0..MaxPage, loaded : 0..MaxPage,
         last : BOOLEAN, surface : {"cards", "empty"}, linked : BOOLEAN]

\* A page that is no list.  The directory links every city.
Elsewhere(at) ==
    [at |-> at, url |-> NoUrl, city |-> "none", more |-> "none", code |-> 0, box |-> "none",
     place |-> "none", key |-> "none", shown |-> 0, loaded |-> 0, last |-> FALSE,
     surface |-> "cards", linked |-> at = "directory"]

Interrupted(t) == t.at = "verify"

\* The list the site has for a url: the place is the city of its code or route.
PlaceOf(u) ==
    IF u.path = "route" \/ u.code = CityCode THEN "asked" ELSE IF u.code = 0 THEN "none" ELSE "other"
LastOf(u) == IF PlaceOf(u) = "asked" /\ u.key = "asked" THEN site.last ELSE site.others
Clamp(p, n) == IF p <= n THEN p ELSE IF n = 0 THEN 1 ELSE n

\* The page of a url as it is when nothing goes wrong.
Shown(u) ==
    LET p == Clamp(u.page, LastOf(u))
    IN  [at |-> "list", url |-> u, city |-> PlaceOf(u), more |-> PlaceOf(u),
         code |-> IF PlaceOf(u) = "asked" THEN CityCode ELSE u.code, box |-> u.key,
         place |-> PlaceOf(u), key |-> u.key, shown |-> p, loaded |-> p, last |-> p >= LastOf(u),
         surface |-> IF LastOf(u) = 0 THEN "empty" ELSE "cards", linked |-> site.links]

\* ... and as it is when something does: an interruption, a page that does not
\* load, a redirect, a source of the place missing or wrong, the keyword lost.
Flawed(u) ==
    {Elsewhere(a) : a \in {"verify", "login", "loading", "home"}}
    \cup {[Shown(u) EXCEPT !.more = c] : c \in Cities} \cup {[Shown(u) EXCEPT !.city = c] : c \in Cities}
    \cup {Shown([u EXCEPT !.key = "none"])}

\* The list is turned to a page; the cards of 51job follow later.
Turned(p) == [tab EXCEPT !.shown = p, !.last = p >= LastOf(tab.url),
                         !.loaded = IF platform = "51job" THEN @ ELSE p]

Fresh == [page |-> 1, code |-> 0, route |-> FALSE, tried |-> FALSE, purpose |-> "list",
          target |-> NoUrl, prev |-> NoUrl, path |-> "plain", unproved |-> FALSE, expect |-> 0,
          steps |-> 0, sent |-> FALSE, candidate |-> 0]
Calls == [page : 1..MaxPage, code : Codes \cup {0}, route : BOOLEAN, tried : BOOLEAN,
          purpose : {"list", "plain", "directory", "route"}, target : Urls, prev : Urls,
          path : Paths, unproved : BOOLEAN, expect : 0..MaxPage, steps : 0..MaxPage + 1,
          sent : BOOLEAN, candidate : Codes \cup {0}]

\* What a collection ended with: the list its cards are of, what it said of that list,
\* and whether the page had no say in a part of it.
NoOutcome == [ok |-> FALSE, cards |-> FALSE, place |-> "none", key |-> "none", page |-> 1,
              loaded |-> 0, exhausted |-> FALSE, unproved |-> FALSE]
Outcomes == [ok : BOOLEAN, cards : BOOLEAN, place : Cities, key : Keywords, page : 1..MaxPage,
             loaded : 0..MaxPage, exhausted : BOOLEAN, unproved : BOOLEAN]

\* The collection ends with an error, or with the cards of the page.
Fail == pc' = "done" /\ out' = [NoOutcome EXCEPT !.page = call.page] /\ call' = Fresh
Accept(cards, place, exhausted, unproved) ==
    /\ pc' = "done"
    /\ call' = Fresh
    /\ out' = [ok |-> TRUE, cards |-> cards, place |-> place, key |-> tab.key, page |-> call.page,
               loaded |-> tab.loaded, exhausted |-> exhausted, unproved |-> unproved]
AcceptPage(exhausted) == Accept(tab.surface = "cards", tab.place, exhausted, call.unproved)

World == <<platform, bulk, site, seed>>
=============================================================================
