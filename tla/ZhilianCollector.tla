--------------------------- MODULE ZhilianCollector ---------------------------
(***************************************************************************)
(* platforms/zhilian/collect.py and city_resolver.py: no search is opened by   *)
(* its url.  The keyword is typed on the entry page and searched for; when the *)
(* list is not of the asked city, the page's own way to that city is taken,    *)
(* the keyword is typed there and sent once; the list is then proved by its    *)
(* evidence, or by the city's page that the search was sent from.  The session *)
(* is one that a recent login check has vouched for.                          *)
(***************************************************************************)
EXTENDS CollectorState, FiniteSets

ZhilianKnown == IF saved # 0 THEN saved ELSE seed

\* The city's own page, and the code that a page gives for the city it links.
CityHome == [Elsewhere("cityhome") EXCEPT !.city = "asked", !.more = "asked", !.linked = TRUE]
CodeGiven(t) == IF t.linked THEN CityCode ELSE 0

\* _search_transition_ready: a list of the city in its title, of no other keyword.
TransitionReady(t) == t.at = "list" /\ t.box \in {"asked", "none"} /\ t.city = "asked"

\* _search_transition_city_discovery_ready: the keyword is there, the city or the list not.
DiscoveryReady(t) ==
    /\ t.box = "asked"
    /\ \/ t.at = "list" /\ t.city # "asked"
       \/ t.at \in {"home", "cityhome"} /\ t.city = "asked"

\* The city filter's script: nothing on the page names the city.
NothingNamesIt(t) == t.more # "asked" /\ t.city # "asked"

\* _query_verified
ZhilianQueryVerified(t) == t.box = "asked" \/ (t.box = "none" /\ t.key = "asked")

-----------------------------------------------------------------------------
\* What parse_zhilian_snapshot_jobs keeps: the cards of a modern list name their city.
OtherCity(t) == site.modern /\ t.surface = "cards" /\ t.place = "other"
CardsKept(t) == t.surface = "cards" /\ ~OtherCity(t)
PlaceKept(t) == IF site.modern /\ t.place = "none" THEN "asked" ELSE t.place

\* verify_snapshot: the code of the url or of the page, the sources that name the city,
\* and what contradicts it.
Observed(t) == IF t.url.code # 0 THEN t.url.code ELSE call.candidate
CodesDiffer(t) == t.url.code # 0 /\ call.candidate # 0 /\ t.url.code # call.candidate
OnPage(t) == {s \in {"city", "more"} : t[s] = "asked"}
CardsNameIt(t) == site.modern /\ t.surface = "cards" /\ t.place # "other"
NamedBy(t) == Cardinality(OnPage(t)) + IF CardsNameIt(t) THEN 1 ELSE 0
Needed(t, expected) == IF expected # 0 /\ Observed(t) = expected THEN 1 ELSE 2

Contradicted(t, expected) ==
    \/ t.more = "other" \/ CodesDiffer(t)
    \/ OtherCity(t) /\ (Observed(t) = 0 \/ Cardinality(OnPage(t)) < Needed(t, expected))

SnapshotVerified(t, expected) ==
    Observed(t) # 0 /\ ~Contradicted(t, expected) /\ NamedBy(t) >= Needed(t, expected)

\* Mutation: the route counts only where the page gives a code.
RouteContinuesByCode(t) ==
    /\ call.route /\ t.at = "list" /\ t.more # "other" /\ ~CodesDiffer(t) /\ NamedBy(t) >= 1
    /\ Observed(t) # 0

\* _city_route_snapshot_resolution: the search was sent from the city's own page.
RouteContinues(t) ==
    call.route /\ t.at = "list" /\ t.more # "other" /\ ~CodesDiffer(t) /\ NamedBy(t) >= 1

\* _query_page_exhausted, and the recommendations of other cities in place of results.
\* From its second page on a modern list fills the limit of forty cards, and only the
\* page after the last one tells its end.
ZhilianExhausted(t) ==
    \/ t.surface = "empty" \/ OtherCity(t)
    \/ site.modern /\ t.last /\ t.loaded = call.page /\ call.page = 1
    \/ ~site.modern /\ (LastOf(t.url) <= 1 \/ (t.last /\ t.shown = call.page))

-----------------------------------------------------------------------------
Untouched == UNCHANGED <<World, saved, tab, troubles>>
GoOn(next) == pc' = next /\ UNCHANGED out
AfterSearch == IF call.page > 1 THEN "page" ELSE "snapshot"
\* Something goes wrong: a bound of the model, not of the code.
Goes == troubles < MaxTrouble /\ troubles' = troubles + 1

\* The page there is after a search is sent from a page: of its city, if it has one.
SearchFrom(t) ==
    LET urls == CASE t.city = "asked" /\ t.at # "list" -> {Url("plain", CityCode, t.box, 1), Url("route", 0, t.box, 1)}
                  [] t.at = "list" -> {[t.url EXCEPT !.key = t.box, !.page = 1]}
                  [] OTHER -> {Url("plain", c, t.box, 1) : c \in Codes \cup {0}}
        \* ... where a modern list without results shows those of another city.
        instead == {[Shown(u) EXCEPT !.surface = "cards", !.place = "other"] :
                        u \in {v \in urls : site.modern /\ LastOf(v) = 0 /\ PlaceOf(v) = "asked"}}
    IN  {Shown(u) : u \in urls} \cup instead
SearchFlawed(t) ==
    (UNION {Flawed(s.url) : s \in SearchFrom(t)})
    \cup SearchFrom([Elsewhere("home") EXCEPT !.box = t.box])   \* the city is forgotten

\* The script finds the input and the control, and types the keyword.
Searchable == tab.at \in {"home", "cityhome", "list"}
Typed == [tab EXCEPT !.box = "asked"]

ZhilianBegin(p) ==
    /\ pc = "idle"
    /\ pc' = "open" /\ call' = [Fresh EXCEPT !.page = p, !.code = ZhilianKnown]
    /\ UNCHANGED <<World, saved, tab, out, troubles>>

\* open_url_in_new_tab of the entry page, whatever the code and the page asked for.
ZhilianOpen ==
    /\ pc = "open"
    /\ \/ tab.at = "home" /\ UNCHANGED <<tab, troubles>>
       \/ tab.at # "home" /\ tab' = Elsewhere("home") /\ UNCHANGED troubles
       \/ tab.at # "home" /\ Goes /\ tab' \in {Elsewhere(a) : a \in {"verify", "login", "loading"}}
    /\ GoOn("type")
    /\ UNCHANGED <<World, saved, call>>

\* adopt_platform_target_transition: the click made a page in this tab or opened a tab of
\* its own, which is adopted while the old one is closed ...
Adopted(pages) == tab' \in pages
\* ... unless a tab is left over that cannot be closed: the collection ends with either.
CleanupFailed(pages) == tab' \in pages \cup {Typed} /\ Goes /\ Fail

\* _click_keyword_control
ZhilianSearch ==
    /\ pc = "type" /\ Searchable
    /\ \/ Adopted(SearchFrom(Typed)) /\ UNCHANGED troubles
       \/ Adopted(SearchFlawed(Typed) \cup {Typed}) /\ Goes
    /\ GoOn("await")
    /\ UNCHANGED <<World, saved, call>>
ZhilianSearchFails == pc = "type" /\ Searchable /\ CleanupFailed(SearchFrom(Typed)) /\ UNCHANGED <<World, saved>>
ZhilianNoControl == pc = "type" /\ ~Searchable /\ Fail /\ Untouched
-----------------------------------------------------------------------------
\* _await_search_transition, one poll.
Arrive ==
    /\ call' = [call EXCEPT !.candidate = CodeGiven(tab)]
    /\ GoOn(IF call.route THEN AfterSearch ELSE "filter")
ZhilianArrived == pc = "await" /\ TransitionReady(tab) /\ Untouched /\ Arrive

\* The city's page was proved: the keyword is sent from there, once.
ZhilianSendAgain ==
    /\ pc = "await" /\ DiscoveryReady(tab) /\ call.route /\ ~call.sent
    /\ GoOn("send")
    /\ UNCHANGED call /\ Untouched

\* _advance_city_discovery.  Nothing names the city: its page is opened, by the link on
\* this page or in the directory, once.
Undiscovered == DiscoveryReady(tab) /\ ~call.route
ZhilianToCity ==
    /\ pc = "await" /\ Undiscovered /\ NothingNamesIt(tab) /\ ~call.tried
    /\ call' = [call EXCEPT !.tried = TRUE]
    /\ \/ tab' = CityHome /\ GoOn("land") /\ UNCHANGED troubles
       \/ /\ Goes
          /\ tab' \in {Elsewhere(a) : a \in {"home", "login", "loading"}}
                      \cup {[CityHome EXCEPT !.city = "other"], Shown(Url("route", 0, "none", 1))}
          /\ GoOn("land")
       \/ Goes /\ ~tab.linked /\ tab' \in {Elsewhere("verify"), Elsewhere("directory")} /\ GoOn("await")
    /\ UNCHANGED <<World, saved>>
\* Something does: the city is selected where it is not already.
Selected(t) == IF t.at = "list" THEN Shown([t.url EXCEPT !.path = "plain", !.code = CityCode, !.page = 1])
               ELSE [t EXCEPT !.city = "asked", !.more = "asked"]
ZhilianSelect ==
    /\ pc = "await" /\ Undiscovered /\ ~NothingNamesIt(tab) /\ ~call.tried
    /\ call' = [call EXCEPT !.tried = TRUE]
    /\ tab' = IF tab.more = "asked" /\ tab.linked THEN tab ELSE Selected(tab)
    /\ GoOn("await")
    /\ UNCHANGED <<World, saved, troubles>>

\* The login, another keyword, or the deadline.
ZhilianNoTransition ==
    /\ pc = "await" /\ ~TransitionReady(tab)
    /\ DiscoveryReady(tab) => (call.route /\ call.sent) \/ (~call.route /\ call.tried)
    /\ Fail /\ Untouched

\* _await_city_bootstrap_destination: the city's page, or the root that an
\* authenticated session is sent to instead.
ZhilianLanded ==
    /\ pc = "land" /\ tab.at = "cityhome" /\ tab.city = "asked"
    /\ call' = [call EXCEPT !.route = TRUE]
    /\ GoOn("send") /\ Untouched
ZhilianAtRoot == pc = "land" /\ tab.at = "home" /\ GoOn("recover") /\ UNCHANGED call /\ Untouched
ZhilianNowhere ==
    /\ pc = "land" /\ ~(tab.at = "cityhome" /\ tab.city = "asked") /\ tab.at # "home"
    /\ Fail /\ Untouched

\* _recover_authenticated_city_root_redirect: the city is selected on the root, which
\* shows it there or as a list; at most six actions, then a deadline.
ZhilianRecover ==
    /\ pc = "recover" /\ tab.at \in {"home", "list"}
    /\ call' = [call EXCEPT !.route = TRUE]
    /\ tab' \in {Selected(tab), Shown(Url("plain", CityCode, tab.box, 1))}
    /\ GoOn(IF TransitionReady(tab') THEN "await" ELSE "send")
    /\ UNCHANGED <<World, saved, troubles>>
ZhilianNotRecovered ==
    /\ pc = "recover"
    /\ \/ tab.at \notin {"home", "list"} /\ UNCHANGED troubles
       \/ tab.at \in {"home", "list"} /\ Goes
    /\ Fail
    /\ UNCHANGED <<World, saved, tab>>

\* _submit_verified_city_keyword: typed, and sent by one control after the other until
\* the page is seen to change; once in a collection.
ZhilianSend ==
    /\ pc = "send" /\ Searchable
    /\ \/ Adopted(SearchFrom(Typed)) /\ UNCHANGED troubles
       \/ Adopted(SearchFlawed(Typed)) /\ Goes
    /\ call' = [call EXCEPT !.sent = TRUE]
    /\ GoOn("await")
    /\ UNCHANGED <<World, saved>>
ZhilianSendFails == pc = "send" /\ Searchable /\ CleanupFailed(SearchFrom(Typed)) /\ UNCHANGED <<World, saved>>
ZhilianNothingToSend == pc = "send" /\ ~Searchable /\ Fail /\ Untouched
-----------------------------------------------------------------------------
\* _apply_city_filter, without a receipt of the city's page.
ZhilianFilter ==
    /\ pc = "filter" /\ tab.at # "login"
    /\ tab' = IF Searchable /\ ~NothingNamesIt(tab) /\ ~(tab.more = "asked" /\ tab.linked) THEN Selected(tab) ELSE tab
    /\ call' = [call EXCEPT !.candidate = IF tab.linked THEN CityCode ELSE @]
    /\ GoOn(AfterSearch)
    /\ UNCHANGED <<World, saved, troubles>>
ZhilianLogin == pc \in {"filter", "again"} /\ tab.at = "login" /\ Fail /\ Untouched

\* _select_page: a modern list is scrolled until it has the page, or to its end, which
\* is told without another look at what the list is of; a pager is clicked.
Growing == pc = "page" /\ tab.at = "list" /\ tab.surface = "cards" /\ site.modern
ZhilianReached == Growing /\ tab.loaded >= call.page /\ GoOn("snapshot") /\ UNCHANGED call /\ Untouched
ZhilianEnd ==
    /\ Growing /\ tab.loaded < call.page /\ tab.last
    /\ Accept(FALSE, tab.place, TRUE, TRUE)
    /\ Untouched
ZhilianGrow ==
    /\ Growing /\ tab.loaded < call.page /\ ~tab.last
    /\ \/ tab' = Turned(tab.loaded + 1) /\ UNCHANGED <<call, pc, out, troubles>>
       \/ UNCHANGED tab /\ Goes /\ Fail
    /\ UNCHANGED <<World, saved>>
Numbered == pc = "page" /\ tab.at = "list" /\ ~site.modern /\ LastOf(tab.url) >= 2
ZhilianPager ==
    /\ Numbered /\ call.page <= LastOf(tab.url)
    /\ \/ tab' = Turned(call.page) /\ UNCHANGED troubles
       \/ UNCHANGED tab /\ Goes                         \* the page is late
    /\ GoOn("snapshot")
    /\ UNCHANGED <<World, saved, call>>
ZhilianPagerEnd ==
    /\ Numbered /\ call.page > LastOf(tab.url) /\ tab.last
    /\ Accept(FALSE, tab.place, TRUE, TRUE)
    /\ Untouched
ZhilianNoPage ==
    /\ pc = "page" /\ ~Growing
    /\ ~(Numbered /\ (call.page <= LastOf(tab.url) \/ tab.last))
    /\ Fail /\ Untouched
-----------------------------------------------------------------------------
\* remember: the code that the page showed, unless it is the seed and came as it is.
ObservedKept(t, asSeed) ==
    IF Observed(t) = 0 \/ (asSeed /\ saved = 0 /\ Observed(t) = call.code) THEN saved ELSE Observed(t)

Legible == tab.at \in {"home", "cityhome", "list"}
Proved == SnapshotVerified(tab, call.code) \/ RouteContinues(tab)

ZhilianAccept ==
    /\ pc = "snapshot" /\ Legible /\ ZhilianQueryVerified(tab) /\ Proved
    /\ saved' = ObservedKept(tab, ~RouteContinues(tab))
    /\ Accept(CardsKept(tab), PlaceKept(tab), ZhilianExhausted(tab), FALSE)
    /\ UNCHANGED <<World, tab, troubles>>

\* One more filter for a city whose code is known; the second look needs two sources.
ZhilianFilterAgain ==
    /\ pc = "snapshot" /\ Legible /\ ZhilianQueryVerified(tab) /\ ~Proved /\ call.code # 0
    /\ GoOn("again") /\ UNCHANGED call /\ Untouched
ZhilianLookAgain ==
    /\ pc = "again" /\ tab.at # "login"
    /\ tab' = IF Legible /\ ~NothingNamesIt(tab) /\ ~(tab.more = "asked" /\ tab.linked) THEN Selected(tab) ELSE tab
    /\ call' = [call EXCEPT !.candidate = CodeGiven(tab')]
    /\ GoOn("second")
    /\ UNCHANGED <<World, saved, troubles>>
ZhilianAcceptSecond ==
    /\ pc = "second" /\ Legible /\ ~NothingNamesIt(tab) /\ SnapshotVerified(tab, 0)
    /\ saved' = ObservedKept(tab, FALSE)
    /\ Accept(CardsKept(tab), PlaceKept(tab), ZhilianExhausted(tab), ~ZhilianQueryVerified(tab))
    /\ UNCHANGED <<World, tab, troubles>>
ZhilianGiveUp ==
    /\ \/ pc = "snapshot" /\ (~Legible \/ ~ZhilianQueryVerified(tab) \/ (~Proved /\ call.code = 0))
       \/ pc = "second" /\ (~Legible \/ NothingNamesIt(tab) \/ ~SnapshotVerified(tab, 0))
    /\ Fail /\ Untouched

ZhilianStep ==
    /\ platform = "zhilian"
    /\ \/ ZhilianOpen \/ ZhilianSearch \/ ZhilianSearchFails \/ ZhilianNoControl \/ ZhilianArrived \/ ZhilianSendAgain
       \/ ZhilianToCity \/ ZhilianSelect \/ ZhilianNoTransition \/ ZhilianLanded \/ ZhilianAtRoot
       \/ ZhilianNowhere \/ ZhilianRecover \/ ZhilianNotRecovered \/ ZhilianSend \/ ZhilianSendFails
       \/ ZhilianNothingToSend \/ ZhilianFilter
       \/ ZhilianLogin \/ ZhilianReached \/ ZhilianEnd \/ ZhilianGrow \/ ZhilianPager
       \/ ZhilianPagerEnd \/ ZhilianNoPage \/ ZhilianAccept \/ ZhilianFilterAgain
       \/ ZhilianLookAgain \/ ZhilianAcceptSecond \/ ZhilianGiveUp
=============================================================================
