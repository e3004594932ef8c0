---------------------------- MODULE LiepinCollector ----------------------------
(***************************************************************************)
(* platforms/liepin/collect.py and city_resolver.py on the driver of          *)
(* drivers/boss/cdp_driver.py: a search by the code of the city, taken from   *)
(* the cache, the release or the site itself, or by the route the site links; *)
(* a page is accepted when its evidence proves the city and the keyword, and  *)
(* a code that it refutes is forgotten and looked for once more.              *)
(***************************************************************************)
EXTENDS CollectorState, FiniteSets

\* LiepinCityResolver.lookup
KnownCode == IF saved # 0 THEN saved ELSE seed

\* _build_liepin_resolved_search_url
ListUrl(c) == IF c.route /\ c.code = 0 THEN Url("route", 0, "asked", c.page)
              ELSE Url("plain", c.code, "asked", c.page)

\* _same_search_url: the parameters asked for are among those of the page.
SameSearch(u, v) ==
    /\ u.path = v.path /\ u.key = v.key /\ u.page = v.page
    /\ v.code = 0 \/ u.code = v.code

OnTarget(t) ==
    IF call.purpose = "directory" THEN t.at = "directory"
    ELSE t.at = "list" /\ SameSearch(t.url, call.target)

-----------------------------------------------------------------------------
\* Mutation: the control alone names the city, whatever the other source says.
EvidenceOfOne(t, expected) ==
    /\ t.at = "list" /\ t.code # 0 /\ t.city = "asked"
    /\ t.box = "asked" /\ t.url.key \in {"asked", "none"}
    /\ expected # 0 => t.code = expected

\* verify_evidence: the control and another source name the city, none another one;
\* the box holds the keyword and the url no other; the code is the expected one.
Evidence(t, expected) ==
    LET sources == {s \in {"city", "more"} : t[s] = "asked"}
        conflicts == {s \in {"city", "more"} : t[s] = "other"}
    IN  /\ t.at = "list" /\ t.code # 0 /\ t.city = "asked"
        /\ Cardinality(sources) >= 2 /\ conflicts = {}
        /\ t.box = "asked" /\ t.url.key \in {"asked", "none"}
        /\ expected # 0 => t.code = expected

\* verify_route_evidence: a route has no code; every source must name the city, the
\* url the keyword, and the page must not be the one the route was found on.
RouteEvidence(t, prev) ==
    /\ t.at = "list" /\ t.url.path = "route" /\ t.url # prev
    /\ t.city = "asked" /\ t.more = "asked"
    /\ t.box = "asked" /\ t.url.key = "asked"

\* _verify_snapshot_city
CityVerified(t) ==
    IF call.route /\ call.code = 0 THEN RouteEvidence(t, call.prev) ELSE Evidence(t, call.code)

\* Mutation: the last page of the pager is the end, whichever page was asked for.
TerminatedByPager(t) ==
    /\ t.url.key = "asked" /\ t.box = "asked"
    /\ t.surface = "empty" \/ t.last

\* _query_termination_reason: only on the page of this keyword, place and number.
Terminated(t) ==
    /\ t.url.path = ListUrl(call).path
    /\ ListUrl(call).code # 0 => t.url.code = ListUrl(call).code
    /\ t.url.key = "asked" /\ t.box = "asked"
    /\ \/ t.surface = "empty"
       \/ t.surface = "cards" /\ t.shown = call.page /\ t.url.page = call.page /\ t.last

-----------------------------------------------------------------------------
Navigate(purpose, url) ==
    /\ call' = [call EXCEPT !.purpose = purpose, !.target = url]
    /\ pc' = "open"
    /\ UNCHANGED out

\* collect, its first lines: the code that is known, or one to be found.
LiepinBegin(p) ==
    /\ pc = "idle"
    /\ LET c == [Fresh EXCEPT !.page = p, !.code = KnownCode]
       IN  IF KnownCode = 0
           THEN pc' = "resolve" /\ call' = [c EXCEPT !.tried = TRUE]
           ELSE pc' = "open" /\ call' = [c EXCEPT !.target = ListUrl(c)]
    /\ UNCHANGED <<World, saved, tab, out, troubles>>

\* Mutation: the open page is not looked at before it is navigated away.
MayReplaceAny == TRUE

\* A page that asks for a verification is never navigated away.
MayReplace == ~Interrupted(tab)

\* open_url_in_new_tab, up to the navigation.
Target == IF call.purpose = "directory" THEN Elsewhere("directory") ELSE Shown(call.target)
FlawedTarget ==
    IF call.purpose = "directory"
    THEN {Elsewhere(a) : a \in {"verify", "login", "home"}}
         \cup {[Elsewhere("directory") EXCEPT !.linked = FALSE]}
    ELSE Flawed(call.target)

Stop == Fail /\ UNCHANGED <<World, saved, tab, troubles>>

LiepinOpenRefused == pc = "open" /\ ~MayReplace /\ Stop
LiepinOpenReused == pc = "open" /\ MayReplace /\ OnTarget(tab) /\ pc' = "load"
                    /\ UNCHANGED <<World, saved, tab, call, out, troubles>>
LiepinOpen ==
    /\ pc = "open" /\ MayReplace /\ ~OnTarget(tab)
    /\ tab' = Target /\ pc' = "load"
    /\ UNCHANGED <<World, saved, call, out, troubles>>
LiepinOpenFlawed ==
    /\ pc = "open" /\ MayReplace /\ ~OnTarget(tab) /\ troubles < MaxTrouble
    /\ tab' \in FlawedTarget /\ pc' = "load"
    /\ troubles' = troubles + 1
    /\ UNCHANGED <<World, saved, call, out>>

\* ... and after it: a search is there when its url and its cards are; the directory
\* when anything is.  What follows is up to the caller, which gives up for all
\* but the search without a city, in whose place the directory is tried.
Arrived == IF call.purpose = "directory" THEN ~Interrupted(tab) ELSE OnTarget(tab)
LiepinArrive ==
    /\ pc = "load" /\ Arrived
    /\ pc' = CASE call.purpose = "list" -> "type" [] call.purpose = "route" -> "prove" [] OTHER -> "links"
    /\ UNCHANGED <<World, saved, tab, call, out, troubles>>
LiepinNotThere ==
    /\ pc = "load" /\ ~Arrived
    /\ IF call.purpose = "plain" /\ ~Interrupted(tab) THEN Navigate("directory", NoUrl) ELSE Fail
    /\ UNCHANGED <<World, saved, tab, troubles>>
-----------------------------------------------------------------------------
\* _resolve_city and _verify_city_route.
VerifyRoute ==
    /\ call' = [call EXCEPT !.purpose = "route", !.prev = tab.url, !.target = Url("route", 0, "asked", 1)]
    /\ pc' = "open"
    /\ UNCHANGED out

Resolved(code, route) ==
    LET c == [call EXCEPT !.code = code, !.route = route, !.purpose = "list"]
    IN  /\ call' = [c EXCEPT !.target = ListUrl(c)]
        /\ pc' = "open"
        /\ UNCHANGED out

\* The page in the tab may prove a code or link a route; else a search without a city.
LiepinResolve ==
    /\ pc = "resolve"
    /\ CASE Interrupted(tab) -> Fail
         [] ~Interrupted(tab) /\ Evidence(tab, 0) -> Resolved(tab.code, FALSE)
         [] ~Interrupted(tab) /\ ~Evidence(tab, 0) /\ tab.linked /\ tab.url.path # "route" -> VerifyRoute
         [] OTHER -> Navigate("plain", Url("plain", 0, "asked", 1))
    /\ UNCHANGED <<World, saved, tab, troubles>>

\* The links of that search, then those of the directory.
LiepinLinks ==
    /\ pc = "links"
    /\ CASE Interrupted(tab) -> Fail
         [] ~Interrupted(tab) /\ tab.linked -> VerifyRoute
         [] ~Interrupted(tab) /\ ~tab.linked /\ call.purpose = "plain" -> Navigate("directory", NoUrl)
         [] OTHER -> Fail
    /\ UNCHANGED <<World, saved, tab, troubles>>

LiepinProve ==
    /\ pc = "prove"
    /\ IF RouteEvidence(tab, call.prev) THEN Resolved(0, TRUE) ELSE Fail
    /\ UNCHANGED <<World, saved, tab, troubles>>
-----------------------------------------------------------------------------
\* _submit_search_if_query_missing: a search whose url lost the keyword is typed.
LiepinQueryThere ==
    /\ pc = "type" /\ tab.at = "list" /\ tab.url.key = "asked"
    /\ pc' = "snapshot"
    /\ UNCHANGED <<World, saved, tab, call, out, troubles>>
LiepinStateUnknown == pc \in {"type", "submit"} /\ tab.at # "list" /\ Stop

\* The reader of a bulk collection has no Input.insertText: it raises, with the box emptied.
LiepinType ==
    /\ pc = "type" /\ tab.at = "list" /\ tab.url.key # "asked"
    /\ IF bulk
       THEN tab' = [tab EXCEPT !.box = "none"] /\ Fail
       ELSE /\ tab' = [tab EXCEPT !.box = "asked"]
            /\ call' = [call EXCEPT !.path = tab.url.path]
            /\ pc' = "submit"
            /\ UNCHANGED out
    /\ UNCHANGED <<World, saved, troubles>>

\* The page is looked at again before the click, which the site may leave unanswered.
LiepinPathChanged == pc = "submit" /\ tab.at = "list" /\ tab.url.path # call.path /\ Stop
LiepinSubmitted ==
    /\ pc = "submit" /\ tab.at = "list" /\ tab.url.path = call.path
    /\ \/ /\ tab.url.key = "asked"
          /\ UNCHANGED <<tab, troubles, call>>
       \/ /\ tab.url.key # "asked"
          /\ call' = [call EXCEPT !.unproved = TRUE]
          /\ \/ tab' = Shown([tab.url EXCEPT !.key = tab.box, !.page = 1]) /\ UNCHANGED troubles
             \/ troubles < MaxTrouble /\ troubles' = troubles + 1 /\ UNCHANGED tab
    /\ pc' = "snapshot"
    /\ UNCHANGED <<World, saved, out>>
-----------------------------------------------------------------------------
\* remember, with the code of the search or the one that a page of the route proves.
Remembered ==
    IF call.code # 0 THEN call.code ELSE IF Evidence(tab, 0) THEN tab.code ELSE saved

LiepinAccept ==
    /\ pc = "snapshot" /\ tab.at \notin {"verify", "login"} /\ CityVerified(tab)
    /\ saved' = Remembered
    /\ AcceptPage(Terminated(tab))
    /\ UNCHANGED <<World, tab, troubles>>

\* forget: only the code that was refuted.
Forgotten == IF saved = call.code THEN 0 ELSE saved

LiepinLookAgain ==
    /\ pc = "snapshot" /\ tab.at \notin {"verify", "login"} /\ ~CityVerified(tab) /\ ~call.tried
    /\ saved' = Forgotten
    /\ call' = [call EXCEPT !.tried = TRUE]
    /\ pc' = "resolve"
    /\ UNCHANGED <<World, tab, out, troubles>>

LiepinGiveUp ==
    /\ pc = "snapshot" /\ (tab.at \in {"verify", "login"} \/ (~CityVerified(tab) /\ call.tried))
    /\ Stop

LiepinStep ==
    /\ platform = "liepin"
    /\ \/ LiepinOpenRefused \/ LiepinOpenReused \/ LiepinOpen \/ LiepinOpenFlawed
       \/ LiepinArrive \/ LiepinNotThere \/ LiepinResolve \/ LiepinLinks \/ LiepinProve
       \/ LiepinQueryThere \/ LiepinStateUnknown \/ LiepinType \/ LiepinPathChanged \/ LiepinSubmitted
       \/ LiepinAccept \/ LiepinLookAgain \/ LiepinGiveUp
=============================================================================
