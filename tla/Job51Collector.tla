---------------------------- MODULE Job51Collector ----------------------------
(***************************************************************************)
(* platforms/job51/collect.py and modern.py: the cards of 51job are drawn by  *)
(* the page itself, after its pager has moved.  A bulk collection keeps the    *)
(* page of its query and operates the pager; the other one opens every page.  *)
(* The city is a parameter of the url and is asked of each card, not of the   *)
(* page.                                                                    *)
(***************************************************************************)
EXTENDS CollectorState

\* build_job51_search_url; the code of a city is that of the release.
Job51Url(p) == Url("plain", seed, "asked", p)

\* collect_page: the tab shows this search already.
SameQuery == tab.at = "list" /\ tab.url.key = "asked" /\ tab.box = "asked" /\ tab.url.code = seed

Job51Begin(p) ==
    /\ pc = "idle"
    /\ call' = [Fresh EXCEPT !.page = p, !.target = Job51Url(IF bulk THEN 1 ELSE p)]
    /\ pc' = IF bulk /\ SameQuery THEN "ready" ELSE "open"
    /\ UNCHANGED <<World, saved, tab, out, troubles>>

\* open_url_in_new_tab: the parameters asked for may be those of the page.
Reusable ==
    /\ tab.at = "list" /\ tab.url.key = "asked"
    /\ seed # 0 => tab.url.code = seed
    /\ call.target.page > 1 => tab.url.page = call.target.page

Job51Open ==
    /\ pc = "open"
    /\ \/ Reusable /\ UNCHANGED <<tab, troubles>>
       \/ ~Reusable /\ tab' = Shown(call.target) /\ UNCHANGED troubles
       \/ /\ ~Reusable /\ troubles < MaxTrouble
          /\ tab' \in Flawed(call.target)
          /\ troubles' = troubles + 1
    /\ pc' = "ready"
    /\ UNCHANGED <<World, saved, call, out>>

\* Mutation: the number of the pager alone says which page is there.
ReadyByPager(t, expected) ==
    t.surface = "empty" \/ expected = 0 \/ t.shown = expected

\* ready: the cards are those of the page the pager is at, and of the one asked for.
CardsReady(t, expected) ==
    t.surface = "empty" \/ (t.shown = t.loaded /\ (expected = 0 \/ t.shown = expected))

Job51Stop == Fail /\ UNCHANGED <<World, saved, tab, troubles>>

\* The time of ready, or of _extract_snapshot, is up: on another page, on a page of the
\* pager that was not asked for, or before the cards are there.
Job51NotReady ==
    /\ pc = "ready"
    /\ \/ /\ tab.at # "list" \/ (bulk /\ tab.shown = tab.loaded /\ ~CardsReady(tab, call.expect))
          /\ UNCHANGED troubles
       \/ tab.at = "list" /\ troubles < MaxTrouble /\ troubles' = troubles + 1
    /\ Fail
    /\ UNCHANGED <<World, saved, tab>>

\* The keyword of a bulk collection may have been changed in the tab since.
QueryKept == tab.box = "asked"

\* The pager is at the page: the cards are taken, an empty page as it is.
Job51Take ==
    /\ pc = "ready" /\ tab.at = "list"
    /\ bulk => CardsReady(tab, call.expect) /\ (tab.surface = "empty" \/ (tab.shown = call.page /\ QueryKept))
    /\ AcceptPage(tab.last)
    /\ UNCHANGED <<World, saved, tab, troubles>>
Job51QueryChanged ==
    /\ pc = "ready" /\ tab.at = "list" /\ bulk
    /\ CardsReady(tab, call.expect) /\ tab.surface = "cards" /\ tab.shown = call.page /\ ~QueryKept
    /\ Job51Stop

\* One step of the pager: to the page itself if it is on it, else to its neighbour.
Neighbour == IF call.page > tab.shown THEN tab.shown + 1 ELSE tab.shown - 1
Job51Page ==
    /\ pc = "ready" /\ tab.at = "list" /\ bulk
    /\ CardsReady(tab, call.expect) /\ tab.surface = "cards" /\ tab.shown # call.page
    /\ pc' = "click"
    /\ call' = [call EXCEPT !.expect = tab.shown]
    /\ UNCHANGED <<World, saved, tab, out, troubles>>

\* The click finds the pager where it was; the cards follow later.
Job51Click ==
    /\ pc = "click" /\ tab.at = "list" /\ tab.shown = call.expect /\ call.steps <= MaxPage
    /\ \E p \in {call.page, Neighbour} :
         /\ p \in 1..LastOf(tab.url)
         /\ tab' = [tab EXCEPT !.shown = p, !.last = p >= LastOf(tab.url)]
         /\ call' = [call EXCEPT !.expect = p, !.steps = @ + 1]
    /\ pc' = "ready"
    /\ UNCHANGED <<World, saved, out, troubles>>
Job51NoClick ==
    /\ pc = "click"
    /\ \/ tab.at # "list" \/ tab.shown # call.expect \/ call.steps > MaxPage
       \/ {call.page, Neighbour} \cap (1..LastOf(tab.url)) = {}
    /\ Job51Stop

\* The page draws the cards its pager is at.
Job51Draw ==
    /\ platform = "51job" /\ tab.at = "list" /\ tab.loaded # tab.shown
    /\ tab' = [tab EXCEPT !.loaded = tab.shown]
    /\ UNCHANGED <<World, saved, pc, call, out, troubles>>

Job51Step ==
    /\ platform = "51job"
    /\ \/ Job51Open \/ Job51NotReady \/ Job51Take \/ Job51QueryChanged \/ Job51Page \/ Job51Click
       \/ Job51NoClick
=============================================================================
