------------------------------ MODULE Collectors ------------------------------
(***************************************************************************)
(* The collectors of the web platforms, one after the other on one tab: page   *)
(* after page is collected, in whatever order, whatever the tab was left at.  *)
(***************************************************************************)
EXTENDS LiepinCollector, Job51Collector, ZhilianCollector

CollectInit ==
    /\ platform \in Platforms
    /\ bulk \in IF platform = "zhilian" THEN {TRUE} ELSE BOOLEAN
    /\ site \in Sites
    /\ platform # "zhilian" => ~site.modern
    /\ seed \in Codes \cup {0}
    /\ platform # "liepin" => seed \in {0, CityCode}
    /\ platform = "51job" => seed = CityCode
    /\ saved \in IF platform = "51job" THEN {0} ELSE Codes \cup {0}
    /\ tab = Elsewhere("home")
    /\ pc = "idle" /\ call = Fresh /\ out = NoOutcome
    /\ troubles = 0

Begin(p) ==
    \/ platform = "liepin" /\ LiepinBegin(p)
    \/ platform = "zhilian" /\ ZhilianBegin(p)
    \/ platform = "51job" /\ Job51Begin(p)

\* The caller takes the outcome; the next page is another collection.
Taken ==
    /\ pc = "done"
    /\ pc' = "idle" /\ out' = NoOutcome
    /\ UNCHANGED <<World, saved, tab, call, troubles>>

\* The command dies; the tab and the saved codes stay.
Die ==
    /\ pc # "idle" /\ troubles < MaxTrouble
    /\ pc' = "idle" /\ call' = Fresh /\ out' = NoOutcome
    /\ troubles' = troubles + 1
    /\ UNCHANGED <<World, saved, tab>>

\* The site interrupts or redraws the page, or a person uses the tab.
Disturb ==
    /\ troubles < MaxTrouble
    /\ troubles' = troubles + 1
    /\ \/ tab' \in {Elsewhere(a) : a \in {"verify", "login", "home"}}
       \/ tab.at = "list" /\ tab' \in Flawed(tab.url)
       \/ tab.at = "list" /\ tab' = Shown([tab.url EXCEPT !.key = "other", !.page = 1])
       \/ tab.at = "list" /\ \E p \in 1..LastOf(tab.url) : p # tab.shown /\ tab' = Turned(p)
    /\ UNCHANGED <<World, saved, pc, call, out>>

\* The person signs in or passes the verification.
Attend ==
    /\ tab.at \in {"login", "verify"}
    /\ tab' = Elsewhere("home")
    /\ UNCHANGED <<World, saved, pc, call, out, troubles>>

CollectNext ==
    \/ \E p \in 1..MaxPage : Begin(p)
    \/ LiepinStep \/ ZhilianStep \/ Job51Step \/ Job51Draw
    \/ Taken \/ Die \/ Disturb \/ Attend

CollectSpec == CollectInit /\ [][CollectNext]_collectVars

\* A command goes on while it lives, the page draws, the person helps, and the first
\* page is asked for again and again.
CollectFairSpec ==
    /\ CollectSpec
    /\ WF_collectVars(LiepinStep \/ ZhilianStep \/ Job51Step) /\ WF_collectVars(Taken) /\ WF_collectVars(Job51Draw) /\ WF_collectVars(Attend)
    /\ SF_collectVars(Begin(1))
-----------------------------------------------------------------------------
CollectTypeOK ==
    /\ platform \in Platforms /\ bulk \in BOOLEAN
    /\ site \in Sites
    /\ seed \in Codes \cup {0} /\ saved \in Codes \cup {0}
    /\ tab \in Tabs /\ call \in Calls /\ out \in Outcomes
    /\ troubles \in 0..MaxTrouble

\* The cards a collection hands on are of the city and of the keyword that were asked for:
\* not of the page the tab was left at, of a code kept from a wrong page, of a list whose
\* keyword the site lost, or of what a person looked for meanwhile.  (51job asks the
\* city of each card, not of the page, and without bulk no page at all; a keyword that Liepin
\* was made to search for again is taken from the box.)
Unchecked == platform = "51job" /\ ~bulk
AskedListOnly ==
    out.cards =>
        /\ platform # "51job" => out.place = "asked"
        /\ ~out.unproved /\ ~Unchecked => out.key = "asked"

\* A search that is told to be exhausted has no further page: the end belongs to this
\* keyword, this city and this page.  The rest of the search is never read otherwise.
\* (The end that a list of Zhilian reaches while it is scrolled is not proved by a snapshot;
\* a page of 51job without results is not asked for its keyword.)
Ended == out.exhausted /\ ~Unchecked /\ ~(platform = "zhilian" /\ out.unproved)
ExhaustedIsTrue == Ended /\ (out.cards \/ platform # "51job") => out.page >= site.last

\* Whatever pages are seen, the only code that is ever kept is the city's: a wrong one would
\* be trusted by every later search for the city.
KeptCodeIsTrue == [][saved' \in {saved, 0, CityCode}]_collectVars

\* No step of Liepin's collector navigates away from a page that asks the person for a
\* verification: the tab is left as it is, and the collection only looks or ends.
VerificationIsLeft == [][LiepinStep => (tab.at = "verify" => tab' = tab)]_collectVars

\* The cards of 51job are drawn after its pager has moved: those handed on are of the page
\* that was asked for, whoever moved the pager.
PageAsAsked == platform = "51job" /\ bulk /\ out.cards => out.loaded = out.page

\* After a finite number of disturbances the first page is collected again and again: a wrong
\* code is forgotten or overruled, a strange page left, and no step waits for ever.
Recovers == []<>(pc = "done" /\ out.ok)
=============================================================================
