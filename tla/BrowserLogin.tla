----------------------------- MODULE BrowserLogin -----------------------------
(* Login through a browser: the loop of complete_cas_with_mode, which drains   *)
(* the browser's events and then asks for its page and its cookies, against a  *)
(* user who walks through the pages, and what cas-login does with the harvest. *)
(* The browser, the user and the gateway are external.                         *)
EXTENDS Naturals, Sequences

CONSTANTS MaxVisits, \* bound: visits of the portal's completion page
          MaxEvents  \* bound: events of that page not yet read

ASSUME BrowserAssumption == MaxVisits \in Nat /\ MaxEvents \in Nat

VARIABLES mode,       \* "none", "manual", "interactive" or "automatic"
          page,       \* "external", "gateway", "portal" or "closed"
          visits,     \* visits of the portal so far
          events,     \* unread events: the visit a portal event shows, else 0
          past,       \* the deadline has passed
          harvest,    \* the loop's state
          login,      \* step of cas-login after the harvest
          account,    \* the gateway's session: "none", "partial" or "full"
          confirmed   \* history: the gateway said that the login is complete

browserVars == <<mode, page, visits, events, past, harvest, login, account, confirmed>>

NoHarvest == [pc |-> "begin", portalHits |-> 0, ticket |-> 0, sidSeen |-> FALSE,
              cookies |-> "empty", completion |-> FALSE, external |-> FALSE,
              exchange |-> 0]
Running == harvest.pc \in {"drain", "url", "cookies"}

BrowserInit ==
    /\ mode = "none" /\ page = "external" /\ visits = 0
    /\ events = <<>> /\ past = FALSE /\ harvest = NoHarvest
    /\ login = "idle" /\ account = "none" /\ confirmed = FALSE

user == <<page, visits, events, account>>
after == <<login, confirmed>>

(* connecting to the browser and subscribing to its events may fail *)
BeginLogin(m) ==
    /\ mode = "none" /\ mode' = m
    /\ \E pc \in {"drain", "nothing"} : harvest' = [harvest EXCEPT !.pc = pc]
    /\ UNCHANGED <<user, past, after>>

----------------------------------------------------------------------------
(* The browser. A visit of the portal shows as several events of the          *)
(* subscription, and other requests may show at any time. After the loop only *)
(* what the gateway thinks of the session still matters.                      *)
Navigates(to) ==
    /\ Running /\ page # "closed" /\ page' = to
    /\ IF to = "portal" THEN visits < MaxVisits /\ visits' = visits + 1 ELSE UNCHANGED visits
    /\ account' = IF to = "portal" /\ account = "none" THEN "partial" ELSE account
    /\ UNCHANGED <<mode, events, past, harvest, after>>

Emits(of) ==
    /\ Running /\ page # "closed" /\ Len(events) < MaxEvents
    /\ of = 0 \/ (page = "portal" /\ of = visits)
    /\ events' = Append(events, of)
    /\ UNCHANGED <<mode, page, visits, past, harvest, account, after>>

StepsCompleted ==
    /\ page \in {"gateway", "portal"} /\ account = "partial" /\ account' = "full"
    /\ UNCHANGED <<mode, page, visits, events, past, harvest, after>>

UserCloses ==
    /\ Running /\ page # "closed" /\ page' = "closed"
    /\ UNCHANGED <<mode, visits, events, past, harvest, account, after>>

DeadlinePasses ==
    /\ Running /\ ~past /\ past' = TRUE
    /\ UNCHANGED <<mode, user, harvest, after>>

----------------------------------------------------------------------------
(* complete_cas_with_mode *)
(* its local state ends with it, but for the result *)
Returns(why, cookies, ticket) ==
    [NoHarvest EXCEPT !.pc = why, !.cookies = cookies, !.exchange = ticket]
Reads(h) == harvest' = h /\ UNCHANGED <<mode, user, past, after>>

(* the inner loop goes on while an event comes within 250 ms *)
DrainEvent ==
    /\ harvest.pc = "drain" /\ events # <<>>
    /\ events' = Tail(events)
    /\ harvest' = IF Head(events) = 0 THEN harvest
                  ELSE [harvest EXCEPT !.completion = TRUE, !.ticket = Head(events),
                          !.portalHits = IF @ < 2 THEN @ + 1 ELSE @]
    /\ UNCHANGED <<mode, page, visits, past, account, after>>

DrainUnlimited ==
    /\ harvest.pc = "drain" /\ (events = <<>> \/ page = "closed")
    /\ events' = <<>> /\ harvest' = [harvest EXCEPT !.pc = "url"]
    /\ UNCHANGED <<mode, page, visits, past, account, after>>
(* it ends after 250 ms without one, or when the stream breaks with its browser; *)
(* only then is the deadline looked at                                           *)
DrainDone ==
    /\ harvest.pc = "drain" /\ (events = <<>> \/ page = "closed")
    /\ events' = <<>> /\ harvest' = IF past THEN Returns("timeout", "empty", 0)
                                        ELSE [harvest EXCEPT !.pc = "url"]
    /\ UNCHANGED <<mode, page, visits, past, account, after>>

HarvestAllowed == harvest.portalHits >= 2 \/ harvest.sidSeen

(* A command fails, as it does once the session is gone: what was seen last   *)
(* is the result.                                                             *)
BrowserClosed ==
    IF harvest.cookies = "empty" THEN Returns("nothing", "empty", 0)
    ELSE Returns("harvested", harvest.cookies, IF HarvestAllowed THEN harvest.ticket ELSE 0)

(* current_url: an unattended login gives up when it stays on a foreign page *)
ReadUrl ==
    /\ harvest.pc = "url"
    /\ \/ Reads(BrowserClosed)
       \/ /\ page # "closed"
          /\ \/ /\ mode = "automatic" /\ page = "external" /\ harvest.external
                /\ Reads(Returns("interaction", "empty", 0))
             \/ Reads([harvest EXCEPT !.pc = "cookies", !.completion = @ \/ page = "portal",
                          !.external = mode = "automatic" /\ page = "external"])

(* an unattended harvest needs the completion page and the session cookie *)
Complete(h) == mode # "manual" /\ h.completion /\ h.sidSeen

(* the gateway's cookies: none, none that matters, sid-legacy only, or sid *)
Jars == {"empty", "other", "legacy", "sid"}

ReadCookies ==
    /\ harvest.pc = "cookies"
    /\ \/ Reads(BrowserClosed)
       \/ /\ page # "closed"
          /\ \E jar \in Jars :
             LET seen == [harvest EXCEPT !.cookies = jar, !.sidSeen = jar = "sid"]
             IN Reads(IF Complete(seen)
                      THEN Returns("harvested", seen.cookies, seen.ticket)
                      ELSE [seen EXCEPT !.pc = "drain"])

----------------------------------------------------------------------------
(* cas-login, and the shorter login of E11 after an interactive harvest, from *)
(* the import of the cookies to the session file. Any request may fail.       *)
Goes(from, to) ==
    /\ login = from /\ login' = to
    /\ UNCHANGED <<mode, user, past, harvest>>

ImportCookies ==
    /\ harvest.pc = "harvested" /\ UNCHANGED confirmed
    /\ Goes("idle", "config") \/ Goes("idle", "failed")
PostLoginConfig == (Goes("config", "online") \/ Goes("config", "failed")) /\ UNCHANGED confirmed

(* onlineInfo succeeds only in a complete session *)
OnlineInfo ==
    \/ account = "full" /\ Goes("online", "established") /\ confirmed' = TRUE
    \/ Goes("online", IF mode = "interactive" THEN "failed" ELSE "check") /\ UNCHANGED confirmed

(* authCheck names the next step, or none; then only the ticket is left *)
FirstCheck ==
    \/ account # "full" /\ Goes("check", "interaction") /\ UNCHANGED confirmed
    \/ Goes("check", IF harvest.exchange = 0 THEN "failed" ELSE "report") /\ UNCHANGED confirmed

ReportEnv == (Goes("report", "portalCheck") \/ Goes("report", "failed")) /\ UNCHANGED confirmed

SecondCheckSkipped ==
    \/ account = "full" /\ Goes("portalCheck", "established") /\ confirmed' = TRUE
    \/ Goes("portalCheck", "established") /\ UNCHANGED confirmed
(* authCheck, asked once more when it only names itself *)
PortalCheck ==
    \/ account = "full" /\ Goes("portalCheck", "established") /\ confirmed' = TRUE
    \/ account # "full" /\ Goes("portalCheck", "interaction") /\ UNCHANGED confirmed
    \/ Goes("portalCheck", "failed") /\ UNCHANGED confirmed

(* build_session_material needs a SID among the harvested cookies *)
SaveSession ==
    /\ Goes("established", IF harvest.cookies \in {"sid", "legacy"} THEN "saved" ELSE "unsaved")
    /\ UNCHANGED confirmed

BrowserNext ==
    \/ \E m \in {"manual", "interactive", "automatic"} : BeginLogin(m)
    \/ \E p \in {"external", "gateway", "portal"} : Navigates(p)
    \/ \E n \in 0..MaxVisits : Emits(n)
    \/ StepsCompleted \/ UserCloses \/ DeadlinePasses
    \/ DrainEvent \/ DrainDone \/ ReadUrl \/ ReadCookies
    \/ ImportCookies \/ PostLoginConfig \/ OnlineInfo \/ FirstCheck \/ ReportEnv
    \/ PortalCheck \/ SaveSession

(* The loop runs and time passes; nothing is assumed of user and browser. *)
BrowserFairness ==
    /\ WF_browserVars(DeadlinePasses)
    /\ WF_browserVars(DrainEvent) /\ WF_browserVars(DrainDone)
    /\ WF_browserVars(ReadUrl) /\ WF_browserVars(ReadCookies)

BrowserSpec == BrowserInit /\ [][BrowserNext]_browserVars /\ BrowserFairness

----------------------------------------------------------------------------
BrowserTypeOK ==
    /\ mode \in {"none", "manual", "interactive", "automatic"}
    /\ page \in {"external", "gateway", "portal", "closed"}
    /\ visits \in 0..MaxVisits /\ Len(events) <= MaxEvents /\ past \in BOOLEAN
    /\ harvest.ticket \in 0..MaxVisits /\ harvest.cookies \in Jars
    /\ harvest.pc \in {"begin", "drain", "url", "cookies", "timeout", "nothing",
                       "interaction", "harvested"}
    /\ login \in {"idle", "config", "online", "check", "report", "portalCheck", "established",
                  "interaction", "failed", "saved", "unsaved"}
    /\ account \in {"none", "partial", "full"} /\ confirmed \in BOOLEAN

(* A session is saved only if the gateway called the login complete after the *)
(* harvest, and with a SID; a ticket is used only from a portal page that was *)
(* really visited, and in an open browser only after a look at the cookies.   *)
SavedSessionConfirmed ==
    /\ login = "saved" => confirmed /\ harvest.cookies \in {"sid", "legacy"}
    /\ login \notin {"idle", "failed"} => harvest.cookies # "empty"
    /\ harvest.exchange <= visits

(* Once the browser sends no more events, the deadline ends the loop. *)
QuietLoginEnds == <>[](events = <<>>) => (Running ~> ~Running)

(* A login through the browser comes to an end, and what it saves is a        *)
(* session that the gateway has confirmed.                                    *)
LoginIsSound == []SavedSessionConfirmed /\ QuietLoginEnds
=============================================================================
