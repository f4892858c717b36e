----------------------------- MODULE SearchPage -----------------------------
(***************************************************************************)
(* fetch_search_results_page() of playwright_client.py: one page of results*)
(* taken from the answers that LinkedIn's client in the browser receives   *)
(* while the page loads, and what extract_records() makes of its cards.    *)
(* Playwright runs the handler of a response between any two steps of the  *)
(* function, and goes on with other responses while a body is being read.  *)
(***************************************************************************)
EXTENDS SearchResults

CONSTANTS
  NoText,         \* the description of a card that has none
  MaxResponses    \* bound on the responses with one of the two URLs

ASSUME SearchPageAssumption ==
  MaxResponses \in Nat /\ NoText \notin Job

VARIABLES
  listed,        \* the jobs of this page, in LinkedIn's order
  quality,       \* what LinkedIn sends of each of them
  sent,          \* the number of responses so far
  reading,       \* responses whose text() has not come back yet
  captured,      \* captured_cards_body and captured_descriptions_body
  pc,
  browser,       \* the persistent context on the account's profile
  result         \* what the function returns or raises

site == <<listed, quality>>
network == <<sent, reading, captured>>
pageVars == <<site, network, pc, browser, result>>

Pages == {list \in SeqOf(Job, PageSize) : IsInjective(list)}

(* The two URLs that are looked for. *)
Kind == {"cards", "descriptions"}

(* A card names a job that is not among the included ones, or lacks a field. *)
Quality == {"whole", "partial", "unresolved"}

(* A body that is not JSON, one without elements (an error, whatever its HTTP *)
(* status), the cards of this page, or the descriptions of some of its jobs,  *)
(* in the order in which they are included.                                   *)
Body(kind) ==
  [is : {"garbage", "nothing"}, of : {<<>>}]
    \cup IF kind = "cards" THEN {[is |-> "cards", of |-> listed]}
         ELSE {[is |-> "descriptions", of |-> list] :
                 list \in {l \in Pages : ToSet(l) \subseteq ToSet(listed)}}

Card == [job : Job, text : Job \cup {NoText}]
Failure == {"launch", "navigation", "navigationTimeout", "noAnswer", "notJSON"}

PageTypeOK ==
  /\ listed \in Pages /\ quality \in [Job -> Quality]
  /\ sent \in 0..MaxResponses
  /\ \A response \in reading : response.kind \in Kind /\ response.body \in Body(response.kind)
  /\ DOMAIN captured = Kind /\ \A kind \in Kind : captured[kind] \in Seq(Body(kind))
  /\ pc \in {"launch", "goto", "cards", "descriptions", "closing", "done"}
  /\ browser \in {"closed", "open"}
  /\ result.is \in {"none", "page"} \cup Failure
  /\ result.cards \in SeqOf(Card, PageSize)

PageInit ==
  /\ listed \in Pages /\ quality \in [Job -> Quality]
  /\ sent = 0 /\ reading = {} /\ captured = [kind \in Kind |-> <<>>]
  /\ pc = "launch" /\ browser = "closed"
  /\ result = [is |-> "none", cards |-> <<>>]

-----------------------------------------------------------------------------
(* _on_response(): a URL that is looked for, and of which no body has been     *)
(* read so far.  Of two such responses both are read, and the first to be      *)
(* read through is used.                                                       *)
Respond(kind) ==
  /\ browser = "open" /\ pc # "closing"
  /\ sent < MaxResponses
  /\ sent' = sent + 1
  /\ IF captured[kind] = <<>>
       THEN \E body \in Body(kind) : reading' = reading \cup {[kind |-> kind, body |-> body]}
       ELSE UNCHANGED reading
  /\ UNCHANGED <<site, captured, pc, browser, result>>

(* response.text() comes back, or fails, which is suppressed. *)
ReadBody(response) ==
  /\ browser = "open" /\ pc # "closing"
  /\ reading' = reading \ {response}
  /\ \/ captured' = [captured EXCEPT ![response.kind] = Append(@, response.body)]
     \/ UNCHANGED captured
  /\ UNCHANGED <<site, sent, pc, browser, result>>

-----------------------------------------------------------------------------
Return(page) == pc' = "closing" /\ result' = [is |-> "page", cards |-> page]
Raise(failure) == pc' = "closing" /\ result' = [is |-> failure, cards |-> <<>>]

(* launch_persistent_context(), before the try block. *)
Launch ==
  /\ pc = "launch"
  /\ \/ pc' = "goto" /\ browser' = "open" /\ UNCHANGED result
     \/ pc' = "done" /\ result' = [is |-> "launch", cards |-> <<>>] /\ UNCHANGED browser
  /\ UNCHANGED <<site, network>>

(* A slip: a time-out of goto() is an error whatever has been captured. *)
NavigateOrFail ==
  /\ pc = "goto"
  /\ \/ pc' = "cards" /\ UNCHANGED result
     \/ Raise("navigationTimeout")
     \/ Raise("navigation")
  /\ UNCHANGED <<site, network, browser>>

(* goto() returns, is too slow, or fails in another way. *)
Navigate ==
  /\ pc = "goto"
  /\ \/ pc' = "cards" /\ UNCHANGED result
     \/ captured["cards"] = <<>> /\ Raise("navigationTimeout")
     \/ Raise("navigation")
  /\ UNCHANGED <<site, network, browser>>

(* _parse_job_cards_response(): the elements that can be resolved, in order. *)
IsResolved(jobs, body) ==
  /\ jobs \in Deliverable(body.of)
  /\ ToSet(jobs) = {j \in ToSet(body.of) : quality[j] # "unresolved"}

(* The cards have come. *)
TakeCards ==
  /\ pc = "cards" /\ captured["cards"] # <<>>
  /\ IF captured["cards"][1].is = "garbage" THEN Raise("notJSON")
     ELSE IF IsResolved(<<>>, captured["cards"][1]) THEN Return(<<>>)
     ELSE pc' = "descriptions" /\ UNCHANGED result
  /\ UNCHANGED <<site, network, browser>>

(* A slip: no answer in time is taken for a page without jobs. *)
GiveUpOnCardsQuietly ==
  /\ pc = "cards" /\ captured["cards"] = <<>>
  /\ Return(<<>>)
  /\ UNCHANGED <<site, network, browser>>

(* A slip: _wait_until() has no deadline. *)
WaitForEver == FALSE

(* JobCardsResponseTimeoutError: no answer has come in time. *)
GiveUpOnCards ==
  /\ pc = "cards" /\ captured["cards"] = <<>>
  /\ Raise("noAnswer")
  /\ UNCHANGED <<site, network, browser>>

(* A slip: the descriptions are matched to the cards by their position. *)
DescribedInTurn(jobs, body) ==
  [i \in DOMAIN jobs |->
     [job |-> jobs[i], text |-> IF i \in DOMAIN body.of THEN body.of[i] ELSE NoText]]

(* The cards, each with the description that was sent of its job, if any. *)
Described(jobs, body) ==
  [i \in DOMAIN jobs |->
     [job |-> jobs[i],
      text |-> IF body.is = "descriptions" /\ jobs[i] \in ToSet(body.of) THEN jobs[i] ELSE NoText]]

(* The descriptions have come, or have not come in time. *)
TakeDescriptions ==
  /\ pc = "descriptions"
  /\ LET body == IF captured["descriptions"] = <<>> THEN [is |-> "nothing", of |-> <<>>]
             ELSE captured["descriptions"][1]
     IN IF body.is = "garbage" THEN Raise("notJSON")
        ELSE \E jobs \in SeqOf(Job, PageSize) :
               IsResolved(jobs, captured["cards"][1]) /\ Return(Described(jobs, body))
  /\ UNCHANGED <<site, network, browser>>

(* finally: context.close(), whatever is still being read. *)
Close ==
  /\ pc = "closing"
  /\ pc' = "done" /\ browser' = "closed" /\ reading' = {}
  /\ UNCHANGED <<site, sent, captured, result>>

PageOver == pc = "done" /\ UNCHANGED pageVars

Step == Launch \/ Navigate \/ TakeCards \/ GiveUpOnCards \/ TakeDescriptions \/ Close

PageNext ==
  \/ Step \/ PageOver
  \/ \E kind \in Kind : Respond(kind)
  \/ \E response \in reading : ReadBody(response)

PageSpec == PageInit /\ [][PageNext]_pageVars

(* goto() and both waits have a time-out. *)
FairPageSpec == PageSpec /\ WF_pageVars(Step)
-----------------------------------------------------------------------------
(* extract_records(): a card without one of its fields is skipped. *)
Records(page) == {card \in ToSet(page) : quality[card.job] = "whole" /\ card.text # NoText}

(* For Collector, a card is its job. *)
JobsOf(page) == [i \in DOMAIN page |-> page[i].job]
-----------------------------------------------------------------------------
(* M11.1: a page without cards ends the query as a complete one, so it must     *)
(* rest on an answer to the request for cards; silence is a failure, which is   *)
(* tried again.  (That the answer may be an error without elements is what      *)
(* Collector!Fetch allows for.)  The first conjunct types the state.            *)
EmptyIsAnswered ==
  /\ PageTypeOK
  /\ result.is = "page" /\ result.cards = <<>> =>
       /\ captured["cards"] # <<>> /\ captured["cards"][1].is \in {"cards", "nothing"}
       /\ captured["cards"][1].is = "cards" => \A j \in ToSet(listed) : quality[j] = "unresolved"

(* M10.2: answers are not thrown away for the time something else takes: lack  *)
(* of time ends the function only with no cards captured, and a card goes       *)
(* without a description only if the one body that was captured lacks it.       *)
CapturedIsUsed ==
  /\ result.is \in {"navigationTimeout", "noAnswer"} => captured["cards"] = <<>>
  /\ result.is = "page" =>
       \A i \in DOMAIN result.cards : result.cards[i].text = NoText =>
         \/ captured["descriptions"] = <<>>
         \/ result.cards[i].job \notin ToSet(captured["descriptions"][1].of)

(* What the collector counts on and job history is kept by: the cards are jobs  *)
(* of this page, in LinkedIn's order, and no record carries the description of  *)
(* another job, in whatever order the answers come and are read.                *)
RecordsAreTheirOwn ==
  /\ \A i \in DOMAIN result.cards : result.cards[i].text \in {result.cards[i].job, NoText}
  /\ \A card \in Records(result.cards) : card.text = card.job
  /\ JobsOf(result.cards) \in Deliverable(listed)

(* Whatever LinkedIn sends or does not, the function ends and the browser is    *)
(* closed: the profile is free for the next page.                               *)
PageEnds == <>(pc = "done" /\ browser = "closed")
=============================================================================
