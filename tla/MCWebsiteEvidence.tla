-------------------------- MODULE MCWebsiteEvidence --------------------------
(* A small instance of WebsiteEvidence.                                     *)
EXTENDS WebsiteEvidence, TLC

CONSTANTS p1, p2

\* The first prospect is hiring and is a founder, a founder's assistant or does not say, or it says
\* nothing at all; the second is a founder who is hiring.
SelfDescriptions ==
  p1 :> {f \in Find : \/ QualifiesAsPosting(f.post) /\ f.bio \subseteq {"assistant to the founder", "founder"}
                      \/ f.bio = {}}
    @@ p2 :> {f \in Find : QualifiesAsPosting(f.post) /\ f.bio = {"founder"}}

Blank == [headcount |-> 0, warehouse |-> FALSE, revenue |-> FALSE, funding |-> FALSE,
          quote |-> FALSE, announced |-> {}, notYet |-> {}]

\* An about page, a press page with real announcements and one of things to come, and a page beyond
\* the limit of two.
Site == <<[Blank EXCEPT !.headcount = 75, !.revenue = TRUE, !.warehouse = TRUE,
             !.announced = {"new_product_launch"}],
          [Blank EXCEPT !.quote = TRUE, !.revenue = TRUE, !.funding = TRUE,
             !.announced = {"store_brand_expansion", "funding_growth_announcement",
                            "funnel_offer_change"},
             !.notYet = {"funnel_offer_change"}],
          [Blank EXCEPT !.headcount = 76]>>
=============================================================================
