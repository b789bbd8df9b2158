----------------------------- MODULE LeadScoring -----------------------------
(***************************************************************************)
(* The deterministic ICP score: the facts on record about a prospect       *)
(* (packages/core/src/scoring, and the readers of                          *)
(* packages/prospecting/src/evidence-assembly that collect them) mapped to *)
(* points, a tier and a rejection.                                         *)
(*                                                                         *)
(* A fact is its signal_category, a name no two evidence types share; a    *)
(* trigger is a row of type trigger_signal, with or without a source_url.  *)
(***************************************************************************)
EXTENDS Naturals, FiniteSets

RevenueSignals == {"employee_count_band", "shopify_plus_detected", "warehouse_fulfillment_signal",
                   "two_or_more_paid_acquisition_categories_present"}
PaidSignals == {"meta_ad_active_30d", "google_ads_active", "paid_media_job_posting_90d",
                "named_agency_client"}
Roles == {"role_founder_or_ceo", "role_director_with_authority_signal",
          "role_other_marketing_adjacent", "role_execution_only"}
DecisionMakerSignals == Roles \cup {"public_visibility", "correct_profile_identified"}
MaturitySignals == {"two_or_more_paid_channels", "two_or_more_retention_tools",
                    "analytics_tag_detected", "two_or_more_product_lines"}

\* SIGNAL_CATEGORIES; the two confirmed statements are not among the categories that are counted.
SignalCategories ==
  RevenueSignals \cup PaidSignals \cup MaturitySignals \cup DecisionMakerSignals
    \cup {"confirmed_revenue_statement", "confirmed_spend_statement",
          "confirmed_dtc_with_owned_funnel"}

ValidTriggerTypes == {"new_product_launch", "store_brand_expansion", "active_growth_hiring",
                      "funding_growth_announcement", "funnel_offer_change",
                      "new_paid_channel_appearing"}
-----------------------------------------------------------------------------
(* Reading the facts.                                                        *)

\* A new paid channel needs an earlier observation of its absence, which no row can hold.
ReadTriggerFacts(rows) ==
  {r \in rows : r.type \in ValidTriggerTypes \ {"new_paid_channel_appearing"} /\ r.sourced}

RetentionTools == {"Klaviyo", "Recharge", "Yotpo", "Gorgias"}
AnalyticsTags == {"GA4", "GTM", "Meta Pixel"}

\* What the latest OK scan detected, as maturity facts; never as paid activity.
ReadTechnologyEvidenceFacts(detected) ==
  (IF Cardinality(detected \cap RetentionTools) >= 2 THEN {"two_or_more_retention_tools"} ELSE {})
    \cup (IF detected \cap AnalyticsTags # {} THEN {"analytics_tag_detected"} ELSE {})
-----------------------------------------------------------------------------
(* Normalizing them.                                                         *)

\* Two triggers of one type count once; no fact holds the earlier absence of a channel.
CountVerifiedTriggers(rows) ==
  Cardinality({r.type : r \in {q \in rows : q.sourced /\ q.type # "new_paid_channel_appearing"}})

\* The role with the most authority wins; no role on record counts as execution only.
DecisionMakerRoleTier(facts) ==
  CASE "role_founder_or_ceo" \in facts -> "founder_or_ceo"
    [] "role_director_with_authority_signal" \in facts /\ "role_founder_or_ceo" \notin facts ->
         "director_with_authority_signal"
    [] "role_other_marketing_adjacent" \in facts
         /\ facts \cap {"role_founder_or_ceo", "role_director_with_authority_signal"} = {} ->
         "other_marketing_adjacent"
    [] OTHER -> "execution_only"

\* The one exclusion that follows from the facts; the caller determines the others.
NoPaidAcquisitionActivity(facts) ==
  facts \cap PaidSignals = {} /\ "confirmed_spend_statement" \notin facts
-----------------------------------------------------------------------------
(* The factors.                                                              *)

Weights == [revenueFit |-> 25, paidAcquisition |-> 25, maturity |-> 15, decisionMaker |-> 15,
            trigger |-> 15, dtcFit |-> 5]

Percent == [CONFIRMED |-> 100, STRONG_EVIDENCE |-> 80, LIKELY |-> 40, UNKNOWN |-> 0]

\* Faulty variant: a single category is as good as two.
TierFromAnyCategory(count, confirmed) ==
  CASE confirmed -> "CONFIRMED" [] ~confirmed /\ count >= 1 -> "CONFIRMED" [] OTHER -> "UNKNOWN"

TierFromCategoryCount(count, confirmed) ==
  CASE confirmed -> "CONFIRMED"
    [] ~confirmed /\ count >= 2 -> "STRONG_EVIDENCE"
    [] ~confirmed /\ count = 1 -> "LIKELY"
    [] OTHER -> "UNKNOWN"

\* What a primary source has disclosed follows from the same tier.
DisclosureStatus(tier) ==
  IF tier \in {"CONFIRMED", "UNKNOWN"} THEN tier ELSE "NOT_CONFIRMED"

CountRevenueFitCategories(facts) == Cardinality(facts \cap RevenueSignals)
CountPaidAcquisitionCategories(facts) == Cardinality(facts \cap PaidSignals)

RevenueFitTier(facts) ==
  TierFromCategoryCount(CountRevenueFitCategories(facts), "confirmed_revenue_statement" \in facts)

PaidAcquisitionTier(facts) ==
  TierFromCategoryCount(CountPaidAcquisitionCategories(facts), "confirmed_spend_statement" \in facts)

PointsForTier(max, tier) == (max * Percent[tier]) \div 100

If(condition, points) == IF condition THEN points ELSE 0

MaturityPoints(facts) ==
  If("two_or_more_paid_channels" \in facts, 5) + If("two_or_more_retention_tools" \in facts, 5)
    + If("analytics_tag_detected" \in facts, 3) + If("two_or_more_product_lines" \in facts, 2)

RolePoints == [founder_or_ceo |-> 8, director_with_authority_signal |-> 6,
               other_marketing_adjacent |-> 3, execution_only |-> 0]

DecisionMakerPoints(facts) ==
  RolePoints[DecisionMakerRoleTier(facts)]
    + If("public_visibility" \in facts, 4) + If("correct_profile_identified" \in facts, 3)

\* Faulty variant: no points for more than two triggers.
TriggerPointsForTwo(triggers) ==
  LET verified == CountVerifiedTriggers(ReadTriggerFacts(triggers))
  IN  If(verified = 1, 10) + If(verified = 2, 15)

TriggerPoints(triggers) ==
  LET verified == CountVerifiedTriggers(ReadTriggerFacts(triggers))
  IN  If(verified = 1, 10) + If(verified >= 2, 15)

DtcFitPoints(facts) == If("confirmed_dtc_with_owned_funnel" \in facts, 5)
-----------------------------------------------------------------------------
(* The score.                                                                *)

\* checkExclusion: any single reason is enough.
Excluded(facts, determined) == determined \/ NoPaidAcquisitionActivity(facts)

Total(facts, triggers) ==
  PointsForTier(Weights.revenueFit, RevenueFitTier(facts))
    + PointsForTier(Weights.paidAcquisition, PaidAcquisitionTier(facts))
    + MaturityPoints(facts) + DecisionMakerPoints(facts)
    + TriggerPoints(triggers) + DtcFitPoints(facts)

TierForScore(score) ==
  CASE score >= 90 -> "A" [] score \in 75..89 -> "B" [] score \in 60..74 -> "C" [] OTHER -> "Reject"

\* scoreProspect: no score at all for an excluded prospect, whatever its breakdown adds up to.
ScoreProspect(facts, triggers, determined) ==
  LET excluded == Excluded(facts, determined)
      total == Total(facts, triggers)
  IN  [scored |-> ~excluded,
       score |-> IF excluded THEN 0 ELSE total,
       tier |-> IF excluded THEN "Reject" ELSE TierForScore(total),
       revenueDisclosureStatus |-> DisclosureStatus(RevenueFitTier(facts)),
       spendDisclosureStatus |-> DisclosureStatus(PaidAcquisitionTier(facts)),
       missingEvidence |-> {f \in {"revenueFit", "paidAcquisition"} :
                              "UNKNOWN" = IF f = "revenueFit" THEN RevenueFitTier(facts)
                                                              ELSE PaidAcquisitionTier(facts)}]
=============================================================================
