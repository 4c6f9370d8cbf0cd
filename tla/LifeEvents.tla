------------------------------ MODULE LifeEvents ------------------------------
(***************************************************************************)
(* What the deterministic agents of the scoring graph compute: the summary *)
(* of a customer's transactions, the life events its rules detect, the     *)
(* risk assessment, the opportunities and the recommended products.        *)
(*                                                                         *)
(*   services/orchestrator/agents/transaction_intel.py, event_detection.py,*)
(*   risk_assessment.py, opportunity_scoring.py, product_rec.py            *)
(*   shared/models/agent_state.py                                          *)
(*                                                                         *)
(* Amounts are thousands of rupees, shares and confidences are per mille.  *)
(* A transaction is [month, credit, amount, mcc, words]: a calendar month  *)
(* from 1 to 6, of which the last three are the 90 days; the category of   *)
(* its MCC; and the keyword families its merchant or its notes match.      *)
(* Zero stands for None where the code tells an absent amount by its truth.*)
(***************************************************************************)
EXTENDS Integers, FiniteSets, SequencesExt

Months == 1..6

\* The direction is a column of its own, and the amount carries no sign.
Transactions ==
  [month : Months, credit : BOOLEAN, amount : Nat, mcc : STRING, words : SUBSET STRING]

RecentMonths == 4..6

MccCategories ==
  {"jewellery", "hospitality", "events_entertainment", "travel", "luxury_retail",
   "education_testing", "international_transfer", "medical_hospital", "real_estate",
   "business_services", "vendor_payments", "gst_tax", "grocery", "banking_transfer"}

\* The order of the keyword fallback.
KeywordOrder ==
  <<"jewellery", "events_entertainment", "education_testing", "medical_hospital",
    "real_estate", "gst_tax", "vendor_payments">>

\* An international wire is one whatever its MCC says; the keywords of the
\* merchant's name only count when the MCC says nothing.
Category(t) ==
  LET hits == {i \in DOMAIN KeywordOrder : KeywordOrder[i] \in t.words}
  IN IF "wire" \in t.words THEN "international_transfer"
     ELSE IF t.mcc \in MccCategories THEN t.mcc
     ELSE IF hits # {} THEN KeywordOrder[Min(hits)]
     ELSE "other"

\* The amounts of the transactions of h whose indices are in S.
Total(h, S) == MapThenSumSet(LAMBDA i : h[i].amount, S)
Largest(h, S) == IF S = {} THEN 0 ELSE Max({h[i].amount : i \in S})

------------------------------------------------------------------------------
(* TransactionIntelAgent._analyse.                                         *)

Credits(h) == {i \in DOMAIN h : h[i].month \in RecentMonths /\ h[i].credit}
Debits(h) == {i \in DOMAIN h : h[i].month \in RecentMonths /\ ~h[i].credit}
Spent(h, cat) == Total(h, {i \in Debits(h) : Category(h[i]) = cat})

\* Salary heuristic: the largest credit above 10 000 of each month.
PayMonths(h) == {h[i].month : i \in {k \in Credits(h) : h[k].amount > 10}}
Pay(h, m) == Largest(h, {i \in Credits(h) : h[i].month = m})
LastPay(h) == Pay(h, Max(PayMonths(h)))
PayBefore(h) == Pay(h, Max(PayMonths(h) \ {Max(PayMonths(h))}))

\* The salary needs two months; growth compares the last two, and so at most
\* one increase is ever counted.
Salary(h) ==
  IF Cardinality(PayMonths(h)) < 2 THEN [average |-> 0, growth |-> 0, raises |-> 0]
  ELSE [average |-> MapThenSumSet(LAMBDA m : Pay(h, m), PayMonths(h))
                      \div Cardinality(PayMonths(h)),
        growth |-> ((LastPay(h) - PayBefore(h)) * 1000) \div PayBefore(h),
        raises |-> IF LastPay(h) * 10 > PayBefore(h) * 12 THEN 1 ELSE 0]

Summary(h) ==
  [salary |-> Salary(h),
   large |-> Largest(h, {i \in Credits(h) : h[i].amount > 50}),
   jewellery |-> Spent(h, "jewellery"),
   banquet |-> Spent(h, "events_entertainment"),
   education |-> Spent(h, "education_testing"),
   forex |-> Spent(h, "international_transfer"),
   hospital |-> Largest(h, {i \in Debits(h) : h[i].mcc = "medical_hospital"
                                                \/ "medical_hospital" \in h[i].words}),
   property |-> Spent(h, "real_estate"),
   vendors |-> Cardinality({i \in Debits(h) : Category(h[i]) = "vendor_payments"}),
   investor |-> \E i \in Debits(h) : "investor" \in h[i].words,
   savings |-> LET in == Total(h, Credits(h))
               IN IF in = 0 THEN 0 ELSE ((in - Total(h, Debits(h))) * 1000) \div in]

------------------------------------------------------------------------------
(* EventDetectionAgent: a rule's confidence, zero when it does not fire.   *)

Flag(b) == IF b THEN 1 ELSE 0
AtMostOne(c) == Min({1000, c})

\* Each spend counts one of the two signals required, a large credit half.
WeddingRule(s) ==
  LET halves == 2 * Flag(s.jewellery >= 25) + 2 * Flag(s.banquet >= 15)
                  + Flag(s.large > 100)
  IN IF halves < 2 THEN 0 ELSE AtMostOne(halves * 250)

\* No category is named for furniture or interiors, so the bonus never comes.
HomePurchaseRule(s) == IF s.property = 0 THEN 0 ELSE 700

\* Nor is one named for visas.
ForeignEducationRule(s) == 500 * (Flag(s.education > 0) + Flag(s.forex > 50))

PromotionRule(s) ==
  LET signals == Flag(s.salary.raises >= 2)
                   + Flag(s.large > 100 /\ s.salary.growth > 100)
  IN IF signals = 0 THEN 0 ELSE AtMostOne(500 + 250 * signals)

\* gst_payment_qoq_growth is never set.
BusinessExpansionRule(s) == IF s.vendors > 5 THEN 700 ELSE 0

MedicalRule(s) ==
  IF s.hospital < 50 THEN 0 ELSE AtMostOne(500 + (s.hospital * 5) \div 2)

RetirementPlanningRule(s) ==
  IF s.investor /\ s.savings >= 200 THEN 500 + Min({400, s.savings}) ELSE 0

WealthMigrationRule(s) ==
  CASE s.forex >= 1000 -> 1000
    [] s.forex >= 200 /\ s.forex < 1000 -> 800
    [] OTHER -> 0

\* The rules in their order of evaluation.
RuleNames ==
  <<"wedding", "home_purchase", "foreign_education", "promotion",
    "business_expansion", "medical", "retirement_planning", "wealth_migration">>

EventNames == {RuleNames[i] : i \in DOMAIN RuleNames}

MinConfidence ==
  [e \in EventNames |->
     CASE e = "wedding" -> 400
       [] e = "home_purchase" -> 600
       [] e \in {"foreign_education", "promotion"} -> 500
       [] e \in {"business_expansion", "retirement_planning"} -> 450
       [] OTHER -> 700]

RuleConfidence(s) ==
  [e \in EventNames |->
     CASE e = "wedding" -> WeddingRule(s)
       [] e = "home_purchase" -> HomePurchaseRule(s)
       [] e = "foreign_education" -> ForeignEducationRule(s)
       [] e = "promotion" -> PromotionRule(s)
       [] e = "business_expansion" -> BusinessExpansionRule(s)
       [] e = "medical" -> MedicalRule(s)
       [] e = "retirement_planning" -> RetirementPlanningRule(s)
       [] e = "wealth_migration" -> WealthMigrationRule(s)]

Detected(s) ==
  LET c == RuleConfidence(s)
  IN FoldLeft(LAMBDA events, e : IF c[e] > 0 /\ c[e] >= MinConfidence[e]
                                 THEN Append(events, e) ELSE events,
              <<>>, RuleNames)

------------------------------------------------------------------------------
(* RiskAssessmentAgent, on the six months.                                 *)

EmiCategories == {"banking_transfer", "finance", "gst_tax"}
Emis(h) == {i \in DOMAIN h : ~h[i].credit /\ ("emi" \in h[i].words \/ h[i].mcc \in EmiCategories)}
EmiMonths(h) == {h[i].month : i \in Emis(h)}
Emi(h, m) == Total(h, {i \in Emis(h) : h[i].month = m})

\* A month whose instalments are under a fifth of those of the month before
\* it, among the months that have any.
MissedEmis(h) ==
  Cardinality({m \in EmiMonths(h) :
     LET before == {k \in EmiMonths(h) : k < m}
     IN before # {} /\ Emi(h, m) * 5 < Emi(h, Max(before))})

\* Instalments per income.  The salary of the profile counts only when there
\* is a summary: `cp.salary_avg_3m or ts.salary_avg_3m if ts else None`.
EmiToIncome(p, h, summarised) ==
  LET salary == CASE ~summarised -> 0
                  [] summarised /\ p.salary > 0 -> p.salary
                  [] OTHER -> Salary(h).average
      emi == Total(h, Emis(h)) \div Max({1, Cardinality(EmiMonths(h))})
  IN IF salary = 0 THEN 0 ELSE (emi * 1000) \div salary

Poor(score) == score # 0 /\ score < 650

\* The tier only ever starts from the database's: a poor score or two missed
\* instalments make it high, and a high share of instalments medium.
RiskTier(p, h, summarised) ==
  IF Poor(p.score) \/ MissedEmis(h) >= 2 THEN "high"
  ELSE IF EmiToIncome(p, h, summarised) > 400 THEN "medium"
  ELSE p.tier

Assessment(p, h, summarised) ==
  [tier |-> RiskTier(p, h, summarised), missed |-> MissedEmis(h),
   share |-> EmiToIncome(p, h, summarised)]

Eligible(risk) == risk.tier # "high" /\ risk.missed <= 2 /\ risk.share <= 500

------------------------------------------------------------------------------
(* OpportunityScoringAgent and ProductRecAgent.                            *)

EventProducts(e) ==
  CASE e = "wedding" -> {"personal_loan", "gold_loan"}
    [] e = "home_purchase" -> {"home_loan", "personal_loan"}
    [] e = "foreign_education" -> {"education_loan", "forex_card"}
    [] e = "promotion" -> {"wealth_advisory", "mutual_fund", "personal_loan"}
    [] e = "business_expansion" -> {"working_capital_loan", "current_account"}
    [] e = "medical" -> {"personal_loan", "health_insurance"}
    [] e = "retirement_planning" -> {"mutual_fund", "wealth_advisory", "fixed_deposit"}
    [] e = "wealth_migration" -> {"wealth_advisory", "mutual_fund"}

\* The loans the eligibility gate withholds.
GatedLoans == {"personal_loan", "education_loan"}

\* Mutant: the gate is not asked.
MutantUngated(p, events, risk) ==
  {o \in UNION {{[event |-> events[i], product |-> q] : q \in EventProducts(events[i])}
                  : i \in DOMAIN events} : o.product \notin p.holdings}

\* The opportunities: products of the detected events that the customer does
\* not hold; risk is {} when there is no assessment, and then nothing is
\* withheld.
Opportunities(p, events, risk) ==
  {o \in UNION {{[event |-> events[i], product |-> q] : q \in EventProducts(events[i])}
                  : i \in DOMAIN events} :
     /\ o.product \notin p.holdings
     /\ \A r \in risk : Eligible(r) \/ o.product \notin GatedLoans}

\* Liabilities per yearly salary above one half; unknown counts as none.
Indebted(p) == p.liabilities > 0 /\ p.salary > 0 /\ p.liabilities > p.salary * 6

HniPersonas == {"corporate_professional", "startup_founder"}
YoungPersonas == {"young_it_professional"}

Recommended(p, events) ==
  {q \in UNION {EventProducts(events[i]) : i \in DOMAIN events} :
     /\ q \notin p.holdings
     /\ q = "personal_loan" => ~Indebted(p)
     /\ q = "education_loan" => p.persona \in YoungPersonas}
  \cup (IF p.persona \in HniPersonas THEN {"wealth_advisory"} \ p.holdings ELSE {})

==============================================================================
