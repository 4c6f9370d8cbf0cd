---------------------------- MODULE MCScoringGraph ----------------------------
(***************************************************************************)
(* Instances of ScoringGraph for TLC: histories on both sides of the       *)
(* rules' thresholds, and customers on both sides of the risk gate.        *)
(***************************************************************************)
EXTENDS ScoringGraph

Paid(m, a) == [month |-> m, credit |-> TRUE, amount |-> a, mcc |-> "none", words |-> {}]
Bought(m, a, mcc, words) ==
  [month |-> m, credit |-> FALSE, amount |-> a, mcc |-> mcc, words |-> words]

\* A doubtful wedding; a sure one with a bonus; vendors and instalments; a
\* medical expense below and one above the effective threshold; a wire to a
\* school; nothing.
MCHistories ==
  { <<Bought(5, 25, "jewellery", {})>>,
    <<Paid(4, 60), Bought(5, 30, "none", {"jewellery"}), Bought(5, 15, "events_entertainment", {}),
      Paid(6, 120)>>,
    <<Paid(5, 90), Paid(6, 90), Bought(3, 60, "finance", {"emi"}), Bought(4, 5, "finance", {}),
      Bought(5, 50, "none", {"emi"}), Bought(6, 4, "none", {"emi"})>>
      \o [i \in 1..6 |-> Bought(6, 1, "none", {"vendor_payments"})],
    <<Bought(6, 79, "medical_hospital", {})>>,
    <<Bought(6, 80, "grocery", {"medical_hospital"}), Bought(6, 60, "grocery", {"wire"})>>,
    <<Paid(6, 400), Bought(6, 250, "none", {"wire", "education_testing"}),
      Bought(4, 10, "education_testing", {"investor"})>>,
    <<>> }

Person(tier, score, salary, liabilities, persona, holdings) ==
  [tier |-> tier, score |-> score, salary |-> salary, liabilities |-> liabilities,
   persona |-> persona, holdings |-> holdings]

MCProfiles ==
  { Person("low", 780, 90, 0, "young_it_professional", {}),
    Person("low", 640, 90, 600, "startup_founder", {"gold_loan"}),
    Person("high", 700, 0, 0, "corporate_professional", {"personal_loan"}),
    Person("medium", 0, 50, 0, "young_it_professional", {"wealth_advisory", "mutual_fund"}) }

==============================================================================
