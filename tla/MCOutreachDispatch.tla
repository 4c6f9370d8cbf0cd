-------------------------- MODULE MCOutreachDispatch --------------------------
(***************************************************************************)
(* Instances of OutreachDispatch small enough for TLC: two approve calls,  *)
(* so two tasks, and one or two workers.  The daily limit needs three.     *)
(***************************************************************************)
EXTENDS OutreachDispatch, TLC

CONSTANTS c1, c2, phoneA, phoneB, mailA, s1, s2

SmallLimits == [ch \in Channels |-> 1]

\* One SMS campaign, approved more than once.
OneChannel == c1 :> "sms"
OneContact == c1 :> phoneA
OneSession == c1 :> s1
OtherSession == [c \in Campaigns |-> s2]
NoHeader == [c \in Campaigns |-> NoSession]

\* A WhatsApp and an e-mail campaign of one customer, drafted in one
\* streaming call, so that they share the vault of that call's session.
TwoChannels == c1 :> "whatsapp" @@ c2 :> "email"
TwoContacts == c1 :> phoneA @@ c2 :> mailA
SharedSession == c1 :> s1 @@ c2 :> s1

\* An SMS campaign, and an e-mail campaign to a customer with no e-mail.
OneReachable == c1 :> phoneA @@ c2 :> NoContact
SmsAndEmail == c1 :> "sms" @@ c2 :> "email"
EachSession == c1 :> s1 @@ c2 :> s1

\* The same for two customers: the calls carry one X-Session-ID.
TwoCustomers == c1 :> phoneA @@ c2 :> phoneB
TwoSms == c1 :> "sms" @@ c2 :> "sms"

Symmetry == Permutations(Workers) \cup Permutations(Requests)

==============================================================================
