--------------------------- MODULE MCBillingEvents ---------------------------
(* BillingEvents with the events and rows that differ in what the code decides *)
EXTENDS BillingEvents

CONSTANTS p1, p2, s1, s2

Kind(to, p, s) == [to |-> to, plan |-> p, sid |-> s]
Row(st, p, s)  == [status |-> st, plan |-> p, sid |-> s]

\* checkouts of two plans, invoice.paid, a trial, payment_failed, canceled, expired, and
\* an event that is refused
MCKinds == {Kind("active", p1, s1), Kind("active", p2, s2), Kind("active", None, s1), Kind("trialing", p1, s1),
            Kind("past_due", None, s1), Kind("canceled", None, s1),
            Kind("expired", None, s1), Kind("bad", None, s1)}

MCStartRows == {Row("none", Free, None), Row("trialing", p1, s1), Row("active", p1, s1),
                Row("past_due", p1, s1), Row("canceled", p1, s1)}

=============================================================================
