--------------------------- MODULE CreditContract ---------------------------
(***************************************************************************)
(* What the credit service promises about one use of Liquid Credits: it is  *)
(* reserved once, and then settled once or released once, never both; a use *)
(* that is metered afterwards (a voice session) is charged once.  The ledger*)
(* (AiCredits) and the invocation lifecycle (AiInvocation) implement it.    *)
(***************************************************************************)

CONSTANTS
    Bookings,         \* uses of credits
    Metered,          \* the ones charged afterwards, without a reservation
    Found             \* the ones a deployment may already find under way

VARIABLE credit       \* status of each booking

States == {"NONE", "RESERVED", "SETTLED", "RELEASED"}

Init ==
    /\ credit \in [Bookings -> States]
    /\ \A b \in Bookings \ Found : credit[b] = "NONE"

Move(b, from, to) == credit[b] = from /\ credit' = [credit EXCEPT ![b] = to]

Reserve(b) == Move(b, "NONE", "RESERVED")
Settle(b) == Move(b, "RESERVED", "SETTLED")
Release(b) == Move(b, "RESERVED", "RELEASED")
Charge(b) == b \in Metered /\ Move(b, "NONE", "SETTLED")

Next == \E b \in Bookings : Reserve(b) \/ Settle(b) \/ Release(b) \/ Charge(b)

Spec == Init /\ [][Next]_credit
=============================================================================
