------------------------------ MODULE KittySale ------------------------------
(***************************************************************************)
(* What the reservation service promises: a kitty is sold at most once, to *)
(* one user, against a deposit address of its own; a user gets one kitty;  *)
(* a user is only told of a sale that has happened.                        *)
(***************************************************************************)
CONSTANTS Kitties, Users, Addresses

VARIABLES
    sold,    \* the sales
    told     \* the sales that users have been told of

Sale == [kitty : Kitties, user : Users, addr : Addresses]

Init == sold = {} /\ told = {}

Sell(s) ==
    /\ \A t \in sold : t.kitty # s.kitty /\ t.user # s.user /\ t.addr # s.addr
    /\ sold' = sold \cup {s}
    /\ UNCHANGED told

Tell(s) ==
    /\ s \in sold
    /\ told' = told \cup {s}
    /\ UNCHANGED sold

Next == \E s \in Sale : Sell(s) \/ Tell(s)

Spec == Init /\ [][Next]_<<sold, told>>
=============================================================================
