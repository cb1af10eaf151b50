---------------------------- MODULE MCReservation ----------------------------
(***************************************************************************)
(* Constants for model checking reservations: three kitties, one of them   *)
(* delivered before the first start; two users; two bitcoin addresses and  *)
(* a skycoin address.                                                      *)
(***************************************************************************)
EXTENDS Reservation, TLC

CONSTANTS k1, k2, k3, u1, u2, b1, b2, s1

BTC == "BTC"
SKY == "SKY"

MCKitties == {k1, k2, k3}
MCTwoKitties == {k1, k2}
MCUsers == {u1, u2}
MCCoinTypes == {BTC, SKY}
MCPool == (BTC :> {b1, b2}) @@ (SKY :> {s1})
MCListedStatus == [k \in Kitties |-> IF k = k3 THEN "delivered" ELSE "NONE"]

(* With dummy.scanner only bitcoin has a scanner. *)
MCDummyScanners == {BTC}
=============================================================================
