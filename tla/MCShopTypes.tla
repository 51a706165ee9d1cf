---------------------------- MODULE MCShopTypes ----------------------------
(***************************************************************************)
(* Instances of ShopTypes for TLC.                                         *)
(***************************************************************************)
EXTENDS ShopTypes, TLC

CONSTANTS food, cinema, hotel

ThreeTypes == <<food, cinema, hotel>>

AllFaults == {"refused", "resent", "dbFailed", "crash"}
=============================================================================
