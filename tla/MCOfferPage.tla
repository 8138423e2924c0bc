------------------------------ MODULE MCOfferPage ------------------------------
(***************************************************************************)
(* One offer, one page: one unit of time until the deadline, a device      *)
(* clock that is right or ahead of the server's by as much.                *)
(***************************************************************************)
EXTENDS OfferPage
MCSkews == {0, 1}
===============================================================================
