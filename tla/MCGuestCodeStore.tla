-------------------------- MODULE MCGuestCodeStore --------------------------
(* Two codes; two redemptions that race on them.                           *)
EXTENDS GuestCodeStore

MCExpiry == {0, Never}
=============================================================================
