---------------------------- MODULE MCDoneNotices ----------------------------
(* Two reads at once, notes of one page, an account and an address.            *)
EXTENDS DoneNotices

=============================================================================
