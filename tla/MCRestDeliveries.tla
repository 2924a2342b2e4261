-------------------------- MODULE MCRestDeliveries --------------------------
(* An address and a routine, two workers, a series of three attempts.          *)
EXTENDS RestDeliveries

TwoWaits == <<1, 2>>

=============================================================================
