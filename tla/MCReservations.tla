--------------------------- MODULE MCReservations ---------------------------
EXTENDS Reservations
=============================================================================
