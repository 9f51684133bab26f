------------------------------ MODULE MCCharts ------------------------------
(* Small instances of Charts, and of History with it, in half minutes.     *)
EXTENDS Charts

=============================================================================
