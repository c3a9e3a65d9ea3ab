------------------------------- MODULE MCFile -------------------------------
(* Files of up to two bytes over three seconds; reading, writing anew with *)
(* reading, and appending.                                                 *)
EXTENDS File

MCModes == {[base |-> "r", update |-> FALSE], [base |-> "w", update |-> TRUE],
            [base |-> "a", update |-> FALSE]}
=============================================================================
