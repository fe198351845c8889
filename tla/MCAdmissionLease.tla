-------------------------- MODULE MCAdmissionLease --------------------------
(* An instance of AdmissionLease: three members of whom the first two and    *)
(* the last two may form.                                                    *)
EXTENDS AdmissionLease, TLC

CONSTANTS n1, n2, n3

ChainCohorts == {{<<n1, 1>>, <<n2, 1>>}} \cup {{<<n2, b>>, <<n3, 1>>} : b \in 1 .. MaxRestarts + 1}
=============================================================================
