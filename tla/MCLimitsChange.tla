--------------------------- MODULE MCLimitsChange ---------------------------
(***************************************************************************)
(* An instance of LimitsChange for TLC.                                    *)
(***************************************************************************)
EXTENDS LimitsChange, MCSyouyu

\* The creation of a credential, under the limits before and after a change.
RaisedRequests ==
  {Reconcile(k1, s1, 1)} \cup {[Create(k2, s1) EXCEPT !.perBucket = m] : m \in {1, 2}}

RaisedCourses == {[requests |-> RaisedRequests, faults |-> 1]}
=============================================================================
