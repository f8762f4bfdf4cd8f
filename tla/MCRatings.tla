------------------------------ MODULE MCRatings ------------------------------
(* Two shipments of one captain and one of another.  An average is kept as  *)
(* the sum and the number of the stars, which is finer than the quotient.   *)
EXTENDS Ratings, FiniteSetsExt, TLC

CONSTANTS s1, s2, s3, c1, c2

MCCaptainOf == s1 :> c1 @@ s2 :> c1 @@ s3 :> c2

SumAndCount(R) == <<MapThenSumSet(LAMBDA r : r[2], R), Cardinality(R)>>
==============================================================================
