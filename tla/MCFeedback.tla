----------------------------- MODULE MCFeedback -----------------------------
(* Values of the constants of Feedback for TLC. *)
EXTENDS Feedback, TLC

CONSTANTS i1, i2, r1, r2, standalone, inHouse

\* Two requests for one ad unit each, or one request for two.
TwoRequests == i1 :> r1 @@ i2 :> r2
OneRequest == i1 :> r1 @@ i2 :> r1
OneProfile == r1 :> standalone
TwoProfiles == r1 :> standalone @@ r2 :> inHouse

PostSymmetry == Permutations(Posts)

=============================================================================
