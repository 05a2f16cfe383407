---------------------------- MODULE MCFileShare ----------------------------
(* Values of the constants of FileShare for TLC. *)
EXTENDS FileShare, TLC

CONSTANTS h1, h2, d1, d2, l1, alice, bob, tok

HandlerSymmetry == Permutations(Handlers)

Upload(id, total, shareable) ==
    [id |-> id, from |-> alice, to |-> bob, total |-> total,
     shareable |-> shareable]

Link(total, oneTime) ==
    [id \in LinkIds |-> [manage |-> tok, total |-> total, oneTime |-> oneTime]]

NoUploads   == {}
SmallUpload == {Upload(d1, 1, FALSE)}
\* start_upload under the id of a link, once the link is gone.
LinkIdAgain == {Upload(l1, 1, FALSE), Upload(l1, 2, TRUE)}
TwoAndFlag  == {Upload(d1, 1, FALSE), Upload(d1, 1, TRUE),
                Upload(d2, 1, FALSE)}

OneTimeOne == Link(1, TRUE)
OneTimeTwo == Link(2, TRUE)
Drive      == Link(1, FALSE)

=============================================================================
