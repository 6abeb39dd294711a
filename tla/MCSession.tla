----------------------------- MODULE MCSession -----------------------------
(***************************************************************************)
(* Instances of Session for TLC.                                           *)
(***************************************************************************)
EXTENDS Session

\* With and without Token Based Registration; the empty SKU is a prefix of the
\* other.
MCSkuMaybe == {<<>>, <<"a">>}

\* Token Based Registration only.
MCSkuTbr == {<<"a">>}

\* The two request contexts are interchangeable.
RctxSymmetry == Permutations(Rctx)

=============================================================================
