-------------------------- MODULE MCUpstreamRetry --------------------------
(***************************************************************************)
(* Bounds for UpstreamRetry.  Another request would do to the pool only    *)
(* what Vote (take an entry) and Validate (mark one) already do at any     *)
(* time, so that one request meets everything several can do to it.        *)
(***************************************************************************)
EXTENDS UpstreamRetry

CONSTANT spare

StartLists == {<<>>, <<spare>>, <<spare, Default>>}
=============================================================================
