----------------------------- MODULE MCMetaApi -----------------------------
(* A small instance of MetaApi: three calls.  The day's counter shares no  *)
(* state with the rest, so its calls need no mix with the others.          *)
EXTENDS MetaApi

ThreeCalls == {<<"client", "client", "meta">>, <<"client", "meta", "meta">>,
               <<"daily", "daily", "daily">>}

=============================================================================
