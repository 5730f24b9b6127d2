--------------------------- MODULE MCHttpConnection ---------------------------
(***************************************************************************)
(* Instances of HttpConnection for TLC.                                    *)
(***************************************************************************)
EXTENDS HttpConnection

AllThree == <<"WebSockets", "ServerSentEvents", "LongPolling">>

(* What an ASP.NET Core server answers with: these transports, in this     *)
(* order, without those it has disabled.                                   *)
MCOffers ==
    {AllThree, Tail(AllThree), Tail(Tail(AllThree)), <<"WebSockets">>, <<>>}
=============================================================================
