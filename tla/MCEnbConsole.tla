---------------------------- MODULE MCEnbConsole ----------------------------
(* EnbConsole for TLC: lines of one command and of two. *)
EXTENDS EnbConsole

MCLines == {<<"t">>, <<"q">>, <<"sleep">>, <<"p", "q">>, <<"sleep", "t">>}
=============================================================================
