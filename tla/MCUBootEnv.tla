------------------------------ MODULE MCUBootEnv ------------------------------
(***************************************************************************)
(* setenv on an environment of a few variables.                            *)
(***************************************************************************)
EXTENDS UBootEnv

\* No name begins with another one.
PlainKeys  == {<<"a">>, <<"b">>}

MCValues == {<<>>, <<"p">>, <<"q">>, <<"p", "q">>}

MCInitEnvs == {<<>>, <<<<<<"a">>, <<"p">>>>, <<<<"b">>, <<"p", "q">>>>>>}
=============================================================================
