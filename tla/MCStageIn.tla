----------------------------- MODULE MCStageIn -----------------------------
(* Model-checking instance of StageIn: two archive names besides the       *)
(* default, archives of up to three entries.                               *)
EXTENDS StageIn

MCTokenLists == {<<>>, <<"a">>, <<"a", "main">>}
MCArchives == {<<>>, <<"other">>, <<"match", "nopath">>,
               <<"other", "other", "match">>, <<"match", "other", "match">>}
=============================================================================
