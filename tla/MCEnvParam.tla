----------------------------- MODULE MCEnvParam -----------------------------
(* Instances of EnvParam for TLC. *)
EXTENDS EnvParam

\* "e" begins "et" and "t" ends it; "etd" is cut to "et" by get_env_param.
someNames == {<<"e">>, <<"e", "t">>, <<"t">>, <<"e", "t", "d">>}

\* A short, an empty and a long value, one that ends in a name, and one with '='.
someValues ==
  {<<"1">>, <<>>, <<"2", "2", "2", "2", "2", "2", "2">>, <<"2", "t">>, <<"1", "=", "t">>}

\* A new environment and two with two parameters.
someSectors ==
  {<<>>,
   <<"e", "t", "=", "1", "=", "2", "2", NUL, "t", "=", "1", NUL>>,
   <<"e", "t", "d", "=", "1", NUL, "e", "t", "=", NUL>>}
=============================================================================
