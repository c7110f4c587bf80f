------------------------------- MODULE MCServing -------------------------------
(***************************************************************************)
(* Serving on a small instance: an application and an API with a cache     *)
(* each, an API alone, a proxy with a cache; two goroutines.               *)
(***************************************************************************)
EXTENDS Serving, TLC

To(prefix, to, cache) == [prefix |-> prefix, to |-> to, cache |-> cache]

MCConfigs == {<<To(<<"api">>, "app", TRUE), To(<<>>, "static", TRUE)>>,
              <<To(<<"api">>, "app", FALSE)>>}
MCPaths == {<<>>, <<"api">>, <<"docs">>, <<"docs", "a.js">>}
MCFiles == {<<"index.html">>, <<"404.html">>, <<"docs", "index.html">>, <<"docs", "a.js">>}
MCBare == {"api", "x", "docs"}

ServingSymmetry == Permutations(Callers) \cup Permutations(Variants)

===============================================================================
