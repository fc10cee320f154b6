------------------------------- MODULE MCAcl -------------------------------
(* Instances of Acl for TLC: a/f and h hold the same content, a/o was       *)
(* deleted; a/f may get a rule of its own, as put_acl takes any path.       *)
EXTENDS Acl, TLC

RulePaths == {<<>>, <<"a">>, <<"a", "b">>, <<"a", "f">>}
SmallTree ==
     <<"a">> :> [kind |-> "dir", hash |-> None]
  @@ <<"a", "b">> :> [kind |-> "dir", hash |-> None]
  @@ <<"a", "f">> :> [kind |-> "file", hash |-> "h1"]
  @@ <<"a", "b", "g">> :> [kind |-> "file", hash |-> "h2"]
  @@ <<"h">> :> [kind |-> "file", hash |-> "h1"]
SmallHistory == {<<<<"a", "f">>, "h1">>, <<<<"a", "b", "g">>, "h2">>, <<<<"h">>, "h1">>,
                 <<<<"a", "o">>, "h3">>}
=============================================================================
