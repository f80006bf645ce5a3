---------------------------- MODULE MCVfsIndex ----------------------------
\* Two shipped groups that share a directory and a file in it, user files under
\* plain, aliased and '@'-named paths, and what an older build left behind.
EXTENDS VfsIndex, TLC

CONSTANTS t1, t2

ShippedIn == [g \in {5, 6} |->
  IF g = 5 THEN {Plain(<<"sound", "a">>), Plain(<<"sound", "b">>)}
           ELSE {Plain(<<"sound", "a">>)}]

Mod  == Plain(<<"mods", "x">>)
Mine == Plain(<<"sound", "m">>)

Asked == {Mine, AliasOf(Mine, 9000), AliasOf(Plain(<<"sound", "b">>), 7)}

rec(p) == [path |-> p, v |-> 0]
OlderBuilds == {{}, {rec(AliasOf(Mine, 9000)), rec(Plain(<<"vroot", "x">>))}}

=============================================================================
