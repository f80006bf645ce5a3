------------------------------ MODULE MCInodes ------------------------------
\* A shipped texture and a prefab that refers to it and to a texture a user may add.
EXTENDS Inodes

Texture == Plain(<<<<"x", "dds">>>>)
Added   == Plain(<<<<"y", "dds">>>>)
Bundle  == Plain(<<<<"k", "prefab">>>>)
Made    == Plain(<<<<"m">>>>)
Other   == Plain(<<<<"m">>, <<"z">>>>)
Pngs    == <<".dds.png">>
Views   == Plain(<<Pngs>>)
View    == Plain(<<Pngs, <<"y", "dds", "png">>>>)

MCShipped  == {Texture, Bundle}
MCRoots    == {[name |-> Pngs, ext |-> "dds", suffix |-> "png"]}
MCPrefab   == <<"_prefabs">>
MCRefs     == Bundle :> <<Added, Texture, Added>>
MCMesh     == <<>>
MCWritable == {Added, Other}
MCMakeable == {Made}
MCListed   == {RootDir, Views}
MCLookedUp == {Added, View}
=============================================================================
