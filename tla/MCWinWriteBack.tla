--------------------------- MODULE MCWinWriteBack ---------------------------
\* The instance of WinWriteBack that TLC checks: a texture, its PNG view and two
\* names for new files; everything may be evicted, and every flush may give up.
EXTENDS WinWriteBack, TLC

CONSTANTS dds, png, note, temp, h1, h2, w1, w2

MCShipped == {dds}
MCViews == {png}
MCUser == {note, temp}
MCSourceOf == png :> dds
MCHandles == {h1, h2}
MCThreads == {w1}
MCEvictable == {dds, png, note, temp}
MCUnsaid == {"convert", "put", "store"}

Alike == Permutations({h1, h2})

=============================================================================
