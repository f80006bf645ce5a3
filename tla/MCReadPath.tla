----------------------------- MODULE MCReadPath -----------------------------
\* One shipped table and its virtual view, which clients edit and read.  The view
\* is saved once, and is then larger than the cache may hold.
EXTENDS ReadPath, TLC

CONSTANTS table, view, t1, t2

MCFiles    == {table}
MCVirtual  == {view}
MCSourceOf == view :> table
MCReaders  == {t1, t2}
MCSlots    == 1 .. 7
MCSize     == [e \in Entries |-> IF e = <<view, 1>> THEN 3 ELSE 1]
=============================================================================
