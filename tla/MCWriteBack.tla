---------------------------- MODULE MCWriteBack ----------------------------
\* One shipped file that is also offered by a virtual root, and two paths a
\* client may create: a file of its own and an editor's temporary file.
EXTENDS WriteBack, TLC

CONSTANTS paloc, jsonl, notes, temp, t1, t2

Rendered == (jsonl :> paloc)
NoSource == [p \in {} |-> paloc]

Waiting  == {}
InAHurry == {"hasty"}
SafeSave == {"rename over"}

\* Every save that fails is reported; or: those of user files and of sources
\* may also be given up without.
Spoken   == {}
Unspoken == {"store"}

=============================================================================
