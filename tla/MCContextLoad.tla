---------------------------- MODULE MCContextLoad ----------------------------
(***************************************************************************)
(* Instances of ContextLoad.                                               *)
(***************************************************************************)
EXTENDS ContextLoad

CONSTANTS d1, d2, port, other, tag, key, then

PortOf == [d \in {d1, d2} |-> IF d = d1 THEN port ELSE other]

Member(created, tags) == [PlatformId |-> port, Created |-> created, Tags |-> tags]
Then == [iso8601 |-> then]

\* A device with the tag, and one whose date is none behind it.
ForeignFile == <<Member(Then, <<tag>>), Member([text |-> then], <<tag>>)>>
ForeignFiles == {ForeignFile}
=============================================================================
