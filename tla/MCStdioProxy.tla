---------------------------- MODULE MCStdioProxy ----------------------------
(* Small policies and sets on which TLC checks StdioProxy. *)
EXTENDS StdioProxy

MCTools == {"read", "post"}

MCStates == {"CLEAN", "PII", "SENT"}

\* Move tables are written as a set of edges.
TableOf(edges) ==
    [st \in States \X Tools |->
        IF \E e \in edges : <<e[1], e[2]>> = st
        THEN (CHOOSE e \in edges : <<e[1], e[2]>> = st)[3] ELSE "stay"]

\* One workflow: reading moves CLEAN to PII, where posting is denied; posting
\* moves CLEAN to SENT; in doubt, reading is denied; two posts at most.
OneInitial == << "CLEAN" >>
OneMove == << TableOf({<<"CLEAN", "read", "PII">>, <<"CLEAN", "post", "SENT">>}) >>
OneDenyInState == << {<<"PII", "post">>} >>
OneDenyInCertainty == << {<<"UNKNOWN", "read">>} >>
OneCannotFollow == << {<<"post", "read">>} >>
OneRequiresState == << {} >>
OneMaxOccurrences == << {<<"post", 2>>, <<"read", 1>>} >>

\* Two workflows that both move on reading; the second limits reading and
\* lets posting happen only as long as it has not moved.
TwoInitial == << "CLEAN", "CLEAN" >>
TwoMove == << TableOf({<<"CLEAN", "read", "PII">>, <<"CLEAN", "post", "SENT">>}),
              TableOf({<<"CLEAN", "read", "SENT">>}) >>
TwoDenyInState == << {}, {} >>
TwoDenyInCertainty == << {<<"UNKNOWN", "post">>}, {<<"UNKNOWN", "read">>} >>
TwoCannotFollow == << {<<"post", "read">>}, {} >>
TwoRequiresState == << {}, {<<"post", "CLEAN">>} >>
TwoMaxOccurrences == << {}, {<<"read", 1>>} >>

\* No workflows: every well-formed call of a known tool is permitted.
NoWorkflows == << >>

\* DIFC: reading is an untrusted source, posting a sink that rejects it --
\* or a policy without tainting tools, so that the workflow decides alone.
Tainting == [t \in Tools |-> IF t = "read" THEN {"UNTRUSTED_WEB"} ELSE {}]
Sinks == [t \in Tools |-> IF t = "post" THEN {"UNTRUSTED_WEB"} ELSE {}]
NoTags == [t \in Tools |-> {}]

Symmetry == Permutations(Calls) \cup Permutations(RequestIds)
=============================================================================
