------------------------------- MODULE MCCloud -------------------------------
(***************************************************************************)
(* Three name servers, at most two addresses, nine answers of the cloud.   *)
(***************************************************************************)
EXTENDS Cloud

MCConfs == {<<>>, <<"s1", "s2">>, <<"other", "s1">>, <<"s1", "zero", "s2">>, <<"s1", "s2", "s3", "s1">>}
MCServers == {"s1", "s2", "s3"}
MCAnswers == {[error |-> TRUE, types |-> <<>>],
              [error |-> FALSE, types |-> <<"CNAME">>],
              [error |-> FALSE, types |-> <<"CNAME", "A", "A">>],
              [error |-> FALSE, types |-> <<"A", "A", "A">>]}
\* Whole; cut off; longer than announced; of unknown length; not found, with lengths
\* that could be a status, a last digit and a large code; no status of HTTP.
MCReplies == {[status |-> 200, length |-> 2, body |-> 2],
              [status |-> 206, length |-> 3, body |-> 2],
              [status |-> 200, length |-> 1, body |-> 3],
              [status |-> 200, length |-> 0, body |-> 2],
              [status |-> 404, length |-> 2, body |-> 2],
              [status |-> 404, length |-> 250, body |-> 1],
              [status |-> 200, length |-> 17, body |-> 2],
              [status |-> 500, length |-> 1234, body |-> 1],
              [status |-> 45, length |-> 2, body |-> 2]}
=============================================================================
