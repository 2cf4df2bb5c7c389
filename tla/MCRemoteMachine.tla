--------------------------- MODULE MCRemoteMachine ---------------------------
EXTENDS RemoteMachine

\* The two tests of sample_test.c, and one whose section begins like theirs.
MCListing == << [section |-> <<"s">>, name |-> "a"], [section |-> <<"s">>, name |-> "b"],
                [section |-> <<"s", "t">>, name |-> "c"] >>

\* The last one is in a section of another file: the handler does not find it.
MCRequests == {MCListing[1], MCListing[3], [section |-> <<"u">>, name |-> "a"]}
=============================================================================
