---------------------------- MODULE MCCubinCache ----------------------------
(* The setup in which two processes of CubinCache meet.                    *)
EXTENDS CubinCache

\* Two processes of a test run that meet an empty directory.
Cold == { [inline |-> TRUE, overlap |-> TRUE, warm |-> FALSE, edits |-> 0,
           failures |-> {}, times |-> 0] }
=============================================================================
