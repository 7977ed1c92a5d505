----------------------------- MODULE MCService ------------------------------
(***************************************************************************)
(* Model checking Service: two subsystems, three JSON files and one other. *)
(***************************************************************************)
EXTENDS Service

Default == [stem |-> <<"default">>, json |-> TRUE, path |-> 2]
LocalTest == [stem |-> <<"local", "test">>, json |-> TRUE, path |-> 3]
Auth == [stem |-> <<"auth">>, json |-> TRUE, path |-> 1]
TestText == [stem |-> <<"test">>, json |-> FALSE, path |-> 4]

MCFiles == {Default, LocalTest, Auth, TestText}

Small == [port |-> [type |-> "integer", n |-> 1], roles |-> Unset]
Large == [port |-> [type |-> "unsigned", n |-> 5], roles |-> [type |-> "unsigned", n |-> 11]]

Empty == [port |-> Unset, roles |-> Unset]

MCContents == {Small, Large, Empty}

Disk(default, local, auth, text) ==
    [f \in MCFiles |-> CASE f = Default -> default [] f = LocalTest -> local [] f = Auth -> auth [] OTHER -> text]

\* All files; a malformed one behind another; a default only; no directory.
MCDisks ==
    { Disk(Large, Large, Small, Small), Disk(Small, Large, Malformed, Absent),
      Disk(Large, Absent, Absent, Small), Disk(Absent, Absent, Absent, Absent) }

MCThreads == 0..3
=============================================================================
