---------------------------- MODULE MCFileSystem ----------------------------
(***************************************************************************)
(* Seven clusters of two units, directories of three entries.  The two     *)
(* names of the kernel have the same 8.3 form; the installed system leaves *)
(* two clusters and one entry of the root free, and fills its directory.   *)
(***************************************************************************)
EXTENDS FileSystem

MCNames == {"sys", "shell", "kernel_a", "kernel_b", "LOG"}
MCEightThree == [n \in MCNames |->
    CASE n = "sys" -> "SYS" [] n = "shell" -> "SHELL" [] n = "LOG" -> "LOG" [] OTHER -> "KERNEL_"]

Do(op, dir, name, size) == [op |-> op, dir |-> dir, name |-> name, size |-> size]

MCInstallSteps ==
    <<Do("mkdir", <<"sys">>, "", 0),
      Do("copy", <<"sys">>, "shell", 1),
      Do("copy", <<>>, "kernel_a", 3)>>

MCPaths == {<<"kernel_b">>, <<"LOG">>, <<"sys", "shell">>}

MCCalls ==
    {Do("mkdir", <<"sys">>, "", 0),
     Do("copy", <<"sys">>, "kernel_a", 1), Do("copy", <<"shell">>, "shell", 2),
     Do("write", <<>>, "kernel_b", 3),
     Do("append", <<>>, "LOG", 1), Do("append", <<>>, "LOG", 3)}
    \cup {Do("delete", <<>>, n, 0) : n \in {"kernel_a", "LOG", "sys"}}
=============================================================================
